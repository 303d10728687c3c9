------------------------- MODULE AgentServerProofs -------------------------
(***************************************************************************)
(* Proofs about the agent server and its lease registry: the registry      *)
(* keeps its indexes, identities and counts, the server uses it as it      *)
(* expects, every live lease has one owner, a stop reaches every client,   *)
(* and what the agent decides after it let go of a lock still holds.       *)
(***************************************************************************)
EXTENDS MCAgentServer, FiniteSetTheorems, TLAPS

----------------------------------------
(* The lease registry: its indexes, identities and the handlers' counts    *)
(* agree for any finite set of leases and any resolved configurations.     *)

\* The life of a lease: it has a configuration once issued, and while the
\* agent serves it is closed exactly from its removal on.
LivesOK ==
  \A l \in Leases :
    /\ Issued(l) => lease[l].of \in Resolved
    /\ lease[l].step \in {"removed", "released"} => lease[l].closed
    /\ lease[l].step \in {"registered", "held"} => (lease[l].closed <=> closing)

\* A live lease and the entry of its digest have the same configuration.
EntriesOfLeases ==
  \A l \in Leases : Live(l) => entries[lease[l].of.digest].of = lease[l].of

\* Every identity issued so far is on record with its digest.
IdentitiesOnRecord ==
  closing \/ \A l \in Leases :
    Issued(l) => digestOf[lease[l].of.id] = lease[l].of.digest

\* The inductive invariant: the indexes agree with the leases, identities stay
\* on record, and the handlers count what they were told of.
IInv ==
  /\ LeaseTypeOK
  /\ EntriesMatchLeases
  /\ LivesOK
  /\ EntriesOfLeases
  /\ IdentitiesOnRecord
  /\ ShutdownIsFinal
  /\ HandlersCountLeases

----------------------------------------

\* What an invariant state says of one lease and of its configuration.
LEMMA IssuedFacts ==
  ASSUME IInv, NEW l \in Leases, Issued(l)
  PROVE  /\ lease[l].of \in Resolved
         /\ lease[l].of.id \in Ids
         /\ lease[l].of.digest \in Digests
BY LeaseAssumption DEF IInv, LivesOK

\* A live lease is found by its identity in the entry of its digest.
LEMMA LiveFacts ==
  ASSUME IInv, NEW l \in Leases, Live(l)
  PROVE  /\ ~closing
         /\ l \in entries[lease[l].of.digest].leases
         /\ entries[lease[l].of.digest].of = lease[l].of
         /\ byId[lease[l].of.id] = lease[l].of.digest
         /\ Lookup(l) = lease[l].of
<1>1. /\ lease[l].of \in Resolved
      /\ lease[l].of.id \in Ids
      /\ lease[l].of.digest \in Digests
  BY IssuedFacts DEF Live
<1>2. ~closing
  BY DEF IInv, ShutdownIsFinal
<1>3. entries[lease[l].of.digest].of = lease[l].of
  BY DEF IInv, EntriesOfLeases
<1>4. l \in entries[lease[l].of.digest].leases
  BY <1>1 DEF IInv, EntriesMatchLeases
<1>5. byId[lease[l].of.id] = lease[l].of.digest
  BY <1>1, <1>3, LeaseAssumption DEF IInv, EntriesMatchLeases
<1>6. lease[l].of.digest # None
  BY <1>1, LeaseAssumption
<1> QED
  BY <1>1, <1>2, <1>3, <1>4, <1>5, <1>6 DEF Lookup

\* The set of counted leases is finite.
LEMMA CountedFinite ==
  ASSUME NEW r PROVE IsFiniteSet(Counted(r))
<1>1. Counted(r) \subseteq Leases
  BY DEF Counted
<1> QED
  BY <1>1, LeaseAssumption, FS_Subset

\* A registry that has issued nothing satisfies the invariant.
LEMMA InitIInv == LeaseInit => IInv
<1> SUFFICES ASSUME LeaseInit PROVE IInv
  OBVIOUS
<1>1. LeaseTypeOK
  <2>1. lease \in [Leases -> Lease]
    BY DEF LeaseInit, Lease
  <2>2. NoEntry \in Entry
    BY DEF NoEntry, Entry
  <2>3. entries \in [Digests -> Entry]
    BY <2>2 DEF LeaseInit
  <2>4. demand \in [Resolved -> Int]
    BY DEF LeaseInit
  <2>5. closing \in BOOLEAN
    BY DEF LeaseInit
  <2>6. byId \in [Ids -> Digests \cup {None}] /\ digestOf \in [Ids -> Digests \cup {None}]
    BY DEF LeaseInit
  <2> QED
    BY <2>1, <2>3, <2>4, <2>5, <2>6 DEF LeaseTypeOK
<1>2. EntriesMatchLeases
  BY DEF LeaseInit, EntriesMatchLeases, NoEntry, Live, Issued
<1>3. LivesOK /\ EntriesOfLeases /\ IdentitiesOnRecord /\ ShutdownIsFinal
  BY DEF LeaseInit, LivesOK, EntriesOfLeases, IdentitiesOnRecord, ShutdownIsFinal, Live, Issued
<1>4. HandlersCountLeases
  <2> SUFFICES ASSUME NEW r \in Resolved
               PROVE  demand[r] = Cardinality(Counted(r))
    BY DEF HandlersCountLeases
  <2>1. Counted(r) = {}
    BY DEF LeaseInit, Counted
  <2> QED
    BY <2>1, FS_EmptySet DEF LeaseInit
<1> QED
  BY <1>1, <1>2, <1>3, <1>4 DEF IInv

----------------------------------------

\* acquire of service.go: a first, a shared or a refused acquisition.
LEMMA AcquirePreserves ==
  ASSUME IInv, NEW l \in Leases, NEW r \in Resolved, AcquireResource(l, r)
  PROVE  IInv'
<1> USE DEF AcquireResource
<1>1. /\ r.id \in Ids
      /\ r.digest \in Digests
      /\ r # None
      /\ r.digest # None
  BY LeaseAssumption
<1>2. ~Issued(l) /\ ~closing /\ MayAcquire(r)
  BY DEF MayAcquire
<1>3. /\ lease \in [Leases -> Lease]
      /\ entries \in [Digests -> Entry]
      /\ byId \in [Ids -> Digests \cup {None}]
      /\ digestOf \in [Ids -> Digests \cup {None}]
  BY DEF IInv, LeaseTypeOK
<1>4. /\ lease'[l] = [step |-> "registered", of |-> r, closed |-> FALSE]
      /\ \A m \in Leases : m # l => lease'[m] = lease[m]
  BY <1>3
<1>5. entries'[r.digest].of = r
  <2>1. CASE entries[r.digest].of = None
    BY <2>1, <1>1, <1>3
  <2>2. CASE entries[r.digest].of # None
    BY <2>2, <1>1, <1>2, <1>3 DEF MayAcquire, Joins
  <2> QED
    BY <2>1, <2>2
<1>6. entries'[r.digest].leases = entries[r.digest].leases \cup {l}
  BY <1>1, <1>3
<1>7. /\ \A d \in Digests : d # r.digest => entries'[d] = entries[d]
      /\ byId'[r.id] = r.digest
      /\ \A i \in Ids : i # r.id => byId'[i] = byId[i]
      /\ digestOf'[r.id] = r.digest
      /\ \A i \in Ids : i # r.id => digestOf'[i] = digestOf[i]
  BY <1>1, <1>3
\* Only the entry of r can have the identity of r.
<1>8. \A d \in Digests :
        d # r.digest /\ entries[d].of # None => entries[d].of.id # r.id
  <2> SUFFICES ASSUME NEW d \in Digests, d # r.digest, entries[d].of # None,
                      entries[d].of.id = r.id
               PROVE  FALSE
    OBVIOUS
  <2>1. byId[r.id] = d
    BY DEF IInv, EntriesMatchLeases
  <2>2. PICK m \in Leases : m \in entries[d].leases
    <3>1. entries[d].leases # {} /\ entries[d].leases \subseteq Leases
      BY <1>3 DEF IInv, EntriesMatchLeases, Entry
    <3> QED
      BY <3>1
  <2>3. Live(m) /\ lease[m].of.digest = d
    BY <2>2 DEF IInv, EntriesMatchLeases
  <2>4. lease[m].of.id = r.id
    BY <2>3, LiveFacts
  <2>5. digestOf[r.id] = d
    BY <2>3, <2>4, <1>2 DEF IInv, IdentitiesOnRecord, Live
  <2>6. Collides(r)
    BY <2>5, LeaseAssumption DEF Collides
  <2>7. entries[r.digest].of = r
    BY <2>6, <1>2 DEF MayAcquire, Joins
  <2>8. byId[r.id] = r.digest
    BY <2>7, <1>1 DEF IInv, EntriesMatchLeases
  <2> QED
    BY <2>1, <2>8
\* The identity was issued for the digest of r, or for none.
<1>9. digestOf[r.id] = None \/ digestOf[r.id] = r.digest
  <2>1. CASE entries[r.digest].of = None
    BY <2>1, <1>2 DEF MayAcquire, Collides
  <2>2. CASE entries[r.digest].of # None
    <3>1. PICK m \in Leases : m \in entries[r.digest].leases
      <4>1. entries[r.digest].leases # {} /\ entries[r.digest].leases \subseteq Leases
        BY <1>1, <1>3, <2>2 DEF IInv, EntriesMatchLeases, Entry
      <4> QED
        BY <4>1
    <3>2. Live(m) /\ lease[m].of.digest = r.digest
      BY <3>1, <1>1 DEF IInv, EntriesMatchLeases
    <3>3. lease[m].of = r
      BY <3>2, <2>2, <1>2, LiveFacts DEF MayAcquire, Joins
    <3> QED
      BY <3>2, <3>3, <1>2 DEF IInv, IdentitiesOnRecord, Live
  <2> QED
    BY <2>1, <2>2
<1>10. LeaseTypeOK'
  <2>1. lease' \in [Leases -> Lease]
    BY <1>3 DEF Lease
  <2>2. entries' \in [Digests -> Entry]
    <3>1. entries[r.digest].of \in Resolved \cup {None}
      BY <1>1, <1>3 DEF Entry
    <3>2. entries[r.digest].leases \cup {l} \subseteq Leases
      BY <1>1, <1>3 DEF Entry
    <3> QED
      BY <3>1, <3>2, <1>1, <1>3 DEF Entry
  <2>3. byId' \in [Ids -> Digests \cup {None}] /\ digestOf' \in [Ids -> Digests \cup {None}]
    BY <1>1, <1>3
  <2> QED
    BY <2>1, <2>2, <2>3 DEF IInv, LeaseTypeOK
<1>11. \A m \in Leases : Live(m)' <=> (m = l \/ Live(m))
  BY <1>2, <1>4 DEF Live, Issued
<1>12. EntriesMatchLeases'
  <2>1. ASSUME NEW d \in Digests
        PROVE  /\ (entries'[d].of = None) <=> (entries'[d].leases = {})
               /\ entries'[d].leases = {m \in Leases : Live(m)' /\ lease'[m].of.digest = d}
               /\ entries'[d].of # None =>
                    /\ entries'[d].of.digest = d
                    /\ byId'[entries'[d].of.id] = d
    <3>1. entries[d].leases = {m \in Leases : Live(m) /\ lease[m].of.digest = d}
      BY DEF IInv, EntriesMatchLeases
    <3>2. ~Live(l)
      BY <1>2 DEF Live
    <3>3. CASE d = r.digest
      <4>1. entries'[d].leases = {m \in Leases : Live(m)' /\ lease'[m].of.digest = d}
        BY <3>1, <3>2, <3>3, <1>4, <1>6, <1>11
      <4> QED
        BY <4>1, <3>3, <1>1, <1>5, <1>6, <1>7
    <3>4. CASE d # r.digest
      <4>1. entries'[d] = entries[d]
        BY <3>4, <1>7
      <4>2. entries'[d].leases = {m \in Leases : Live(m)' /\ lease'[m].of.digest = d}
        BY <4>1, <3>1, <3>2, <3>4, <1>4, <1>11
      <4>3. entries[d].of # None => entries[d].of.digest = d /\ byId'[entries[d].of.id] = d
        <5>1. entries[d].of # None => entries[d].of.id \in Ids
          BY <1>3, LeaseAssumption DEF Entry
        <5> QED
          BY <5>1, <3>4, <1>7, <1>8 DEF IInv, EntriesMatchLeases
      <4> QED
        BY <4>1, <4>2, <4>3 DEF IInv, EntriesMatchLeases
    <3> QED
      BY <3>3, <3>4
  <2>2. ASSUME NEW i \in Ids, byId'[i] # None
        PROVE  entries'[byId'[i]].of # None /\ entries'[byId'[i]].of.id = i
    <3>1. CASE i = r.id
      BY <3>1, <1>1, <1>5, <1>7
    <3>2. CASE i # r.id
      <4>1. /\ byId'[i] = byId[i] /\ byId[i] \in Digests
            /\ entries[byId[i]].of # None /\ entries[byId[i]].of.id = i
        BY <2>2, <3>2, <1>3, <1>7 DEF IInv, EntriesMatchLeases
      <4>2. byId[i] # r.digest
        BY <4>1, <3>2, <1>2 DEF MayAcquire, Joins
      <4> QED
        BY <4>1, <4>2, <1>7
    <3> QED
      BY <3>1, <3>2
  <2> QED
    BY <2>1, <2>2 DEF EntriesMatchLeases
<1>13. LivesOK'
  BY <1>2, <1>4 DEF IInv, LivesOK, Issued
<1>14. EntriesOfLeases'
  <2> SUFFICES ASSUME NEW m \in Leases, Live(m)'
               PROVE  entries'[lease'[m].of.digest].of = lease'[m].of
    BY DEF EntriesOfLeases
  <2>1. CASE m = l
    BY <2>1, <1>4, <1>5
  <2>2. CASE m # l
    <3>1. Live(m) /\ lease'[m] = lease[m]
      BY <2>2, <1>4, <1>11
    <3>2. lease[m].of.digest \in Digests /\ entries[lease[m].of.digest].of = lease[m].of
      BY <3>1, IssuedFacts, LiveFacts DEF Live
    <3>3. CASE lease[m].of.digest = r.digest
      <4>1. entries[r.digest].of # None
        BY <3>1, <3>2, <3>3, IssuedFacts, LeaseAssumption DEF Live
      <4> QED
        BY <4>1, <3>1, <3>2, <3>3, <1>2, <1>5 DEF MayAcquire, Joins
    <3> QED
      BY <3>1, <3>2, <3>3, <1>7
  <2> QED
    BY <2>1, <2>2
<1>15. IdentitiesOnRecord'
  <2> SUFFICES ASSUME NEW m \in Leases, Issued(m)'
               PROVE  digestOf'[lease'[m].of.id] = lease'[m].of.digest
    BY DEF IdentitiesOnRecord
  <2>1. CASE m = l
    BY <2>1, <1>4, <1>7
  <2>2. CASE m # l
    <3>1. Issued(m) /\ lease'[m] = lease[m]
      BY <2>2, <1>4 DEF Issued
    <3>2. lease[m].of.id \in Ids /\ lease[m].of.digest \in Digests
      BY <3>1, IssuedFacts
    <3>3. digestOf[lease[m].of.id] = lease[m].of.digest
      BY <3>1, <1>2 DEF IInv, IdentitiesOnRecord
    <3> QED
      BY <3>1, <3>2, <3>3, <1>7, <1>9, LeaseAssumption
  <2> QED
    BY <2>1, <2>2
<1>16. ShutdownIsFinal'
  BY <1>2 DEF ShutdownIsFinal
<1>17. HandlersCountLeases'
  <2> SUFFICES ASSUME NEW q \in Resolved
               PROVE  demand'[q] = Cardinality(Counted(q)')
    BY DEF HandlersCountLeases
  <2>1. Counted(q)' = Counted(q)
    BY <1>2, <1>4 DEF Counted, Issued
  <2> QED
    BY <2>1, <1>2 DEF IInv, HandlersCountLeases
<1> QED
  BY <1>10, <1>12, <1>13, <1>14, <1>15, <1>16, <1>17 DEF IInv

----------------------------------------

\* A step that only moves lease l on, leaving what the indexes depend on.
Moves(l) ==
  /\ lease'[l].of = lease[l].of
  /\ lease'[l].closed = lease[l].closed
  /\ lease'[l].step # "unused" /\ Issued(l)
  /\ \A m \in Leases : m # l => lease'[m] = lease[m]
  /\ UNCHANGED <<entries, byId, digestOf, closing>>

\* Such a step preserves every part of the invariant that does not look at
\* how far the notifications have come.
LEMMA MovesPreserve ==
  ASSUME IInv, NEW l \in Leases, Moves(l)
  PROVE  /\ EntriesMatchLeases'
         /\ EntriesOfLeases'
         /\ IdentitiesOnRecord'
         /\ ShutdownIsFinal'
         /\ \A m \in Leases : /\ lease'[m].of = lease[m].of
                              /\ lease'[m].closed = lease[m].closed
                              /\ Issued(m)' <=> Issued(m)
<1>1. \A m \in Leases : /\ lease'[m].of = lease[m].of
                        /\ lease'[m].closed = lease[m].closed
                        /\ Issued(m)' <=> Issued(m)
  BY DEF Moves, Issued
<1>2. \A m \in Leases : Live(m)' <=> Live(m)
  BY <1>1 DEF Live
<1>3. UNCHANGED <<entries, byId, digestOf, closing>>
  BY DEF Moves
<1>4. EntriesMatchLeases'
  <2>1. \A d \in Digests : {m \in Leases : Live(m)' /\ lease'[m].of.digest = d}
                           = {m \in Leases : Live(m) /\ lease[m].of.digest = d}
    BY <1>1, <1>2
  <2> QED
    BY <2>1, <1>3 DEF IInv, EntriesMatchLeases
<1>5. EntriesOfLeases' /\ IdentitiesOnRecord' /\ ShutdownIsFinal'
  BY <1>1, <1>2, <1>3 DEF IInv, EntriesOfLeases, IdentitiesOnRecord, ShutdownIsFinal
<1> QED
  BY <1>1, <1>4, <1>5

\* The first notification of a lease raises the count of its handler.
LEMMA NotifyAcquiredPreserves ==
  ASSUME IInv, NEW l \in Leases, NotifyAcquired(l)
  PROVE  IInv'
<1>1. lease \in [Leases -> Lease] /\ demand \in [Resolved -> Int]
  BY DEF IInv, LeaseTypeOK
<1>2. lease[l].of \in Resolved
  BY IssuedFacts DEF NotifyAcquired, Issued
<1>3. /\ lease'[l] = [lease[l] EXCEPT !.step = "held"]
      /\ \A m \in Leases : m # l => lease'[m] = lease[m]
  BY <1>1 DEF NotifyAcquired
<1>4. Moves(l)
  BY <1>1, <1>3 DEF NotifyAcquired, Moves, Issued, Lease
<1>5. LeaseTypeOK'
  <2>1. lease' \in [Leases -> Lease]
    BY <1>1 DEF NotifyAcquired, Lease
  <2>2. demand' \in [Resolved -> Int]
    BY <1>1, <1>2 DEF NotifyAcquired
  <2> QED
    BY <2>1, <2>2 DEF IInv, LeaseTypeOK, NotifyAcquired
<1>6. LivesOK'
  BY <1>1, <1>3, <1>4, MovesPreserve DEF NotifyAcquired, IInv, LivesOK, Issued, Lease
<1>7. HandlersCountLeases'
  <2> SUFFICES ASSUME ~closing, NEW q \in Resolved
               PROVE  demand'[q] = Cardinality(Counted(q)')
    BY DEF HandlersCountLeases, NotifyAcquired
  <2>1. demand[q] = Cardinality(Counted(q)) /\ IsFiniteSet(Counted(q))
    BY CountedFinite DEF IInv, HandlersCountLeases
  <2>2. CASE q = lease[l].of
    <3>1. Counted(q)' = Counted(q) \cup {l}
      BY <2>2, <1>1, <1>3 DEF Counted, Lease
    <3>2. l \notin Counted(q)
      BY DEF Counted, NotifyAcquired
    <3>3. Cardinality(Counted(q) \cup {l}) = Cardinality(Counted(q)) + 1
      BY <2>1, <3>2, FS_AddElement
    <3>4. demand'[q] = demand[q] + 1
      BY <2>2, <1>1 DEF NotifyAcquired
    <3> QED
      BY <3>1, <3>3, <3>4, <2>1
  <2>3. CASE q # lease[l].of
    <3>1. Counted(q)' = Counted(q)
      BY <2>3, <1>1, <1>3 DEF Counted, Lease
    <3>2. demand'[q] = demand[q]
      BY <2>3, <1>1 DEF NotifyAcquired
    <3> QED
      BY <3>1, <3>2, <2>1
  <2> QED
    BY <2>2, <2>3
<1> QED
  BY <1>4, <1>5, <1>6, <1>7, MovesPreserve DEF IInv

\* The last notification of a lease lowers the count of its handler.
LEMMA NotifyReleasedPreserves ==
  ASSUME IInv, NEW l \in Leases, NotifyReleased(l)
  PROVE  IInv'
<1>1. lease \in [Leases -> Lease] /\ demand \in [Resolved -> Int]
  BY DEF IInv, LeaseTypeOK
<1>2. lease[l].of \in Resolved
  BY IssuedFacts DEF NotifyReleased, Issued
<1>3. /\ lease'[l] = [lease[l] EXCEPT !.step = "released"]
      /\ \A m \in Leases : m # l => lease'[m] = lease[m]
  BY <1>1 DEF NotifyReleased
<1>4. Moves(l)
  BY <1>1, <1>3 DEF NotifyReleased, Moves, Issued, Lease
<1>5. LeaseTypeOK'
  <2>1. lease' \in [Leases -> Lease]
    BY <1>1 DEF NotifyReleased, Lease
  <2>2. demand' \in [Resolved -> Int]
    BY <1>1, <1>2 DEF NotifyReleased
  <2> QED
    BY <2>1, <2>2 DEF IInv, LeaseTypeOK, NotifyReleased
<1>6. LivesOK'
  BY <1>1, <1>3, <1>4, MovesPreserve DEF NotifyReleased, IInv, LivesOK, Issued, Lease
<1>7. HandlersCountLeases'
  <2> SUFFICES ASSUME ~closing, NEW q \in Resolved
               PROVE  demand'[q] = Cardinality(Counted(q)')
    BY DEF HandlersCountLeases, NotifyReleased
  <2>1. demand[q] = Cardinality(Counted(q)) /\ IsFiniteSet(Counted(q))
    BY CountedFinite DEF IInv, HandlersCountLeases
  <2>2. CASE q = lease[l].of
    <3>1. Counted(q)' = Counted(q) \ {l}
      BY <2>2, <1>1, <1>3 DEF Counted, Lease
    <3>2. l \in Counted(q)
      BY <2>2 DEF Counted, NotifyReleased
    <3>3. Cardinality(Counted(q) \ {l}) = Cardinality(Counted(q)) - 1
      BY <2>1, <3>2, FS_RemoveElement
    <3>4. demand'[q] = demand[q] - 1
      BY <2>2, <1>1 DEF NotifyReleased
    <3> QED
      BY <3>1, <3>3, <3>4, <2>1
  <2>3. CASE q # lease[l].of
    <3>1. Counted(q)' = Counted(q)
      BY <2>3, <1>1, <1>3 DEF Counted, Lease
    <3>2. demand'[q] = demand[q]
      BY <2>3, <1>1 DEF NotifyReleased
    <3> QED
      BY <3>1, <3>2, <2>1
  <2> QED
    BY <2>2, <2>3
<1> QED
  BY <1>4, <1>5, <1>6, <1>7, MovesPreserve DEF IInv

----------------------------------------

\* A repeated release, or one that comes after Shutdown, changes no index.
LEMMA LateReleasePreserves ==
  ASSUME IInv, NEW l \in Leases, Release(l), lease[l].closed
  PROVE  IInv'
<1>1. /\ lease \in [Leases -> Lease]
      /\ demand \in [Resolved -> Int]
      /\ UNCHANGED <<demand, entries, byId, digestOf, closing>>
      /\ lease' = [lease EXCEPT ![l].step = "released", ![l].closed = TRUE]
      /\ lease[l].step \in {"held", "released"}
  BY DEF IInv, LeaseTypeOK, Release, Releases
<1>2. /\ lease'[l].step = "released"
      /\ lease'[l].closed = TRUE
      /\ lease'[l].of = lease[l].of
      /\ \A m \in Leases : m # l => lease'[m] = lease[m]
  BY <1>1 DEF Lease
<1>3. lease[l].closed = TRUE
  BY <1>1 DEF Lease
<1>4. Moves(l)
  BY <1>1, <1>2, <1>3 DEF Moves, Issued
<1>5. LeaseTypeOK'
  <2>1. lease' \in [Leases -> Lease]
    BY <1>1 DEF Lease
  <2> QED
    BY <2>1, <1>1 DEF IInv, LeaseTypeOK
<1>6. LivesOK'
  BY <1>1, <1>2, <1>3, <1>4, MovesPreserve DEF IInv, LivesOK, Issued
<1>7. HandlersCountLeases'
  <2> SUFFICES ASSUME ~closing, NEW q \in Resolved
               PROVE  demand'[q] = Cardinality(Counted(q)')
    BY <1>1 DEF HandlersCountLeases
  <2>1. lease[l].step = "released"
    BY <1>1, <1>3 DEF IInv, LivesOK
  <2>2. Counted(q)' = Counted(q)
    BY <2>1, <1>2 DEF Counted
  <2> QED
    BY <2>2, <1>1 DEF IInv, HandlersCountLeases
<1> QED
  BY <1>4, <1>5, <1>6, <1>7, MovesPreserve DEF IInv

\* The release of a live lease.
LEMMA LiveReleasePreserves ==
  ASSUME IInv, NEW l \in Leases, Release(l), ~lease[l].closed
  PROVE  IInv'
<1> DEFINE r == lease[l].of
           d == lease[l].of.digest
<1>1. /\ lease \in [Leases -> Lease]
      /\ entries \in [Digests -> Entry]
      /\ byId \in [Ids -> Digests \cup {None}]
  BY DEF IInv, LeaseTypeOK
<1>2. Live(l) /\ lease[l].step = "held"
  BY DEF IInv, LivesOK, Release, Live, Issued
<1>3. /\ r \in Resolved
      /\ r.id \in Ids
      /\ d \in Digests
      /\ d # None
      /\ ~closing
      /\ entries[d].of = r
      /\ byId[r.id] = d
  BY <1>2, IssuedFacts, LiveFacts, LeaseAssumption DEF Live
<1>4. /\ lease' = [lease EXCEPT ![l].step = "removed", ![l].closed = TRUE]
      /\ entries' = [entries EXCEPT ![d] =
                       IF Remaining(d, l) = {}
                       THEN NoEntry
                       ELSE [@ EXCEPT !.leases = Remaining(d, l)]]
      /\ byId' = IF Remaining(d, l) = {} THEN [byId EXCEPT ![r.id] = None] ELSE byId
      /\ UNCHANGED <<closing, demand, digestOf>>
  BY <1>3 DEF Release, Releases, IdsLeft, DigestsKept
<1>5. /\ lease'[l].step = "removed"
      /\ lease'[l].closed = TRUE
      /\ lease'[l].of = lease[l].of
      /\ \A m \in Leases : m # l => lease'[m] = lease[m]
  BY <1>1, <1>4 DEF Lease
<1>6. Remaining(d, l) = entries[d].leases \ {l} /\ Remaining(d, l) \subseteq Leases
  BY <1>1, <1>3 DEF Remaining, Entry
<1>7. entries'[d].leases = Remaining(d, l)
  <2>1. entries'[d] = IF Remaining(d, l) = {}
                      THEN NoEntry
                      ELSE [entries[d] EXCEPT !.leases = Remaining(d, l)]
    BY <1>1, <1>3, <1>4
  <2>2. NoEntry.leases = {}
    BY DEF NoEntry
  <2>3. [entries[d] EXCEPT !.leases = Remaining(d, l)].leases = Remaining(d, l)
    BY <1>1, <1>3 DEF Entry
  <2>4. CASE Remaining(d, l) = {}
    BY <2>1, <2>2, <2>4
  <2>5. CASE Remaining(d, l) # {}
    BY <2>1, <2>3, <2>5
  <2> QED
    BY <2>4, <2>5
<1>8. entries'[d].of = IF Remaining(d, l) = {} THEN None ELSE r
  <2>1. entries'[d] = IF Remaining(d, l) = {}
                      THEN NoEntry
                      ELSE [entries[d] EXCEPT !.leases = Remaining(d, l)]
    BY <1>1, <1>3, <1>4
  <2>2. NoEntry.of = None
    BY DEF NoEntry
  <2>3. [entries[d] EXCEPT !.leases = Remaining(d, l)].of = entries[d].of
    BY <1>1, <1>3 DEF Entry
  <2>4. CASE Remaining(d, l) = {}
    BY <2>1, <2>2, <2>4
  <2>5. CASE Remaining(d, l) # {}
    BY <2>1, <2>3, <2>5, <1>3
  <2> QED
    BY <2>4, <2>5
<1>9. \A e \in Digests : e # d => entries'[e] = entries[e]
  BY <1>1, <1>3, <1>4
<1>10. LeaseTypeOK'
  <2>1. lease' \in [Leases -> Lease]
    BY <1>1, <1>4 DEF Lease
  <2>2. entries' \in [Digests -> Entry]
    <3>1. NoEntry \in Entry
      BY DEF NoEntry, Entry
    <3>2. [entries[d] EXCEPT !.leases = Remaining(d, l)] \in Entry
      BY <1>1, <1>3, <1>6 DEF Entry
    <3> QED
      BY <3>1, <3>2, <1>1, <1>3, <1>4
  <2>3. byId' \in [Ids -> Digests \cup {None}]
    BY <1>1, <1>3, <1>4
  <2> QED
    BY <2>1, <2>2, <2>3, <1>4 DEF IInv, LeaseTypeOK
<1>11. \A m \in Leases : Live(m)' <=> (m # l /\ Live(m))
  BY <1>5 DEF Live, Issued
\* Another entry has another identity, because the index by identity is a function.
<1>12. \A e \in Digests : e # d /\ entries[e].of # None => entries[e].of.id # r.id
  BY <1>3 DEF IInv, EntriesMatchLeases
<1>13. EntriesMatchLeases'
  <2>1. ASSUME NEW e \in Digests
        PROVE  /\ (entries'[e].of = None) <=> (entries'[e].leases = {})
               /\ entries'[e].leases = {m \in Leases : Live(m)' /\ lease'[m].of.digest = e}
               /\ entries'[e].of # None =>
                    /\ entries'[e].of.digest = e
                    /\ byId'[entries'[e].of.id] = e
    <3>1. entries[e].leases = {m \in Leases : Live(m) /\ lease[m].of.digest = e}
      BY DEF IInv, EntriesMatchLeases
    <3>2. CASE e = d
      <4>1. entries'[e].leases = {m \in Leases : Live(m)' /\ lease'[m].of.digest = e}
        BY <3>1, <3>2, <1>5, <1>6, <1>7, <1>11
      <4>2. (entries'[e].of = None) <=> (entries'[e].leases = {})
        BY <3>2, <1>3, <1>7, <1>8, LeaseAssumption
      <4>3. entries'[e].of # None => entries'[e].of = r /\ byId' = byId
        BY <3>2, <1>4, <1>8
      <4> QED
        BY <4>1, <4>2, <4>3, <3>2, <1>3
    <3>3. CASE e # d
      <4>1. entries'[e] = entries[e]
        BY <3>3, <1>9
      <4>2. entries'[e].leases = {m \in Leases : Live(m)' /\ lease'[m].of.digest = e}
        BY <4>1, <3>1, <3>3, <1>5, <1>11
      <4>3. entries[e].of # None => entries[e].of.id \in Ids
        BY <1>1, LeaseAssumption DEF Entry
      <4>4. entries[e].of # None => byId'[entries[e].of.id] = byId[entries[e].of.id]
        BY <4>3, <3>3, <1>1, <1>4, <1>12
      <4> QED
        BY <4>1, <4>2, <4>4 DEF IInv, EntriesMatchLeases
    <3> QED
      BY <3>2, <3>3
  <2>2. ASSUME NEW i \in Ids, byId'[i] # None
        PROVE  entries'[byId'[i]].of # None /\ entries'[byId'[i]].of.id = i
    <3>1. /\ byId'[i] = byId[i] /\ byId[i] \in Digests
          /\ entries[byId[i]].of # None /\ entries[byId[i]].of.id = i
      BY <2>2, <1>1, <1>4 DEF IInv, EntriesMatchLeases
    <3>2. CASE byId[i] = d
      <4>1. i = r.id
        BY <3>1, <3>2, <1>3
      <4>2. Remaining(d, l) # {}
        BY <4>1, <2>2, <1>1, <1>3, <1>4
      <4> QED
        BY <4>1, <4>2, <3>1, <3>2, <1>3, <1>8, LeaseAssumption
    <3>3. CASE byId[i] # d
      BY <3>1, <3>3, <1>9
    <3> QED
      BY <3>2, <3>3
  <2> QED
    BY <2>1, <2>2 DEF EntriesMatchLeases
<1>14. LivesOK'
  BY <1>3, <1>4, <1>5 DEF IInv, LivesOK, Issued
<1>15. EntriesOfLeases'
  <2> SUFFICES ASSUME NEW m \in Leases, Live(m)'
               PROVE  entries'[lease'[m].of.digest].of = lease'[m].of
    BY DEF EntriesOfLeases
  <2>1. m # l /\ Live(m) /\ lease'[m] = lease[m]
    BY <1>5, <1>11
  <2>2. /\ lease[m].of.digest \in Digests
        /\ entries[lease[m].of.digest].of = lease[m].of
        /\ m \in entries[lease[m].of.digest].leases
    BY <2>1, IssuedFacts, LiveFacts DEF Live
  <2>3. CASE lease[m].of.digest = d
    BY <2>1, <2>2, <2>3, <1>3, <1>6, <1>8
  <2> QED
    BY <2>1, <2>2, <2>3, <1>9
<1>16. IdentitiesOnRecord'
  <2> SUFFICES ASSUME NEW m \in Leases, Issued(m)'
               PROVE  digestOf'[lease'[m].of.id] = lease'[m].of.digest
    BY DEF IdentitiesOnRecord
  <2>1. Issued(m) /\ lease'[m].of = lease[m].of
    BY <1>2, <1>5 DEF Issued
  <2> QED
    BY <2>1, <1>3, <1>4 DEF IInv, IdentitiesOnRecord
<1>17. ShutdownIsFinal'
  BY <1>3, <1>4 DEF ShutdownIsFinal
<1>18. HandlersCountLeases'
  <2> SUFFICES ASSUME NEW q \in Resolved
               PROVE  demand'[q] = Cardinality(Counted(q)')
    BY DEF HandlersCountLeases
  <2>1. Counted(q)' = Counted(q)
    BY <1>2, <1>5 DEF Counted
  <2> QED
    BY <2>1, <1>3, <1>4 DEF IInv, HandlersCountLeases
<1> QED
  BY <1>10, <1>13, <1>14, <1>15, <1>16, <1>17, <1>18 DEF IInv

\* Shutdown drops every index at once and closes every live lease.
LEMMA ShutdownPreserves ==
  ASSUME IInv, Shutdown
  PROVE  IInv'
<1>1. lease \in [Leases -> Lease]
  BY DEF IInv, LeaseTypeOK
<1>2. /\ closing'
      /\ \A d \in Digests : entries'[d] = NoEntry
      /\ \A i \in Ids : byId'[i] = None
  BY DEF Shutdown
<1>3. \A l \in Leases : /\ lease'[l].step = lease[l].step
                        /\ lease'[l].of = lease[l].of
                        /\ lease'[l].closed = (lease[l].closed \/ lease[l].step # "unused")
  BY <1>1 DEF Shutdown, Lease
<1>4. \A l \in Leases : ~Live(l)'
  BY <1>3 DEF Live, Issued
<1>5. LeaseTypeOK'
  <2>1. lease' \in [Leases -> Lease]
    <3>1. ASSUME NEW l \in Leases
          PROVE  [lease[l] EXCEPT !.closed = @ \/ lease[l].step # "unused"] \in Lease
      <4>1. lease[l] \in Lease
        BY <1>1
      <4>2. (lease[l].closed \/ lease[l].step # "unused") \in BOOLEAN
        OBVIOUS
      <4> QED
        BY <4>1, <4>2 DEF Lease
    <3> QED
      BY <3>1 DEF Shutdown
  <2>2. NoEntry \in Entry
    BY DEF NoEntry, Entry
  <2>3. entries' \in [Digests -> Entry]
    BY <2>2 DEF Shutdown
  <2>4. byId' \in [Ids -> Digests \cup {None}] /\ digestOf' \in [Ids -> Digests \cup {None}]
    BY DEF Shutdown
  <2> QED
    BY <2>1, <2>3, <2>4 DEF Shutdown, IInv, LeaseTypeOK
<1>6. EntriesMatchLeases'
  BY <1>2, <1>4 DEF EntriesMatchLeases, NoEntry
<1>7. LivesOK'
  <2> SUFFICES ASSUME NEW l \in Leases
               PROVE  /\ Issued(l)' => lease'[l].of \in Resolved
                      /\ lease'[l].step \in {"removed", "released"} => lease'[l].closed
                      /\ lease'[l].step \in {"registered", "held"} => (lease'[l].closed <=> closing')
    BY DEF LivesOK
  <2> QED
    BY <1>2, <1>3 DEF IInv, LivesOK, Issued
<1>8. EntriesOfLeases' /\ IdentitiesOnRecord' /\ ShutdownIsFinal' /\ HandlersCountLeases'
  BY <1>2, <1>4 DEF EntriesOfLeases, IdentitiesOnRecord, ShutdownIsFinal, HandlersCountLeases
<1> QED
  BY <1>5, <1>6, <1>7, <1>8 DEF IInv

\* Every step of the registry preserves the invariant.
LEMMA NextIInv == IInv /\ [LeaseNext]_leaseVars => IInv'
<1> SUFFICES ASSUME IInv, [LeaseNext]_leaseVars PROVE IInv'
  OBVIOUS
<1>1. CASE \E l \in Leases, r \in Resolved : AcquireResource(l, r)
  BY <1>1, AcquirePreserves
<1>2. CASE \E l \in Leases : NotifyAcquired(l)
  BY <1>2, NotifyAcquiredPreserves
<1>3. CASE \E l \in Leases : Release(l)
  BY <1>3, LateReleasePreserves, LiveReleasePreserves
<1>4. CASE \E l \in Leases : NotifyReleased(l)
  BY <1>4, NotifyReleasedPreserves
<1>5. CASE Shutdown
  BY <1>5, ShutdownPreserves
<1>6. CASE UNCHANGED leaseVars
  BY <1>6 DEF leaseVars, IInv, LeaseTypeOK, EntriesMatchLeases, LivesOK, EntriesOfLeases,
    IdentitiesOnRecord, ShutdownIsFinal, HandlersCountLeases, Live, Issued, Counted
<1> QED
  BY <1>1, <1>2, <1>3, <1>4, <1>5, <1>6 DEF LeaseNext

\* The registry always satisfies its inductive invariant.
THEOREM LeaseInvariant == LeaseSpec => []IInv
BY InitIInv, NextIInv, PTL DEF LeaseSpec

\* Type correctness of the lease registry.
THEOREM LeaseTypeCorrect == LeaseSpec => []LeaseTypeOK
<1>1. IInv => LeaseTypeOK
  BY DEF IInv
<1> QED
  BY <1>1, LeaseInvariant, PTL

\* The indexes by digest and by identity, and the leases of the entries, agree
\* after any sequence of acquisitions, releases and notifications.
THEOREM EntriesAlwaysMatch == LeaseSpec => []EntriesMatchLeases
<1>1. IInv => EntriesMatchLeases
  BY DEF IInv
<1> QED
  BY <1>1, LeaseInvariant, PTL

\* Whatever identities and digests collide, a live lease opens exactly the
\* configuration it was acquired for.
THEOREM LeasesAlwaysOpenTheirs == LeaseSpec => []LeasesOpenTheirConfiguration
<1>1. IInv => LeasesOpenTheirConfiguration
  BY LiveFacts DEF LeasesOpenTheirConfiguration
<1> QED
  BY <1>1, LeaseInvariant, PTL

\* An identity given to a client never names a second digest while the agent
\* serves.
THEOREM IdentitiesNeverReused == LeaseSpec => []IdentitiesAreNotReused
<1>1. IInv => IdentitiesAreNotReused
  BY DEF IInv, IdentitiesOnRecord, IdentitiesAreNotReused
<1> QED
  BY <1>1, LeaseInvariant, PTL

\* Shutdown leaves nothing behind and is final.
THEOREM ShutdownAlwaysFinal == LeaseSpec => []ShutdownIsFinal
<1>1. IInv => ShutdownIsFinal
  BY DEF IInv
<1> QED
  BY <1>1, LeaseInvariant, PTL

\* A handler's count is the number of leases between their notifications.
THEOREM HandlersAlwaysCount == LeaseSpec => []HandlersCountLeases
<1>1. IInv => HandlersCountLeases
  BY DEF IInv
<1> QED
  BY <1>1, LeaseInvariant, PTL

\* Both together: what the agent tells its clients and its handlers of leases
\* stays true, for any set of configurations and whatever collides.
THEOREM LeasesAlwaysAccounted == LeaseSpec => []LeasesAreAccounted
<1>1. IdentitiesAreNotReused /\ LeasesOpenTheirConfiguration /\ HandlersCountLeases
        => LeasesAreAccounted
  BY DEF LeasesAreAccounted
<1> QED
  BY <1>1, IdentitiesNeverReused, LeasesAlwaysOpenTheirs, HandlersAlwaysCount, PTL

----------------------------------------
(* The agent server that uses it.                                          *)

\* The steps of an RPC that is responsible for its lease, that streams once its
\* lease was checked, and that names a lease it was given.
OwningSteps == {"registered", "adding", "undo", "releasing"}
StreamSteps == {"beginning", "opening", "starting", "opened", "announcing", "serving",
                "finishing"}
NamingSteps == OwningSteps \cup StreamSteps

\* An RPC names a session its client opened, and a lease that was issued.
CallsAreNamed ==
  \A o \in Calls :
      /\ call[o].step # "unused" =>
            /\ call[o].session \in Sessions
            /\ session[call[o].session].step \notin {"unused", "registered"}
      /\ call[o].step \in NamingSteps =>
            call[o].lease \in Leases /\ Issued(call[o].lease)

\* Session s is responsible for lease l, as its owner or by releasing it.
KeptBy(s, l) == l \in session[s].leases \/ l \in session[s].releasing

InHand(o, l) == call[o].lease = l /\ call[o].step \in OwningSteps

\* A session has leases while it is open and releases them once it is closed.
SessionsKeep ==
  \A s \in Sessions :
      /\ Closed(s) => session[s].leases = {}
      /\ ~Closed(s) => session[s].releasing = {}
      /\ session[s].step \in {"unused", "registered"} => session[s].leases = {}
      /\ \A l \in session[s].released : Issued(l)
      /\ \A l \in session[s].leases : lease[l].step = "held"
      /\ \A l \in session[s].releasing :
            lease[l].step \in {"held", "removed", "released"}

CallsKeep ==
  \A o \in Calls :
      /\ call[o].step = "registered" => lease[call[o].lease].step = "registered"
      /\ call[o].step = "adding" => lease[call[o].lease].step = "held"
      /\ call[o].step \in {"undo", "releasing"} =>
            lease[call[o].lease].step \in {"held", "removed", "released"}

\* No lease has two parties responsible for it.
OneHolder ==
  \A l \in Leases :
      /\ \A s, t \in Sessions : KeptBy(s, l) /\ KeptBy(t, l) => s = t
      /\ \A o, p \in Calls : InHand(o, l) /\ InHand(p, l) => o = p
      /\ \A s \in Sessions, o \in Calls : ~(KeptBy(s, l) /\ InHand(o, l))

\* Somebody is responsible for a lease that was not released.
EveryLeaseHeld ==
  \A l \in Leases :
      lease[l].step \in {"registered", "held"} =>
          \/ \E s \in Sessions : KeptBy(s, l)
          \/ \E o \in Calls : InHand(o, l)

\* The agent stops exactly when its gracefulStop runs, which alone cancels a
\* session that is not closed.
StopKnown ==
  /\ server.state = "stopping" <=> stop.step # "none"
  /\ \A s \in Sessions :
        session[s].cancelled /\ ~Closed(s) => stop.step = "draining"

\* The registry is shut down once the transport has stopped, which the stop of
\* the agent alone does, and a drained transport has no handler left.
TransportEnds ==
  /\ closing => ServeReturned
  /\ transport # "serving" => stop.step = "draining"
  /\ transport = "drained" =>
        /\ \A s \in Sessions : session[s].step \in {"unused", "gone"}
        /\ \A o \in Calls : call[o].step \in {"unused", "done"}

Streams == {o \in Calls : Streaming(o)}

\* beginStream and finishStream count the streams.
StreamsCounted == IsFiniteSet(Streams) /\ server.streams = Cardinality(Streams)

\* What the idle check saw still holds while no activity was counted.
IdleSees ==
  /\ idle.version <= server.version
  /\ idle.step \in {"leases", "runtimes", "deciding"} /\ QuietSince =>
        /\ \A s \in Sessions : ~Registered(s)
        /\ \A o \in Calls : ~Streaming(o)
        /\ idle.step # "leases" /\ ~idle.busy =>
              \A l \in Leases : Live(l) =>
                  \E o \in Calls : InHand(o, l) /\ call[o].step # "releasing"
        /\ idle.step = "deciding" /\ ~idle.busy => warm = {}

\* The inductive invariant of the agent over that of its registry.
AgentInv ==
  /\ TypeOK
  /\ IInv
  /\ CallsAreNamed
  /\ SessionsKeep
  /\ CallsKeep
  /\ OneHolder
  /\ EveryLeaseHeld
  /\ StopKnown
  /\ StopsAreOrderly
  /\ TransportEnds
  /\ StreamsCounted
  /\ IdleSees

----------------------------------------
(* The agent uses its registry as LeaseNext allows.                        *)

\* Every step of the agent is a step of its lease registry or leaves it alone.
LEMMA LeaseSteps ==
  ASSUME AgentInv, [Next]_vars PROVE [LeaseNext]_leaseVars
<1>1. ASSUME NEW s \in Sessions, NEW l \in Leases, ReleaseDetached(s, l)
      PROVE  LeaseNext
  BY <1>1 DEF ReleaseDetached, LeaseNext
<1>2. ASSUME NEW o \in Calls, NEW l \in Leases, NEW r \in Resolved, Acquire(o, l, r)
      PROVE  LeaseNext
  BY <1>2 DEF Acquire, LeaseNext
<1>3. ASSUME NEW o \in Calls, Acquired(o)
      PROVE  LeaseNext
  <2>1. call[o].lease \in Leases
    BY <1>3 DEF Acquired, AgentInv, CallsAreNamed, NamingSteps, OwningSteps
  <2> QED BY <1>3, <2>1 DEF Acquired, LeaseNext
<1>4. ASSUME NEW o \in Calls, ReleaseLease(o)
      PROVE  [LeaseNext]_leaseVars
  <2>1. call[o].lease \in Leases
    BY <1>4 DEF ReleaseLease, AgentInv, CallsAreNamed, NamingSteps, OwningSteps
  <2> QED BY <1>4, <2>1 DEF ReleaseLease, LeaseNext
<1>5. CASE ShutdownResources
  BY <1>5 DEF ShutdownResources, LeaseNext
<1>6. ASSUME NEW s \in Sessions,
             \/ OpenSession(s) \/ CloseSession(s) \/ UnregisterSession(s)
             \/ RegisterSession(s) \/ SessionEnds(s) \/ Acknowledge(s)
      PROVE  UNCHANGED leaseVars
  BY <1>6 DEF OpenSession, CloseSession, UnregisterSession, RegisterSession, SessionEnds,
    Acknowledge
<1>7. ASSUME NEW o \in Calls,
             \/ \E s \in Sessions : BeginAcquire(o, s)
             \/ \E s \in Sessions, l \in Leases : BeginRelease(o, s, l)
             \/ \E s \in Sessions, l \in Leases : BeginStream(o, s, l)
             \/ StreamEnds(o)
      PROVE  UNCHANGED leaseVars
  BY <1>7 DEF BeginAcquire, BeginRelease, BeginStream, Begin, StreamEnds
<1>8. ASSUME NEW o \in Calls,
             \/ AcquireFails(o) \/ AddLease(o) \/ TakeLease(o) \/ CheckLease(o)
             \/ StreamBegins(o) \/ OpenResource(o) \/ HandlerOpens(o) \/ HandlerFails(o)
             \/ CheckAgain(o) \/ Ready(o) \/ FinishStream(o)
      PROVE  UNCHANGED leaseVars
  BY <1>8 DEF AcquireFails, AddLease, TakeLease, CheckLease, StreamBegins, OpenResource,
    HandlerOpens, HandlerFails, CheckAgain, Ready, FinishStream
<1>9. CASE IdleStep \/ \E r \in Resolved : RuntimeEnds(r)
  BY <1>9 DEF IdleStep, StartupExpires, IdleCheck, IdleLeases, IdleRuntimes, IdleDecide,
    RuntimeEnds
<1>10. CASE \/ \E by \in {"idle", "request"} : BeginShutdown(by)
            \/ \E s \in Sessions, sent \in BOOLEAN : RequestStopping(s, sent)
            \/ GraceExpires \/ CancelSessions \/ Drained \/ TransportCut
            \/ StopAsked
  BY <1>10 DEF BeginShutdown, RequestStopping, GraceExpires, CancelSessions, Drained,
    TransportCut, StopAsked
<1>11. CASE UNCHANGED vars
  BY <1>11 DEF vars
<1> QED
  BY <1>1, <1>2, <1>3, <1>4, <1>5, <1>6, <1>7, <1>8, <1>9, <1>10, <1>11 DEF Next, ClientStep,
    SessionStep, CallStep, StopStep

----------------------------------------
(* What the registry's critical sections do to the leases.                 *)

\* What Release, NotifyAcquired and NotifyReleased do to the leases.
LEMMA OneLeaseMoves ==
  ASSUME IInv, NEW l \in Leases, NEW was, NEW becomes,
         lease[l].step = was,
         \/ Release(l) /\ becomes = {"removed", "released"}
         \/ NotifyAcquired(l) /\ becomes = {"held"}
         \/ NotifyReleased(l) /\ becomes = {"released"}
  PROVE  /\ lease'[l].step \in becomes
         /\ \A m \in Leases : m # l => lease'[m] = lease[m]
         /\ \A m \in Leases : Issued(m) => Issued(m)'
<1>0. lease \in [Leases -> Lease]
  BY DEF IInv, LeaseTypeOK
<1>1. CASE Release(l) /\ becomes = {"removed", "released"}
  BY <1>0, <1>1 DEF Release, Issued, Lease
<1>2. CASE NotifyAcquired(l) /\ becomes = {"held"}
  BY <1>0, <1>2 DEF NotifyAcquired, Issued, Lease
<1>3. CASE NotifyReleased(l) /\ becomes = {"released"}
  BY <1>0, <1>3 DEF NotifyReleased, Issued, Lease
<1> QED BY <1>1, <1>2, <1>3

----------------------------------------
(* Who is responsible for a lease.                                         *)

Ownership == CallsAreNamed /\ SessionsKeep /\ CallsKeep /\ OneHolder /\ EveryLeaseHeld

\* A session opens, ends, is asked to stop or goes away.
LEMMA SessionsMove ==
  ASSUME AgentInv,
         \A s \in Sessions :
              /\ session'[s].leases = session[s].leases
              /\ session'[s].released = session[s].released
              /\ session'[s].releasing = session[s].releasing
              /\ Closed(s) => Closed(s)'
              /\ Closed(s)' => session[s].leases = {}
              /\ session'[s].step \in {"unused", "registered"} =>
                      session[s].step \in {"unused", "registered"},
         \A l \in Leases : lease'[l].step = lease[l].step,
         call' = call
  PROVE  Ownership'
<1>0. /\ \A s \in Sessions : /\ session[s].leases \subseteq Leases
                             /\ session[s].released \subseteq Leases
                             /\ session[s].releasing \subseteq Leases
      /\ Ownership
  BY DEF AgentInv, TypeOK, Session, Ownership
<1>1. CallsAreNamed'
  BY <1>0 DEF Ownership, CallsAreNamed, Issued
<1>2. SessionsKeep'
  BY <1>0 DEF Ownership, SessionsKeep, Issued
<1>3. CallsKeep'
  BY <1>0 DEF Ownership, CallsAreNamed, CallsKeep, NamingSteps, OwningSteps
<1>4. OneHolder' /\ EveryLeaseHeld'
  BY <1>0 DEF Ownership, OneHolder, EveryLeaseHeld, KeptBy, InHand
<1> QED BY <1>1, <1>2, <1>3, <1>4 DEF Ownership

\* An RPC that has no lease to answer for moves on.
LEMMA CallMoves ==
  ASSUME AgentInv, NEW o \in Calls,
         \A p \in Calls : p # o => call'[p] = call[p],
         call[o].step \notin OwningSteps, call'[o].step \notin OwningSteps,
         call'[o].step # "unused" =>
              /\ call'[o].session \in Sessions
              /\ session[call'[o].session].step \notin {"unused", "registered"},
         call'[o].step \in StreamSteps =>
              call'[o].lease \in Leases /\ Issued(call'[o].lease),
         session' = session, lease' = lease
  PROVE  Ownership'
<1>0. Ownership
  BY DEF AgentInv, Ownership
<1>1. CallsAreNamed'
  BY <1>0 DEF Ownership, CallsAreNamed, NamingSteps, Issued
<1>2. SessionsKeep'
  BY <1>0 DEF Ownership, SessionsKeep, Closed, Issued
<1>3. CallsKeep'
  BY <1>0 DEF Ownership, CallsKeep, OwningSteps
<1>4. OneHolder' /\ EveryLeaseHeld'
  BY <1>0 DEF Ownership, OneHolder, EveryLeaseHeld, KeptBy, InHand
<1> QED BY <1>1, <1>2, <1>3, <1>4 DEF Ownership

\* An acquisition: a fresh lease is in the hands of its RPC.
LEMMA AcquireOwns ==
  ASSUME AgentInv, NEW o \in Calls, NEW l \in Leases, NEW r \in Resolved,
         Acquire(o, l, r)
  PROVE  Ownership'
<1>0. /\ Ownership /\ lease \in [Leases -> Lease] /\ call \in [Calls -> Call]
      /\ call[o].step = "resolving" /\ ~Issued(l) /\ session' = session
      /\ \A p \in Calls : p # o => call'[p] = call[p]
      /\ call'[o].step = "registered" /\ call'[o].lease = l
      /\ call'[o].session = call[o].session
      /\ lease'[l].step = "registered"
      /\ \A m \in Leases : m # l => lease'[m] = lease[m]
  BY DEF AgentInv, TypeOK, LeaseTypeOK, Ownership, Acquire, AcquireResource, Call
<1>1. /\ \A m \in Leases : Issued(m) => Issued(m)' /\ m # l
      /\ Issued(l)'
  BY <1>0 DEF Issued
<1>2. CallsAreNamed'
  <2>1. \A p \in Calls : p # o /\ call[p].step \in NamingSteps => Issued(call[p].lease)'
    BY <1>0, <1>1 DEF Ownership, CallsAreNamed
  <2> QED BY <1>0, <1>1, <2>1 DEF Ownership, CallsAreNamed, NamingSteps
<1>3. /\ \A s \in Sessions : ~KeptBy(s, l)
      /\ \A p \in Calls : ~InHand(p, l)
  BY <1>0 DEF Ownership, SessionsKeep, CallsAreNamed, NamingSteps, KeptBy, InHand, Issued
<1>4. SessionsKeep'
  <2>1. \A s \in Sessions : /\ session[s].leases \subseteq Leases
                            /\ session[s].releasing \subseteq Leases
                            /\ session[s].released \subseteq Leases
    BY DEF AgentInv, TypeOK, Session
  <2>2. \A s \in Sessions : Closed(s)' <=> Closed(s)
    BY <1>0 DEF Closed
  <2>3. \A s \in Sessions : \A m \in session[s].leases \cup session[s].releasing :
          lease'[m] = lease[m]
    BY <1>0, <1>3, <2>1 DEF KeptBy
  <2>4. \A s \in Sessions : \A m \in session[s].released : Issued(m)'
    BY <1>0, <1>1, <2>1 DEF Ownership, SessionsKeep
  <2> QED BY <1>0, <2>2, <2>3, <2>4 DEF Ownership, SessionsKeep
<1>5. CallsKeep'
  <2>1. \A p \in Calls : p # o /\ call[p].step \in OwningSteps =>
          call[p].lease \in Leases /\ call[p].lease # l
    BY <1>0, <1>1 DEF Ownership, CallsAreNamed, NamingSteps
  <2> QED BY <1>0, <2>1 DEF Ownership, CallsKeep, OwningSteps
<1>6. OneHolder'
  BY <1>0, <1>3 DEF Ownership, OneHolder, KeptBy, InHand
<1>7. EveryLeaseHeld'
  <2> SUFFICES ASSUME NEW m \in Leases, lease'[m].step \in {"registered", "held"}
               PROVE  \/ \E s \in Sessions : KeptBy(s, m)'
                      \/ \E p \in Calls : InHand(p, m)'
    BY DEF EveryLeaseHeld
  <2>1. CASE m = l
    BY <1>0, <2>1 DEF InHand, OwningSteps
  <2>2. CASE m # l
    BY <1>0, <2>2 DEF Ownership, EveryLeaseHeld, KeptBy, InHand, OwningSteps
  <2> QED BY <2>1, <2>2
<1> QED BY <1>2, <1>4, <1>5, <1>6, <1>7 DEF Ownership

\* The RPC o moves on with its lease l, which it keeps in hand.
LEMMA HandMoves ==
  ASSUME AgentInv, NEW o \in Calls, NEW l \in Leases,
         call[o].lease = l, call[o].step \in OwningSteps,
         \A p \in Calls : p # o => call'[p] = call[p],
         call'[o].session = call[o].session, call'[o].lease = l,
         call'[o].step \in OwningSteps,
         \A m \in Leases : m # l => lease'[m] = lease[m],
         \A m \in Leases : Issued(m) => Issued(m)',
         session' = session,
         call'[o].step = "registered" => lease'[l].step = "registered",
         call'[o].step = "adding" => lease'[l].step = "held",
         call'[o].step \in {"undo", "releasing"} =>
              lease'[l].step \in {"held", "removed", "released"}
  PROVE  Ownership'
<1>0. Ownership /\ Issued(l)'
  BY DEF AgentInv, Ownership, CallsAreNamed, NamingSteps
<1>1. CallsAreNamed'
  <2>1. \A p \in Calls : p # o /\ call[p].step \in NamingSteps => Issued(call[p].lease)'
    BY <1>0 DEF Ownership, CallsAreNamed
  <2> QED BY <1>0, <2>1 DEF Ownership, CallsAreNamed, NamingSteps, OwningSteps
<1>2. /\ \A s \in Sessions : ~KeptBy(s, l)
      /\ \A p \in Calls : p # o => ~InHand(p, l)
  BY <1>0 DEF Ownership, OneHolder, InHand
<1>3. SessionsKeep'
  <2>1. \A s \in Sessions : /\ session[s].leases \subseteq Leases
                            /\ session[s].releasing \subseteq Leases
                            /\ session[s].released \subseteq Leases
    BY DEF AgentInv, TypeOK, Session
  <2>2. \A s \in Sessions : Closed(s)' <=> Closed(s)
    BY DEF Closed
  <2>3. \A s \in Sessions : \A m \in session[s].leases \cup session[s].releasing :
          lease'[m] = lease[m]
    BY <1>2, <2>1 DEF KeptBy
  <2>4. \A s \in Sessions : \A m \in session[s].released : Issued(m)'
    BY <1>0, <2>1 DEF Ownership, SessionsKeep
  <2> QED BY <1>0, <2>2, <2>3, <2>4 DEF Ownership, SessionsKeep
<1>4. CallsKeep'
  <2>1. \A p \in Calls : p # o /\ call[p].step \in OwningSteps =>
          call[p].lease \in Leases /\ call[p].lease # l
    BY <1>0, <1>2 DEF Ownership, CallsAreNamed, NamingSteps, InHand
  <2> QED BY <1>0, <2>1 DEF Ownership, CallsKeep, OwningSteps
<1>5. OneHolder'
  BY <1>0, <1>2 DEF Ownership, OneHolder, KeptBy, InHand
<1>6. EveryLeaseHeld'
  <2> SUFFICES ASSUME NEW m \in Leases, lease'[m].step \in {"registered", "held"}
               PROVE  \/ \E s \in Sessions : KeptBy(s, m)'
                      \/ \E p \in Calls : InHand(p, m)'
    BY DEF EveryLeaseHeld
  <2>1. CASE m = l
    BY <1>0, <2>1 DEF InHand
  <2>2. CASE m # l
    BY <1>0, <2>2 DEF Ownership, EveryLeaseHeld, KeptBy, InHand
  <2> QED BY <2>1, <2>2
<1> QED BY <1>1, <1>3, <1>4, <1>5, <1>6 DEF Ownership

\* The handler learns of the lease.
LEMMA AcquiredOwns ==
  ASSUME AgentInv, NEW o \in Calls, Acquired(o)
  PROVE  Ownership'
<1> DEFINE l == call[o].lease
<1>1. /\ l \in Leases /\ call[o].step = "registered" /\ lease[l].step = "registered"
      /\ call \in [Calls -> Call] /\ session' = session
      /\ NotifyAcquired(l)
      /\ call' = [call EXCEPT ![o].step = "adding"]
  BY DEF AgentInv, TypeOK, CallsAreNamed, NamingSteps, OwningSteps, CallsKeep, Acquired, Goto
<1>2. /\ \A p \in Calls : p # o => call'[p] = call[p]
      /\ call'[o].step = "adding" /\ call'[o].lease = l
      /\ call'[o].session = call[o].session
  BY <1>1 DEF Call
<1>3. /\ lease'[l].step \in {"held"}
      /\ \A m \in Leases : m # l => lease'[m] = lease[m]
      /\ \A m \in Leases : Issued(m) => Issued(m)'
  <2> HIDE DEF l
  <2> QED BY <1>1, OneLeaseMoves DEF AgentInv
<1> QED BY <1>1, <1>2, <1>3, HandMoves DEF OwningSteps

\* The session adopts the lease, or the RPC has to give it back.
LEMMA AddLeaseOwns ==
  ASSUME AgentInv, NEW o \in Calls, AddLease(o)
  PROVE  Ownership'
<1> DEFINE s == call[o].session
           l == call[o].lease
<1>0. /\ Ownership /\ s \in Sessions /\ l \in Leases /\ InHand(o, l)
      /\ session[s].step \notin {"unused", "registered"}
      /\ call[o].step = "adding" /\ lease[l].step = "held" /\ Issued(l)
      /\ call \in [Calls -> Call] /\ session \in [Sessions -> Session]
      /\ lease' = lease
  BY DEF AgentInv, TypeOK, Ownership, CallsAreNamed, CallsKeep, NamingSteps, OwningSteps, InHand,
    AddLease, leaseVars
<1>1. CASE Closed(s)
  <2>1. call' = [call EXCEPT ![o].step = "undo"] /\ session' = session
    BY <1>1 DEF AddLease, Goto, Retains
  <2>2. /\ \A p \in Calls : p # o => call'[p] = call[p]
        /\ call'[o].step = "undo" /\ call'[o].lease = l
        /\ call'[o].session = call[o].session
    BY <1>0, <2>1 DEF Call
  <2>3. \A m \in Leases : Issued(m) => Issued(m)'
    BY <1>0 DEF Issued
  <2> QED BY <1>0, <2>1, <2>2, <2>3, HandMoves DEF OwningSteps
<1>2. CASE ~Closed(s)
  <2>1. /\ session' = [session EXCEPT ![s] =
                          [session[s] EXCEPT !.leases = @ \cup {l}]]
        /\ call' = [call EXCEPT ![o].step = "done"]
    BY <1>2 DEF AddLease, Goto, Retains, SetSession
  <2>2. /\ \A p \in Calls : p # o => call'[p] = call[p]
        /\ call'[o].step = "done" /\ call'[o].session = s
        /\ \A t \in Sessions : t # s => session'[t] = session[t]
        /\ session'[s].leases = session[s].leases \cup {l}
        /\ session'[s].released = session[s].released
        /\ session'[s].releasing = session[s].releasing
        /\ session'[s].step = session[s].step
    BY <1>0, <2>1 DEF Call, Session
  <2> HIDE DEF s, l
  <2>3. CallsAreNamed'
    <3> SUFFICES ASSUME NEW p \in Calls
                 PROVE  /\ call'[p].step # "unused" =>
                              /\ call'[p].session \in Sessions
                              /\ session'[call'[p].session].step \notin {"unused", "registered"}
                        /\ call'[p].step \in NamingSteps =>
                              call'[p].lease \in Leases /\ Issued(call[p].lease)'
      BY DEF CallsAreNamed
    <3>1. \A t \in Sessions : session'[t].step = session[t].step
      BY <2>2
    <3>2. CASE p = o
      BY <1>0, <2>2, <3>1, <3>2 DEF NamingSteps, OwningSteps, StreamSteps
    <3>3. CASE p # o
      BY <1>0, <2>2, <3>1, <3>3 DEF Ownership, CallsAreNamed, Issued
    <3> QED BY <3>2, <3>3
  <2>4. SessionsKeep'
    BY <1>0, <1>2, <2>2 DEF Ownership, SessionsKeep, Closed, Issued
  <2>5. CallsKeep'
    BY <1>0, <2>2 DEF Ownership, CallsKeep
  <2>6. \A p \in Calls, m \in Leases : InHand(p, m)' <=> p # o /\ InHand(p, m)
    BY <2>2 DEF InHand, OwningSteps
  <2>7. \A t \in Sessions, m \in Leases :
          KeptBy(t, m)' <=> KeptBy(t, m) \/ (t = s /\ m = l)
    BY <1>0, <2>2 DEF KeptBy
  <2>8. OneHolder'
    BY <1>0, <2>6, <2>7 DEF Ownership, OneHolder
  <2>9. EveryLeaseHeld'
    <3>1. \A m \in Leases : InHand(o, m) => m = l
      BY <1>0 DEF InHand
    <3> QED BY <1>0, <2>6, <2>7, <3>1 DEF Ownership, EveryLeaseHeld
  <2> QED BY <2>3, <2>4, <2>5, <2>8, <2>9 DEF Ownership
<1> QED BY <1>1, <1>2

\* takeLease: the session hands its lease to the RPC that releases it.
LEMMA TakeLeaseOwns ==
  ASSUME AgentInv, NEW o \in Calls, TakeLease(o)
  PROVE  Ownership'
<1> DEFINE s == call[o].session
           l == call[o].lease
<1>0. /\ Ownership /\ s \in Sessions /\ call[o].step = "taking"
      /\ session[s].step \notin {"unused", "registered"}
      /\ call \in [Calls -> Call] /\ session \in [Sessions -> Session]
      /\ lease' = lease
  BY DEF AgentInv, TypeOK, Ownership, CallsAreNamed, TakeLease, leaseVars
<1>1. CASE l \notin session[s].leases
  <2>1. call' = [call EXCEPT ![o].step = "done"] /\ session' = session
    BY <1>1 DEF TakeLease, Goto
  <2>2. /\ \A p \in Calls : p # o => call'[p] = call[p]
        /\ call'[o].step = "done" /\ call'[o].session = s
    BY <1>0, <2>1 DEF Call
  <2> QED BY <1>0, <2>1, <2>2, CallMoves DEF OwningSteps, StreamSteps
<1>2. CASE l \in session[s].leases
  <2>1. /\ session' = [session EXCEPT ![s] = Taken(session[s], l)]
        /\ call' = [call EXCEPT ![o].step = "releasing"]
    BY <1>2 DEF TakeLease, Goto, SetSession
  <2>2. /\ \A p \in Calls : p # o => call'[p] = call[p]
        /\ call'[o].step = "releasing" /\ call'[o].session = s
        /\ call'[o].lease = l
        /\ \A t \in Sessions : t # s => session'[t] = session[t]
        /\ session'[s].leases = session[s].leases \ {l}
        /\ session'[s].released = session[s].released \cup {l}
        /\ session'[s].releasing = session[s].releasing
        /\ session'[s].step = session[s].step
    BY <1>0, <2>1 DEF Call, Session, Taken
  <2>3. l \in Leases /\ lease[l].step = "held" /\ Issued(l) /\ ~Closed(s)
    BY <1>0, <1>2 DEF Session, Ownership, SessionsKeep, Issued
  <2>4. session[s].releasing = {}
    BY <1>0, <2>3 DEF Ownership, SessionsKeep
  <2> HIDE DEF s, l
  <2>5. CallsAreNamed'
    <3> SUFFICES ASSUME NEW p \in Calls
                 PROVE  /\ call'[p].step # "unused" =>
                              /\ call'[p].session \in Sessions
                              /\ session'[call'[p].session].step \notin {"unused", "registered"}
                        /\ call'[p].step \in NamingSteps =>
                              call'[p].lease \in Leases /\ Issued(call[p].lease)'
      BY DEF CallsAreNamed
    <3>1. \A t \in Sessions : session'[t].step = session[t].step
      BY <2>2
    <3>2. CASE p = o
      BY <1>0, <2>2, <2>3, <3>1, <3>2 DEF Issued
    <3>3. CASE p # o
      BY <1>0, <2>2, <3>1, <3>3 DEF Ownership, CallsAreNamed, Issued
    <3> QED BY <3>2, <3>3
  <2>6. SessionsKeep'
    BY <1>0, <2>2, <2>3 DEF Ownership, SessionsKeep, Closed, Issued
  <2>7. CallsKeep'
    BY <1>0, <2>2, <2>3 DEF Ownership, CallsKeep
  <2>8. \A p \in Calls, m \in Leases :
          InHand(p, m)' <=> InHand(p, m) \/ (p = o /\ m = l)
    BY <1>0, <2>2 DEF InHand, OwningSteps
  <2>9. \A t \in Sessions, m \in Leases :
          KeptBy(t, m)' <=> KeptBy(t, m) /\ ~(t = s /\ m = l)
    BY <1>0, <2>2, <2>4 DEF KeptBy
  <2>10. KeptBy(s, l)
    BY <1>2 DEF KeptBy, s, l
  <2>11. OneHolder'
    BY <1>0, <2>3, <2>8, <2>9, <2>10 DEF Ownership, OneHolder
  <2>12. EveryLeaseHeld'
    BY <1>0, <2>8, <2>9 DEF Ownership, EveryLeaseHeld
  <2> QED BY <2>5, <2>6, <2>7, <2>11, <2>12 DEF Ownership
<1> QED BY <1>1, <1>2

\* The RPC gives its lease back.
LEMMA ReleaseLeaseOwns ==
  ASSUME AgentInv, NEW o \in Calls, ReleaseLease(o)
  PROVE  Ownership'
<1> DEFINE l == call[o].lease
<1>0. /\ Ownership /\ l \in Leases /\ call[o].step \in {"undo", "releasing"}
      /\ call[o].step \in OwningSteps
      /\ call \in [Calls -> Call] /\ session' = session
  BY DEF AgentInv, TypeOK, Ownership, CallsAreNamed, NamingSteps, OwningSteps, ReleaseLease
<1>1. CASE \/ lease[l].step = "held" /\ Release(l) /\ call' = call
           \/ NotifyReleased(l) /\ call' = call
  <2>1. /\ lease'[l].step \in {"removed", "released"}
        /\ \A m \in Leases : m # l => lease'[m] = lease[m]
        /\ \A m \in Leases : Issued(m) => Issued(m)'
    <3> HIDE DEF l
    <3>1. CASE lease[l].step = "held" /\ Release(l)
      BY <1>0, <3>1, OneLeaseMoves DEF AgentInv
    <3>2. CASE NotifyReleased(l)
      <4>1. /\ lease'[l].step \in {"released"}
            /\ \A m \in Leases : m # l => lease'[m] = lease[m]
            /\ \A m \in Leases : Issued(m) => Issued(m)'
        BY <1>0, <3>2, OneLeaseMoves DEF AgentInv
      <4> QED BY <4>1
    <3> QED BY <1>1, <3>1, <3>2
  <2>2. call' = call
    BY <1>1
  <2> QED BY <1>0, <2>1, <2>2, HandMoves
<1>2. CASE /\ lease[l].step = "released" /\ lease' = lease
           /\ call' = [call EXCEPT ![o].step = "done"]
  <2>1. /\ \A p \in Calls : p # o => call'[p] = call[p]
        /\ call'[o].step = "done" /\ call'[o].session = call[o].session
    BY <1>0, <1>2 DEF Call
  <2> HIDE DEF l
  <2>2. CallsAreNamed'
    <3> SUFFICES ASSUME NEW p \in Calls
                 PROVE  /\ call'[p].step # "unused" =>
                              /\ call'[p].session \in Sessions
                              /\ session'[call'[p].session].step \notin {"unused", "registered"}
                        /\ call'[p].step \in NamingSteps =>
                              call'[p].lease \in Leases /\ Issued(call[p].lease)'
      BY DEF CallsAreNamed
    <3>1. CASE p = o
      <4>1. /\ call[o].session \in Sessions
            /\ session[call[o].session].step \notin {"unused", "registered"}
        BY <1>0 DEF Ownership, CallsAreNamed
      <4> QED BY <1>0, <2>1, <3>1, <4>1 DEF NamingSteps, OwningSteps, StreamSteps
    <3>2. CASE p # o
      BY <1>0, <1>2, <2>1, <3>2 DEF Ownership, CallsAreNamed, Issued
    <3> QED BY <3>1, <3>2
  <2>3. SessionsKeep'
    BY <1>0, <1>2 DEF Ownership, SessionsKeep, Closed, Issued
  <2>4. CallsKeep'
    BY <1>0, <1>2, <2>1 DEF Ownership, CallsKeep
  <2>5. /\ \A p \in Calls, m \in Leases : InHand(p, m)' <=> InHand(p, m) /\ p # o
        /\ \A s \in Sessions, m \in Leases : KeptBy(s, m)' <=> KeptBy(s, m)
    BY <1>0, <2>1 DEF InHand, OwningSteps, KeptBy
  <2>6. OneHolder'
    BY <1>0, <2>5 DEF Ownership, OneHolder
  <2>7. EveryLeaseHeld'
    <3>1. \A m \in Leases : InHand(o, m) => m = l
      BY DEF InHand, l
    <3> QED BY <1>0, <1>2, <2>5, <3>1 DEF Ownership, EveryLeaseHeld
  <2> QED BY <2>2, <2>3, <2>4, <2>6, <2>7 DEF Ownership
<1> QED BY <1>1, <1>2 DEF ReleaseLease, Goto, leaseVars

\* close hands the leases of the session to releaseDetached.
LEMMA CloseSessionOwns ==
  ASSUME AgentInv, NEW s \in Sessions, CloseSession(s)
  PROVE  Ownership'
<1>0. /\ Ownership /\ session \in [Sessions -> Session]
      /\ session[s].step = "ending" /\ lease' = lease /\ call' = call
      /\ session' = [session EXCEPT ![s] = ClosedSession(session[s])]
  BY DEF AgentInv, TypeOK, Ownership, CloseSession, SetSession, leaseVars
<1>1. /\ \A t \in Sessions : t # s => session'[t] = session[t]
      /\ session'[s].step = "closing" /\ session'[s].leases = {}
      /\ session'[s].releasing = session[s].leases
      /\ session'[s].released = session[s].released
      /\ session[s].releasing = {}
  BY <1>0 DEF Session, ClosedSession, Ownership, SessionsKeep, Closed
<1>2. CallsAreNamed'
  <2>1. \A t \in Sessions : session[t].step \notin {"unused", "registered"} =>
          session'[t].step \notin {"unused", "registered"}
    BY <1>1
  <2> QED BY <1>0, <2>1 DEF Ownership, CallsAreNamed, Issued
<1>3. SessionsKeep'
  BY <1>0, <1>1 DEF Ownership, SessionsKeep, Closed, Issued
<1>4. CallsKeep'
  BY <1>0 DEF Ownership, CallsKeep
<1>5. /\ \A p \in Calls, m \in Leases : InHand(p, m)' <=> InHand(p, m)
      /\ \A t \in Sessions, m \in Leases : KeptBy(t, m)' <=> KeptBy(t, m)
  BY <1>0, <1>1 DEF InHand, KeptBy
<1>6. OneHolder' /\ EveryLeaseHeld'
  BY <1>0, <1>5 DEF Ownership, OneHolder, EveryLeaseHeld
<1> QED BY <1>2, <1>3, <1>4, <1>6 DEF Ownership

\* releaseDetached.
LEMMA ReleaseDetachedOwns ==
  ASSUME AgentInv, NEW s \in Sessions, NEW l \in Leases, ReleaseDetached(s, l)
  PROVE  Ownership'
<1>0. /\ Ownership /\ l \in session[s].releasing
      /\ session' = session /\ call' = call
  BY DEF AgentInv, Ownership, ReleaseDetached, agentVars
<1>1. /\ lease'[l].step \in {"removed", "released"}
      /\ \A m \in Leases : m # l => lease'[m] = lease[m]
      /\ \A m \in Leases : Issued(m) => Issued(m)'
  <2>1. CASE lease[l].step = "held" /\ Release(l)
    BY <2>1, OneLeaseMoves DEF AgentInv
  <2>2. CASE NotifyReleased(l)
    <3>1. /\ lease'[l].step \in {"released"}
          /\ \A m \in Leases : m # l => lease'[m] = lease[m]
          /\ \A m \in Leases : Issued(m) => Issued(m)'
      BY <2>2, OneLeaseMoves DEF AgentInv
    <3> QED BY <3>1
  <2> QED BY <2>1, <2>2 DEF ReleaseDetached
<1>2. /\ KeptBy(s, l) /\ \A t \in Sessions : KeptBy(t, l) => t = s
      /\ \A p \in Calls : ~InHand(p, l)
      /\ l \notin session[s].leases
  <2>1. KeptBy(s, l)
    BY <1>0 DEF KeptBy
  <2> QED BY <1>0, <2>1 DEF Ownership, OneHolder, SessionsKeep
<1>3. CallsAreNamed'
  BY <1>0, <1>1 DEF Ownership, CallsAreNamed
<1>4. SessionsKeep'
  <2>1. \A t \in Sessions : /\ session[t].leases \subseteq Leases
                            /\ session[t].releasing \subseteq Leases
                            /\ session[t].released \subseteq Leases
                            /\ Closed(t)' <=> Closed(t)
    BY <1>0 DEF AgentInv, TypeOK, Session, Closed
  <2>2. \A t \in Sessions : l \notin session[t].leases
    BY <1>2 DEF KeptBy
  <2> QED BY <1>0, <1>1, <2>1, <2>2 DEF Ownership, SessionsKeep
<1>5. CallsKeep'
  <2>1. \A p \in Calls : call[p].step \in OwningSteps =>
          call[p].lease \in Leases /\ call[p].lease # l
    BY <1>0, <1>2 DEF Ownership, CallsAreNamed, NamingSteps, InHand
  <2> QED BY <1>0, <1>1, <2>1 DEF Ownership, CallsKeep, OwningSteps
<1>6. OneHolder' /\ EveryLeaseHeld'
  BY <1>0, <1>1 DEF Ownership, OneHolder, EveryLeaseHeld, InHand, KeptBy
<1> QED BY <1>3, <1>4, <1>5, <1>6 DEF Ownership

\* Every step keeps it clear who is responsible for a lease.
LEMMA NextOwnership ==
  ASSUME AgentInv, [Next]_vars PROVE Ownership'
<1>0. /\ session \in [Sessions -> Session] /\ call \in [Calls -> Call]
      /\ lease \in [Leases -> Lease] /\ SessionsKeep
  BY DEF AgentInv, TypeOK, LeaseTypeOK
<1>1. CASE UNCHANGED <<session, call>> /\ \A l \in Leases : lease'[l].step = lease[l].step
  <2>1. \A s \in Sessions : Closed(s)' = Closed(s)
    BY <1>1 DEF Closed
  <2> QED BY <1>0, <1>1, <2>1, SessionsMove DEF SessionsKeep
<1>2. ASSUME NEW s \in Sessions, NEW c,
             UNCHANGED <<leaseVars, call>>, session' = [session EXCEPT ![s] = c],
             c.leases = session[s].leases, c.released = session[s].released,
             c.releasing = session[s].releasing,
             \/ c.step = session[s].step
             \/ session[s].step = "unused" /\ c.step \in {"registered", "gone"}
             \/ session[s].step = "registered" /\ c.step = "open"
             \/ session[s].step \in {"registered", "open"} /\ c.step = "ending"
             \/ session[s].step = "closing" /\ c.step = "gone"
      PROVE  Ownership'
  <2>1. \A t \in Sessions : session'[t] = IF t = s THEN c ELSE session[t]
    BY <1>0, <1>2
  <2>2. lease' = lease /\ call' = call
    BY <1>2 DEF leaseVars
  <2>3. \A t \in Sessions :
              /\ session'[t].leases = session[t].leases
              /\ session'[t].released = session[t].released
              /\ session'[t].releasing = session[t].releasing
              /\ Closed(t) => Closed(t)'
              /\ Closed(t)' => session[t].leases = {}
              /\ session'[t].step \in {"unused", "registered"} =>
                      session[t].step \in {"unused", "registered"}
    BY <1>0, <1>2, <2>1 DEF Closed, SessionsKeep
  <2> QED BY <2>2, <2>3, SessionsMove
<1>3. ASSUME NEW s \in Sessions, RegisterSession(s)
      PROVE  Ownership'
  <2>1. CASE Accepts
    BY <1>0, <1>2, <1>3, <2>1 DEF RegisterSession, SetSession, Session
  <2>2. CASE ~Accepts
    BY <1>0, <1>2, <1>3, <2>2 DEF RegisterSession, SetSession, Session
  <2> QED BY <2>1, <2>2
<1>4. ASSUME NEW s \in Sessions, OpenSession(s)
      PROVE  Ownership'
  BY <1>0, <1>2, <1>4 DEF OpenSession, SetSession, Session
<1>5. ASSUME NEW s \in Sessions, SessionEnds(s)
      PROVE  Ownership'
  BY <1>0, <1>2, <1>5 DEF SessionEnds, SetSession, Session
<1>6. ASSUME NEW s \in Sessions, Acknowledge(s)
      PROVE  Ownership'
  BY <1>0, <1>2, <1>6 DEF Acknowledge, SetSession, Session
<1>7. ASSUME NEW s \in Sessions, UnregisterSession(s)
      PROVE  Ownership'
  BY <1>0, <1>2, <1>7 DEF UnregisterSession, SetSession, Session
<1>8. ASSUME NEW s \in Sessions, NEW sent \in BOOLEAN, RequestStopping(s, sent)
      PROVE  Ownership'
  BY <1>0, <1>2, <1>8 DEF RequestStopping, SetSession, Session
<1>9. CASE CancelSessions
  <2>1. /\ lease' = lease /\ call' = call
        /\ \A s \in Sessions : /\ session'[s].leases = session[s].leases
                               /\ session'[s].released = session[s].released
                               /\ session'[s].releasing = session[s].releasing
                               /\ session'[s].step = session[s].step
    BY <1>0, <1>9 DEF CancelSessions, leaseVars, Session
  <2>2. \A s \in Sessions : Closed(s)' <=> Closed(s)
    BY <2>1 DEF Closed
  <2> QED BY <1>0, <2>1, <2>2, SessionsMove DEF SessionsKeep
<1>10. ASSUME NEW o \in Calls, NEW c,
              call' = [call EXCEPT ![o] = c], UNCHANGED <<session, leaseVars>>,
              call[o].step \notin OwningSteps, c.step \notin OwningSteps,
              c.step # "unused" =>
                  /\ c.session \in Sessions
                  /\ session[c.session].step \notin {"unused", "registered"},
              c.step \in StreamSteps => c.lease \in Leases /\ Issued(c.lease)
       PROVE  Ownership'
  <2>1. /\ \A p \in Calls : p # o => call'[p] = call[p]
        /\ call'[o] = c /\ session' = session /\ lease' = lease
    BY <1>0, <1>10 DEF leaseVars
  <2> QED BY <1>10, <2>1, CallMoves
<1>11. ASSUME NEW o \in Calls, NEW s \in Sessions, NEW l,
              NEW step \in {"resolving", "taking", "checking"}, Begin(o, s, step, l)
       PROVE  Ownership'
  BY <1>10, <1>11 DEF Begin, OwningSteps, StreamSteps
<1>12. ASSUME NEW o \in Calls, NEW step, Goto(o, step), UNCHANGED <<session, leaseVars>>,
              call[o].step \notin OwningSteps, call[o].step # "unused",
              step \notin OwningSteps,
              step \in StreamSteps => call[o].step \in StreamSteps
                   \/ (call[o].lease \in Leases /\ Issued(call[o].lease))
       PROVE  Ownership'
  <2> DEFINE c == [call[o] EXCEPT !.step = step]
  <2>1. /\ call' = [call EXCEPT ![o] = c]
        /\ c.step = step /\ c.session = call[o].session /\ c.lease = call[o].lease
    BY <1>0, <1>12 DEF Goto, Call
  <2>2. /\ c.session \in Sessions
        /\ session[c.session].step \notin {"unused", "registered"}
        /\ c.step \in StreamSteps => c.lease \in Leases /\ Issued(c.lease)
    BY <1>12, <2>1 DEF AgentInv, CallsAreNamed, NamingSteps
  <2> HIDE DEF c
  <2> QED BY <1>10, <1>12, <2>1, <2>2
<1>13. ASSUME NEW o \in Calls, CheckLease(o)
       PROVE  Ownership'
  <2>1. Owns(o) => call[o].lease \in Leases /\ Issued(call[o].lease)
    <3>1. call[o].session \in Sessions
      BY <1>13 DEF CheckLease, AgentInv, CallsAreNamed
    <3> QED BY <1>0, <3>1 DEF Owns, SessionsKeep, Session, Issued
  <2>2. call[o].step = "checking" /\ UNCHANGED <<session, leaseVars>>
    BY <1>13 DEF CheckLease
  <2>3. \/ Goto(o, "beginning") /\ Owns(o)
        \/ Goto(o, "done")
    BY <1>13 DEF CheckLease
  <2> QED BY <1>12, <2>1, <2>2, <2>3 DEF OwningSteps, StreamSteps
<1>14. ASSUME NEW o \in Calls,
              \/ AcquireFails(o) \/ StreamBegins(o) \/ OpenResource(o) \/ HandlerOpens(o)
              \/ HandlerFails(o) \/ CheckAgain(o) \/ Ready(o) \/ FinishStream(o)
              \/ StreamEnds(o)
       PROVE  Ownership'
  <2>1. /\ UNCHANGED <<session, leaseVars>>
        /\ \/ call[o].step = "resolving" /\ Goto(o, "done")
           \/ /\ call[o].step \in StreamSteps
              /\ \E step \in StreamSteps \cup {"done"} : Goto(o, step)
    BY <1>14 DEF AcquireFails, StreamBegins, OpenResource, HandlerOpens, HandlerFails, CheckAgain,
      Ready, FinishStream, StreamEnds, StreamSteps
  <2>2. CASE call[o].step = "resolving" /\ Goto(o, "done")
    BY <1>12, <2>1, <2>2 DEF OwningSteps, StreamSteps
  <2>3. ASSUME NEW step \in StreamSteps \cup {"done"},
               Goto(o, step), call[o].step \in StreamSteps
        PROVE  Ownership'
    BY <1>12, <2>1, <2>3 DEF OwningSteps, StreamSteps
  <2> QED BY <2>1, <2>2, <2>3
<1>15. CASE ShutdownResources
  BY <1>0, <1>1, <1>15 DEF ShutdownResources, Shutdown, agentVars, Lease
<1>16. CASE IdleStep \/ (\E r \in Resolved : RuntimeEnds(r)) \/ StopAsked
  BY <1>1, <1>16 DEF IdleStep, StartupExpires, IdleCheck, IdleLeases, IdleRuntimes, IdleDecide,
    RuntimeEnds, StopAsked, leaseVars
<1>17. CASE \/ \E by \in {"idle", "request"} : BeginShutdown(by)
            \/ GraceExpires \/ Drained \/ TransportCut
  BY <1>1, <1>17 DEF BeginShutdown, GraceExpires, Drained, TransportCut, leaseVars
<1>18. CASE UNCHANGED vars
  BY <1>1, <1>18 DEF vars, agentVars, leaseVars
<1>19. ASSUME NEW o \in Calls,
              \/ \E s \in Sessions : BeginAcquire(o, s)
              \/ \E s \in Sessions, l \in Leases : BeginRelease(o, s, l)
              \/ \E s \in Sessions, l \in Leases : BeginStream(o, s, l)
       PROVE  Ownership'
  BY <1>11, <1>19 DEF BeginAcquire, BeginRelease, BeginStream
<1>20. ASSUME NEW o \in Calls,
              \/ \E l \in Leases, r \in Resolved : Acquire(o, l, r)
              \/ Acquired(o) \/ AddLease(o) \/ TakeLease(o) \/ ReleaseLease(o)
       PROVE  Ownership'
  BY <1>20, AcquireOwns, AcquiredOwns, AddLeaseOwns, TakeLeaseOwns, ReleaseLeaseOwns
<1>21. ASSUME NEW s \in Sessions,
              CloseSession(s) \/ \E l \in Leases : ReleaseDetached(s, l)
       PROVE  Ownership'
  BY <1>21, CloseSessionOwns, ReleaseDetachedOwns
<1> QED
  BY <1>3, <1>4, <1>5, <1>6, <1>7, <1>8, <1>9, <1>13, <1>14, <1>15, <1>16, <1>17, <1>18, <1>19,
    <1>20, <1>21 DEF Next, ClientStep, SessionStep, CallStep, StopStep

----------------------------------------
(* The stop.                                                               *)

Stops == StopKnown /\ StopsAreOrderly

\* Nothing the stop is about changes.
LEMMA StopFrame ==
    ASSUME AgentInv, session' = session, server'.state = server.state,
           stop'.step = stop.step, stop'.sessions = stop.sessions,
           stop.late => stop'.late
    PROVE  Stops'
  BY DEF AgentInv, Stops, StopKnown, StopsAreOrderly, NoSessionMissesTheStop,
    ClientsKeepTheirGrace, Closed, Registered

\* One session moves on.
LEMMA StopOneSession ==
  ASSUME AgentInv, NEW s \in Sessions, NEW c,
         session' = [session EXCEPT ![s] = c], server'.state = server.state,
         stop' = stop,
         c.cancelled => session[s].cancelled \/ c.step \in {"closing", "gone"},
         \/ c.step = session[s].step
         \/ session[s].step = "unused" /\ c.step = "registered" /\ server.state = "ready"
         \/ session[s].step = "unused" /\ c.step = "gone"
         \/ session[s].step = "registered" /\ c.step = "open" /\ ~session[s].cancelled
         \/ session[s].step \in {"registered", "open"} /\ c.step = "ending"
         \/ session[s].step = "ending" /\ c.step = "closing"
         \/ session[s].step = "closing" /\ c.step = "gone",
         session[s].stopping = "done" => c.stopping = "done"
  PROVE  Stops'
<1>0. session \in [Sessions -> Session] /\ StopKnown /\ StopsAreOrderly
  BY DEF AgentInv, TypeOK
<1>1. \A t \in Sessions : session'[t] = IF t = s THEN c ELSE session[t]
  BY <1>0
<1>2. StopKnown'
  <2>1. \A t \in Sessions :
          session'[t].cancelled /\ ~Closed(t)' => session[t].cancelled /\ ~Closed(t)
    BY <1>1 DEF Closed
  <2> QED BY <1>0, <2>1 DEF StopKnown
<1>3. NoSessionMissesTheStop'
  BY <1>0, <1>1 DEF StopsAreOrderly, NoSessionMissesTheStop, Registered, AgentInv, TypeOK
<1>4. ClientsKeepTheirGrace'
  BY <1>0, <1>1 DEF StopsAreOrderly, ClientsKeepTheirGrace, AgentInv, TypeOK, StopKnown
<1> QED BY <1>2, <1>3, <1>4 DEF Stops, StopsAreOrderly

\* Every step of the agent keeps its stop orderly.
LEMMA NextStops ==
  ASSUME AgentInv, [Next]_vars PROVE Stops'
<1>0. /\ session \in [Sessions -> Session] /\ Stops
      /\ server.state \in {"ready", "stopping"} /\ stop.sessions \subseteq Sessions
      /\ server \in [state : {"ready", "stopping"}, observed : BOOLEAN,
                     version : Nat, streams : Nat]
      /\ stop \in [step : {"none", "asking", "draining"},
               asked : SUBSET {"idle", "request"},
               by : {"nobody", "idle", "request"},
               sessions : SUBSET Sessions, late : BOOLEAN]
  BY DEF AgentInv, TypeOK, Stops
<1>1. ASSUME NEW s \in Sessions, RegisterSession(s)
      PROVE  Stops'
  <2>1. CASE Accepts
    <3> DEFINE c == [session[s] EXCEPT !.step = "registered"]
    <3>1. /\ session' = [session EXCEPT ![s] = c] /\ server'.state = server.state
          /\ stop' = stop /\ session[s].step = "unused" /\ server.state = "ready"
      BY <1>0, <1>1, <2>1 DEF RegisterSession, SetSession, Accepts, Active
    <3>2. /\ c.step = "registered" /\ c.cancelled = session[s].cancelled
          /\ c.stopping = session[s].stopping
      BY <1>0 DEF Session
    <3> HIDE DEF c
    <3> QED BY <3>1, <3>2, StopOneSession
  <2>2. CASE ~Accepts
    <3> DEFINE c == [session[s] EXCEPT !.step = "gone"]
    <3>1. /\ session' = [session EXCEPT ![s] = c] /\ server' = server
          /\ stop' = stop /\ session[s].step = "unused"
      BY <1>1, <2>2 DEF RegisterSession, SetSession
    <3>2. /\ c.step = "gone" /\ c.cancelled = session[s].cancelled
          /\ c.stopping = session[s].stopping
      BY <1>0 DEF Session
    <3> HIDE DEF c
    <3> QED BY <3>1, <3>2, StopOneSession
  <2> QED BY <2>1, <2>2
<1>2. ASSUME NEW s \in Sessions, OpenSession(s)
      PROVE  Stops'
  <2> DEFINE c == [session[s] EXCEPT !.step = "open"]
  <2>1. /\ session' = [session EXCEPT ![s] = c] /\ server' = server /\ stop' = stop
        /\ session[s].step = "registered" /\ ~session[s].cancelled
        /\ c.step = "open" /\ c.cancelled = session[s].cancelled
        /\ c.stopping = session[s].stopping
    BY <1>0, <1>2 DEF OpenSession, SetSession, Session
  <2> HIDE DEF c
  <2> QED BY <2>1, StopOneSession
<1>3. ASSUME NEW s \in Sessions, SessionEnds(s)
      PROVE  Stops'
  <2> DEFINE c == [session[s] EXCEPT !.step = "ending"]
  <2>1. /\ session' = [session EXCEPT ![s] = c] /\ server' = server /\ stop' = stop
        /\ session[s].step \in {"registered", "open"}
        /\ c.step = "ending" /\ c.cancelled = session[s].cancelled
        /\ c.stopping = session[s].stopping
    BY <1>0, <1>3 DEF SessionEnds, SetSession, Session
  <2> HIDE DEF c
  <2> QED BY <2>1, StopOneSession
<1>4. ASSUME NEW s \in Sessions, Acknowledge(s)
      PROVE  Stops'
  <2> DEFINE c == [session[s] EXCEPT !.stopping = "done"]
  <2>1. /\ session' = [session EXCEPT ![s] = c] /\ server' = server /\ stop' = stop
        /\ c.step = session[s].step /\ c.cancelled = session[s].cancelled
        /\ c.stopping = "done"
    BY <1>0, <1>4 DEF Acknowledge, SetSession, Session
  <2> HIDE DEF c
  <2> QED BY <2>1, StopOneSession
<1>5. ASSUME NEW s \in Sessions, UnregisterSession(s)
      PROVE  Stops'
  <2> DEFINE c == [session[s] EXCEPT !.step = "gone"]
  <2>1. /\ session' = [session EXCEPT ![s] = c] /\ server'.state = server.state
        /\ stop' = stop /\ session[s].step = "closing"
        /\ c.step = "gone" /\ c.cancelled = session[s].cancelled
        /\ c.stopping = session[s].stopping
    BY <1>0, <1>5 DEF UnregisterSession, SetSession, Session, Active
  <2> HIDE DEF c
  <2> QED BY <2>1, StopOneSession
<1>6. ASSUME NEW s \in Sessions, CloseSession(s)
      PROVE  Stops'
  <2> DEFINE c == ClosedSession(session[s])
  <2>1. /\ session' = [session EXCEPT ![s] = c] /\ server' = server /\ stop' = stop
        /\ session[s].step = "ending" /\ c.step = "closing"
        /\ session[s].stopping = "done" => c.stopping = "done"
    BY <1>0, <1>6 DEF CloseSession, SetSession, Session, ClosedSession
  <2> HIDE DEF c
  <2> QED BY <2>1, StopOneSession
<1>7. ASSUME NEW s \in Sessions, NEW sent \in BOOLEAN, RequestStopping(s, sent)
      PROVE  Stops'
  <2> DEFINE c == [session[s] EXCEPT !.stopping = IF sent THEN "asked" ELSE "done"]
  <2>1. /\ session' = [session EXCEPT ![s] = c] /\ server' = server /\ stop' = stop
        /\ session[s].stopping = "none"
        /\ c.step = session[s].step /\ c.cancelled = session[s].cancelled
    BY <1>0, <1>7 DEF RequestStopping, SetSession, Session
  <2> HIDE DEF c
  <2> QED BY <2>1, StopOneSession
<1>8. ASSUME NEW by \in {"idle", "request"}, BeginShutdown(by)
      PROVE  Stops'
  <2>1. /\ stop'.step = "asking" /\ server'.state = "stopping"
        /\ stop'.sessions = {s \in Sessions : Registered(s)}
        /\ session' = session /\ stop.step = "none"
    BY <1>0, <1>8 DEF BeginShutdown
  <2>2. \A s \in Sessions : session[s].cancelled => Closed(s)
    BY <1>0, <2>1 DEF Stops, StopKnown
  <2>3. StopKnown'
    BY <2>1, <2>2 DEF StopKnown, Closed
  <2>4. NoSessionMissesTheStop' /\ ClientsKeepTheirGrace'
    BY <2>1, <2>2 DEF NoSessionMissesTheStop, ClientsKeepTheirGrace, Registered, Closed
  <2> QED BY <2>3, <2>4 DEF Stops, StopsAreOrderly
<1>9. CASE CancelSessions
  <2>1. /\ stop'.step = "draining" /\ stop.step = "asking"
        /\ stop'.sessions = stop.sessions /\ stop'.late = stop.late
        /\ server' = server
        /\ ClientsDone \/ stop.late
        /\ \A s \in Sessions : /\ session'[s].step = session[s].step
                               /\ session'[s].stopping = session[s].stopping
    BY <1>0, <1>9 DEF CancelSessions, Session
  <2>2. StopKnown'
    <3>1. server.state = "stopping"
      BY <1>0, <2>1 DEF Stops, StopKnown
    <3> QED BY <2>1, <3>1 DEF StopKnown
  <2>3. NoSessionMissesTheStop'
    <3>1. \A s \in Sessions : Registered(s)' <=> Registered(s)
      BY <2>1 DEF Registered
    <3> QED BY <1>0, <2>1, <3>1 DEF Stops, StopsAreOrderly, NoSessionMissesTheStop
  <2>4. ClientsKeepTheirGrace'
    BY <1>0, <2>1 DEF ClientsKeepTheirGrace, ClientsDone
  <2> QED BY <2>2, <2>3, <2>4 DEF Stops, StopsAreOrderly
<1>10. CASE StopAsked \/ GraceExpires \/ Drained \/ TransportCut \/ ShutdownResources
  BY <1>0, <1>10, StopFrame DEF StopAsked, GraceExpires, Drained, TransportCut, ShutdownResources,
    agentVars
<1>11. CASE IdleStep
  BY <1>0, <1>11, StopFrame DEF IdleStep, StartupExpires, IdleCheck, IdleLeases, IdleRuntimes,
    IdleDecide
<1>12. ASSUME NEW o \in Calls,
             \/ \E s \in Sessions : BeginAcquire(o, s)
             \/ \E s \in Sessions, l \in Leases : BeginRelease(o, s, l)
             \/ \E s \in Sessions, l \in Leases : BeginStream(o, s, l)
             \/ StreamEnds(o)
      PROVE  Stops'
  BY <1>12, StopFrame DEF BeginAcquire, BeginRelease, BeginStream, Begin, StreamEnds
<1>13. ASSUME NEW o \in Calls,
             \/ AcquireFails(o)
             \/ \E l \in Leases, r \in Resolved : Acquire(o, l, r)
             \/ Acquired(o) \/ ReleaseLease(o) \/ OpenResource(o) \/ HandlerOpens(o)
             \/ HandlerFails(o) \/ CheckLease(o) \/ CheckAgain(o) \/ Ready(o)
      PROVE  Stops'
  BY <1>13, StopFrame DEF AcquireFails, Acquire, Acquired, ReleaseLease, OpenResource,
    HandlerOpens, HandlerFails, CheckLease, CheckAgain, Ready
<1>14. ASSUME NEW o \in Calls, StreamBegins(o) \/ FinishStream(o)
       PROVE  Stops'
  <2>1. /\ session' = session /\ stop' = stop /\ server'.state = server.state
    BY <1>0, <1>14 DEF StreamBegins, FinishStream, Started, Active
  <2> QED BY <2>1, StopFrame
<1>15. ASSUME NEW o \in Calls, NEW s \in Sessions, NEW c,
              session' = [session EXCEPT ![s] = c], UNCHANGED <<server, stop>>,
              c.step = session[s].step, c.cancelled = session[s].cancelled,
              c.stopping = session[s].stopping
       PROVE  Stops'
  BY <1>15, StopOneSession
<1>16. ASSUME NEW o \in Calls, AddLease(o) \/ TakeLease(o)
       PROVE  Stops'
  <2> DEFINE s == call[o].session
             l == call[o].lease
             a == [session[s] EXCEPT !.leases = @ \cup {l}]
             b == Taken(session[s], l)
  <2>1. s \in Sessions
    BY <1>16 DEF AgentInv, CallsAreNamed, AddLease, TakeLease
  <2>2. /\ a.step = session[s].step /\ a.cancelled = session[s].cancelled
        /\ a.stopping = session[s].stopping
        /\ b.step = session[s].step /\ b.cancelled = session[s].cancelled
        /\ b.stopping = session[s].stopping
    BY <1>0, <2>1 DEF Session, Taken
  <2>3. /\ \/ session' = session
           \/ session' = [session EXCEPT ![s] = a]
           \/ session' = [session EXCEPT ![s] = b]
        /\ UNCHANGED <<server, stop>>
    BY <1>16 DEF AddLease, TakeLease, SetSession
  <2> HIDE DEF a, b, s, l
  <2> QED BY <1>15, <2>1, <2>2, <2>3, StopFrame
<1>17. CASE UNCHANGED vars \/ \E r \in Resolved : RuntimeEnds(r)
  BY <1>17, StopFrame DEF vars, agentVars, RuntimeEnds
<1>18. ASSUME NEW s \in Sessions, NEW l \in Leases, ReleaseDetached(s, l)
       PROVE  Stops'
  BY <1>18, StopFrame DEF ReleaseDetached, agentVars
<1> QED
  BY <1>1, <1>2, <1>3, <1>4, <1>5, <1>6, <1>7, <1>8, <1>9, <1>10, <1>11, <1>12, <1>13, <1>14,
    <1>16, <1>17, <1>18 DEF Next, ClientStep, SessionStep, CallStep, StopStep

----------------------------------------
(* Types, and the number of streams.                                       *)

\* The invariant of the registry holds through every step of the agent.
LEMMA NextLeases ==
  ASSUME AgentInv, [Next]_vars PROVE IInv'
<1>1. [LeaseNext]_leaseVars
  BY LeaseSteps
<1>2. IInv
  BY DEF AgentInv
<1> HIDE DEF AgentInv, IInv, LeaseNext
<1> QED BY <1>1, <1>2, NextIInv

\* The configuration of a lease that an RPC streams under is a resolved one.
LEMMA NamedResolved ==
  ASSUME AgentInv, NEW o \in Calls, call[o].step \in NamingSteps
  PROVE  /\ call[o].lease \in Leases /\ Issued(call[o].lease)
         /\ lease[call[o].lease].of \in Resolved
<1>1. call[o].lease \in Leases /\ Issued(call[o].lease) /\ IInv
  BY DEF AgentInv, CallsAreNamed
<1> QED BY <1>1, IssuedFacts

\* A stream that ends was counted.
LEMMA StreamsPositive ==
  ASSUME AgentInv, NEW o \in Calls, Streaming(o)
  PROVE  server.streams - 1 \in Nat
<1>1. IsFiniteSet(Streams) /\ server.streams = Cardinality(Streams) /\ o \in Streams
  BY DEF AgentInv, StreamsCounted, Streams
<1>2. /\ IsFiniteSet(Streams \ {o})
      /\ Cardinality(Streams \ {o}) = Cardinality(Streams) - 1
  BY <1>1, FS_RemoveElement
<1>3. Cardinality(Streams \ {o}) \in Nat
  BY <1>2, FS_CardinalityType
<1> QED BY <1>1, <1>2, <1>3

\* The records of a session and of the server, with one field changed.
LEMMA SessionFields ==
  ASSUME NEW c \in Session
  PROVE  /\ \A x \in {"unused", "registered", "open", "ending", "closing", "gone"} :
              [c EXCEPT !.step = x] \in Session
         /\ \A x \in {"none", "asked", "done"} : [c EXCEPT !.stopping = x] \in Session
         /\ [c EXCEPT !.cancelled = TRUE] \in Session
         /\ ClosedSession(c) \in Session
         /\ \A l \in Leases :
              [c EXCEPT !.leases = @ \cup {l}] \in Session /\ Taken(c, l) \in Session
<1>1. ClosedSession(c) \in Session
  <2> DEFINE d(x) == [c EXCEPT !.step = "closing", !.cancelled = TRUE,
                               !.releasing = c.leases, !.leases = {}, !.stopping = x]
  <2>1. \A x \in {"none", "asked", "done"} : d(x) \in Session
    BY DEF Session
  <2>2. ClosedSession(c) = d(IF c.stopping = "asked" THEN "done" ELSE c.stopping)
    BY DEF ClosedSession
  <2>3. c.stopping \in {"none", "asked", "done"}
    BY DEF Session
  <2> HIDE DEF d
  <2> QED BY <2>1, <2>2, <2>3
<1> QED BY <1>1 DEF Session, Taken

Server == [state : {"ready", "stopping"}, observed : BOOLEAN, version : Nat, streams : Nat]

LEMMA ServerFields ==
  ASSUME NEW v \in Server
  PROVE  /\ Active(v) \in Server /\ Started(v) \in Server
         /\ Active([v EXCEPT !.observed = TRUE]) \in Server
         /\ v.streams - 1 \in Nat => Active([v EXCEPT !.streams = @ - 1]) \in Server
         /\ [v EXCEPT !.state = "stopping"] \in Server
<1>1. \A w \in Server : Active(w) \in Server
  BY DEF Server, Active
<1>2. /\ [v EXCEPT !.observed = TRUE] \in Server
      /\ [v EXCEPT !.state = "stopping"] \in Server
  BY DEF Server
<1>3. \A n \in Nat : [v EXCEPT !.streams = n] \in Server
  BY DEF Server
<1>4. v.streams - 1 \in Nat => [v EXCEPT !.streams = @ - 1] \in Server
  BY <1>3
<1>5. [v EXCEPT !.streams = @ + 1] \in Server
  <2>1. v.streams + 1 \in Nat
    BY DEF Server
  <2> QED BY <1>3, <2>1
<1> QED BY <1>1, <1>2, <1>4, <1>5 DEF Started

\* Every step of the agent respects the types.
LEMMA NextTypeOK ==
  ASSUME AgentInv, [Next]_vars PROVE TypeOK'
<1>0. TypeOK /\ LeaseTypeOK'
  <2>1. IInv'
    BY NextLeases
  <2> QED BY <2>1 DEF AgentInv, IInv
<1>a. /\ server \in Server /\ session \in [Sessions -> Session]
      /\ call \in [Calls -> Call]
  BY <1>0 DEF TypeOK, Server
<1>b. ASSUME server' \in Server, session' \in [Sessions -> Session],
             call' \in [Calls -> Call], UNCHANGED <<transport, idle, stop, warm>>
      PROVE  TypeOK'
  BY <1>0, <1>b DEF TypeOK, Server
<1> USE DEF TypeOK
<1>1. ASSUME NEW s \in Sessions, RegisterSession(s)
      PROVE  TypeOK'
  <2>1. server' \in Server
    BY <1>a, <1>1, ServerFields DEF RegisterSession
  <2>2. session' \in [Sessions -> Session]
    <3>1. /\ [session[s] EXCEPT !.step = "registered"] \in Session
          /\ [session[s] EXCEPT !.step = "gone"] \in Session
      BY <1>a, SessionFields
    <3> QED BY <1>a, <1>1, <3>1 DEF RegisterSession, SetSession
  <2> QED BY <1>a, <1>b, <1>1, <2>1, <2>2 DEF RegisterSession
<1>2. ASSUME NEW s \in Sessions, OpenSession(s) \/ SessionEnds(s) \/ Acknowledge(s)
      PROVE  TypeOK'
  <2>1. session' \in [Sessions -> Session]
    <3>1. /\ [session[s] EXCEPT !.step = "open"] \in Session
          /\ [session[s] EXCEPT !.step = "ending"] \in Session
          /\ [session[s] EXCEPT !.stopping = "done"] \in Session
      BY <1>a, SessionFields
    <3> QED BY <1>a, <1>2, <3>1 DEF OpenSession, SessionEnds, Acknowledge, SetSession
  <2> QED BY <1>a, <1>b, <1>2, <2>1 DEF OpenSession, SessionEnds, Acknowledge
<1>3. ASSUME NEW s \in Sessions, CloseSession(s)
      PROVE  TypeOK'
  <2>1. session' \in [Sessions -> Session]
    BY <1>a, <1>3, SessionFields DEF CloseSession, SetSession
  <2> QED BY <1>a, <1>b, <1>3, <2>1 DEF CloseSession
<1>4. ASSUME NEW s \in Sessions, UnregisterSession(s)
      PROVE  TypeOK'
  BY SMTT(40), <1>0, <1>4 DEF UnregisterSession, SetSession, Session, Active
<1>5. ASSUME NEW s \in Sessions, NEW sent \in BOOLEAN, RequestStopping(s, sent)
      PROVE  TypeOK'
  BY <1>0, <1>5 DEF RequestStopping, SetSession, Session
<1>6. CASE CancelSessions
  <2>1. session' \in [Sessions -> Session]
    BY <1>a, <1>6, SessionFields DEF CancelSessions
  <2> QED BY <1>0, <1>6, <2>1 DEF CancelSessions
<1>7. ASSUME NEW by \in {"idle", "request"}, BeginShutdown(by)
      PROVE  TypeOK'
  <2>1. {s \in Sessions : Registered(s)} \subseteq Sessions
    OBVIOUS
  <2> HIDE DEF Registered
  <2> QED BY <1>0, <1>7, <2>1 DEF BeginShutdown
<1>8. CASE StopAsked \/ GraceExpires \/ Drained \/ TransportCut \/ ShutdownResources
  BY ZenonT(60), <1>0, <1>8 DEF StopAsked, GraceExpires, Drained, TransportCut, ShutdownResources,
    agentVars
<1>9. CASE IdleStep
  <2>1. /\ server.version \in Nat
        /\ (\E l \in Leases : Live(l)) \in BOOLEAN
        /\ (idle.busy \/ warm # {}) \in BOOLEAN
    BY <1>a DEF Server
  <2>2. idle' \in [step : {"waiting", "leases", "runtimes", "deciding", "decided"},
                  version : Nat, busy : BOOLEAN, expired : BOOLEAN]
    <3>1. CASE StartupExpires \/ IdleCheck
      BY <1>0, <2>1, <3>1 DEF StartupExpires, IdleCheck
    <3>5. CASE IdleDecide
      <4>1. \/ idle' = [idle EXCEPT !.step = "decided"]
            \/ idle' = [idle EXCEPT !.step = "waiting", !.version = 0, !.busy = FALSE]
        BY <3>5 DEF IdleDecide
      <4>2. idle \in [step : {"waiting", "leases", "runtimes", "deciding", "decided"},
                     version : Nat, busy : BOOLEAN, expired : BOOLEAN]
        BY <1>0
      <4>3. CASE idle' = [idle EXCEPT !.step = "decided"]
        BY <4>2, <4>3
      <4>4. CASE idle' = [idle EXCEPT !.step = "waiting", !.version = 0, !.busy = FALSE]
        <5>1. \A n \in Nat, b \in BOOLEAN :
               [idle EXCEPT !.step = "waiting", !.version = n, !.busy = b]
               \in [step : {"waiting", "leases", "runtimes", "deciding", "decided"},
                   version : Nat, busy : BOOLEAN, expired : BOOLEAN]
          BY <4>2
        <5> QED BY <4>4, <5>1
      <4> QED BY <4>1, <4>3, <4>4
    <3>2. ASSUME NEW b \in BOOLEAN, NEW st \in {"runtimes", "deciding"},
                 idle' = [idle EXCEPT !.step = st, !.busy = b]
          PROVE  idle' \in [step : {"waiting", "leases", "runtimes", "deciding", "decided"},
                           version : Nat, busy : BOOLEAN, expired : BOOLEAN]
      BY <1>0, <3>2
    <3>3. CASE IdleLeases
      BY <2>1, <3>2, <3>3 DEF IdleLeases
    <3>4. CASE IdleRuntimes
      BY <2>1, <3>2, <3>4 DEF IdleRuntimes
    <3> QED BY <1>9, <3>1, <3>3, <3>4, <3>5 DEF IdleStep
  <2>3. stop'.asked \subseteq {"idle", "request"} /\ stop' = [stop EXCEPT !.asked = stop'.asked]
    BY <1>0, <1>9 DEF IdleStep, StartupExpires, IdleCheck, IdleLeases, IdleRuntimes, IdleDecide
  <2> QED BY <1>0, <1>9, <2>2, <2>3 DEF IdleStep, StartupExpires, IdleCheck, IdleLeases,
    IdleRuntimes, IdleDecide
<1>10. ASSUME NEW o \in Calls,
             \/ \E s \in Sessions : BeginAcquire(o, s)
             \/ \E s \in Sessions, l \in Leases : BeginRelease(o, s, l)
             \/ \E s \in Sessions, l \in Leases : BeginStream(o, s, l)
             \/ StreamEnds(o)
      PROVE  TypeOK'
  BY SMTT(40), <1>0, <1>10 DEF BeginAcquire, BeginRelease, BeginStream, Begin, StreamEnds, Goto, Call
<1>11. ASSUME NEW o \in Calls,
             \/ AcquireFails(o)
             \/ \E l \in Leases, r \in Resolved : Acquire(o, l, r)
             \/ Acquired(o) \/ ReleaseLease(o) \/ OpenResource(o)
             \/ HandlerFails(o)
      PROVE  TypeOK'
  BY <1>0, <1>11 DEF AcquireFails, Acquire, Acquired, ReleaseLease, OpenResource, HandlerFails,
    Goto, Call
<1>22. ASSUME NEW o \in Calls, CheckLease(o) \/ CheckAgain(o) \/ Ready(o)
       PROVE  TypeOK'
  BY <1>0, <1>22 DEF CheckLease, CheckAgain, Ready, Goto, Call
<1>12. ASSUME NEW o \in Calls, HandlerOpens(o)
       PROVE  TypeOK'
  <2>1. lease[call[o].lease].of \in Resolved
    BY <1>12, NamedResolved DEF HandlerOpens, NamingSteps, StreamSteps
  <2> QED BY <1>0, <1>12, <2>1 DEF HandlerOpens, Goto, Call
<1>13. ASSUME NEW o \in Calls, StreamBegins(o)
       PROVE  TypeOK'
  <2>1. server' \in Server
    BY <1>a, <1>13, ServerFields DEF StreamBegins
  <2>2. call' \in [Calls -> Call]
    BY <1>a, <1>13 DEF StreamBegins, Goto, Call
  <2> QED BY <1>a, <1>b, <1>13, <2>1, <2>2 DEF StreamBegins
<1>14. ASSUME NEW o \in Calls, FinishStream(o)
       PROVE  TypeOK'
  <2>1. server.streams - 1 \in Nat
    BY <1>14, StreamsPositive DEF FinishStream, Streaming
  <2>2. server' \in Server
    BY <1>a, <1>14, <2>1, ServerFields DEF FinishStream
  <2>3. call' \in [Calls -> Call]
    BY <1>a, <1>14 DEF FinishStream, Goto, Call
  <2> QED BY <1>a, <1>b, <1>14, <2>2, <2>3 DEF FinishStream
<1>15. ASSUME NEW o \in Calls, AddLease(o) \/ TakeLease(o)
       PROVE  TypeOK'
  <2>1. call[o].session \in Sessions /\ call[o].step # "unused"
    BY <1>15 DEF AgentInv, CallsAreNamed, AddLease, TakeLease
  <2>2. call[o].step = "adding" => call[o].lease \in Leases
    BY DEF AgentInv, CallsAreNamed, NamingSteps, OwningSteps
  <2>3. \A l \in Leases, c \in Session :
          [c EXCEPT !.leases = @ \cup {l}] \in Session /\ Taken(c, l) \in Session
    BY SessionFields
  <2>4. session[call[o].session] \in Session
    BY <1>0, <2>1
  <2>5. session' \in [Sessions -> Session]
    <3>1. CASE AddLease(o)
      BY <1>0, <2>1, <2>2, <2>3, <2>4, <3>1 DEF AddLease, SetSession
    <3>2. CASE TakeLease(o)
      <4>1. \A l \in session[call[o].session].leases : l \in Leases
        BY <2>4 DEF Session
      <4>2. call[o].lease \in session[call[o].session].leases =>
              Taken(session[call[o].session], call[o].lease) \in Session
        BY <2>3, <2>4, <4>1
      <4> QED BY <1>a, <2>1, <3>2, <4>2 DEF TakeLease, SetSession
    <3> QED BY <1>15, <3>1, <3>2
  <2> QED BY <1>0, <1>15, <2>5 DEF AddLease, TakeLease, Goto, Call
<1>16. ASSUME NEW r \in Resolved, RuntimeEnds(r)
       PROVE  TypeOK'
  BY <1>0, <1>16 DEF RuntimeEnds
<1>17. ASSUME NEW s \in Sessions, NEW l \in Leases, ReleaseDetached(s, l)
       PROVE  TypeOK'
  BY <1>0, <1>17 DEF ReleaseDetached, agentVars
<1>18. CASE UNCHANGED vars
  BY <1>0, <1>18 DEF vars, agentVars
<1> QED
  BY <1>1, <1>2, <1>3, <1>4, <1>5, <1>6, <1>7, <1>8, <1>9, <1>10, <1>11, <1>12, <1>13, <1>14,
    <1>15, <1>16, <1>17, <1>18, <1>22 DEF Next, ClientStep, SessionStep, CallStep, StopStep

----------------------------------------
(* The end of the transport.                                               *)

\* Sessions and RPCs that are not over are none once the transport is drained.
LEMMA TransportFrame ==
    ASSUME AgentInv, closing' = closing, transport' = transport,
           stop'.step = stop.step,
           transport = "drained" =>
                /\ \A s \in Sessions : session'[s].step = session[s].step
                /\ \A o \in Calls : call'[o].step = call[o].step
    PROVE  TransportEnds'
  BY DEF AgentInv, TransportEnds, ServeReturned

\* Every step of the agent keeps the registry open until the transport has stopped.
LEMMA NextTransportEnds ==
  ASSUME AgentInv, [Next]_vars PROVE TransportEnds'
<1>0. /\ session \in [Sessions -> Session] /\ call \in [Calls -> Call]
      /\ TransportEnds
  BY DEF AgentInv, TypeOK
<1>1. ASSUME transport = "drained"
      PROVE  /\ \A s \in Sessions : session[s].step \in {"unused", "gone"}
             /\ \A o \in Calls : call[o].step \in {"unused", "done"}
  BY <1>0, <1>1 DEF TransportEnds
<1>2. ASSUME NEW s \in Sessions,
             \/ RegisterSession(s) \/ OpenSession(s) \/ SessionEnds(s)
             \/ CloseSession(s) \/ UnregisterSession(s)
      PROVE  TransportEnds'
  <2>1. transport # "drained" /\ UNCHANGED <<transport, closing, stop>>
    BY <1>1, <1>2 DEF RegisterSession, OpenSession, SessionEnds, CloseSession, UnregisterSession,
      leaseVars
  <2> QED BY <2>1, TransportFrame
<1>3. ASSUME NEW s \in Sessions, Acknowledge(s)
      PROVE  TransportEnds'
  <2>1. transport # "drained" /\ UNCHANGED <<transport, closing, stop>>
    BY <1>1, <1>3 DEF Acknowledge, leaseVars
  <2> QED BY <2>1, TransportFrame
<1>4. ASSUME NEW s \in Sessions, NEW sent \in BOOLEAN, RequestStopping(s, sent)
      PROVE  TransportEnds'
  <2>1. /\ UNCHANGED <<transport, closing, stop, call>>
        /\ \A t \in Sessions : session'[t].step = session[t].step
    BY <1>0, <1>4 DEF RequestStopping, SetSession, Session, leaseVars
  <2> QED BY <2>1, TransportFrame
<1>5. ASSUME NEW s \in Sessions, NEW l \in Leases, ReleaseDetached(s, l)
      PROVE  TransportEnds'
  BY <1>5, TransportFrame DEF ReleaseDetached, Release, NotifyReleased, agentVars
<1>6. ASSUME NEW o \in Calls,
             \/ \E s \in Sessions : BeginAcquire(o, s)
             \/ \E s \in Sessions, l \in Leases : BeginRelease(o, s, l)
             \/ \E s \in Sessions, l \in Leases : BeginStream(o, s, l)
      PROVE  TransportEnds'
  <2>1. transport # "drained" /\ UNCHANGED <<transport, closing, stop>>
    BY <1>6 DEF BeginAcquire, BeginRelease, BeginStream, Begin, leaseVars
  <2> QED BY <2>1, TransportFrame
<1>7. ASSUME NEW o \in Calls,
             \/ AcquireFails(o) \/ AddLease(o) \/ TakeLease(o) \/ CheckLease(o)
             \/ StreamBegins(o) \/ OpenResource(o) \/ HandlerOpens(o) \/ HandlerFails(o)
             \/ CheckAgain(o) \/ Ready(o) \/ FinishStream(o) \/ StreamEnds(o)
      PROVE  TransportEnds'
  <2>1. transport # "drained"
    BY <1>1, <1>7 DEF AcquireFails, AddLease, TakeLease, CheckLease, StreamBegins, OpenResource,
      HandlerOpens, HandlerFails, CheckAgain, Ready, FinishStream, StreamEnds
  <2>2. UNCHANGED <<transport, closing, stop>>
    BY <1>7 DEF AcquireFails, AddLease, TakeLease, CheckLease, StreamBegins, OpenResource,
      HandlerOpens, HandlerFails, CheckAgain, Ready, FinishStream, StreamEnds, leaseVars
  <2> QED BY <2>1, <2>2, TransportFrame
<1>8. ASSUME NEW o \in Calls,
             \/ \E l \in Leases, r \in Resolved : Acquire(o, l, r)
             \/ Acquired(o) \/ ReleaseLease(o)
      PROVE  TransportEnds'
  <2>1. transport # "drained"
    BY <1>1, <1>8 DEF Acquire, Acquired, ReleaseLease
  <2>2. UNCHANGED <<transport, closing, stop>>
    BY <1>8 DEF Acquire, AcquireResource, Acquired, NotifyAcquired, ReleaseLease, Release,
      NotifyReleased, leaseVars
  <2> QED BY <2>1, <2>2, TransportFrame
<1>9. CASE IdleStep
  <2>1. /\ UNCHANGED <<transport, closing, session, call>> /\ stop'.step = stop.step
    BY <1>9 DEF IdleStep, StartupExpires, IdleCheck, IdleLeases, IdleRuntimes, IdleDecide,
      leaseVars, AgentInv, TypeOK
  <2> QED BY <2>1, TransportFrame
<1>10. CASE StopAsked \/ GraceExpires
  <2>1. /\ UNCHANGED <<transport, closing, session, call>> /\ stop'.step = stop.step
    BY <1>10 DEF StopAsked, GraceExpires, leaseVars, AgentInv, TypeOK
  <2> QED BY <2>1, TransportFrame
<1>11. CASE \/ \E by \in {"idle", "request"} : BeginShutdown(by)
            \/ CancelSessions
  <2>1. stop.step # "draining" /\ closing' = closing
    BY <1>11 DEF BeginShutdown, CancelSessions, leaseVars
  <2>2. transport = "serving" /\ ~closing
    BY <1>0, <2>1 DEF TransportEnds, ServeReturned
  <2>3. \/ transport' = "serving"
        \/ transport' = "draining" /\ stop'.step = "draining"
    BY <1>11, <2>2 DEF BeginShutdown, CancelSessions, AgentInv, TypeOK
  <2> QED BY <2>1, <2>2, <2>3 DEF TransportEnds, ServeReturned
<1>12. CASE Drained \/ TransportCut
  BY <1>0, <1>12 DEF Drained, TransportCut, TransportEnds, ServeReturned, leaseVars
<1>13. CASE ShutdownResources
  BY <1>0, <1>13 DEF ShutdownResources, TransportEnds, ServeReturned, agentVars
<1>14. CASE UNCHANGED vars \/ \E r \in Resolved : RuntimeEnds(r)
  BY <1>14, TransportFrame DEF vars, leaseVars, agentVars, RuntimeEnds
<1> QED
  BY <1>2, <1>3, <1>4, <1>5, <1>6, <1>7, <1>8, <1>9, <1>10, <1>11, <1>12, <1>13, <1>14 DEF Next,
    ClientStep, SessionStep, CallStep, StopStep

----------------------------------------
(* The streams.                                                            *)

\* An RPC other than StreamBegins and FinishStream neither starts nor ends a stream.
LEMMA StreamsFrame ==
  ASSUME AgentInv, server'.streams = server.streams,
         \A o \in Calls : Streaming(o)' <=> Streaming(o)
  PROVE  StreamsCounted' /\ Streams' = Streams
<1>1. Streams' = Streams
  BY DEF Streams
<1> HIDE DEF Streams
<1> QED BY <1>1 DEF StreamsCounted, AgentInv

LEMMA StreamsMove ==
  ASSUME AgentInv, NEW o \in Calls, \A p \in Calls : p # o => call'[p] = call[p],
         \/ /\ ~Streaming(o) /\ Streaming(o)'
            /\ server'.streams = server.streams + 1
         \/ /\ Streaming(o) /\ ~Streaming(o)'
            /\ server'.streams = server.streams - 1
  PROVE  StreamsCounted'
<1>0. IsFiniteSet(Streams) /\ server.streams = Cardinality(Streams)
  BY DEF AgentInv, StreamsCounted
<1>1. CASE ~Streaming(o) /\ Streaming(o)' /\ server'.streams = server.streams + 1
  <2>1. Streams' = Streams \cup {o} /\ o \notin Streams
    BY <1>1 DEF Streams, Streaming
  <2> HIDE DEF Streams
  <2> QED BY <1>0, <1>1, <2>1, FS_AddElement DEF StreamsCounted
<1>2. CASE Streaming(o) /\ ~Streaming(o)' /\ server'.streams = server.streams - 1
  <2>1. Streams' = Streams \ {o} /\ o \in Streams
    BY <1>2 DEF Streams, Streaming
  <2> HIDE DEF Streams
  <2> QED BY <1>0, <1>2, <2>1, FS_RemoveElement DEF StreamsCounted
<1> QED BY <1>1, <1>2

\* Every step of the agent counts its streams.
LEMMA NextStreamsCounted ==
  ASSUME AgentInv, [Next]_vars PROVE StreamsCounted'
<1>0. call \in [Calls -> Call] /\ server \in Server
  BY DEF AgentInv, TypeOK, Server
<1>1. ASSUME NEW o \in Calls, StreamBegins(o)
      PROVE  StreamsCounted'
  <2>1. /\ ~Streaming(o) /\ Streaming(o)'
        /\ \A p \in Calls : p # o => call'[p] = call[p]
    BY <1>0, <1>1 DEF StreamBegins, Goto, Streaming, Call
  <2>2. server'.streams = server.streams + 1
    BY <1>0, <1>1 DEF StreamBegins, Started, Active, Server
  <2> QED BY <2>1, <2>2, StreamsMove
<1>2. ASSUME NEW o \in Calls, FinishStream(o)
      PROVE  StreamsCounted'
  <2>1. /\ Streaming(o) /\ ~Streaming(o)'
        /\ \A p \in Calls : p # o => call'[p] = call[p]
    BY <1>0, <1>2 DEF FinishStream, Goto, Streaming, Call
  <2>2. server'.streams = server.streams - 1
    BY <1>0, <1>2 DEF FinishStream, Active, Server
  <2> QED BY <2>1, <2>2, StreamsMove
<1>3. ASSUME NEW o \in Calls,
             \/ \E s \in Sessions : BeginAcquire(o, s)
             \/ \E s \in Sessions, l \in Leases : BeginRelease(o, s, l)
             \/ \E s \in Sessions, l \in Leases : BeginStream(o, s, l)
             \/ \E l \in Leases, r \in Resolved : Acquire(o, l, r)
      PROVE  StreamsCounted'
  <2>1. server' = server /\ \A p \in Calls : Streaming(p)' <=> Streaming(p)
    BY <1>0, <1>3 DEF BeginAcquire, BeginRelease, BeginStream, Begin, Acquire, Streaming, Call
  <2> QED BY <2>1, StreamsFrame
<1>4. ASSUME NEW o \in Calls,
             \/ AcquireFails(o) \/ Acquired(o) \/ AddLease(o) \/ TakeLease(o)
             \/ ReleaseLease(o) \/ CheckLease(o)
      PROVE  StreamsCounted'
  <2>1. server' = server /\ \A p \in Calls : Streaming(p)' <=> Streaming(p)
    BY <1>0, <1>4 DEF AcquireFails, Acquired, AddLease, TakeLease, ReleaseLease, CheckLease, Goto,
      Streaming, Call
  <2> QED BY <2>1, StreamsFrame
<1>5. ASSUME NEW o \in Calls,
             \/ OpenResource(o) \/ HandlerOpens(o) \/ HandlerFails(o) \/ CheckAgain(o)
             \/ Ready(o) \/ StreamEnds(o)
      PROVE  StreamsCounted'
  <2>1. server' = server /\ \A p \in Calls : Streaming(p)' <=> Streaming(p)
    BY <1>0, <1>5 DEF OpenResource, HandlerOpens, HandlerFails, CheckAgain, Ready, StreamEnds,
      Goto, Streaming, Call
  <2> QED BY <2>1, StreamsFrame
<1>6. ASSUME server'.streams = server.streams, call' = call
      PROVE  StreamsCounted'
  BY <1>6, StreamsFrame DEF Streaming
<1>7. ASSUME NEW s \in Sessions,
             \/ RegisterSession(s) \/ OpenSession(s) \/ SessionEnds(s)
             \/ CloseSession(s) \/ UnregisterSession(s) \/ Acknowledge(s)
             \/ \E l \in Leases : ReleaseDetached(s, l)
             \/ \E sent \in BOOLEAN : RequestStopping(s, sent)
      PROVE  StreamsCounted'
  <2>1. server'.streams = server.streams /\ call' = call
    BY <1>0, <1>7 DEF RegisterSession, OpenSession, SessionEnds, CloseSession, UnregisterSession,
      Acknowledge, ReleaseDetached, RequestStopping, agentVars, Active, Server
  <2> QED BY <1>6, <2>1
<1>8. CASE IdleStep \/ StopAsked \/ GraceExpires \/ CancelSessions \/ Drained \/ TransportCut
           \/ ShutdownResources \/ UNCHANGED vars \/ \E r \in Resolved : RuntimeEnds(r)
  BY <1>6, <1>8 DEF IdleStep, StartupExpires, IdleCheck, IdleLeases, IdleRuntimes, IdleDecide,
    StopAsked, GraceExpires, CancelSessions, Drained, TransportCut, ShutdownResources,
    RuntimeEnds, vars, agentVars
<1>9. CASE \E by \in {"idle", "request"} : BeginShutdown(by)
  <2>1. server'.streams = server.streams /\ call' = call
    BY <1>0, <1>9 DEF BeginShutdown, Server
  <2> QED BY <1>6, <2>1
<1> QED
  BY <1>1, <1>2, <1>3, <1>4, <1>5, <1>7, <1>8, <1>9 DEF Next, ClientStep, SessionStep, CallStep,
    StopStep

----------------------------------------
(* The idle check.                                                         *)

\* The goroutine of the idle check is between its two checks, and nothing
\* happened since the first one.
Quiet == idle.step \in {"leases", "runtimes", "deciding"} /\ QuietSince

\* RPC o is about to give lease l back or to a session.
Pending(o, l) == InHand(o, l) /\ call[o].step # "releasing"

\* A step of another actor that counts as activity.
LEMMA IdleBumps ==
  ASSUME AgentInv, idle' = idle, server'.version = server.version + 1
  PROVE  IdleSees'
<1>1. idle.version \in Nat /\ server.version \in Nat /\ idle.version <= server.version
  BY DEF AgentInv, TypeOK, IdleSees
<1> QED BY <1>1 DEF IdleSees, QuietSince

\* A step of another actor that brings nothing to life that the check saw gone.
LEMMA IdleFrame ==
  ASSUME AgentInv, idle' = idle, server'.version = server.version,
         Quiet => /\ \A s \in Sessions : ~Registered(s) => ~Registered(s)'
                  /\ \A o \in Calls : ~Streaming(o) => ~Streaming(o)'
                  /\ warm' \subseteq warm
                  /\ \A l \in Leases : Live(l)' => \/ \E o \in Calls : Pending(o, l)'
                                                   \/ Live(l) /\ \A o \in Calls : ~Pending(o, l)
  PROVE  IdleSees'
<1>1. IdleSees
  BY DEF AgentInv
<1>2. idle'.version <= server'.version
  BY <1>1 DEF IdleSees
<1>3. Quiet' <=> Quiet
  BY DEF Quiet, QuietSince
<1>4. ASSUME Quiet
      PROVE  /\ \A s \in Sessions : ~Registered(s)'
             /\ \A o \in Calls : ~Streaming(o)'
             /\ idle.step # "leases" /\ ~idle.busy =>
                   \A l \in Leases : Live(l)' => \E o \in Calls : Pending(o, l)'
             /\ idle.step = "deciding" /\ ~idle.busy => warm' = {}
  <2>1. \A s \in Sessions : ~Registered(s)'
    BY <1>1, <1>4 DEF IdleSees, Quiet
  <2>2. \A o \in Calls : ~Streaming(o)'
    BY <1>1, <1>4 DEF IdleSees, Quiet
  <2>3. ASSUME idle.step # "leases", ~idle.busy, NEW l \in Leases, Live(l)'
        PROVE  \E o \in Calls : Pending(o, l)'
    <3>1. Live(l) => \E o \in Calls : Pending(o, l)
      BY <1>1, <1>4, <2>3 DEF IdleSees, Quiet, Pending
    <3> QED BY <1>4, <2>3, <3>1
  <2>4. idle.step = "deciding" /\ ~idle.busy => warm' = {}
    BY <1>1, <1>4 DEF IdleSees, Quiet
  <2> QED BY <2>1, <2>2, <2>3, <2>4
<1> QED BY <1>2, <1>3, <1>4 DEF IdleSees, Quiet, Pending

\* When the check saw no session and no stream, there is none while it is quiet.
LEMMA QuietFacts ==
  ASSUME AgentInv, Quiet
  PROVE  /\ \A s \in Sessions : session[s].step \in {"unused", "gone"}
         /\ \A s \in Sessions : session[s].leases = {}
         /\ \A o \in Calls : ~Streaming(o)
         /\ \A o \in Calls : call[o].step # "unused" => Closed(call[o].session)
<1>1. /\ \A s \in Sessions : ~Registered(s)
      /\ \A o \in Calls : ~Streaming(o)
  BY DEF AgentInv, IdleSees, Quiet
<1>2. \A s \in Sessions : session[s].step \in {"unused", "gone"}
  BY <1>1 DEF AgentInv, TypeOK, Session, Registered
<1>3. \A s \in Sessions : session[s].leases = {}
  BY <1>2 DEF AgentInv, SessionsKeep, Closed
<1>4. \A o \in Calls : call[o].step # "unused" => Closed(call[o].session)
  BY <1>2 DEF AgentInv, CallsAreNamed, Closed
<1> QED BY <1>1, <1>2, <1>3, <1>4

\* A registry step, or none, under an RPC that keeps its lease in hand.
LEMMA IdleLeasesFrame ==
  ASSUME AgentInv, UNCHANGED <<idle, server, session, warm>>,
         \A o \in Calls : ~Streaming(o) => ~Streaming(o)',
         \A l \in Leases : Live(l)' => \/ Live(l)
                                       \/ \E o \in Calls : Pending(o, l)',
         \A l \in Leases, o \in Calls : Pending(o, l) => Pending(o, l)' \/ ~Live(l)'
  PROVE  IdleSees'
<1>1. \A l \in Leases : Live(l)' => \/ \E o \in Calls : Pending(o, l)'
                                    \/ Live(l) /\ \A o \in Calls : ~Pending(o, l)
  OBVIOUS
<1>2. \A s \in Sessions : ~Registered(s) => ~Registered(s)'
  BY DEF Registered
<1> QED BY <1>1, <1>2, IdleFrame

\* Releasing a lease, or notifying the handlers, makes no lease live.
LEMMA LivesShrink ==
  ASSUME AgentInv, NEW l \in Leases,
         NotifyAcquired(l) \/ Release(l) \/ NotifyReleased(l) \/ Shutdown
  PROVE  /\ \A m \in Leases : Live(m)' => Live(m)
         /\ Release(l) => ~Live(l)'
         /\ Shutdown => \A m \in Leases : ~Live(m)'
<1>0. lease \in [Leases -> Lease]
  BY DEF AgentInv, TypeOK, LeaseTypeOK
<1>1. CASE NotifyAcquired(l) \/ NotifyReleased(l)
  <2>1. /\ \A m \in Leases : /\ lease'[m].closed = lease[m].closed
                             /\ lease[m].step = "unused" => lease'[m].step = "unused"
        /\ lease[l].step # "unused"
        /\ lease' = [lease EXCEPT ![l].step = lease'[l].step]
    BY <1>0, <1>1 DEF NotifyAcquired, NotifyReleased, Lease
  <2>2. ~Shutdown
    BY <1>0, <1>1 DEF Shutdown, NotifyAcquired, NotifyReleased, Lease
  <2>3. ~Release(l)
    BY <1>0, <1>1 DEF Release, NotifyAcquired, NotifyReleased, Lease
  <2> QED BY <1>1, <2>1, <2>2, <2>3 DEF Live, Issued
<1>2. CASE Release(l)
  <2>1. /\ \A m \in Leases : m # l => lease'[m] = lease[m]
        /\ lease'[l].closed
    BY <1>0, <1>2 DEF Release, Lease
  <2>2. ~Shutdown
    BY <1>0, <1>2 DEF Shutdown, Release, AgentInv, TypeOK, LeaseTypeOK
  <2> QED BY <2>1, <2>2 DEF Live, Issued
<1>3. CASE Shutdown
  <2>1. \A m \in Leases : lease'[m].closed \/ lease'[m].step = "unused"
    BY <1>0, <1>3 DEF Shutdown, Lease
  <2> QED BY <2>1 DEF Live, Issued
<1> QED BY <1>1, <1>2, <1>3

\* Every step of the agent keeps what its idle check saw.
LEMMA NextIdleSees ==
  ASSUME AgentInv, [Next]_vars PROVE IdleSees'
<1>0. /\ session \in [Sessions -> Session] /\ call \in [Calls -> Call]
      /\ server \in Server /\ idle.version \in Nat
      /\ idle \in [step : {"waiting", "leases", "runtimes", "deciding", "decided"},
                   version : Nat, busy : BOOLEAN, expired : BOOLEAN]
      /\ lease \in [Leases -> Lease]
      /\ IdleSees
  BY DEF AgentInv, TypeOK, LeaseTypeOK, Server
<1>1. \A v \in Server : Active(v).version = v.version + 1 /\ Started(v).version = v.version + 1
  BY DEF Active, Started, Server
<1>2. ASSUME NEW s \in Sessions, RegisterSession(s)
      PROVE  IdleSees'
  <2>1. CASE Accepts
    <3>1. [server EXCEPT !.observed = TRUE] \in Server
      BY <1>0 DEF Server
    <3>2. [server EXCEPT !.observed = TRUE].version = server.version
      BY <1>0 DEF Server
    <3>3. idle' = idle /\ server'.version = server.version + 1
      BY <1>1, <1>2, <2>1, <3>1, <3>2 DEF RegisterSession
    <3> QED BY <3>3, IdleBumps
  <2>2. CASE ~Accepts
    <3>1. UNCHANGED <<leaseVars, server, call, idle, warm>>
      BY <1>2, <2>2 DEF RegisterSession
    <3>2. \A t \in Sessions : ~Registered(t) => ~Registered(t)'
      BY <1>0, <1>2, <2>2 DEF RegisterSession, SetSession, Registered, Session
    <3> QED BY <3>1, <3>2, IdleFrame DEF leaseVars, Live, Issued, Pending, InHand, Streaming
  <2> QED BY <2>1, <2>2
<1>3. ASSUME NEW s \in Sessions,
             \/ OpenSession(s) \/ SessionEnds(s) \/ Acknowledge(s) \/ CloseSession(s)
             \/ \E sent \in BOOLEAN : RequestStopping(s, sent)
      PROVE  IdleSees'
  <2>1. UNCHANGED <<leaseVars, server, call, idle, warm>>
    BY <1>3 DEF OpenSession, SessionEnds, Acknowledge, CloseSession, RequestStopping
  <2>2. \A t \in Sessions : ~Registered(t) => ~Registered(t)'
    BY <1>0, <1>3 DEF OpenSession, SessionEnds, Acknowledge, CloseSession, RequestStopping,
      SetSession, Registered, Session
  <2> QED BY <2>1, <2>2, IdleFrame DEF leaseVars, Live, Issued, Pending, InHand, Streaming
<1>4. ASSUME NEW s \in Sessions, UnregisterSession(s)
      PROVE  IdleSees'
  BY <1>0, <1>1, <1>4, IdleBumps DEF UnregisterSession
<1>5. ASSUME NEW s \in Sessions, NEW l \in Leases, ReleaseDetached(s, l)
      PROVE  IdleSees'
  <2>1. /\ UNCHANGED <<server, call, idle, warm, session>>
        /\ Release(l) \/ NotifyReleased(l)
    BY <1>5 DEF ReleaseDetached, agentVars
  <2>2. \A m \in Leases : Live(m)' => Live(m)
    BY <2>1, LivesShrink
  <2> QED BY <2>1, <2>2, IdleLeasesFrame DEF Pending, InHand, Streaming
<1>6. ASSUME NEW o \in Calls, NEW l \in Leases, NEW r \in Resolved, Acquire(o, l, r)
      PROVE  IdleSees'
  <2>1. /\ UNCHANGED <<server, idle, warm, session>>
        /\ \A m \in Leases : m # l => lease'[m] = lease[m]
        /\ \A p \in Calls : p # o => call'[p] = call[p]
        /\ call[o].step = "resolving"
        /\ call'[o].step = "registered" /\ call'[o].lease = l
    BY <1>0, <1>6 DEF Acquire, AcquireResource, Call
  <2>2. \A m \in Leases : Live(m)' => Live(m) \/ \E p \in Calls : Pending(p, m)'
    BY <2>1 DEF Live, Issued, Pending, InHand, OwningSteps
  <2>3. \A m \in Leases, p \in Calls : Pending(p, m) => Pending(p, m)'
    BY <2>1 DEF Pending, InHand, OwningSteps
  <2>4. \A p \in Calls : ~Streaming(p) => ~Streaming(p)'
    BY <2>1 DEF Streaming
  <2> QED BY <2>1, <2>2, <2>3, <2>4, IdleLeasesFrame
<1>7. ASSUME NEW o \in Calls, Acquired(o)
      PROVE  IdleSees'
  <2>1. /\ UNCHANGED <<server, idle, warm, session>>
        /\ \A p \in Calls : p # o => call'[p] = call[p]
        /\ call[o].step = "registered" /\ call'[o].step = "adding"
        /\ call'[o].lease = call[o].lease
    BY <1>0, <1>7 DEF Acquired, Goto, Call
  <2>2. \A m \in Leases : Live(m)' => Live(m)
    <3>1. call[o].lease \in Leases /\ NotifyAcquired(call[o].lease)
      BY <1>7 DEF Acquired, AgentInv, CallsAreNamed, NamingSteps, OwningSteps
    <3> QED BY <3>1, LivesShrink
  <2>3. \A m \in Leases, p \in Calls : Pending(p, m) => Pending(p, m)'
    BY <2>1 DEF Pending, InHand, OwningSteps
  <2>4. \A p \in Calls : ~Streaming(p) => ~Streaming(p)'
    BY <2>1 DEF Streaming
  <2> QED BY <2>1, <2>2, <2>3, <2>4, IdleLeasesFrame
<1>8. ASSUME NEW o \in Calls, AddLease(o)
      PROVE  IdleSees'
  <2>1. /\ UNCHANGED <<leaseVars, server, idle, warm>>
        /\ \A p \in Calls : p # o => call'[p] = call[p]
        /\ call[o].step = "adding" /\ call'[o].lease = call[o].lease
        /\ call'[o].step \in {"undo", "done"}
    BY <1>0, <1>8 DEF AddLease, Goto, Call
  <2>2. ASSUME Quiet
        PROVE  call'[o].step = "undo" /\ session' = session
    <3>1. Closed(call[o].session)
      BY <2>1, <2>2, QuietFacts
    <3> QED BY <1>0, <1>8, <3>1 DEF AddLease, Retains, Goto, Call
  <2>3. \A p \in Calls : ~Streaming(p) => ~Streaming(p)'
    BY <2>1 DEF Streaming
  <2>4. Quiet => \A m \in Leases, p \in Calls : Pending(p, m) => Pending(p, m)'
    BY <2>1, <2>2 DEF Pending, InHand, OwningSteps
  <2>5. \A m \in Leases : Live(m)' <=> Live(m)
    BY <2>1 DEF Live, Issued, leaseVars
  <2>6. Quiet => \A t \in Sessions : ~Registered(t) => ~Registered(t)'
    BY <2>2 DEF Registered
  <2>7. Quiet => \A m \in Leases : Live(m)' => \/ \E p \in Calls : Pending(p, m)'
                                               \/ Live(m) /\ \A p \in Calls : ~Pending(p, m)
    BY <2>4, <2>5
  <2> QED BY <2>1, <2>3, <2>6, <2>7, IdleFrame
<1>9. ASSUME NEW o \in Calls, TakeLease(o)
      PROVE  IdleSees'
  <2>1. /\ UNCHANGED <<leaseVars, server, idle, warm>>
        /\ \A p \in Calls : p # o => call'[p] = call[p]
        /\ call[o].step = "taking" /\ call'[o].step \in {"releasing", "done"}
    BY <1>0, <1>9 DEF TakeLease, Goto, Call
  <2>2. ASSUME Quiet
        PROVE  session' = session
    <3>1. session[call[o].session].leases = {}
      BY <2>1, <2>2, QuietFacts DEF AgentInv, CallsAreNamed
    <3> QED BY <1>9, <3>1 DEF TakeLease
  <2>3. \A p \in Calls : ~Streaming(p) => ~Streaming(p)'
    BY <2>1 DEF Streaming
  <2>4. \A m \in Leases, p \in Calls : Pending(p, m) => Pending(p, m)'
    BY <2>1 DEF Pending, InHand, OwningSteps
  <2>5. \A m \in Leases : Live(m)' <=> Live(m)
    BY <2>1 DEF Live, Issued, leaseVars
  <2>6. Quiet => \A t \in Sessions : ~Registered(t) => ~Registered(t)'
    BY <2>2 DEF Registered
  <2>7. \A m \in Leases : Live(m)' => \/ \E p \in Calls : Pending(p, m)'
                                      \/ Live(m) /\ \A p \in Calls : ~Pending(p, m)
    BY <2>4, <2>5
  <2> QED BY <2>1, <2>3, <2>6, <2>7, IdleFrame
<1>10. ASSUME NEW o \in Calls, ReleaseLease(o)
       PROVE  IdleSees'
  <2> DEFINE l == call[o].lease
  <2>1. /\ UNCHANGED <<server, idle, warm, session>> /\ l \in Leases
        /\ \A p \in Calls : p # o => call'[p] = call[p]
        /\ call[o].step \in {"undo", "releasing"}
        /\ \/ call' = call /\ Release(l)
           \/ call' = call /\ NotifyReleased(l)
           \/ call'[o].step = "done" /\ lease' = lease /\ lease[l].step = "released"
    BY <1>0, <1>10 DEF ReleaseLease, Goto, Call, leaseVars, AgentInv, CallsAreNamed, NamingSteps,
      OwningSteps
  <2>2. \A m \in Leases : Live(m)' => Live(m)
    <3>1. CASE lease' = lease
      BY <3>1 DEF Live, Issued
    <3>2. CASE Release(l) \/ NotifyReleased(l)
      <4> HIDE DEF l
      <4> QED BY <2>1, <3>2, LivesShrink
    <3> QED BY <2>1, <3>1, <3>2
  <2>3. \A m \in Leases, p \in Calls : Pending(p, m) => Pending(p, m)' \/ ~Live(m)'
    <3>1. CASE call' = call
      BY <3>1 DEF Pending, InHand
    <3>2. CASE call'[o].step = "done" /\ lease' = lease /\ lease[l].step = "released"
      <4>1. \A m \in Leases : m = l => ~Live(m)'
        BY <2>1, <3>2 DEF Live, Issued, AgentInv, IInv, LivesOK
      <4> QED BY <2>1, <3>2, <4>1 DEF Pending, InHand
    <3> QED BY <2>1, <3>1, <3>2
  <2>4. \A p \in Calls : ~Streaming(p) => ~Streaming(p)'
    BY <2>1 DEF Streaming
  <2> QED BY <2>1, <2>2, <2>3, <2>4, IdleLeasesFrame
<1>11. ASSUME NEW o \in Calls, StreamBegins(o)
       PROVE  IdleSees'
  BY <1>0, <1>1, <1>11, IdleBumps DEF StreamBegins
<1>12. ASSUME NEW o \in Calls,
             \/ OpenResource(o) \/ HandlerOpens(o) \/ HandlerFails(o) \/ CheckAgain(o)
             \/ Ready(o) \/ StreamEnds(o)
       PROVE  IdleSees'
  <2>1. idle' = idle /\ server' = server
    BY <1>12 DEF OpenResource, HandlerOpens, HandlerFails, CheckAgain, Ready, StreamEnds
  <2>2. ~Quiet
    <3>1. Streaming(o)
      BY <1>12 DEF OpenResource, HandlerOpens, HandlerFails, CheckAgain, Ready, StreamEnds,
        Streaming
    <3> QED BY <3>1, QuietFacts
  <2> QED BY <2>1, <2>2, IdleFrame
<1>13. ASSUME NEW o \in Calls, FinishStream(o)
       PROVE  IdleSees'
  <2>1. [server EXCEPT !.streams = @ - 1] \in Server
    BY <1>0, <1>13, StreamsPositive, ServerFields DEF FinishStream, Streaming, Server
  <2>2. [server EXCEPT !.streams = @ - 1].version = server.version
    BY <1>0 DEF Server
  <2> QED BY <1>1, <1>13, <2>1, <2>2, IdleBumps DEF FinishStream
<1>14. ASSUME NEW o \in Calls,
             \/ \E s \in Sessions : BeginAcquire(o, s)
             \/ \E s \in Sessions, l \in Leases : BeginRelease(o, s, l)
             \/ \E s \in Sessions, l \in Leases : BeginStream(o, s, l)
             \/ AcquireFails(o) \/ CheckLease(o)
       PROVE  IdleSees'
  <2>1. /\ UNCHANGED <<leaseVars, server, idle, warm, session>>
        /\ \A p \in Calls : p # o => call'[p] = call[p]
        /\ call[o].step \in {"unused", "resolving", "checking"}
        /\ call'[o].step \in {"resolving", "taking", "checking", "beginning", "done"}
    BY <1>0, <1>14 DEF BeginAcquire, BeginRelease, BeginStream, Begin, AcquireFails, CheckLease,
      Goto, Call
  <2>2. \A m \in Leases : Live(m)' <=> Live(m)
    BY <2>1 DEF Live, Issued, leaseVars
  <2>3. \A m \in Leases, p \in Calls : Pending(p, m) => Pending(p, m)'
    BY <2>1 DEF Pending, InHand, OwningSteps
  <2>4. \A p \in Calls : ~Streaming(p) => ~Streaming(p)'
    BY <2>1 DEF Streaming
  <2> QED BY <2>1, <2>2, <2>3, <2>4, IdleLeasesFrame
<1>15. ASSUME NEW r \in Resolved, RuntimeEnds(r)
       PROVE  IdleSees'
  BY <1>15, IdleFrame DEF RuntimeEnds, leaseVars, Live, Issued, Pending, InHand, Streaming,
    Registered
<1>16. CASE StartupExpires
  <2>1. /\ UNCHANGED <<leaseVars, server, session, call, warm>>
        /\ idle'.step = idle.step /\ idle'.version = idle.version
        /\ idle'.busy = idle.busy
    BY <1>0, <1>16 DEF StartupExpires
  <2> QED BY <1>0, <2>1 DEF IdleSees, QuietSince, Registered, Streaming, Live, Issued, InHand,
    leaseVars
<1>17. CASE IdleCheck
  <2>1. /\ UNCHANGED <<leaseVars, server, session, call, warm>>
        /\ idle'.step = "leases" /\ idle'.version = server.version
        /\ Deserted
    BY <1>0, <1>17 DEF IdleCheck
  <2>2. Streams = {}
    BY <2>1, FS_EmptySet DEF Deserted, AgentInv, StreamsCounted
  <2>3. /\ \A s \in Sessions : ~Registered(s)'
        /\ \A o \in Calls : ~Streaming(o)'
    BY <2>1, <2>2 DEF Deserted, Streams, Registered, Streaming
  <2> QED BY <1>0, <2>1, <2>3 DEF IdleSees, Server
<1>18. CASE IdleLeases
  <2>1. /\ UNCHANGED <<leaseVars, server, session, call, warm>>
        /\ idle.step = "leases" /\ idle'.step = "runtimes" /\ idle'.version = idle.version
        /\ idle'.busy <=> \E l \in Leases : Live(l)
    BY <1>0, <1>18 DEF IdleLeases
  <2> QED BY <1>0, <2>1 DEF IdleSees, QuietSince, Registered, Streaming, Live, Issued, leaseVars
<1>19. CASE IdleRuntimes
  <2>1. /\ UNCHANGED <<leaseVars, server, session, call, warm>>
        /\ idle.step = "runtimes" /\ idle'.step = "deciding"
        /\ idle'.version = idle.version
        /\ ~idle'.busy => ~idle.busy /\ warm = {}
    BY <1>0, <1>19 DEF IdleRuntimes
  <2> QED BY <1>0, <2>1 DEF IdleSees, QuietSince, Registered, Streaming, Live, Issued, InHand,
    leaseVars
<1>20. CASE IdleDecide
  <2>1. /\ server' = server /\ idle'.step \in {"decided", "waiting"}
        /\ idle'.version = idle.version \/ idle'.version = 0
    BY <1>0, <1>20 DEF IdleDecide
  <2> QED BY <1>0, <2>1 DEF IdleSees, Server
<1>21. CASE \/ \E by \in {"idle", "request"} : BeginShutdown(by)
            \/ StopAsked \/ GraceExpires \/ Drained \/ TransportCut \/ CancelSessions
  <2>1. /\ UNCHANGED <<leaseVars, call, idle, warm>>
        /\ server'.version = server.version
        /\ \A s \in Sessions : session'[s].step = session[s].step
    BY <1>0, <1>21 DEF BeginShutdown, StopAsked, GraceExpires, Drained, TransportCut,
      CancelSessions, Server, Session
  <2> QED BY <2>1, IdleFrame DEF leaseVars, Live, Issued, Pending, InHand, Streaming, Registered
<1>22. CASE ShutdownResources
  <2>1. UNCHANGED <<server, call, idle, warm, session>> /\ Shutdown
    BY <1>22 DEF ShutdownResources, agentVars
  <2>2. \A m \in Leases : ~Live(m)'
    BY <2>1, LivesShrink
  <2> QED BY <2>1, <2>2, IdleLeasesFrame DEF Streaming
<1>23. CASE UNCHANGED vars
  BY <1>23, IdleFrame DEF vars, agentVars, leaseVars, Live, Issued, Pending, InHand, Streaming,
    Registered
<1> QED
  BY <1>2, <1>3, <1>4, <1>5, <1>6, <1>7, <1>8, <1>9, <1>10, <1>11, <1>12, <1>13, <1>14, <1>15,
    <1>16, <1>17, <1>18, <1>19, <1>20, <1>21, <1>22, <1>23 DEF Next, ClientStep, SessionStep,
    CallStep, StopStep, IdleStep

----------------------------------------
(* The inductive invariant.                                                *)

LEMMA InitAgentInv == Init => AgentInv
<1> SUFFICES ASSUME Init PROVE AgentInv
  OBVIOUS
<1>1. IInv
  BY InitIInv DEF Init
<1>2. TypeOK
  BY <1>1 DEF Init, TypeOK, IInv, NewSession, Session, Call
<1>3. CallsAreNamed /\ CallsKeep /\ OneHolder
  BY DEF Init, CallsAreNamed, CallsKeep, OneHolder, KeptBy, InHand, NamingSteps, OwningSteps,
    StreamSteps, NewSession
<1>4. SessionsKeep
  BY DEF Init, SessionsKeep, NewSession, Closed
<1>5. EveryLeaseHeld
  BY DEF Init, LeaseInit, EveryLeaseHeld
<1>6. StopKnown /\ StopsAreOrderly
  BY DEF Init, StopKnown, StopsAreOrderly, NoSessionMissesTheStop, ClientsKeepTheirGrace,
    NewSession, Registered, Closed
<1>7. TransportEnds
  BY DEF Init, LeaseInit, TransportEnds
<1>8. StreamsCounted
  <2>1. Streams = {}
    BY DEF Init, Streams, Streaming
  <2> QED BY <2>1, FS_EmptySet DEF Init, StreamsCounted
<1>9. IdleSees
  BY DEF Init, IdleSees, QuietSince
<1> QED BY <1>1, <1>2, <1>3, <1>4, <1>5, <1>6, <1>7, <1>8, <1>9 DEF AgentInv

LEMMA NextAgentInv == AgentInv /\ [Next]_vars => AgentInv'
<1> SUFFICES ASSUME AgentInv, [Next]_vars PROVE AgentInv'
  OBVIOUS
<1>1. TypeOK' /\ IInv'
  BY NextTypeOK, NextLeases
<1>2. Ownership'
  BY NextOwnership
<1>3. Stops'
  BY NextStops
<1>4. TransportEnds' /\ StreamsCounted' /\ IdleSees'
  BY NextTransportEnds, NextStreamsCounted, NextIdleSees
<1> QED BY <1>1, <1>2, <1>3, <1>4 DEF AgentInv, Ownership, Stops

\* In every reachable state of the agent, its sessions and RPCs hold the leases
\* they are responsible for, its stop and its transport are in step, and its
\* idle check sees what is there.
THEOREM AgentInvariant == Spec => []AgentInv
  BY InitAgentInv, NextAgentInv, PTL DEF Spec

\* The variables of the agent keep their types.
THEOREM AgentTypeCorrect == Spec => []TypeOK
<1>1. AgentInv => TypeOK
  BY DEF AgentInv
<1> QED BY <1>1, AgentInvariant, PTL

\* A graceful stop reaches every client and cuts none of them off early
\* (gracefulStop, registerSession).
THEOREM AgentStopsAreOrderly == Spec => []StopsAreOrderly
<1>1. AgentInv => StopsAreOrderly
  BY DEF AgentInv
<1> QED BY <1>1, AgentInvariant, PTL

\* Who the invariant says has a lease is who will release it.
LEMMA HoldersAreOwners == AgentInv => LeasesHaveOneOwner
<1>1. ASSUME AgentInv, NEW l \in Leases, Live(l)
      PROVE  Cardinality(Owners(l)) = 1
  <2>1. lease[l].step \in {"registered", "held"}
    BY <1>1 DEF AgentInv, TypeOK, LeaseTypeOK, Lease, IInv, LivesOK, Live, Issued
  <2>2. Owners(l) = {s \in Sessions : KeptBy(s, l)} \cup {o \in Calls : InHand(o, l)}
    <3>1. \A s \in Sessions : KeptBy(s, l) <=>
            \/ ~Closed(s) /\ l \in session[s].leases
            \/ l \in session[s].releasing
      BY <1>1 DEF AgentInv, SessionsKeep, KeptBy
    <3>2. \A o \in Calls : InHand(o, l) <=>
            /\ call[o].lease = l
            /\ call[o].step \in {"registered", "adding", "undo", "releasing"}
      BY DEF InHand, OwningSteps
    <3> QED BY <3>1, <3>2 DEF Owners
  <2>3. CASE \E s \in Sessions : KeptBy(s, l)
    <3>1. PICK s \in Sessions : KeptBy(s, l)
      BY <2>3
    <3>2. Owners(l) = {s}
      BY <1>1, <2>2, <3>1 DEF AgentInv, OneHolder
    <3> QED BY <3>2, FS_Singleton
  <2>4. CASE \E o \in Calls : InHand(o, l)
    <3>1. PICK o \in Calls : InHand(o, l)
      BY <2>4
    <3>2. Owners(l) = {o}
      BY <1>1, <2>2, <3>1 DEF AgentInv, OneHolder
    <3> QED BY <3>2, FS_Singleton
  <2> QED BY <1>1, <2>1, <2>3, <2>4 DEF AgentInv, EveryLeaseHeld
<1> QED BY <1>1 DEF LeasesHaveOneOwner

\* A live lease has exactly one party that will release it (addLease, takeLease,
\* agentSession.close).
THEOREM AgentLeasesHaveOneOwner == Spec => []LeasesHaveOneOwner
  BY HoldersAreOwners, AgentInvariant, PTL

\* The same of the three scenes together: with agents of any number of sessions,
\* RPCs and leases in the first two, a live lease is released by one party.
THEOREM OwnersAreAlwaysUnique == MCSpec => []OwnersAreUnique
<1> DEFINE SceneInv == scene # "leases" => AgentInv
<1>1. MCInit => SceneInv
  BY InitAgentInv DEF MCInit
<1>2. SceneInv /\ [MCNext]_<<vars, scene>> => SceneInv'
  <2> SUFFICES ASSUME SceneInv, [MCNext]_<<vars, scene>>, scene' # "leases"
               PROVE  AgentInv'
    OBVIOUS
  <2>1. scene' = scene /\ [Next]_vars
    BY DEF MCNext
  <2> QED BY <2>1, NextAgentInv
<1>3. SceneInv => OwnersAreUnique
  BY HoldersAreOwners DEF OwnersAreUnique
<1> QED BY <1>1, <1>2, <1>3, PTL DEF MCSpec

\* The agent runs its lease registry as the registry's own specification says.
THEOREM AgentRunsLeases == Spec => LeaseSpec
<1>1. Init => LeaseInit
  BY DEF Init
<1>2. AgentInv /\ [Next]_vars => [LeaseNext]_leaseVars
  BY LeaseSteps
<1> QED BY <1>1, <1>2, AgentInvariant, PTL DEF Spec, LeaseSpec

\* So what the registry promises of identities and of the handlers' counts
\* holds in the agent.
THEOREM AgentLeasesAccounted == Spec => []LeasesAreAccounted
  BY AgentRunsLeases, LeasesAlwaysAccounted, PTL

----------------------------------------
(* Decisions.                                                              *)

\* An RPC passes its second check in CheckAgain and is announced in Ready alone.
LEMMA ServingStarts ==
  ASSUME AgentInv, [Next]_vars, NEW o \in Calls,
         call'[o].step \in {"announcing", "serving"}, call'[o] # call[o]
  PROVE  CheckAgain(o) \/ Ready(o)
<1>0. call \in [Calls -> Call]
  BY DEF AgentInv, TypeOK
<1>1. ASSUME NEW p \in Calls, CheckAgain(p) \/ Ready(p)
      PROVE  CheckAgain(o) \/ Ready(o)
  BY <1>0, <1>1 DEF CheckAgain, Ready, Goto
<1>2. ASSUME NEW p \in Calls,
             \/ \E s \in Sessions : BeginAcquire(p, s)
             \/ \E s \in Sessions, l \in Leases : BeginRelease(p, s, l)
             \/ \E s \in Sessions, l \in Leases : BeginStream(p, s, l)
             \/ \E l \in Leases, r \in Resolved : Acquire(p, l, r)
      PROVE  FALSE
  BY <1>0, <1>2 DEF BeginAcquire, BeginRelease, BeginStream, Begin, Acquire, Call
<1>3. ASSUME NEW p \in Calls,
             \/ AcquireFails(p) \/ Acquired(p) \/ AddLease(p) \/ TakeLease(p)
             \/ ReleaseLease(p) \/ CheckLease(p) \/ StreamBegins(p) \/ OpenResource(p)
             \/ HandlerOpens(p) \/ HandlerFails(p) \/ FinishStream(p) \/ StreamEnds(p)
      PROVE  FALSE
  BY <1>0, <1>3 DEF AcquireFails, Acquired, AddLease, TakeLease, ReleaseLease, CheckLease,
    StreamBegins, OpenResource, HandlerOpens, HandlerFails, FinishStream, StreamEnds, Goto, Call
<1>4. ASSUME NEW s \in Sessions,
             \/ RegisterSession(s) \/ OpenSession(s) \/ SessionEnds(s)
             \/ CloseSession(s) \/ UnregisterSession(s) \/ Acknowledge(s)
             \/ \E l \in Leases : ReleaseDetached(s, l)
             \/ \E sent \in BOOLEAN : RequestStopping(s, sent)
      PROVE  FALSE
  BY <1>4 DEF RegisterSession, OpenSession, SessionEnds, CloseSession, UnregisterSession,
    Acknowledge, ReleaseDetached, RequestStopping, agentVars
<1>5. CASE IdleStep \/ StopAsked \/ GraceExpires \/ CancelSessions \/ Drained \/ TransportCut
           \/ ShutdownResources \/ UNCHANGED vars \/ (\E r \in Resolved : RuntimeEnds(r))
           \/ (\E by \in {"idle", "request"} : BeginShutdown(by))
  BY <1>5 DEF IdleStep, StartupExpires, IdleCheck, IdleLeases, IdleRuntimes, IdleDecide,
    StopAsked, GraceExpires, CancelSessions, Drained, TransportCut, ShutdownResources,
    RuntimeEnds, BeginShutdown, vars, agentVars
<1> QED
  BY <1>1, <1>2, <1>3, <1>4, <1>5 DEF Next, ClientStep, SessionStep, CallStep, StopStep

\* A session that owns a lease owns a live one until the registry closes.
LEMMA OwnedIsLive ==
  ASSUME AgentInv, NEW o \in Calls, call[o].step \in StreamSteps, Owns(o)
  PROVE  Live(call[o].lease) \/ closing
<1>1. /\ call[o].session \in Sessions
      /\ call[o].lease \in Leases /\ Issued(call[o].lease)
      /\ lease[call[o].lease].step = "held"
  BY DEF AgentInv, CallsAreNamed, NamingSteps, StreamSteps, SessionsKeep, Owns
<1> QED BY <1>1 DEF AgentInv, IInv, LivesOK, Live

\* What a session has owned it owns until it gives it back or closes.
LEMMA SessionsGiveUp ==
  ASSUME AgentInv, [Next]_vars, NEW s \in Sessions
  PROVE  /\ Closed(s) => Closed(s)'
         /\ \A l : l \in session[s].leases \cup session[s].released =>
                 Closed(s)' \/ l \in session'[s].leases \cup session'[s].released
<1>0. session \in [Sessions -> Session]
  BY DEF AgentInv, TypeOK
<1>1. CASE session' = session
  BY <1>1 DEF Closed
<1>2. ASSUME NEW t \in Sessions,
             \/ RegisterSession(t) \/ OpenSession(t) \/ SessionEnds(t) \/ Acknowledge(t)
             \/ CloseSession(t) \/ UnregisterSession(t)
             \/ \E sent \in BOOLEAN : RequestStopping(t, sent)
      PROVE  /\ Closed(s) => Closed(s)'
             /\ Closed(s)' \/ /\ session'[s].leases = session[s].leases
                              /\ session'[s].released = session[s].released
  <2>2. CASE s # t
    <3>1. session'[s] = session[s]
      BY <1>0, <1>2, <2>2 DEF RegisterSession, OpenSession, SessionEnds, Acknowledge,
        CloseSession, UnregisterSession, RequestStopping, SetSession
    <3> QED BY <3>1 DEF Closed
  <2>3. CASE s = t /\ CloseSession(t)
    <3>1. session'[s] = ClosedSession(session[s]) /\ session[s] \in Session
      BY <1>0, <2>3 DEF CloseSession, SetSession
    <3> QED BY <3>1 DEF ClosedSession, Session, Closed
  <2>6. CASE s = t /\ UnregisterSession(t)
    BY <1>0, <2>6 DEF UnregisterSession, SetSession, Session, Closed
  <2>4. CASE s = t /\ (RegisterSession(t) \/ OpenSession(t) \/ SessionEnds(t))
    BY <1>0, <2>4 DEF RegisterSession, OpenSession, SessionEnds, SetSession, Session, Closed
  <2>5. CASE s = t /\ (Acknowledge(t) \/ \E sent \in BOOLEAN : RequestStopping(t, sent))
    BY <1>0, <2>5 DEF Acknowledge, RequestStopping, SetSession, Session, Closed
  <2> QED BY <1>2, <2>2, <2>3, <2>4, <2>5, <2>6
<1>3. ASSUME NEW o \in Calls, AddLease(o) \/ TakeLease(o)
      PROVE  /\ session'[s].step = session[s].step
             /\ \A l : l \in session[s].leases \cup session[s].released =>
                     l \in session'[s].leases \cup session'[s].released
  <2> DEFINE t == call[o].session
             l == call[o].lease
  <2>1. t \in Sessions
    BY <1>3 DEF AddLease, TakeLease, AgentInv, CallsAreNamed
  <2>2. \/ session' = session
        \/ session' = [session EXCEPT ![t] = [session[t] EXCEPT !.leases = @ \cup {l}]]
        \/ session' = [session EXCEPT ![t] = Taken(session[t], l)]
    BY <1>3 DEF AddLease, TakeLease, SetSession
  <2> HIDE DEF t, l
  <2>3. CASE session' = session
    BY <2>3
  <2>4. CASE session' = [session EXCEPT ![t] = [session[t] EXCEPT !.leases = @ \cup {l}]]
    BY <1>0, <2>1, <2>4 DEF Session
  <2>5. CASE session' = [session EXCEPT ![t] = Taken(session[t], l)]
    <3>1. /\ Taken(session[t], l).step = session[t].step
          /\ Taken(session[t], l).leases = session[t].leases \ {l}
          /\ Taken(session[t], l).released = session[t].released \cup {l}
      BY <1>0, <2>1 DEF Taken, Session
    <3> QED BY <1>0, <2>1, <2>5, <3>1
  <2> QED BY <2>2, <2>3, <2>4, <2>5
<1>4. CASE CancelSessions
  BY <1>0, <1>4 DEF CancelSessions, Session, Closed
<1>5. ASSUME NEW o \in Calls,
             \/ \E t \in Sessions : BeginAcquire(o, t)
             \/ \E t \in Sessions, l \in Leases : BeginRelease(o, t, l) \/ BeginStream(o, t, l)
             \/ \E l \in Leases, r \in Resolved : Acquire(o, l, r)
             \/ AcquireFails(o) \/ Acquired(o) \/ ReleaseLease(o) \/ CheckLease(o)
             \/ StreamBegins(o) \/ OpenResource(o) \/ HandlerOpens(o) \/ HandlerFails(o)
             \/ CheckAgain(o) \/ Ready(o) \/ StreamEnds(o) \/ FinishStream(o)
      PROVE  session' = session
  BY <1>5 DEF BeginAcquire, BeginRelease, BeginStream, Begin, Acquire, AcquireFails, Acquired,
    ReleaseLease, CheckLease, StreamBegins, OpenResource, HandlerOpens, HandlerFails, CheckAgain,
    Ready, StreamEnds, FinishStream
<1>6. CASE IdleStep \/ StopAsked \/ GraceExpires \/ Drained \/ TransportCut
           \/ ShutdownResources \/ UNCHANGED vars \/ (\E r \in Resolved : RuntimeEnds(r))
           \/ (\E by \in {"idle", "request"} : BeginShutdown(by))
           \/ (\E t \in Sessions, l \in Leases : ReleaseDetached(t, l))
  BY <1>1, <1>6 DEF IdleStep, StartupExpires, IdleCheck, IdleLeases, IdleRuntimes, IdleDecide,
    StopAsked, GraceExpires, Drained, TransportCut, ShutdownResources, RuntimeEnds, BeginShutdown,
    ReleaseDetached, vars, agentVars
<1>7. ASSUME NEW o \in Calls, AddLease(o) \/ TakeLease(o)
      PROVE  Closed(s) => Closed(s)'
  BY <1>3, <1>7 DEF Closed
<1> QED
  BY <1>1, <1>2, <1>3, <1>4, <1>5, <1>6, <1>7 DEF Next, ClientStep, SessionStep, CallStep,
    StopStep, Closed

\* The session of a stream that is to be announced owns its lease or gave it up.
Announced ==
  \A o \in Calls : call[o].step = "announcing" =>
      GaveUp(o) \/ call[o].lease \in session[call[o].session].leases

LEMMA NextAnnounced ==
  ASSUME AgentInv, Announced, [Next]_vars PROVE Announced'
<1> SUFFICES ASSUME NEW o \in Calls, call'[o].step = "announcing"
             PROVE  (GaveUp(o) \/ call[o].lease \in session[call[o].session].leases)'
  BY DEF Announced
<1>1. CASE call'[o] = call[o]
  <2>1. call[o].session \in Sessions
    BY <1>1 DEF AgentInv, CallsAreNamed
  <2>2. Closed(call[o].session) \/ call[o].lease \in
            session[call[o].session].leases \cup session[call[o].session].released
    BY <1>1 DEF Announced, GaveUp
  <2> QED BY <1>1, <2>1, <2>2, SessionsGiveUp DEF GaveUp, Closed
<1>2. CASE call'[o] # call[o]
  <2>1. CheckAgain(o) \/ Ready(o)
    BY <1>2, ServingStarts
  <2>2. /\ StillOwns(o) /\ session' = session
        /\ call'[o].lease = call[o].lease /\ call'[o].session = call[o].session
    BY <2>1 DEF CheckAgain, Ready, Goto, AgentInv, TypeOK, Call
  <2> QED BY <2>2 DEF StillOwns, Owns
<1> QED BY <1>1, <1>2

\* A stream that a call checks again, and one that it announces.
LEMMA StreamsUnderLeases ==
  ASSUME AgentInv, Announced, [Next]_vars, NEW o \in Calls
  PROVE  /\ call[o].step = "opened" /\ call'[o].step = "announcing"
              => Live(call[o].lease) \/ closing
         /\ call[o].step = "announcing" /\ call'[o].step = "serving"
              => Live(call[o].lease) \/ GaveUp(o)
<1>1. CASE call[o].step = "opened" /\ call'[o].step = "announcing"
  <2>1. CheckAgain(o)
    BY <1>1, ServingStarts DEF Ready
  <2>2. StillOwns(o)
    BY <1>1, <2>1 DEF CheckAgain, Goto, AgentInv, TypeOK
  <2> QED BY <1>1, <2>2, OwnedIsLive DEF StillOwns, StreamSteps
<1>2. CASE call[o].step = "announcing" /\ call'[o].step = "serving"
  <2>1. Ready(o)
    BY <1>2, ServingStarts DEF CheckAgain
  <2>2. transport # "cut"
    <3>1. call \in [Calls -> Call]
      BY DEF AgentInv, TypeOK
    <3> QED BY <1>2, <2>1, <3>1 DEF Ready, Goto, Call
  <2>3. ~closing
    BY <1>2, <2>2 DEF AgentInv, TransportEnds, ServeReturned
  <2>4. GaveUp(o) \/ Owns(o)
    BY <1>2 DEF Announced, GaveUp, Owns
  <2> QED BY <1>2, <2>3, <2>4, OwnedIsLive DEF StreamSteps
<1> QED BY <1>1, <1>2

\* The agent decides in IdleDecide alone that it is idle.
LEMMA DecisionStarts ==
  ASSUME AgentInv, [Next]_vars, idle.step # "decided", idle'.step = "decided"
  PROVE  IdleDecide
<1>0. idle \in [step : {"waiting", "leases", "runtimes", "deciding", "decided"},
                version : Nat, busy : BOOLEAN, expired : BOOLEAN]
  BY DEF AgentInv, TypeOK
<1>1. ASSUME NEW p \in Calls,
             \/ \E s \in Sessions : BeginAcquire(p, s)
             \/ \E s \in Sessions, l \in Leases : BeginRelease(p, s, l)
             \/ \E s \in Sessions, l \in Leases : BeginStream(p, s, l)
             \/ \E l \in Leases, r \in Resolved : Acquire(p, l, r)
             \/ AcquireFails(p) \/ Acquired(p) \/ AddLease(p) \/ TakeLease(p)
             \/ ReleaseLease(p) \/ CheckLease(p) \/ StreamBegins(p) \/ OpenResource(p)
             \/ HandlerOpens(p) \/ HandlerFails(p) \/ FinishStream(p) \/ StreamEnds(p)
             \/ CheckAgain(p) \/ Ready(p)
      PROVE  FALSE
  BY <1>1 DEF BeginAcquire, BeginRelease, BeginStream, Begin, Acquire, AcquireFails, Acquired,
    AddLease, TakeLease, ReleaseLease, CheckLease, StreamBegins, OpenResource, HandlerOpens,
    HandlerFails, FinishStream, StreamEnds, CheckAgain, Ready
<1>2. ASSUME NEW s \in Sessions,
             \/ RegisterSession(s) \/ OpenSession(s) \/ SessionEnds(s)
             \/ CloseSession(s) \/ UnregisterSession(s) \/ Acknowledge(s)
             \/ \E l \in Leases : ReleaseDetached(s, l)
             \/ \E sent \in BOOLEAN : RequestStopping(s, sent)
      PROVE  FALSE
  BY <1>2 DEF RegisterSession, OpenSession, SessionEnds, CloseSession, UnregisterSession,
    Acknowledge, ReleaseDetached, RequestStopping, agentVars
<1>3. CASE \/ StopAsked \/ GraceExpires \/ CancelSessions \/ Drained \/ TransportCut
           \/ ShutdownResources \/ UNCHANGED vars \/ (\E r \in Resolved : RuntimeEnds(r))
           \/ (\E by \in {"idle", "request"} : BeginShutdown(by))
  BY <1>3 DEF StopAsked, GraceExpires, CancelSessions, Drained, TransportCut, ShutdownResources,
    RuntimeEnds, BeginShutdown, vars, agentVars
<1>4. CASE StartupExpires \/ IdleCheck \/ IdleLeases \/ IdleRuntimes
  BY <1>0, <1>4 DEF StartupExpires, IdleCheck, IdleLeases, IdleRuntimes
<1> QED
  BY <1>1, <1>2, <1>3, <1>4 DEF Next, ClientStep, SessionStep, CallStep, StopStep, IdleStep

\* What the agent found before it let go of a lock is looked at again before it
\* acts on it: a stream passes its second check under a live lease, and when it
\* is announced its own session at most gave the lease back since (connectBytes);
\* an agent that decides to stop is unused (stopWhenIdle).
THEOREM AgentDecisionsCurrent == Spec => DecisionsAreCurrent
<1>1. Init => Announced
  BY DEF Init, Announced
<1>2. ASSUME AgentInv, [Next]_vars, idle.step # "decided", idle'.step = "decided"
      PROVE  /\ \A s \in Sessions : ~Registered(s)
             /\ \A o \in Calls : ~Streaming(o)
             /\ warm = {}
             /\ \A l \in Leases : Live(l) =>
                  \E o \in Calls : call[o].lease = l
                                   /\ call[o].step \in {"registered", "adding", "undo"}
  <2>1. IdleDecide
    BY <1>2, DecisionStarts
  <2>2. idle.step = "deciding" /\ QuietSince /\ ~idle.busy
    BY <1>2, <2>1 DEF IdleDecide, AgentInv, TypeOK
  <2> QED BY <1>2, <2>2 DEF AgentInv, IdleSees, InHand, OwningSteps
<1>3. Spec => StreamsStartUnderALease
  <2>1. ASSUME AgentInv, Announced, [Next]_vars
        PROVE  \A o \in Calls :
                 /\ call[o].step = "opened" /\ call'[o].step = "announcing"
                      => Live(call[o].lease) \/ closing
                 /\ call[o].step = "announcing" /\ call'[o].step = "serving"
                      => Live(call[o].lease) \/ GaveUp(o)
    BY <2>1, StreamsUnderLeases
  <2>2. Spec => []Announced
    BY <1>1, NextAnnounced, AgentInvariant, PTL DEF Spec
  <2> QED BY <2>1, <2>2, AgentInvariant, PTL DEF Spec, StreamsStartUnderALease
<1>4. Spec => IdleMeansUnused
  BY <1>2, AgentInvariant, PTL DEF Spec, IdleMeansUnused
<1> QED BY <1>3, <1>4 DEF DecisionsAreCurrent
=============================================================================
