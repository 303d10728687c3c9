----------------------- MODULE ResourceRegistryProofs -----------------------
(***************************************************************************)
(* Proofs about the resource registry, for any number of keys, leases,     *)
(* connectors, policies and generations.  IInv of ResourceRegistry is the  *)
(* inductive invariant; its parts are preserved one action at a time.  The *)
(* last part proves that the registry implements the lease pool.           *)
(***************************************************************************)
EXTENDS RegistryRefinement, TLAPS

(***************************************************************************)
(* The operators on one entry: their results are entries, and which of the *)
(* fields the invariant speaks of they keep.                               *)
(***************************************************************************)

\* e and f describe the same generation in the same phase of its life.
SameGeneration(e, f) ==
  /\ f.gen = e.gen
  /\ f.instance = e.instance
  /\ f.reaped = e.reaped
  /\ f.startPending = e.startPending

SameUsers(e, f) == f.leases = e.leases /\ f.connectors = e.connectors

\* Clearing timers changes nothing but the timers.
LEMMA CancelKeeps ==
    ASSUME NEW e \in Entry, NEW S
    PROVE  /\ Cancel(e, S) \in Entry
           /\ SameGeneration(e, Cancel(e, S))
           /\ SameUsers(e, Cancel(e, S))
           /\ Cancel(e, S).state = e.state
           /\ Cancel(e, S).failures = e.failures
           /\ \A t \in TimerKinds :
                Cancel(e, S).timer[t] = IF t \in S THEN "none" ELSE e.timer[t]
  BY DEF Cancel, Entry, Phases, SameGeneration, SameUsers

\* Arming a timer changes nothing but that timer.
LEMMA ArmKeeps ==
    ASSUME NEW e \in Entry, NEW t \in TimerKinds
    PROVE  /\ Arm(e, t) \in Entry
           /\ SameGeneration(e, Arm(e, t))
           /\ SameUsers(e, Arm(e, t))
           /\ Arm(e, t).state = e.state
           /\ \A u \in TimerKinds :
                Arm(e, t).timer[u] = IF u = t THEN "future" ELSE e.timer[u]
  BY DEF Arm, Entry, Phases, SameGeneration, SameUsers

\* The failure counter of failLocked stays within its 32 bits.
LEMMA CountFailureBounded ==
    ASSUME NEW e \in Entry
    PROVE  CountFailure(e) \in 0 .. MaxFailures
  BY RegistryAssumption DEF Entry, CountFailure, RegistryAssumption

\* failLocked keeps the instance and the users, and clears the idle timer.
LEMMA FailKeeps ==
    ASSUME NEW e \in Entry
    PROVE  /\ Fail(e) \in Entry
           /\ SameGeneration(e, Fail(e))
           /\ SameUsers(e, Fail(e))
           /\ Fail(e).state = "failed"
           /\ Fail(e).timer["start"] = e.timer["start"]
           /\ Fail(e).timer["idle"] = "none"
  BY CountFailureBounded DEF Fail, Arm, Entry, Phases, TimerKinds, States, SameGeneration,
    SameUsers

\* The zero entry, which stands for a key without an entry, is well typed.
LEMMA NoEntryIsEntry == NoEntry \in Entry
  BY RegistryAssumption DEF NoEntry, Entry, NoTimer, Phases, States, RegistryAssumption

\* maybeIdleLocked makes a ready entry idle exactly when it is unused.
LEMMA MaybeIdleKeeps ==
    ASSUME NEW e \in Entry
    PROVE  /\ MaybeIdle(e) \in Entry
           /\ SameGeneration(e, MaybeIdle(e))
           /\ SameUsers(e, MaybeIdle(e))
           /\ e.state = "ready" /\ Unused(e) =>
                /\ MaybeIdle(e).state = "idle"
                /\ MaybeIdle(e).timer["idle"] = "future"
                /\ MaybeIdle(e).timer["start"] = e.timer["start"]
           /\ ~(e.state = "ready" /\ Unused(e)) => MaybeIdle(e) = e
  BY ZenonT(60) DEF MaybeIdle, Arm, Entry, States, Phases, TimerKinds, SameGeneration, SameUsers

\* cancelUnusedStartLocked abandons a start but leaves it pending.
LEMMA CancelUnusedStartKeeps ==
  ASSUME NEW e \in Entry
  PROVE  LET f == CancelUnusedStart(e)
         IN  /\ f \in Entry
             /\ SameUsers(e, f)
             /\ f.gen = e.gen
             /\ f.startPending = e.startPending
             /\ ~StartIsUnused(e) => f = e
             /\ StartIsUnused(e) =>
                  /\ f.state = "failed" /\ ~f.instance /\ ~f.reaped
                  /\ f.timer["start"] = "none"
                  /\ f.timer["idle"] = e.timer["idle"]
<1> DEFINE c == Cancel(e, {"start"})
           f == [c EXCEPT !.state = "failed", !.instance = FALSE,
                          !.reaped = FALSE, !.readyAt = "zero"]
           h == [f EXCEPT !.retry = "past"]
<1>0. /\ c \in Entry /\ SameUsers(e, c) /\ SameGeneration(e, c)
      /\ c.timer["start"] = "none" /\ c.timer["idle"] = e.timer["idle"]
  BY CancelKeeps DEF TimerKinds
<1>1. /\ f \in Entry /\ SameUsers(e, f) /\ f.gen = e.gen
      /\ f.startPending = e.startPending /\ f.state = "failed"
      /\ ~f.instance /\ ~f.reaped
      /\ f.timer["start"] = "none" /\ f.timer["idle"] = e.timer["idle"]
  <2> HIDE DEF c
  <2> QED BY ZenonT(60), <1>0 DEF Entry, States, SameUsers, SameGeneration
<1>2. /\ h \in Entry /\ SameUsers(e, h) /\ h.gen = e.gen
      /\ h.startPending = e.startPending /\ h.state = "failed"
      /\ ~h.instance /\ ~h.reaped
      /\ h.timer["start"] = "none" /\ h.timer["idle"] = e.timer["idle"]
  <2> HIDE DEF f
  <2> QED BY <1>1 DEF Entry, SameUsers
<1>3. CancelUnusedStart(e) = IF ~StartIsUnused(e) THEN e ELSE
                             IF e.failures = 0 THEN f ELSE Arm(h, "failure")
  BY DEF CancelUnusedStart
<1> HIDE DEF f, h
<1> QED
  BY <1>1, <1>2, <1>3, ArmKeeps DEF TimerKinds, SameUsers, SameGeneration

\* timeoutStartLocked leaves the start pending.
LEMMA TimeoutStartKeeps ==
    ASSUME NEW e \in Entry
    PROVE  /\ TimeoutStart(e) \in Entry
           /\ SameGeneration(e, TimeoutStart(e))
           /\ SameUsers(e, TimeoutStart(e))
           /\ TimeoutStart(e).state = "failed"
           /\ TimeoutStart(e).timer["start"] = "none"
           /\ TimeoutStart(e).timer["idle"] = "none"
  BY CancelKeeps, FailKeeps DEF TimeoutStart, TimerKinds, SameUsers, SameGeneration

\* beginStopLocked.
LEMMA BeginStopKeeps ==
  ASSUME NEW e \in Entry
  PROVE  /\ BeginStop(e) \in Entry
         /\ SameUsers(e, BeginStop(e))
         /\ BeginStop(e).gen = e.gen
         /\ BeginStop(e).instance = e.instance
         /\ BeginStop(e).startPending = e.startPending
         /\ BeginStop(e).state = "stopping"
         /\ ~BeginStop(e).reaped
         /\ BeginStop(e).timer["start"] = e.timer["start"]
         /\ BeginStop(e).timer["idle"] = "none"
<1> DEFINE c == Cancel(e, {"idle", "stable"})
<1>1. /\ c \in Entry /\ SameGeneration(e, c) /\ SameUsers(e, c)
      /\ c.timer["start"] = e.timer["start"] /\ c.timer["idle"] = "none"
  BY CancelKeeps DEF TimerKinds
<1>2. BeginStop(e) = [c EXCEPT !.state = "stopping", !.reaped = FALSE]
  BY DEF BeginStop
<1> HIDE DEF c
<1> QED BY ZenonT(60), <1>1, <1>2 DEF Entry, States, SameGeneration, SameUsers

\* deleteFailedEntryLocked drops only an entry without process or users.
LEMMA DeleteFailedEntryKeeps ==
    ASSUME NEW e \in Entry
    PROVE  /\ DeleteFailedEntry(e) \in Entry
           /\ \/ DeleteFailedEntry(e) = e
              \/ /\ DeleteFailedEntry(e) = NoEntry
                 /\ ~e.instance /\ ~e.startPending /\ Unused(e)
  BY NoEntryIsEntry DEF DeleteFailedEntry, FailedEntryIsDeletable

\* deleteColdEntryLocked, likewise.
LEMMA DeleteColdEntryKeeps ==
    ASSUME NEW e \in Entry
    PROVE  /\ DeleteColdEntry(e) \in Entry
           /\ \/ DeleteColdEntry(e) = e
              \/ /\ DeleteColdEntry(e) = NoEntry
                 /\ ~e.instance /\ ~e.startPending /\ Unused(e)
  BY NoEntryIsEntry DEF DeleteColdEntry

\* startLocked hands the entry to generation g.
LEMMA StartEntryKeeps ==
  ASSUME NEW e \in Entry, NEW g \in Generations
  PROVE  LET f == StartEntry(e, g)
         IN  /\ f \in Entry
             /\ SameUsers(e, f)
             /\ f.gen = g /\ f.state = "starting" /\ f.startPending
             /\ ~f.instance /\ ~f.reaped
             /\ f.timer["start"] = "future"
             /\ f.timer["idle"] = "none"
<1> DEFINE c == Cancel(e, {"idle", "failure"})
           h == [c EXCEPT !.state = "starting", !.gen = g, !.instance = FALSE,
                          !.reaped = FALSE, !.startPending = TRUE,
                          !.readyAt = "zero", !.retry = "none"]
<1>1. c \in Entry /\ SameUsers(e, c) /\ c.timer["idle"] = "none"
  BY CancelKeeps DEF TimerKinds
<1>2. StartEntry(e, g) = Arm(h, "start")
  BY DEF StartEntry
<1> HIDE DEF c
<1>3. /\ h \in Entry /\ SameUsers(e, h) /\ h.timer["idle"] = "none"
      /\ h.gen = g /\ h.state = "starting" /\ h.startPending
      /\ ~h.instance /\ ~h.reaped
  <2>1. g \in 0 .. MaxGeneration
    BY RegistryAssumption DEF Generations, RegistryAssumption
  <2> QED BY ZenonT(60), <1>1, <2>1 DEF Entry, States, SameUsers
<1> HIDE DEF h
<1> QED
  BY <1>2, <1>3, ArmKeeps DEF TimerKinds, SameUsers, SameGeneration

\* The fields of the zero entry.
LEMMA NoEntryFields ==
    /\ NoEntry.state = "absent" /\ NoEntry.gen = 0
    /\ ~NoEntry.instance /\ ~NoEntry.startPending /\ ~NoEntry.reaped
    /\ NoEntry.leases = {} /\ NoEntry.connectors = {}
    /\ NoEntry.timer["start"] = "none" /\ NoEntry.timer["idle"] = "none"
  BY DEF NoEntry, NoTimer, TimerKinds

----------------------------------------
(* Frames.                                                                 *)

\* Callbacks left behind by an entry are well typed.
LEMMA OrphansType ==
    ASSUME NEW k \in Keys, NEW e \in Entry, NEW f \in Entry
    PROVE  Orphans(k, e, f) \subseteq
               [kind : TimerKinds, key : Keys, gen : 0 .. MaxGeneration]
  BY RegistryAssumption DEF Orphans, Entry, TimerKinds, RegistryAssumption

\* The parts of the invariant about generations and workers survive a step
\* that touches one entry but not its generation.
LEMMA QuietStep ==
  ASSUME IInv, NEW k \in Keys, NEW f \in Entry,
         entries' = [entries EXCEPT ![k] = f],
         SameGeneration(entries[k], f),
         f.state = "absent" => entries[k].state = "absent",
         UNCHANGED <<nextGeneration, generationKey, process, starter, watcher,
                     stopper, closing, shutdownDone>>
  PROVE  /\ GenerationsInOrder'
         /\ StarterOwnsStart'
         /\ OccupantIsCurrent'
         /\ OccupantIsAwaited'
         /\ ShutdownSettled'
<1>1. GenerationsInOrder'
  BY DEF IInv, TypeOK, GenerationsInOrder, SameGeneration
<1>2. StarterOwnsStart'
  BY DEF IInv, TypeOK, StarterOwnsStart, IsCurrent, SameGeneration
<1>3. OccupantIsCurrent'
  BY DEF IInv, TypeOK, OccupantIsCurrent, IsCurrent, Occupies, SameGeneration
<1>4. OccupantIsAwaited'
  BY DEF IInv, OccupantIsAwaited
<1>5. ShutdownSettled'
  BY DEF IInv, ShutdownSettled, WorkersIdle
<1> QED BY <1>1, <1>2, <1>3, <1>4, <1>5

\* The new entry of k has its shape and no other entry changes.
LEMMA ShapeStep ==
  ASSUME IInv, NEW k \in Keys, NEW f \in Entry,
         entries' = [entries EXCEPT ![k] = f],
         closing' = closing,
         \A j \in Keys \ {k} :
              entries[j].reaped => process'[entries[j].gen] = "exited",
         EntryShape(f, closing', process')
  PROVE  EntriesShaped'
<1> SUFFICES ASSUME NEW j \in Keys
             PROVE  EntryShape(entries'[j], closing', process')
  BY DEF EntriesShaped
<1>1. CASE j = k
  BY <1>1 DEF IInv, TypeOK
<1>2. CASE j # k
  <2>1. entries'[j] = entries[j] /\ EntryShape(entries[j], closing, process)
    BY <1>2 DEF IInv, TypeOK, EntriesShaped
  <2> QED BY <1>2, <2>1 DEF EntryShape
<1> QED BY <1>1, <1>2

\* The shape of the entry of k before the step.
LEMMA ShapeBefore ==
    ASSUME IInv, NEW k \in Keys
    PROVE  /\ entries[k] \in Entry
           /\ EntryShape(entries[k], closing, process)
           /\ \A j \in Keys : entries[j].reaped => process[entries[j].gen] = "exited"
  BY DEF IInv, TypeOK, EntriesShaped, EntryShape

\* Closing the users an entry drops keeps leases and connectors linked, and
\* leaves the rest served when the entry had no active user or drops them all.
LEMMA DroppingUsers ==
  ASSUME IInv, NEW k \in Keys, NEW f \in Entry,
         entries' = [entries EXCEPT ![k] = f],
         DropUsers(k, f),
         f.leases \subseteq entries[k].leases,
         f.connectors \subseteq entries[k].connectors,
         \/ entries[k].state # "ready"
         \/ f.leases = {} /\ f.connectors = {}
  PROVE  /\ lease' \in [Leases -> LeaseRecord]
         /\ connector' \in [Connectors -> ConnectorRecord]
         /\ LeasesLinked'
         /\ ConnectorsLinked'
         /\ UsersAreServed'
<1> DEFINE e == entries[k]
           S == e.leases \ f.leases
           D == e.connectors \ f.connectors
<1>0. /\ lease \in [Leases -> LeaseRecord]
      /\ connector \in [Connectors -> ConnectorRecord]
      /\ entries \in [Keys -> Entry]
  BY DEF IInv, TypeOK
<1>1. lease' = Invalidated(S) /\ connector' = Disconnected(D)
  BY DEF DropUsers
<1>2. /\ lease' \in [Leases -> LeaseRecord]
      /\ \A l \in Leases :
          /\ lease'[l].key = lease[l].key
          /\ lease'[l].gen = lease[l].gen
          /\ lease'[l].caller = lease[l].caller
          /\ lease'[l].state = IF l \in S THEN "closed" ELSE lease[l].state
  <2> HIDE DEF S
  <2>1. \A l \in Leases : lease'[l] =
          IF l \in S
          THEN [lease[l] EXCEPT !.state = "closed",
                   !.ready = IF lease[l].state = "opening" THEN "error"
                             ELSE lease[l].ready]
          ELSE lease[l]
    BY <1>1 DEF Invalidated
  <2>2. \A l \in Leases : lease[l] \in LeaseRecord
    BY <1>0
  <2>3. \A l \in Leases :
          /\ lease'[l] \in LeaseRecord
          /\ lease'[l].key = lease[l].key
          /\ lease'[l].gen = lease[l].gen
          /\ lease'[l].caller = lease[l].caller
          /\ lease'[l].state = IF l \in S THEN "closed" ELSE lease[l].state
    <3> SUFFICES ASSUME NEW l \in Leases
                 PROVE  /\ lease'[l] \in LeaseRecord
                        /\ lease'[l].key = lease[l].key
                        /\ lease'[l].gen = lease[l].gen
                        /\ lease'[l].caller = lease[l].caller
                        /\ lease'[l].state =
                              IF l \in S THEN "closed" ELSE lease[l].state
      OBVIOUS
    <3>1. CASE l \in S
      BY ZenonT(60), <2>1, <2>2, <3>1 DEF LeaseRecord, LeaseStates
    <3>2. CASE l \notin S
      BY <2>1, <2>2, <3>2
    <3> QED BY <3>1, <3>2
  <2> QED BY <1>1, <2>3 DEF Invalidated
<1>3. /\ connector' \in [Connectors -> ConnectorRecord]
      /\ \A c \in Connectors :
          /\ connector'[c].key = connector[c].key
          /\ connector'[c].gen = connector[c].gen
          /\ connector'[c].state = IF c \in D THEN "closed" ELSE connector[c].state
  BY <1>0, <1>1 DEF Disconnected, ConnectorRecord
<1>4. LeasesLinked'
  <2>1. LeasesLinked /\ \A j \in Keys : entries[j].leases \subseteq Leases
    BY <1>0 DEF IInv, Entry
  <2>2. \A j \in Keys : entries'[j].leases = entries[j].leases \ (IF j = k THEN S ELSE {})
    BY <1>0, <2>1
  <2>3. \A l \in Leases : lease'[l].state \in {"opening", "active"} =>
          lease'[l].key \in Keys /\ l \in entries'[lease'[l].key].leases
    BY <1>2, <2>1, <2>2 DEF LeasesLinked
  <2>4. \A j \in Keys : \A l \in entries'[j].leases :
          lease'[l].key = j /\ lease'[l].state \in {"opening", "active"}
    BY <1>2, <2>1, <2>2 DEF LeasesLinked
  <2>5. \A l \in Leases : lease'[l].caller # "none" => lease'[l].state # "none"
    BY <1>2, <2>1 DEF LeasesLinked
  <2> QED BY <2>3, <2>4, <2>5 DEF LeasesLinked
<1>5. ConnectorsLinked'
  <2>1. /\ ConnectorsLinked
        /\ \A j \in Keys : entries[j].connectors \subseteq Connectors
    BY <1>0 DEF IInv, Entry
  <2>2. \A j \in Keys : entries'[j].connectors =
              entries[j].connectors \ (IF j = k THEN D ELSE {})
    BY <1>0, <2>1
  <2>3. \A c \in Connectors : connector'[c].state = "open" =>
          connector'[c].key \in Keys /\ c \in entries'[connector'[c].key].connectors
    BY <1>3, <2>1, <2>2 DEF ConnectorsLinked
  <2>4. \A j \in Keys : \A c \in entries'[j].connectors :
          connector'[c].key = j /\ connector'[c].state = "open"
    BY <1>3, <2>1, <2>2 DEF ConnectorsLinked
  <2> QED BY <2>3, <2>4 DEF ConnectorsLinked
<1>6. UsersAreServed'
  BY <1>0, <1>2, <1>3 DEF IInv, UsersAreServed, LeasesLinked, ConnectorsLinked, Entry
<1> QED BY <1>2, <1>3, <1>4, <1>5, <1>6

----------------------------------------
(* Steps of the users.                                                     *)

\* A lease taken on a running generation.
LEMMA AcquireReadyStep ==
  ASSUME IInv, NEW l \in Leases, NEW k \in Keys, NEW p \in Policies,
         AcquireReady(l, k, p)
  PROVE  IInv'
<1> DEFINE e == entries[k]
           c == Cancel(e, {"idle"})
           f == [c EXCEPT !.state = "ready", !.leases = c.leases \cup {l}]
<1>1. /\ e \in Entry /\ c \in Entry
      /\ SameGeneration(e, c) /\ SameUsers(e, c)
      /\ c.timer["start"] = e.timer["start"] /\ c.timer["idle"] = "none"
  BY CancelKeeps DEF IInv, TypeOK, TimerKinds
<1>2. /\ f \in Entry /\ SameGeneration(e, f) /\ f.state = "ready"
      /\ f.leases = e.leases \cup {l} /\ f.connectors = e.connectors
      /\ f.timer["start"] = e.timer["start"]
      /\ f.timer["idle"] = "none"
  <2> HIDE DEF c
  <2> QED BY <1>1 DEF Entry, States, SameGeneration, SameUsers
<1>3. /\ entries' = [entries EXCEPT ![k] = f]
      /\ staleCallbacks' = staleCallbacks \cup Orphans(k, e, f)
      /\ lease' = [lease EXCEPT ![l] = [Opening(k, e.gen) EXCEPT
                                        !.state = "active", !.ready = "ok"]]
      /\ UNCHANGED <<connector, nextGeneration, generationKey, process,
                     startCancelled, closing, shutdownDone, shutdownErrors,
                     starter, watcher, stopper>>
      /\ e.state \in {"ready", "idle"}
      /\ lease[l].state = "none"
      /\ ~closing
  BY DEF AcquireReady, MayReserve, SetEntry, generationVars, flagVars, workerVars
<1> HIDE DEF f
<1>4. TypeOK'
  BY <1>1, <1>2, <1>3, OrphansType DEF IInv, TypeOK, Opening, LeaseRecord, LeaseStates, Entry
<1>5. EntriesShaped'
  <2>1. EntryShape(f, closing', process')
    BY <1>1, <1>2, <1>3, ShapeBefore DEF EntryShape, Unused, SameGeneration
  <2> QED BY <1>2, <1>3, <2>1, ShapeBefore, ShapeStep
<1>6. LeasesLinked' /\ ConnectorsLinked'
  BY <1>1, <1>2, <1>3 DEF IInv, TypeOK, LeasesLinked, ConnectorsLinked, Opening
<1>7. UsersAreServed'
  <2>1. /\ \A j \in Keys : entries'[j] = IF j = k THEN f ELSE entries[j]
        /\ f.state = "ready" /\ f.gen = e.gen /\ f.instance
    BY <1>1, <1>2, <1>3 DEF IInv, TypeOK, EntriesShaped, EntryShape, SameGeneration
  <2>2. \A m \in Leases : lease'[m].state = "active" =>
          /\ entries'[lease'[m].key].state = "ready"
          /\ entries'[lease'[m].key].gen = lease'[m].gen
          /\ entries'[lease'[m].key].instance
    BY <1>3, <2>1 DEF IInv, TypeOK, UsersAreServed, LeasesLinked, Opening
  <2>3. \A d \in Connectors : connector'[d].state = "open" =>
          /\ entries'[connector'[d].key].state = "ready"
          /\ entries'[connector'[d].key].gen = connector'[d].gen
          /\ entries'[connector'[d].key].instance
    BY <1>3, <2>1 DEF IInv, UsersAreServed, ConnectorsLinked
  <2> QED BY <2>2, <2>3 DEF UsersAreServed
<1> QED
  BY <1>1, <1>2, <1>3, <1>4, <1>5, <1>6, <1>7, QuietStep DEF IInv

\* A lease that joins a starting generation or waits out a stopping one.
LEMMA AcquireJoiningStep ==
  ASSUME IInv, NEW l \in Leases, NEW k \in Keys, NEW p \in Policies,
         AcquireJoining(l, k, p)
  PROVE  IInv'
<1> DEFINE e == entries[k]
           f == [e EXCEPT !.leases = e.leases \cup {l}]
           g == IF e.state = "starting" THEN e.gen ELSE 0
<1>1. e \in Entry
  BY DEF IInv, TypeOK
<1>2. /\ f \in Entry /\ SameGeneration(e, f) /\ f.state = e.state
      /\ f.leases = e.leases \cup {l} /\ f.connectors = e.connectors
      /\ f.timer = e.timer
      /\ g \in 0 .. MaxGeneration
  BY <1>1, RegistryAssumption DEF Entry, SameGeneration, RegistryAssumption
<1>3. /\ entries' = [entries EXCEPT ![k] = f]
      /\ staleCallbacks' = staleCallbacks \cup Orphans(k, e, f)
      /\ lease' = [lease EXCEPT ![l] = Opening(k, g)]
      /\ UNCHANGED <<connector, nextGeneration, generationKey, process,
                     startCancelled, closing, shutdownDone, shutdownErrors,
                     starter, watcher, stopper>>
      /\ e.state \in {"starting", "stopping"}
      /\ lease[l].state = "none"
  BY DEF AcquireJoining, MayReserve, SetEntry, generationVars, flagVars, workerVars
<1> HIDE DEF f, g
<1>4. TypeOK'
  BY <1>1, <1>2, <1>3, OrphansType DEF IInv, TypeOK, Opening, LeaseRecord, LeaseStates
<1>5. EntriesShaped'
  <2>1. EntryShape(f, closing', process')
    BY <1>1, <1>2, <1>3, ShapeBefore DEF EntryShape, Unused, SameGeneration
  <2> QED BY <1>2, <1>3, <2>1, ShapeBefore, ShapeStep
<1>6. LeasesLinked' /\ ConnectorsLinked'
  BY <1>1, <1>2, <1>3 DEF IInv, TypeOK, LeasesLinked, ConnectorsLinked, Opening
<1>7. UsersAreServed'
  BY <1>1, <1>2, <1>3 DEF IInv, TypeOK, UsersAreServed, Opening, SameGeneration
<1> QED
  BY <1>1, <1>2, <1>3, <1>4, <1>5, <1>6, <1>7, QuietStep DEF IInv

\* Taking the result of an acquire, or noting the end of a caller whose lease
\* is already closed, changes nothing the entries know.
LEMMA CallerStep ==
  ASSUME IInv, NEW l \in Leases,
         NEW r \in {"empty", "ok", "error"},
         NEW c \in {"waiting", "held", "failed", "released"},
         lease[l].caller # "none",
         lease' = [lease EXCEPT ![l].ready = r, ![l].caller = c],
         UNCHANGED <<entries, staleCallbacks, connector, nextGeneration,
                     generationKey, process, startCancelled, closing,
                     shutdownDone, shutdownErrors, starter, watcher, stopper>>
  PROVE  IInv'
<1>1. lease \in [Leases -> LeaseRecord]
  BY DEF IInv, TypeOK
<1>2. /\ lease' \in [Leases -> LeaseRecord]
      /\ \A m \in Leases :
          /\ lease'[m].key = lease[m].key
          /\ lease'[m].gen = lease[m].gen
          /\ lease'[m].state = lease[m].state
          /\ m # l => lease'[m].caller = lease[m].caller
  BY ZenonT(60), <1>1 DEF LeaseRecord
<1>3. TypeOK' /\ GenerationsInOrder'
  BY <1>2 DEF IInv, TypeOK, GenerationsInOrder
<1>4. EntriesShaped' /\ StarterOwnsStart'
  BY DEF IInv, EntriesShaped, EntryShape, Unused, StarterOwnsStart, IsCurrent
<1>5. OccupantIsCurrent' /\ OccupantIsAwaited' /\ ShutdownSettled'
  BY DEF IInv, OccupantIsCurrent, IsCurrent, Occupies, OccupantIsAwaited, ShutdownSettled,
    WorkersIdle
<1>6. LeasesLinked' /\ ConnectorsLinked'
  <2>1. \A j \in Keys : entries[j].leases \subseteq Leases
    BY DEF IInv, TypeOK, Entry
  <2> QED BY <1>2, <2>1 DEF IInv, LeasesLinked, ConnectorsLinked
<1>7. UsersAreServed'
  BY <1>2 DEF IInv, UsersAreServed
<1> QED BY <1>3, <1>4, <1>5, <1>6, <1>7 DEF IInv

\* The caller's select takes the result of the acquire.
LEMMA AcquireReturnsStep ==
  ASSUME IInv, NEW l \in Leases, AcquireReturns(l)
  PROVE  IInv'
<1> DEFINE c == IF lease[l].ready = "ok" THEN "held" ELSE "failed"
<1>1. /\ lease' = [lease EXCEPT ![l].ready = "empty", ![l].caller = c]
      /\ lease[l].caller = "waiting"
  BY DEF AcquireReturns
<1>2. UNCHANGED <<entries, staleCallbacks, connector, nextGeneration,
                  generationKey, process, startCancelled, closing,
                  shutdownDone, shutdownErrors, starter, watcher, stopper>>
  BY DEF AcquireReturns, entryVars, generationVars, flagVars, workerVars
<1> QED BY <1>1, <1>2, CallerStep

\* Release drops one lease, abandons an unused start and idles an unused
\* generation.
LEMMA ReleaseStep ==
  ASSUME IInv, NEW l \in Leases, NEW c \in {"failed", "released"},
         lease[l].caller # "none", Release(l, c)
  PROVE  IInv'
<1>0. lease[l] \in LeaseRecord /\ lease \in [Leases -> LeaseRecord]
  BY DEF IInv, TypeOK
<1>1. CASE lease[l].state = "closed"
  <2>1. lease' = [lease EXCEPT ![l].ready = lease[l].ready, ![l].caller = c]
    <3>1. lease' = [lease EXCEPT ![l].caller = c]
      BY <1>1 DEF Release
    <3> QED BY <1>0, <3>1 DEF LeaseRecord
  <2>2. UNCHANGED <<entries, staleCallbacks, connector, nextGeneration,
                    generationKey, process, startCancelled, closing,
                    shutdownDone, shutdownErrors, starter, watcher, stopper>>
    BY <1>1 DEF Release, entryVars, flagVars, workerVars
  <2>3. lease[l].ready \in {"empty", "ok", "error"}
    BY <1>0 DEF LeaseRecord
  <2> QED BY <2>1, <2>2, <2>3, CallerStep
<1>2. CASE lease[l].state # "closed"
  <2> DEFINE k == lease[l].key
             e == entries[k]
             d == [e EXCEPT !.leases = e.leases \ {l}]
             u == CancelUnusedStart(d)
             f == MaybeIdle(u)
  <2>1. /\ lease[l].state \in {"opening", "active"}
        /\ k \in Keys /\ l \in e.leases
    BY <1>0, <1>2 DEF IInv, LeasesLinked, LeaseRecord, LeaseStates
  <2>2. e \in Entry /\ EntryShape(e, closing, process)
    BY <2>1, ShapeBefore
  <2>3. /\ d \in Entry /\ SameGeneration(e, d)
        /\ d.leases = e.leases \ {l} /\ d.connectors = e.connectors
        /\ d.state = e.state /\ d.timer = e.timer
    BY <2>2 DEF Entry, SameGeneration
  <2>4. /\ entries' = [entries EXCEPT ![k] = f]
        /\ staleCallbacks' = staleCallbacks \cup Orphans(k, e, f)
        /\ lease' = [lease EXCEPT ![l].caller = c, ![l].state = "closed"]
        /\ \/ startCancelled' = startCancelled
           \/ startCancelled' = [startCancelled EXCEPT ![e.gen] = TRUE]
        /\ UNCHANGED <<connector, nextGeneration, generationKey, process,
                       closing, shutdownDone, shutdownErrors, starter,
                       watcher, stopper>>
    BY <1>2 DEF Release, SetEntry, CancelStartContext, flagVars, workerVars
  <2> HIDE DEF d
  <2>5. /\ u \in Entry /\ SameGeneration(e, u)
        /\ u.leases = e.leases \ {l} /\ u.connectors = e.connectors
        /\ \/ u = d /\ ~(e.state = "starting" /\ Unused(d))
           \/ /\ e.state = "starting" /\ Unused(d) /\ u.state = "failed"
              /\ u.timer["start"] = "none"
              /\ u.timer["idle"] = e.timer["idle"]
    <3>1. CASE StartIsUnused(d)
      <4>1. /\ u \in Entry /\ SameUsers(d, u) /\ u.gen = d.gen
            /\ u.startPending = d.startPending
            /\ u.state = "failed" /\ ~u.instance /\ ~u.reaped
            /\ u.timer["start"] = "none" /\ u.timer["idle"] = d.timer["idle"]
        BY <2>3, <3>1, CancelUnusedStartKeeps
      <4>2. ~e.instance /\ ~e.reaped
        BY <2>2, <2>3, <3>1 DEF EntryShape, StartIsUnused
      <4>3. u.instance = e.instance /\ u.reaped = e.reaped
        BY <2>2, <4>1, <4>2 DEF Entry
      <4> HIDE DEF u
      <4> QED
        BY <2>3, <3>1, <4>1, <4>3 DEF StartIsUnused, SameGeneration, SameUsers
    <3>2. CASE ~StartIsUnused(d)
      BY <2>3, <3>2, CancelUnusedStartKeeps DEF StartIsUnused
    <3> QED BY <3>1, <3>2
  <2> HIDE DEF u
  <2>6. /\ f \in Entry /\ SameGeneration(e, f)
        /\ f.leases = e.leases \ {l} /\ f.connectors = e.connectors
    BY <2>5, MaybeIdleKeeps DEF SameGeneration, SameUsers
  <2>7. \/ /\ f.state = e.state /\ f.timer = e.timer
           /\ e.state = "ready" => ~Unused(d)
           /\ ~(e.state = "starting" /\ Unused(d))
        \/ /\ e.state = "starting" /\ f.state = "failed" /\ Unused(d)
           /\ f.timer["start"] = "none" /\ f.timer["idle"] = e.timer["idle"]
        \/ /\ e.state = "ready" /\ Unused(d) /\ f.state = "idle"
           /\ f.timer["start"] = e.timer["start"]
           /\ f.timer["idle"] = "future"
    BY <2>3, <2>5, MaybeIdleKeeps
  <2> HIDE DEF f
  <2>8. EntriesShaped'
    <3>1. EntryShape(f, closing', process')
      BY ZenonT(60), <2>2, <2>3, <2>4, <2>6, <2>7 DEF EntryShape, Unused, SameGeneration
    <3> QED BY <2>1, <2>4, <2>6, <3>1, ShapeBefore, ShapeStep
  <2>9. /\ lease' \in [Leases -> LeaseRecord]
        /\ lease'[l].state = "closed" /\ lease'[l].key = k
        /\ \A m \in Leases : m # l => lease'[m] = lease[m]
    BY <1>0, <2>4 DEF LeaseRecord, LeaseStates
  <2>10. TypeOK'
    BY <2>1, <2>2, <2>4, <2>6, <2>9, OrphansType DEF IInv, TypeOK
  <2>11. LeasesLinked' /\ ConnectorsLinked'
    <3>1. \A j \in Keys : entries[j].leases \subseteq Leases
      BY DEF IInv, TypeOK, Entry
    <3>2. /\ entries \in [Keys -> Entry]
          /\ entries'[k] = f /\ \A j \in Keys : j # k => entries'[j] = entries[j]
      BY <2>1, <2>4 DEF IInv, TypeOK
    <3>3. LeasesLinked'
      BY <2>1, <2>6, <2>9, <3>1, <3>2 DEF IInv, LeasesLinked
    <3>4. ConnectorsLinked'
      BY <2>1, <2>4, <2>6, <3>2 DEF IInv, ConnectorsLinked
    <3> QED BY <3>3, <3>4
  <2>12. UsersAreServed'
    <3>1. /\ entries \in [Keys -> Entry]
          /\ entries'[k] = f /\ \A j \in Keys : j # k => entries'[j] = entries[j]
      BY <2>1, <2>4 DEF IInv, TypeOK
    <3>2. f.state = "idle" /\ e.state = "ready" => f.leases = {} /\ f.connectors = {}
      BY <2>3, <2>6, <2>7, <2>2 DEF Unused, EntryShape
    <3>3. f.gen = e.gen /\ f.instance = e.instance
      BY <2>6 DEF SameGeneration
    <3>4. e.state = "ready" => f.state = "ready" \/ (f.leases = {} /\ f.connectors = {})
      BY <2>3, <2>7, <3>2
    <3>5. \A m \in Leases : lease'[m].state = "active" =>
            /\ entries'[lease'[m].key].state = "ready"
            /\ entries'[lease'[m].key].gen = lease'[m].gen
            /\ entries'[lease'[m].key].instance
      <4> SUFFICES ASSUME NEW m \in Leases, lease'[m].state = "active"
                   PROVE  /\ entries'[lease[m].key].state = "ready"
                          /\ entries'[lease[m].key].gen = lease[m].gen
                          /\ entries'[lease[m].key].instance
                          /\ lease'[m] = lease[m]
        OBVIOUS
      <4>1. m # l /\ lease'[m] = lease[m] /\ lease[m].state = "active"
        BY <2>9
      <4>2. /\ lease[m].key \in Keys /\ m \in entries[lease[m].key].leases
            /\ entries[lease[m].key].state = "ready"
            /\ entries[lease[m].key].gen = lease[m].gen
            /\ entries[lease[m].key].instance
        BY <4>1 DEF IInv, LeasesLinked, UsersAreServed
      <4>3. CASE lease[m].key = k
        <5>1. m \in f.leases
          BY <2>6, <4>1, <4>2, <4>3
        <5>2. f.state = "ready"
          BY <3>4, <4>2, <4>3, <5>1
        <5>3. entries'[lease[m].key] = f
          BY <3>1, <4>3
        <5>4. f.instance /\ f.gen = lease[m].gen
          BY <3>3, <4>2, <4>3
        <5> QED BY <4>1, <5>2, <5>3, <5>4
      <4>4. CASE lease[m].key # k
        BY <3>1, <4>1, <4>2, <4>4
      <4> QED BY <4>3, <4>4
    <3>6. \A b \in Connectors : connector'[b].state = "open" =>
            /\ entries'[connector'[b].key].state = "ready"
            /\ entries'[connector'[b].key].gen = connector'[b].gen
            /\ entries'[connector'[b].key].instance
      <4> SUFFICES ASSUME NEW b \in Connectors, connector[b].state = "open"
                   PROVE  /\ entries'[connector[b].key].state = "ready"
                          /\ entries'[connector[b].key].gen = connector[b].gen
                          /\ entries'[connector[b].key].instance
        BY <2>4
      <4>2. /\ connector[b].key \in Keys
            /\ b \in entries[connector[b].key].connectors
            /\ entries[connector[b].key].state = "ready"
            /\ entries[connector[b].key].gen = connector[b].gen
            /\ entries[connector[b].key].instance
        BY DEF IInv, ConnectorsLinked, UsersAreServed
      <4>3. CASE connector[b].key = k
        <5>1. b \in f.connectors
          BY <2>6, <4>2, <4>3
        <5>2. f.state = "ready"
          BY <3>4, <4>2, <4>3, <5>1
        <5>3. entries'[connector[b].key] = f
          BY <3>1, <4>3
        <5>4. f.instance /\ f.gen = connector[b].gen
          BY <3>3, <4>2, <4>3
        <5> QED BY <5>2, <5>3, <5>4
      <4>4. CASE connector[b].key # k
        BY <3>1, <4>2, <4>4
      <4> QED BY <4>3, <4>4
    <3> QED BY <3>5, <3>6 DEF UsersAreServed
  <2>13. f.state = "absent" => e.state = "absent"
    BY <2>3, <2>7
  <2> QED
    BY <2>1, <2>4, <2>6, <2>8, <2>10, <2>11, <2>12, <2>13, QuietStep DEF IInv
<1> QED BY <1>1, <1>2

\* OpenConnector adds a user to a ready entry.
LEMMA OpenConnectorStep ==
  ASSUME IInv, NEW c \in Connectors, NEW l \in Leases, OpenConnector(c, l)
  PROVE  IInv'
<1> DEFINE k == lease[l].key
           e == entries[k]
           f == [e EXCEPT !.connectors = e.connectors \cup {c}]
<1>1. k \in Keys /\ lease[l] \in LeaseRecord
  BY DEF OpenConnector, IInv, LeasesLinked, TypeOK
<1>2. e \in Entry /\ EntryShape(e, closing, process)
  BY <1>1, ShapeBefore
<1>3. /\ f \in Entry /\ SameGeneration(e, f) /\ f.leases = e.leases
      /\ f.connectors = e.connectors \cup {c}
      /\ f.state = e.state /\ f.timer = e.timer
  BY <1>2 DEF Entry, SameGeneration
<1>4. /\ entries' = [entries EXCEPT ![k] = f]
      /\ staleCallbacks' = staleCallbacks \cup Orphans(k, e, f)
      /\ connector' = [connector EXCEPT ![c] =
                          [state |-> "open", key |-> k, gen |-> lease[l].gen]]
      /\ UNCHANGED <<lease, nextGeneration, generationKey, process,
                     startCancelled, closing, shutdownDone, shutdownErrors,
                     starter, watcher, stopper>>
      /\ connector[c].state = "none" /\ e.state = "ready"
      /\ e.gen = lease[l].gen /\ e.instance /\ ~closing
  BY DEF OpenConnector, SetEntry, generationVars, flagVars, workerVars
<1> HIDE DEF f
<1>5. connector' \in [Connectors -> ConnectorRecord]
  BY <1>1, <1>4 DEF IInv, TypeOK, ConnectorRecord, LeaseRecord
<1>6. TypeOK'
  BY <1>1, <1>2, <1>3, <1>4, <1>5, OrphansType DEF IInv, TypeOK
<1>7. EntriesShaped'
  <2>1. EntryShape(f, closing', process')
    BY <1>2, <1>3, <1>4 DEF EntryShape, Unused, SameGeneration
  <2> QED BY <1>1, <1>3, <1>4, <2>1, ShapeBefore, ShapeStep
<1>8. /\ entries'[k] = f /\ \A j \in Keys : j # k => entries'[j] = entries[j]
      /\ connector'[c] = [state |-> "open", key |-> k, gen |-> lease[l].gen]
      /\ \A d \in Connectors : d # c => connector'[d] = connector[d]
      /\ \A j \in Keys : entries[j].connectors \subseteq Connectors
  BY <1>1, <1>4 DEF IInv, TypeOK, Entry
<1>9. LeasesLinked' /\ ConnectorsLinked'
  BY <1>1, <1>3, <1>4, <1>8 DEF IInv, LeasesLinked, ConnectorsLinked
<1>10. UsersAreServed'
  <2>1. f.state = "ready" /\ f.gen = e.gen /\ f.instance = e.instance
    BY <1>3, <1>4 DEF SameGeneration
  <2>2. \A m \in Leases : lease'[m].state = "active" =>
          /\ entries'[lease'[m].key].state = "ready"
          /\ entries'[lease'[m].key].gen = lease'[m].gen
          /\ entries'[lease'[m].key].instance
    <3>1. \A m \in Leases : lease[m].state = "active" =>
            /\ lease[m].key \in Keys
            /\ entries[lease[m].key].state = "ready"
            /\ entries[lease[m].key].gen = lease[m].gen
            /\ entries[lease[m].key].instance
      BY DEF IInv, UsersAreServed, LeasesLinked
    <3>2. lease' = lease
      BY <1>4
    <3>3. \A j \in Keys : entries[j].state = "ready" =>
            /\ entries'[j].state = "ready"
            /\ entries'[j].gen = entries[j].gen
            /\ entries'[j].instance = entries[j].instance
      BY <1>8, <2>1
    <3> QED BY <3>1, <3>2, <3>3
  <2>3. \A d \in Connectors : connector'[d].state = "open" =>
          /\ entries'[connector'[d].key].state = "ready"
          /\ entries'[connector'[d].key].gen = connector'[d].gen
          /\ entries'[connector'[d].key].instance
    <3>1. \A d \in Connectors : connector[d].state = "open" =>
            /\ connector[d].key \in Keys
            /\ entries[connector[d].key].state = "ready"
            /\ entries[connector[d].key].gen = connector[d].gen
            /\ entries[connector[d].key].instance
      BY DEF IInv, UsersAreServed, ConnectorsLinked
    <3>2. \A j \in Keys : entries[j].state = "ready" =>
            /\ entries'[j].state = "ready"
            /\ entries'[j].gen = entries[j].gen
            /\ entries'[j].instance = entries[j].instance
      BY <1>8, <2>1
    <3>3. connector'[c].key = k /\ connector'[c].gen = e.gen
      BY <1>4, <1>8
    <3>4. entries'[k].state = "ready" /\ entries'[k].gen = e.gen
      BY <1>8, <2>1
    <3>5. entries'[k].instance
      BY <1>4, <1>8, <2>1
    <3> QED BY <1>8, <3>1, <3>2, <3>3, <3>4, <3>5
  <2> QED BY <2>2, <2>3 DEF UsersAreServed
<1> QED
  BY <1>1, <1>3, <1>4, <1>6, <1>7, <1>9, <1>10, QuietStep DEF IInv

\* Connector.Close drops a user and idles an unused generation.
LEMMA CloseConnectorStep ==
  ASSUME IInv, NEW c \in Connectors, CloseConnector(c)
  PROVE  IInv'
<1> DEFINE k == connector[c].key
           e == entries[k]
           d == [e EXCEPT !.connectors = e.connectors \ {c}]
           f == MaybeIdle(d)
<1>1. k \in Keys /\ c \in e.connectors /\ connector[c].state = "open"
  BY DEF CloseConnector, IInv, ConnectorsLinked
<1>2. e \in Entry /\ EntryShape(e, closing, process)
  BY <1>1, ShapeBefore
<1>3. /\ d \in Entry /\ SameGeneration(e, d) /\ d.leases = e.leases
      /\ d.connectors = e.connectors \ {c}
      /\ d.state = e.state /\ d.timer = e.timer
  BY <1>2 DEF Entry, SameGeneration
<1>4. /\ entries' = [entries EXCEPT ![k] = f]
      /\ staleCallbacks' = staleCallbacks \cup Orphans(k, e, f)
      /\ connector' = [connector EXCEPT ![c].state = "closed"]
      /\ UNCHANGED <<lease, nextGeneration, generationKey, process,
                     startCancelled, closing, shutdownDone, shutdownErrors,
                     starter, watcher, stopper>>
  BY DEF CloseConnector, SetEntry, generationVars, flagVars, workerVars
<1> HIDE DEF d
<1>5. /\ f \in Entry /\ SameGeneration(e, f) /\ f.leases = e.leases
      /\ f.connectors = e.connectors \ {c}
      /\ e.state = "ready"
      /\ \/ f.state = e.state /\ f.timer = e.timer /\ ~Unused(d)
         \/ /\ Unused(d) /\ f.state = "idle"
            /\ f.timer["start"] = e.timer["start"]
            /\ f.timer["idle"] = "future"
  BY <1>1, <1>2, <1>3, MaybeIdleKeeps DEF SameGeneration, SameUsers, EntryShape
<1> HIDE DEF f
<1>6. EntriesShaped'
  <2>1. EntryShape(f, closing', process')
    BY <1>2, <1>3, <1>4, <1>5 DEF EntryShape, Unused, SameGeneration
  <2> QED BY <1>1, <1>4, <1>5, <2>1, ShapeBefore, ShapeStep
<1>7. /\ connector' \in [Connectors -> ConnectorRecord]
      /\ connector'[c].state = "closed"
      /\ \A b \in Connectors : b # c => connector'[b] = connector[b]
      /\ entries'[k] = f /\ \A j \in Keys : j # k => entries'[j] = entries[j]
  BY <1>1, <1>4 DEF IInv, TypeOK, ConnectorRecord
<1>8. TypeOK'
  BY <1>1, <1>2, <1>4, <1>5, <1>7, OrphansType DEF IInv, TypeOK
<1>9. LeasesLinked' /\ ConnectorsLinked'
  <2>1. \A j \in Keys : entries[j].connectors \subseteq Connectors
    BY SMTT(40) DEF IInv, TypeOK, Entry
  <2> QED
    BY <1>1, <1>4, <1>5, <1>7, <2>1 DEF IInv, LeasesLinked, ConnectorsLinked
<1>10. UsersAreServed'
  <2>1. f.state = "ready" \/ (f.leases = {} /\ f.connectors = {})
    BY <1>3, <1>5 DEF Unused
  <2>2. \A l \in Leases : lease'[l].state = "active" =>
          /\ entries'[lease'[l].key].state = "ready"
          /\ entries'[lease'[l].key].gen = lease'[l].gen
          /\ entries'[lease'[l].key].instance
    <3> SUFFICES ASSUME NEW l \in Leases, lease[l].state = "active"
                 PROVE  /\ entries'[lease[l].key].state = "ready"
                        /\ entries'[lease[l].key].gen = lease[l].gen
                        /\ entries'[lease[l].key].instance
      BY <1>4
    <3>1. /\ lease[l].key \in Keys /\ l \in entries[lease[l].key].leases
          /\ entries[lease[l].key].gen = lease[l].gen
          /\ entries[lease[l].key].state = "ready" /\ entries[lease[l].key].instance
      BY DEF IInv, UsersAreServed, LeasesLinked
    <3>2. CASE lease[l].key = k
      BY <1>5, <1>7, <2>1, <3>1, <3>2 DEF SameGeneration
    <3>3. CASE lease[l].key # k
      BY <1>7, <3>1, <3>3
    <3> QED BY <3>2, <3>3
  <2>3. \A b \in Connectors : connector'[b].state = "open" =>
          /\ entries'[connector'[b].key].state = "ready"
          /\ entries'[connector'[b].key].gen = connector'[b].gen
          /\ entries'[connector'[b].key].instance
    <3> SUFFICES ASSUME NEW b \in Connectors, b # c, connector[b].state = "open"
                 PROVE  /\ entries'[connector[b].key].state = "ready"
                        /\ entries'[connector[b].key].gen = connector[b].gen
                        /\ entries'[connector[b].key].instance
      BY <1>7
    <3>1. /\ connector[b].key \in Keys /\ b \in entries[connector[b].key].connectors
          /\ entries[connector[b].key].gen = connector[b].gen
          /\ entries[connector[b].key].state = "ready"
          /\ entries[connector[b].key].instance
      BY DEF IInv, UsersAreServed, ConnectorsLinked
    <3>2. CASE connector[b].key = k
      BY <1>5, <1>7, <2>1, <3>1, <3>2 DEF SameGeneration
    <3>3. CASE connector[b].key # k
      BY <1>7, <3>1, <3>3
    <3> QED BY <3>2, <3>3
  <2> QED BY <2>2, <2>3 DEF UsersAreServed
<1>11. f.state # "absent"
  BY <1>3, <1>5
<1> QED
  BY <1>1, <1>4, <1>5, <1>6, <1>8, <1>9, <1>10, <1>11, QuietStep DEF IInv

----------------------------------------
(* A new generation.                                                       *)

\* The phases of startGeneration in which it still owns the pending start.
Owning == {"starting", "publish", "failed", "stop", "reaped", "unreaped",
           "detached"}

\* An entry without a pending start, and whose instance if any is reaped, has
\* neither an owner nor an occupant.
LEMMA NoOwnerNoOccupant ==
    ASSUME IInv, NEW k \in Keys, ~entries[k].startPending,
           entries[k].instance => process[entries[k].gen] = "exited"
    PROVE  \A h \in Generations :
                generationKey[h] = k => ~Occupies(h) /\ starter[h] \notin Owning
  BY DEF IInv, StarterOwnsStart, OccupantIsCurrent, IsCurrent, Occupies, Owning

\* startLocked on such an entry, while the registry is open.
LEMMA StartGenerationStep ==
  ASSUME IInv, NEW k \in Keys, NEW e \in Entry,
         StartGeneration(k, e), ~closing,
         ~entries[k].startPending,
         entries[k].instance => process[entries[k].gen] = "exited",
         e.connectors = {},
         stopper' \in [Generations -> {"none", "stop", "done"}],
         \A h \in Generations : h > nextGeneration => stopper'[h] = stopper[h],
         UNCHANGED <<closing, shutdownDone, watcher>>
  PROVE  /\ entries' \in [Keys -> Entry]
         /\ entries'[k].state = "starting"
         /\ entries'[k].gen = nextGeneration + 1
         /\ SameUsers(e, entries'[k])
         /\ \A j \in Keys : j # k => entries'[j] = entries[j]
         /\ nextGeneration' = nextGeneration + 1
         /\ nextGeneration' \in 0 .. MaxGeneration
         /\ generationKey' \in [Generations -> Keys \cup {NoKey}]
         /\ process' \in [Generations -> {"none", "starting", "running", "exited"}]
         /\ starter' \in [Generations -> StarterPhases]
         /\ staleCallbacks' \subseteq
              [kind : TimerKinds, key : Keys, gen : 0 .. MaxGeneration]
         /\ GenerationsInOrder'
         /\ EntriesShaped'
         /\ StarterOwnsStart'
         /\ OccupantIsCurrent'
         /\ OccupantIsAwaited'
         /\ ShutdownSettled'
<1> DEFINE g == nextGeneration + 1
           f == StartEntry(e, g)
<1>1. /\ nextGeneration \in Nat /\ MaxGeneration \in Nat
      /\ nextGeneration < MaxGeneration
      /\ g \in Generations /\ g \in 0 .. MaxGeneration
  BY RegistryAssumption DEF StartGeneration, IInv, TypeOK, Generations, RegistryAssumption
<1>2. /\ entries' = [entries EXCEPT ![k] = f]
      /\ staleCallbacks' = staleCallbacks \cup Orphans(k, entries[k], f)
      /\ nextGeneration' = g
      /\ generationKey' = [generationKey EXCEPT ![g] = k]
      /\ process' = [process EXCEPT ![g] = "starting"]
      /\ starter' = [starter EXCEPT ![g] = "starting"]
  BY DEF StartGeneration, SetEntry
<1>3. /\ f \in Entry /\ SameUsers(e, f)
      /\ f.gen = g /\ f.state = "starting" /\ f.startPending
      /\ ~f.instance /\ ~f.reaped
      /\ f.timer["start"] = "future" /\ f.timer["idle"] = "none"
  BY <1>1, StartEntryKeeps
<1> HIDE DEF f
<1>4. /\ entries \in [Keys -> Entry] /\ entries[k] \in Entry
      /\ generationKey \in [Generations -> Keys \cup {NoKey}]
      /\ process \in [Generations -> {"none", "starting", "running", "exited"}]
      /\ starter \in [Generations -> StarterPhases]
  BY DEF IInv, TypeOK
<1>5. /\ entries'[k] = f /\ \A j \in Keys : j # k => entries'[j] = entries[j]
      /\ generationKey'[g] = k /\ process'[g] = "starting"
      /\ starter'[g] = "starting"
      /\ \A h \in Generations : h # g =>
          /\ generationKey'[h] = generationKey[h]
          /\ process'[h] = process[h] /\ starter'[h] = starter[h]
  BY <1>1, <1>2, <1>4
<1>6. /\ entries' \in [Keys -> Entry]
      /\ staleCallbacks' \subseteq
              [kind : TimerKinds, key : Keys, gen : 0 .. MaxGeneration]
  BY <1>2, <1>3, <1>4, OrphansType DEF IInv, TypeOK
<1>7. /\ generationKey' \in [Generations -> Keys \cup {NoKey}]
      /\ process' \in [Generations -> {"none", "starting", "running", "exited"}]
      /\ starter' \in [Generations -> StarterPhases]
  BY <1>2, <1>4 DEF StarterPhases
<1>8. GenerationsInOrder'
  <2>1. \A j \in Keys : entries[j].gen <= nextGeneration /\ entries[j].gen \in Nat
    BY <1>4, RegistryAssumption DEF IInv, GenerationsInOrder, Entry, RegistryAssumption
  <2>2. \A j \in Keys : entries'[j].gen <= nextGeneration'
    BY <1>1, <1>2, <1>3, <1>5, <2>1
  <2>3. \A h \in Generations : h \in Nat
    BY <1>1 DEF Generations
  <2>4. \A h \in Generations :
          /\ h <= nextGeneration' => generationKey'[h] \in Keys
          /\ h > nextGeneration' =>
                /\ process'[h] = "none" /\ starter'[h] = "none"
                /\ watcher'[h] = "none" /\ stopper'[h] = "none"
    BY <1>1, <1>2, <1>5, <2>3 DEF IInv, GenerationsInOrder
  <2> QED BY <2>2, <2>4 DEF GenerationsInOrder
<1>9. EntriesShaped'
  <2>1. EntryShape(f, closing', process')
    BY <1>1, <1>3 DEF EntryShape, SameUsers
  <2>2. \A j \in Keys : entries[j].reaped => process'[entries[j].gen] = "exited"
    <3>1. \A j \in Keys : entries[j].reaped =>
              /\ process[entries[j].gen] = "exited"
              /\ entries[j].gen # 0
      BY DEF IInv, EntriesShaped, EntryShape
    <3>2. \A j \in Keys : entries[j].gen <= nextGeneration /\ entries[j].gen \in 0 .. MaxGeneration
      BY <1>4 DEF IInv, GenerationsInOrder, Entry
    <3>3. \A j \in Keys : entries[j].gen # g /\ (entries[j].gen # 0 => entries[j].gen \in Generations)
      BY <1>1, <3>2 DEF Generations
    <3> QED BY <1>5, <3>1, <3>3
  <2> QED BY <1>2, <1>3, <2>1, <2>2, ShapeStep
<1>10. /\ \A h \in Generations :
              generationKey[h] = k => ~Occupies(h) /\ starter[h] \notin Owning
       /\ process[g] = "none" /\ starter[g] = "none"
  <2>1. g > nextGeneration
    BY <1>1
  <2> QED BY <1>1, <2>1, NoOwnerNoOccupant DEF IInv, GenerationsInOrder
<1>11. StarterOwnsStart'
  BY <1>3, <1>5, <1>10 DEF IInv, StarterOwnsStart, IsCurrent, Owning
<1>12. OccupantIsCurrent'
  BY <1>3, <1>5, <1>10 DEF IInv, OccupantIsCurrent, IsCurrent, Occupies
<1>13. OccupantIsAwaited'
  BY <1>5, <1>10 DEF IInv, OccupantIsAwaited
<1>14. ShutdownSettled'
  BY DEF IInv, ShutdownSettled
<1> QED
  BY <1>1, <1>2, <1>3, <1>5, <1>6, <1>7, <1>8, <1>9, <1>11, <1>12, <1>13, <1>14

\* The first lease of a cold or failed key.
LEMMA AcquireStartingStep ==
  ASSUME IInv, NEW l \in Leases, NEW k \in Keys, NEW p \in Policies,
         AcquireStarting(l, k, p)
  PROVE  IInv'
<1> DEFINE e == entries[k]
           d == [e EXCEPT !.policy = p, !.leases = e.leases \cup {l}]
           g == nextGeneration + 1
<1>1. e \in Entry /\ EntryShape(e, closing, process)
  BY ShapeBefore
<1>2. /\ StartGeneration(k, d)
      /\ lease[l].state = "none" /\ ~closing /\ MayStart(e)
      /\ lease' = [lease EXCEPT ![l] = Opening(k, nextGeneration')]
      /\ UNCHANGED <<connector, startCancelled, watcher, stopper, closing,
                     shutdownDone, shutdownErrors>>
  BY DEF AcquireStarting, MayReserve, flagVars
<1>3. /\ d \in Entry /\ d.leases = e.leases \cup {l}
      /\ d.connectors = e.connectors
  BY <1>1 DEF Entry
<1>4. ~e.startPending /\ ~e.instance /\ e.connectors = {} /\ e.state # "ready"
  BY <1>1, <1>2 DEF MayStart, EntryShape
<1>5. stopper' \in [Generations -> {"none", "stop", "done"}]
  BY <1>2 DEF IInv, TypeOK
<1> HIDE DEF d
<1>6. /\ entries' \in [Keys -> Entry]
      /\ entries'[k].state = "starting"
      /\ entries'[k].gen = g
      /\ SameUsers(d, entries'[k])
      /\ \A j \in Keys : j # k => entries'[j] = entries[j]
      /\ nextGeneration' = g
      /\ nextGeneration' \in 0 .. MaxGeneration
      /\ generationKey' \in [Generations -> Keys \cup {NoKey}]
      /\ process' \in [Generations -> {"none", "starting", "running", "exited"}]
      /\ starter' \in [Generations -> StarterPhases]
      /\ staleCallbacks' \subseteq
              [kind : TimerKinds, key : Keys, gen : 0 .. MaxGeneration]
      /\ GenerationsInOrder' /\ EntriesShaped' /\ StarterOwnsStart'
      /\ OccupantIsCurrent' /\ OccupantIsAwaited' /\ ShutdownSettled'
  BY <1>2, <1>3, <1>4, <1>5, StartGenerationStep
<1>7. /\ lease' \in [Leases -> LeaseRecord]
      /\ lease'[l] = Opening(k, g)
      /\ \A m \in Leases : m # l => lease'[m] = lease[m]
  BY <1>2, <1>6 DEF IInv, TypeOK, Opening, LeaseRecord, LeaseStates
<1>8. TypeOK'
  BY <1>2, <1>6, <1>7 DEF IInv, TypeOK
<1>9. LeasesLinked' /\ ConnectorsLinked'
  <2>1. \A j \in Keys : entries[j].leases \subseteq Leases
    BY DEF IInv, TypeOK, Entry
  <2>2. LeasesLinked'
    BY <1>2, <1>3, <1>6, <1>7, <2>1 DEF IInv, LeasesLinked, SameUsers, Opening
  <2>3. ConnectorsLinked'
    BY <1>2, <1>3, <1>6 DEF IInv, ConnectorsLinked, SameUsers
  <2> QED BY <2>2, <2>3
<1>10. UsersAreServed'
  <2>1. \A m \in Leases : lease'[m].state = "active" =>
          /\ m # l /\ lease'[m] = lease[m] /\ lease[m].key # k
          /\ lease[m].key \in Keys
    BY <1>4, <1>7 DEF IInv, UsersAreServed, LeasesLinked, Opening
  <2>2. \A c \in Connectors : connector'[c].state = "open" =>
          /\ connector'[c] = connector[c] /\ connector[c].key # k
          /\ connector[c].key \in Keys
    BY <1>2, <1>4 DEF IInv, UsersAreServed, ConnectorsLinked
  <2> QED BY <1>6, <2>1, <2>2 DEF IInv, UsersAreServed
<1> QED BY <1>6, <1>8, <1>9, <1>10 DEF IInv

----------------------------------------
(* Steps of one generation that leave the entries alone.                   *)

\* The process of g may only move forward, and its starter keeps owning the
\* start or keeps waiting for the process.
LEMMA GenerationStep ==
  ASSUME IInv, NEW g \in Generations,
         NEW p \in {"none", "starting", "running", "exited"},
         NEW s \in StarterPhases,
         process' = [process EXCEPT ![g] = p],
         starter' = [starter EXCEPT ![g] = s],
         shutdownErrors' \in BOOLEAN,
         UNCHANGED <<entries, staleCallbacks, lease, connector,
                     nextGeneration, generationKey, startCancelled, closing,
                     shutdownDone, watcher, stopper>>,
         process[g] = "exited" => p = "exited",
         p \in {"starting", "running"} => Occupies(g) \/ starter[g] \in Owning,
         s \in Owning => starter[g] \in Owning,
         p = "starting" <=> s = "starting",
         p = "running" => s \notin {"none", "done"} \/ watcher[g] = "watching",
         s \in {"failed", "reaped"} => p = "exited",
         starter[g] \in {"none", "done"} => s = starter[g],
         process[g] # "none" \/ starter[g] # "none"
  PROVE  IInv'
<1>1. /\ process \in [Generations -> {"none", "starting", "running", "exited"}]
      /\ starter \in [Generations -> StarterPhases]
      /\ entries \in [Keys -> Entry]
  BY DEF IInv, TypeOK
<1>2. /\ process'[g] = p /\ starter'[g] = s
      /\ \A h \in Generations : h # g =>
              process'[h] = process[h] /\ starter'[h] = starter[h]
  BY <1>1
<1>3. TypeOK'
  BY <1>1 DEF IInv, TypeOK
<1>4. GenerationsInOrder'
  BY <1>2 DEF IInv, GenerationsInOrder
<1>5. EntriesShaped'
  <2>1. \A h \in Generations : process[h] = "exited" => process'[h] = "exited"
    BY <1>2
  <2>2. \A j \in Keys : entries[j].gen # 0 => entries[j].gen \in Generations
    BY <1>1, RegistryAssumption DEF Entry, Generations, RegistryAssumption
  <2>3. \A j \in Keys : EntryShape(entries[j], closing, process)
    BY DEF IInv, EntriesShaped
  <2>4. \A j \in Keys : EntryShape(entries[j], closing, process')
    BY <2>1, <2>2, <2>3 DEF EntryShape
  <2> QED BY <2>4 DEF EntriesShaped
<1>6. StarterOwnsStart'
  BY <1>2 DEF IInv, StarterOwnsStart, IsCurrent, Owning
<1>7. OccupantIsCurrent'
  BY <1>2 DEF IInv, OccupantIsCurrent, StarterOwnsStart, Owning, IsCurrent, Occupies
<1>8. OccupantIsAwaited'
  BY <1>2 DEF IInv, OccupantIsAwaited
<1>9. LeasesLinked' /\ ConnectorsLinked' /\ UsersAreServed'
  BY DEF IInv, LeasesLinked, ConnectorsLinked, UsersAreServed
<1>10. ShutdownSettled'
  BY <1>2 DEF IInv, ShutdownSettled, WorkersIdle
<1> QED BY <1>3, <1>4, <1>5, <1>6, <1>7, <1>8, <1>9, <1>10 DEF IInv

\* The part of the invariant about g's own starter and process.
LEMMA StarterBefore ==
    ASSUME IInv, NEW g \in Generations
    PROVE  /\ process[g] \in {"none", "starting", "running", "exited"}
           /\ starter[g] \in StarterPhases
           /\ process = [process EXCEPT ![g] = process[g]]
           /\ starter = [starter EXCEPT ![g] = starter[g]]
           /\ process[g] = "starting" <=> starter[g] = "starting"
           /\ process[g] = "running" =>
                starter[g] \notin {"none", "done"} \/ watcher[g] = "watching"
           /\ starter[g] \in {"failed", "reaped"} => process[g] = "exited"
           /\ shutdownErrors \in BOOLEAN
  BY DEF IInv, TypeOK, OccupantIsAwaited

\* factory.Start returns, with or without an instance.
LEMMA StartReturnsStep ==
  ASSUME IInv, NEW g \in Generations, NEW o \in {"ready", "failed", "partial"},
         StartReturns(g, o)
  PROVE  IInv'
<1> DEFINE p == IF o = "failed" THEN "exited" ELSE "running"
           s == CASE o = "failed" -> "failed"
                  [] o = "ready" /\ ~startCancelled[g] -> "publish"
                  [] OTHER -> "stop"
<1>1. /\ process' = [process EXCEPT ![g] = p]
      /\ starter' = [starter EXCEPT ![g] = s]
      /\ starter[g] = "starting" /\ process[g] = "starting"
      /\ s \in {"failed", "publish", "stop"}
      /\ s = "failed" <=> o = "failed"
  BY StarterBefore DEF StartReturns
<1>2. UNCHANGED <<entries, staleCallbacks, lease, connector, nextGeneration,
                  generationKey, startCancelled, closing, shutdownDone,
                  shutdownErrors, watcher, stopper>>
  BY DEF StartReturns, entryVars, userVars, flagVars
<1> HIDE DEF s
<1> QED
  BY <1>1, <1>2, StarterBefore, GenerationStep DEF StarterPhases, Owning, Occupies

\* Steps of the starter alone: a refused or detached publication, and the end
\* of the stop of a failed start.
LEMMA StarterAloneStep ==
  ASSUME IInv, NEW g \in Generations,
         \/ PublishRefused(g)
         \/ PublishDetached(g)
         \/ StopFailedStart(g)
         \/ \E err \in BOOLEAN : StopDetached(g, err)
  PROVE  IInv'
<1>1. /\ UNCHANGED <<entries, staleCallbacks, lease, connector,
                     nextGeneration, generationKey, process, startCancelled,
                     closing, shutdownDone, watcher, stopper>>
      /\ shutdownErrors' \in BOOLEAN
  BY StarterBefore DEF PublishRefused, PublishDetached, StopFailedStart, StopDetached, entryVars,
    userVars, generationVars, flagVars
<1>2. PICK s \in {"stop", "detached", "reaped", "unreaped", "done"} :
          /\ starter' = [starter EXCEPT ![g] = s]
          /\ s \in {"reaped", "done"} => process[g] = "exited"
          /\ starter[g] \in {"publish", "stop", "detached"}
  BY DEF PublishRefused, PublishDetached, StopFailedStart, StopDetached
<1> QED
  BY <1>1, <1>2, StarterBefore, GenerationStep DEF StarterPhases, Owning, Occupies

\* A process exits: nothing in the registry moves yet.
LEMMA ProcessExitsStep ==
  ASSUME IInv, NEW g \in Generations, ProcessExits(g)
  PROVE  IInv'
<1>1. /\ UNCHANGED <<entries, staleCallbacks, lease, connector,
                     nextGeneration, generationKey, startCancelled, closing,
                     shutdownDone, shutdownErrors, starter, watcher, stopper>>
      /\ process[g] = "running"
      /\ process' = [process EXCEPT ![g] = "exited"]
  BY DEF ProcessExits, entryVars, userVars, flagVars, workerVars
<1>2. starter' = [starter EXCEPT ![g] = starter[g]]
  BY <1>1, StarterBefore
<1> QED BY <1>1, <1>2, StarterBefore, GenerationStep DEF StarterPhases, Owning

----------------------------------------
(* Steps of a worker that also change the entry of its generation.         *)

\* Shutdown has not completed while a worker runs or the registry is open.
LEMMA NotSettled ==
    ASSUME IInv, NEW g \in Generations,
           \/ ~closing
           \/ starter[g] \notin {"none", "done"}
           \/ watcher[g] = "watching"
           \/ stopper[g] = "stop"
    PROVE  ~shutdownDone
  BY DEF IInv, ShutdownSettled, WorkersIdle

\* Workers move forward, and one still waits for every running process.
WorkersKeep ==
  \A h \in Generations :
      /\ starter'[h] \in Owning => starter[h] \in Owning
      /\ starter'[h] = "starting" <=> starter[h] = "starting"
      /\ starter'[h] \in {"failed", "reaped"} => starter'[h] = starter[h]
      /\ h > nextGeneration => /\ starter'[h] = starter[h]
                               /\ watcher'[h] = watcher[h]
                               /\ stopper'[h] = stopper[h]
      /\ process[h] = "running" =>
            starter'[h] \notin {"none", "done"} \/ watcher'[h] = "watching"

\* f still knows the current generation of k for as long as that generation has
\* an owner or an occupant.
EntryKeeps(k, f) ==
  \A h \in Generations :
      generationKey[h] = k /\ entries[k].gen = h =>
        /\ starter'[h] \in Owning =>
              f.state # "absent" /\ f.gen = h /\ f.startPending
        /\ Occupies(h) =>
              /\ f.state # "absent" /\ f.gen = h
              /\ f.startPending \/ f.instance

\* The entry of k becomes f.
LEMMA WorkerStep ==
  ASSUME IInv, NEW k \in Keys, NEW f \in Entry,
         entries' = [entries EXCEPT ![k] = f],
         f.gen \in {entries[k].gen, 0},
         ~shutdownDone,
         UNCHANGED <<nextGeneration, generationKey, process, closing,
                     shutdownDone>>,
         WorkersKeep, EntryKeeps(k, f)
  PROVE  /\ GenerationsInOrder'
         /\ StarterOwnsStart'
         /\ OccupantIsCurrent'
         /\ OccupantIsAwaited'
         /\ ShutdownSettled'
<1>1. /\ entries \in [Keys -> Entry]
      /\ entries'[k] = f /\ \A j \in Keys : j # k => entries'[j] = entries[j]
      /\ nextGeneration \in Nat
  BY RegistryAssumption DEF IInv, TypeOK, RegistryAssumption
<1>2. GenerationsInOrder'
  BY <1>1 DEF IInv, GenerationsInOrder, WorkersKeep
<1>3. StarterOwnsStart'
  BY <1>1 DEF IInv, StarterOwnsStart, IsCurrent, Owning, WorkersKeep, EntryKeeps
<1>4. OccupantIsCurrent'
  BY <1>1 DEF IInv, OccupantIsCurrent, IsCurrent, Occupies, EntryKeeps
<1>5. OccupantIsAwaited'
  BY DEF IInv, OccupantIsAwaited, WorkersKeep
<1>6. ShutdownSettled'
  BY DEF ShutdownSettled
<1> QED BY <1>2, <1>3, <1>4, <1>5, <1>6

\* An active worker's generation has been handed out.
LEMMA WorkerBefore ==
  ASSUME IInv, NEW g \in Generations,
         starter[g] # "none" \/ watcher[g] # "none" \/ stopper[g] # "none"
  PROVE  /\ generationKey[g] \in Keys
         /\ ~(g > nextGeneration)
<1>1. ~(g > nextGeneration)
  BY DEF IInv, GenerationsInOrder
<1>2. g <= nextGeneration
  BY <1>1, RegistryAssumption DEF IInv, TypeOK, Generations, RegistryAssumption
<1> QED BY <1>1, <1>2 DEF IInv, GenerationsInOrder

\* A start abandoned at its deadline, by the callback or by the publication.
LEMMA TimedOutEntry ==
  ASSUME IInv, NEW k \in Keys, entries[k].state = "starting"
  PROVE  LET f == [TimeoutStart(entries[k]) EXCEPT !.leases = {}]
         IN  /\ f \in Entry /\ SameGeneration(entries[k], f)
             /\ f.leases = {} /\ f.connectors = entries[k].connectors
             /\ f.state = "failed"
             /\ EntryShape(f, closing, process)
<1> DEFINE t == TimeoutStart(entries[k])
           f == [t EXCEPT !.leases = {}]
<1>1. entries[k] \in Entry /\ EntryShape(entries[k], closing, process)
  BY ShapeBefore
<1>2. /\ t \in Entry /\ SameGeneration(entries[k], t) /\ SameUsers(entries[k], t)
      /\ t.state = "failed" /\ t.timer["start"] = "none"
      /\ t.timer["idle"] = "none"
  BY <1>1, TimeoutStartKeeps
<1> HIDE DEF t
<1>3. /\ f \in Entry /\ SameGeneration(entries[k], f) /\ f.leases = {}
      /\ f.connectors = entries[k].connectors /\ f.state = "failed"
      /\ f.timer = t.timer
  BY <1>2 DEF Entry, SameGeneration, SameUsers
<1>4. EntryShape(f, closing, process)
  BY <1>1, <1>2, <1>3 DEF EntryShape, SameGeneration
<1> QED BY <1>3, <1>4 DEF t

\* startGeneration finds the start deadline passed.
LEMMA PublishTooLateStep ==
  ASSUME IInv, NEW g \in Generations, PublishTooLate(g)
  PROVE  IInv'
<1> DEFINE k == generationKey[g]
           e == entries[k]
           f == [TimeoutStart(e) EXCEPT !.leases = {}]
<1>1. /\ starter[g] = "publish" /\ e.state = "starting"
      /\ SetEntry(k, f) /\ DropUsers(k, f)
      /\ starter' = [starter EXCEPT ![g] = "stop"]
      /\ startCancelled' = [startCancelled EXCEPT ![g] = TRUE]
      /\ UNCHANGED <<nextGeneration, generationKey, process, watcher, stopper,
                     closing, shutdownDone, shutdownErrors>>
  BY DEF PublishTooLate, StartIsOrphaned, CancelStartContext, flagVars
<1>2. k \in Keys /\ ~(g > nextGeneration) /\ ~shutdownDone
  BY <1>1, WorkerBefore, NotSettled
<1>3. /\ e \in Entry /\ f \in Entry /\ SameGeneration(e, f) /\ f.leases = {}
      /\ f.connectors = e.connectors /\ f.state = "failed"
      /\ EntryShape(f, closing, process)
  BY <1>1, <1>2, TimedOutEntry, ShapeBefore
<1> HIDE DEF f
<1>4. /\ entries' = [entries EXCEPT ![k] = f]
      /\ staleCallbacks' = staleCallbacks \cup Orphans(k, e, f)
  BY <1>1 DEF SetEntry
<1>5. EntriesShaped'
  BY <1>1, <1>2, <1>3, <1>4, ShapeBefore, ShapeStep
<1>6. /\ lease' \in [Leases -> LeaseRecord]
      /\ connector' \in [Connectors -> ConnectorRecord]
      /\ LeasesLinked' /\ ConnectorsLinked' /\ UsersAreServed'
  BY <1>1, <1>2, <1>3, <1>4, DroppingUsers
<1>7. TypeOK'
  BY <1>1, <1>2, <1>3, <1>4, <1>6, OrphansType DEF IInv, TypeOK, StarterPhases
<1>8. \A h \in Generations : starter'[h] = IF h = g THEN "stop" ELSE starter[h]
  BY <1>1 DEF IInv, TypeOK
<1>9. WorkersKeep
  BY <1>1, <1>2, <1>8 DEF IInv, OccupantIsAwaited, Owning, WorkersKeep
<1>10. EntryKeeps(k, f)
  BY <1>1, <1>3, <1>8 DEF IInv, StarterOwnsStart, OccupantIsCurrent, Owning, SameGeneration,
    EntryKeeps
<1>11. f.gen \in {e.gen, 0}
  BY <1>3 DEF SameGeneration
<1>12. /\ GenerationsInOrder' /\ StarterOwnsStart' /\ OccupantIsCurrent'
       /\ OccupantIsAwaited' /\ ShutdownSettled'
  BY <1>1, <1>2, <1>3, <1>4, <1>9, <1>10, <1>11, WorkerStep
<1> QED BY <1>5, <1>6, <1>7, <1>12 DEF IInv

\* expireStart.
LEMMA ExpireStartStep ==
  ASSUME IInv, NEW k \in Keys, ExpireStart(k)
  PROVE  IInv'
<1> DEFINE e == entries[k]
           d == [e EXCEPT !.timer["start"] = "none"]
           f == [TimeoutStart(e) EXCEPT !.leases = {}]
<1>1. /\ e.timer["start"] = "due" /\ ~closing
      /\ entries' = [entries EXCEPT ![k] = f]
      /\ staleCallbacks' = staleCallbacks \cup Orphans(k, d, f)
      /\ DropUsers(k, f)
      /\ startCancelled' = [startCancelled EXCEPT ![e.gen] = TRUE]
      /\ UNCHANGED <<nextGeneration, generationKey, process, starter, watcher,
                     stopper, closing, shutdownDone, shutdownErrors>>
  BY DEF ExpireStart, CallbackSets, CancelStartContext, flagVars, workerVars
<1>2. e \in Entry /\ e.state = "starting"
  BY <1>1, ShapeBefore DEF EntryShape
<1>3. /\ f \in Entry /\ SameGeneration(e, f) /\ f.leases = {}
      /\ f.connectors = e.connectors /\ f.state = "failed"
      /\ EntryShape(f, closing, process)
  BY <1>2, TimedOutEntry
<1>4. d \in Entry
  BY <1>2 DEF Entry, TimerKinds, Phases
<1> HIDE DEF f, d
<1>5. EntriesShaped'
  BY <1>1, <1>3, ShapeBefore, ShapeStep
<1>6. /\ lease' \in [Leases -> LeaseRecord]
      /\ connector' \in [Connectors -> ConnectorRecord]
      /\ LeasesLinked' /\ ConnectorsLinked' /\ UsersAreServed'
  BY <1>1, <1>2, <1>3, DroppingUsers
<1>7. TypeOK'
  BY <1>1, <1>3, <1>4, <1>6, OrphansType DEF IInv, TypeOK
<1> QED BY <1>1, <1>3, <1>5, <1>6, <1>7, QuietStep DEF IInv

\* startGeneration publishes the instance and activates the opening leases.
LEMMA PublishReadyStep ==
  ASSUME IInv, NEW g \in Generations, PublishReady(g)
  PROVE  IInv'
<1> DEFINE k == generationKey[g]
           e == entries[k]
           c == Cancel(e, {"start", "stable"})
           d == [c EXCEPT !.startPending = FALSE, !.instance = TRUE,
                          !.readyAt = "recent", !.retry = "none",
                          !.state = "ready"]
           a == Arm(d, "stable")
           f == MaybeIdle(a)
           Serves(l) == /\ l \in e.leases
                        /\ lease[l].state = "opening" /\ lease[l].gen = g
<1>1. /\ starter[g] = "publish" /\ e.state = "starting" /\ e.gen = g /\ ~closing
      /\ entries' = [entries EXCEPT ![k] = f]
      /\ staleCallbacks' = staleCallbacks \cup Orphans(k, e, f)
      /\ starter' = [starter EXCEPT ![g] = "done"]
      /\ watcher' = [watcher EXCEPT ![g] = "watching"]
      /\ startCancelled' = [startCancelled EXCEPT ![g] = TRUE]
      /\ lease' = [l \in Leases |-> IF Serves(l) THEN Activated(l, g) ELSE lease[l]]
      /\ UNCHANGED <<nextGeneration, connector, generationKey, process,
                     stopper, closing, shutdownDone, shutdownErrors>>
  BY DEF PublishReady, StartIsOrphaned, IsCurrent, SetEntry, CancelStartContext, flagVars
<1>2. k \in Keys /\ ~(g > nextGeneration) /\ ~shutdownDone
  BY <1>1, WorkerBefore, NotSettled
<1>3. e \in Entry /\ EntryShape(e, closing, process)
  BY <1>2, ShapeBefore
<1>4. /\ c \in Entry /\ SameUsers(e, c) /\ c.gen = e.gen /\ c.reaped = e.reaped
      /\ c.timer["start"] = "none" /\ c.timer["idle"] = e.timer["idle"]
  BY <1>3, CancelKeeps DEF TimerKinds, SameGeneration
<1> HIDE DEF c
<1>5. /\ d \in Entry /\ SameUsers(e, d) /\ d.gen = e.gen /\ d.reaped = e.reaped
      /\ d.state = "ready" /\ d.instance /\ ~d.startPending
      /\ d.timer["start"] = "none" /\ d.timer["idle"] = e.timer["idle"]
  BY <1>4 DEF Entry, States, SameUsers
<1> HIDE DEF d
<1>6. /\ a \in Entry /\ SameUsers(e, a) /\ a.gen = e.gen /\ a.reaped = e.reaped
      /\ a.state = "ready" /\ a.instance /\ ~a.startPending
      /\ a.timer["start"] = "none" /\ a.timer["idle"] = e.timer["idle"]
  BY <1>5, ArmKeeps DEF TimerKinds, SameUsers, SameGeneration
<1> HIDE DEF a
<1>7. /\ f \in Entry /\ SameUsers(e, f) /\ f.gen = e.gen /\ f.reaped = e.reaped
      /\ f.instance /\ ~f.startPending /\ f.timer["start"] = "none"
      /\ \/ /\ Unused(e) /\ f.state = "idle" /\ f.timer["idle"] = "future"
         \/ /\ ~Unused(e) /\ f.state = "ready"
            /\ f.timer["idle"] = e.timer["idle"]
  BY <1>6, MaybeIdleKeeps DEF SameUsers, SameGeneration, Unused
<1> HIDE DEF f
<1>8. EntriesShaped'
  <2>1. EntryShape(f, closing', process')
    BY <1>1, <1>3, <1>7 DEF EntryShape, Unused, SameUsers
  <2> QED BY <1>1, <1>2, <1>7, <2>1, ShapeBefore, ShapeStep
<1>9. /\ lease \in [Leases -> LeaseRecord] /\ g \in 0 .. MaxGeneration
      /\ entries \in [Keys -> Entry]
      /\ \A j \in Keys : entries[j].leases \subseteq Leases
  BY RegistryAssumption DEF IInv, TypeOK, Generations, Entry, RegistryAssumption
<1>10. /\ lease' \in [Leases -> LeaseRecord]
       /\ \A l \in Leases :
            /\ lease'[l].key = lease[l].key
            /\ lease'[l].caller = lease[l].caller
            /\ Serves(l) => lease'[l].state = "active" /\ lease'[l].gen = g
            /\ ~Serves(l) => lease'[l] = lease[l]
  <2> HIDE DEF Serves
  <2>1. \A l \in Leases :
          /\ Activated(l, g) \in LeaseRecord
          /\ Activated(l, g).key = lease[l].key
          /\ Activated(l, g).caller = lease[l].caller
          /\ Activated(l, g).state = "active"
          /\ Activated(l, g).gen = g
    BY <1>9 DEF Activated, LeaseRecord, LeaseStates
  <2> QED BY <1>1, <1>9, <2>1
<1>11. TypeOK'
  BY <1>1, <1>2, <1>3, <1>7, <1>10, OrphansType DEF IInv, TypeOK, StarterPhases
<1>12. /\ entries'[k] = f /\ \A j \in Keys : j # k => entries'[j] = entries[j]
  BY <1>1, <1>2, <1>9
<1>13. LeasesLinked'
  BY <1>2, <1>7, <1>9, <1>10, <1>12 DEF IInv, LeasesLinked, SameUsers
<1>14. ConnectorsLinked'
  BY <1>1, <1>2, <1>7, <1>12 DEF IInv, ConnectorsLinked, SameUsers
<1>15. UsersAreServed'
  <2>1. \A l \in Leases : lease'[l].state = "active" =>
          /\ entries'[lease'[l].key].state = "ready"
          /\ entries'[lease'[l].key].gen = lease'[l].gen
          /\ entries'[lease'[l].key].instance
    <3> SUFFICES ASSUME NEW l \in Leases, lease'[l].state = "active"
                 PROVE  /\ entries'[lease'[l].key].state = "ready"
                        /\ entries'[lease'[l].key].gen = lease'[l].gen
                        /\ entries'[lease'[l].key].instance
      OBVIOUS
    <3>1. CASE Serves(l)
      <4>1. lease[l].key = k /\ ~Unused(e)
        BY <1>2, <3>1 DEF IInv, LeasesLinked, Unused
      <4> QED BY <1>1, <1>7, <1>10, <1>12, <3>1, <4>1
    <3>2. CASE ~Serves(l)
      <4>1. lease[l].state = "active" /\ lease'[l] = lease[l]
        BY <1>10, <3>2
      <4>2. lease[l].key \in Keys /\ lease[l].key # k
        BY <1>1, <4>1 DEF IInv, LeasesLinked, UsersAreServed
      <4> QED BY <1>12, <4>1, <4>2 DEF IInv, UsersAreServed
    <3> QED BY <3>1, <3>2
  <2>2. \A b \in Connectors : connector[b].state = "open" =>
          connector[b].key \in Keys /\ connector[b].key # k
    BY <1>1 DEF IInv, ConnectorsLinked, UsersAreServed
  <2> QED BY <1>1, <1>12, <2>1, <2>2 DEF IInv, UsersAreServed
<1>16. \A h \in Generations :
          /\ starter'[h] = IF h = g THEN "done" ELSE starter[h]
          /\ watcher'[h] = IF h = g THEN "watching" ELSE watcher[h]
  BY <1>1 DEF IInv, TypeOK
<1>17. WorkersKeep
  BY <1>1, <1>2, <1>16 DEF IInv, OccupantIsAwaited, Owning, WorkersKeep
<1>18. EntryKeeps(k, f)
  BY <1>1, <1>7, <1>16 DEF Owning, EntryKeeps
<1>19. f.gen \in {e.gen, 0}
  BY <1>7
<1>20. /\ GenerationsInOrder' /\ StarterOwnsStart' /\ OccupantIsCurrent'
       /\ OccupantIsAwaited' /\ ShutdownSettled'
  BY <1>1, <1>2, <1>7, <1>17, <1>18, <1>19, WorkerStep
<1> QED BY <1>8, <1>11, <1>13, <1>14, <1>15, <1>20 DEF IInv

\* What completeStartFailure leaves of an entry whose start was pending.
LEMMA FailedStartEntryKeeps ==
  ASSUME IInv, NEW k \in Keys, NEW gone \in BOOLEAN,
         entries[k].startPending, entries[k].gen # 0
  PROVE  LET f == FailedStartEntry(entries[k], gone)
         IN  /\ f \in Entry
             /\ EntryShape(f, closing, process)
             /\ f.leases \subseteq entries[k].leases
             /\ f.connectors = {}
             /\ f.gen \in {entries[k].gen, 0}
             /\ ~gone => /\ f.state # "absent" /\ f.gen = entries[k].gen
                         /\ f.instance
<1> DEFINE e == entries[k]
           d == [e EXCEPT !.instance = ~gone, !.startPending = FALSE]
           h == IF e.state = "starting" THEN Cancel(d, {"start"}) ELSE d
           hc == [h EXCEPT !.state = "cold", !.leases = {}]
           hf == [h EXCEPT !.state = "failed", !.leases = {}]
           hx == [Fail(h) EXCEPT !.leases = {}]
<1>1. /\ e \in Entry /\ EntryShape(e, closing, process)
      /\ e.state \in {"cold", "starting", "failed"} /\ ~e.reaped
      /\ e.connectors = {}
  BY ShapeBefore DEF EntryShape, Entry, States
<1>2. /\ d \in Entry /\ SameUsers(e, d) /\ d.gen = e.gen /\ d.reaped = e.reaped
      /\ d.instance = ~gone /\ ~d.startPending /\ d.state = e.state
      /\ d.timer = e.timer
  BY <1>1 DEF Entry, SameUsers
<1> HIDE DEF d
<1>3. /\ h \in Entry /\ SameUsers(e, h) /\ h.gen = e.gen /\ ~h.reaped
      /\ h.instance = ~gone /\ ~h.startPending /\ h.state = e.state
      /\ h.timer["start"] # "none" => closing
      /\ h.timer["idle"] # "none" => closing
  <2>1. CASE e.state = "starting"
    <3>1. /\ Cancel(d, {"start"}).timer["start"] = "none"
          /\ Cancel(d, {"start"}).timer["idle"] = d.timer["idle"]
      BY <1>2, CancelKeeps DEF TimerKinds
    <3> QED
      BY <1>1, <1>2, <2>1, <3>1, CancelKeeps DEF SameUsers, SameGeneration, EntryShape
  <2>2. CASE e.state # "starting"
    BY <1>1, <1>2, <2>2 DEF EntryShape
  <2> QED BY <2>1, <2>2
<1> HIDE DEF h
<1>4. /\ hc \in Entry /\ hc.state = "cold" /\ hc.leases = {}
      /\ hc.connectors = {} /\ hc.gen = e.gen /\ hc.instance = ~gone
      /\ ~hc.startPending /\ ~hc.reaped /\ hc.timer = h.timer
  BY <1>1, <1>3 DEF Entry, States, SameUsers
<1>5. /\ hf \in Entry /\ hf.state = "failed" /\ hf.leases = {}
      /\ hf.connectors = {} /\ hf.gen = e.gen /\ hf.instance = ~gone
      /\ ~hf.startPending /\ ~hf.reaped /\ hf.timer = h.timer
  BY <1>1, <1>3 DEF Entry, States, SameUsers
<1>6. /\ Fail(h) \in Entry /\ SameUsers(e, Fail(h)) /\ Fail(h).gen = e.gen
      /\ ~Fail(h).reaped /\ Fail(h).instance = ~gone /\ ~Fail(h).startPending
      /\ Fail(h).state = "failed" /\ Fail(h).timer["idle"] = "none"
      /\ Fail(h).timer["start"] = h.timer["start"]
  BY <1>3, FailKeeps DEF SameUsers, SameGeneration
<1>7. /\ hx \in Entry /\ hx.state = "failed" /\ hx.leases = {}
      /\ hx.connectors = {} /\ hx.gen = e.gen /\ hx.instance = ~gone
      /\ ~hx.startPending /\ ~hx.reaped /\ hx.timer["idle"] = "none"
      /\ hx.timer["start"] = h.timer["start"]
  BY <1>1, <1>6 DEF Entry, SameUsers
<1>8. FailedStartEntry(e, gone) =
          CASE closing /\ gone -> DeleteColdEntry(hc)
            [] closing /\ ~gone -> hf
            [] ~closing /\ e.state # "starting" ->
                  IF gone THEN DeleteFailedEntry(h) ELSE h
            [] OTHER -> hx
  BY DEF FailedStartEntry, h, d
<1> HIDE DEF hc, hf, hx
<1>9. EntryShape(NoEntry, closing, process)
  BY NoEntryFields DEF EntryShape, Unused
<1>10. CASE closing /\ gone
  <2>1. EntryShape(hc, closing, process)
    BY <1>4, <1>10 DEF EntryShape
  <2> QED
    BY <1>4, <1>8, <1>9, <1>10, <2>1, DeleteColdEntryKeeps, NoEntryFields
<1>11. CASE closing /\ ~gone
  <2>1. EntryShape(hf, closing, process)
    BY <1>5, <1>11 DEF EntryShape
  <2> QED BY <1>5, <1>8, <1>11, <2>1
<1>12. CASE ~closing /\ e.state # "starting"
  <2>1. EntryShape(h, closing, process)
    BY <1>1, <1>3, <1>12 DEF EntryShape, SameUsers
  <2> QED
    BY <1>1, <1>3, <1>8, <1>9, <1>12, <2>1, DeleteFailedEntryKeeps, NoEntryFields DEF SameUsers
<1>13. CASE ~closing /\ e.state = "starting"
  <2>1. EntryShape(hx, closing, process)
    BY <1>3, <1>7, <1>13 DEF EntryShape
  <2> QED BY <1>7, <1>8, <1>13, <2>1
<1> QED BY <1>10, <1>11, <1>12, <1>13

\* completeStartFailure.
LEMMA CompleteStartFailureStep ==
  ASSUME IInv, NEW g \in Generations, NEW err \in BOOLEAN,
         CompleteStartFailure(g, err)
  PROVE  IInv'
<1> DEFINE k == generationKey[g]
           e == entries[k]
           gone == process[g] = "exited"
           f == FailedStartEntry(e, gone)
           s == IF starter[g] = "unreaped" THEN "reap" ELSE "done"
<1>1. /\ starter[g] \in {"failed", "reaped", "unreaped"}
      /\ starter' = [starter EXCEPT ![g] = s]
      /\ UNCHANGED <<nextGeneration, closing, shutdownDone, generationKey,
                     process, watcher, stopper>>
  BY DEF CompleteStartFailure
<1>2. k \in Keys /\ ~(g > nextGeneration) /\ ~shutdownDone
  BY <1>1, WorkerBefore, NotSettled
<1>3. IsCurrent(g) /\ e.gen = g /\ e.startPending
  BY <1>1 DEF IInv, StarterOwnsStart, IsCurrent
<1>4. /\ SetEntry(k, f) /\ DropUsers(k, f)
      /\ startCancelled' = [startCancelled EXCEPT ![g] = TRUE]
      /\ shutdownErrors' = (shutdownErrors \/ (closing /\ (err \/ ~gone)))
  BY <1>3 DEF CompleteStartFailure, CancelStartContext
<1>5. /\ e \in Entry /\ e.state # "ready" /\ e.gen # 0
  BY <1>2, <1>3, ShapeBefore DEF EntryShape, Generations
<1>6. gone \in BOOLEAN
  OBVIOUS
<1>7. /\ f \in Entry /\ EntryShape(f, closing, process)
      /\ f.leases \subseteq e.leases /\ f.connectors = {}
      /\ f.gen \in {e.gen, 0}
      /\ ~gone => f.state # "absent" /\ f.gen = e.gen /\ f.instance
  BY <1>2, <1>3, <1>5, <1>6, FailedStartEntryKeeps
<1> HIDE DEF f
<1>8. /\ entries' = [entries EXCEPT ![k] = f]
      /\ staleCallbacks' = staleCallbacks \cup Orphans(k, e, f)
  BY <1>4 DEF SetEntry
<1>9. EntriesShaped'
  BY <1>1, <1>2, <1>7, <1>8, ShapeBefore, ShapeStep
<1>10. /\ lease' \in [Leases -> LeaseRecord]
       /\ connector' \in [Connectors -> ConnectorRecord]
       /\ LeasesLinked' /\ ConnectorsLinked' /\ UsersAreServed'
  BY <1>2, <1>4, <1>5, <1>7, <1>8, DroppingUsers
<1>11. TypeOK'
  BY <1>1, <1>2, <1>4, <1>5, <1>7, <1>8, <1>10, OrphansType DEF IInv, TypeOK, StarterPhases
<1>12. \A h \in Generations : starter'[h] = IF h = g THEN s ELSE starter[h]
  BY <1>1 DEF IInv, TypeOK
<1>13. WorkersKeep
  BY <1>1, <1>2, <1>12 DEF IInv, OccupantIsAwaited, Owning, WorkersKeep
<1>14. EntryKeeps(k, f)
  BY <1>3, <1>7, <1>12 DEF Owning, EntryKeeps, Occupies
<1>15. /\ GenerationsInOrder' /\ StarterOwnsStart' /\ OccupantIsCurrent'
       /\ OccupantIsAwaited' /\ ShutdownSettled'
  BY <1>1, <1>2, <1>7, <1>8, <1>13, <1>14, WorkerStep
<1> QED BY <1>9, <1>10, <1>11, <1>15 DEF IInv

\* What generationExited leaves of an entry whose generation was reaped.
LEMMA ExitedEntryKeeps ==
  ASSUME IInv, NEW k \in Keys, process[entries[k].gen] = "exited"
  PROVE  LET f == ExitedEntry(entries[k])
         IN  /\ f \in Entry
             /\ EntryShape(f, closing, process)
             /\ f.leases \subseteq entries[k].leases
             /\ f.connectors \subseteq entries[k].connectors
             /\ \/ entries[k].state # "ready"
                \/ f.leases = {} /\ f.connectors = {}
             /\ f.gen \in {entries[k].gen, 0}
             /\ entries[k].startPending =>
                   /\ f.state # "absent" /\ f.gen = entries[k].gen
                   /\ f.startPending
<1> DEFINE e == entries[k]
           es == [e EXCEPT !.reaped = TRUE]
           ef == [e EXCEPT !.instance = FALSE]
           c == Cancel(e, {"idle", "stable"})
           ec == [c EXCEPT !.instance = FALSE, !.leases = {}, !.connectors = {}]
           er == Fail(ec)
<1>1. e \in Entry /\ EntryShape(e, closing, process)
  BY ShapeBefore
<1>2. /\ c \in Entry /\ SameGeneration(e, c)
      /\ c.timer["start"] = e.timer["start"] /\ c.timer["idle"] = "none"
  BY <1>1, CancelKeeps DEF TimerKinds
<1>3. ExitedEntry(e) = CASE e.state = "stopping" -> es
                         [] e.state = "failed" -> DeleteFailedEntry(ef)
                         [] e.state \in {"ready", "idle"} -> er
                         [] OTHER -> e
  BY DEF ExitedEntry
<1>4. EntryShape(NoEntry, closing, process)
  BY NoEntryFields DEF EntryShape, Unused
<1>5. CASE e.state = "stopping"
  <2>1. /\ es \in Entry /\ SameUsers(e, es) /\ es.gen = e.gen
        /\ es.instance = e.instance /\ es.startPending = e.startPending
        /\ es.state = e.state /\ es.timer = e.timer /\ es.reaped
    BY <1>1 DEF Entry, SameUsers
  <2> HIDE DEF es
  <2>2. EntryShape(es, closing, process)
    BY <1>1, <1>5, <2>1 DEF EntryShape, SameUsers
  <2> QED BY <1>3, <1>5, <2>1, <2>2 DEF SameUsers
<1>6. CASE e.state = "failed"
  <2>1. /\ ef \in Entry /\ SameUsers(e, ef) /\ ef.gen = e.gen
        /\ ~ef.instance /\ ef.startPending = e.startPending
        /\ ef.reaped = e.reaped /\ ef.state = e.state /\ ef.timer = e.timer
    BY <1>1 DEF Entry, SameUsers
  <2> HIDE DEF ef
  <2>2. EntryShape(ef, closing, process)
    BY <1>1, <1>6, <2>1 DEF EntryShape, SameUsers
  <2> QED
    BY <1>3, <1>4, <1>6, <2>1, <2>2, DeleteFailedEntryKeeps, NoEntryFields DEF SameUsers
<1>7. CASE e.state \in {"ready", "idle"}
  <2> HIDE DEF c
  <2>1. /\ ec \in Entry /\ ec.gen = e.gen /\ ~ec.instance
        /\ ec.startPending = e.startPending /\ ec.reaped = e.reaped
        /\ ec.leases = {} /\ ec.connectors = {}
        /\ ec.timer["start"] = e.timer["start"]
    BY <1>2 DEF Entry, SameGeneration
  <2> HIDE DEF ec
  <2>2. /\ er \in Entry /\ er.gen = e.gen /\ ~er.instance
        /\ er.startPending = e.startPending /\ er.reaped = e.reaped
        /\ er.leases = {} /\ er.connectors = {} /\ er.state = "failed"
        /\ er.timer["start"] = e.timer["start"] /\ er.timer["idle"] = "none"
    BY <2>1, FailKeeps DEF SameGeneration, SameUsers
  <2> HIDE DEF er
  <2>3. EntryShape(er, closing, process) /\ ~e.startPending
    BY <1>1, <1>7, <2>2 DEF EntryShape
  <2> QED BY <1>3, <1>7, <2>2, <2>3
<1>8. CASE e.state \notin {"stopping", "failed", "ready", "idle"}
  <2>1. /\ e.state # "ready"
        /\ ExitedEntry(e) = e
    BY <1>3, <1>8
  <2>2. e.startPending => e.state # "absent"
    BY <1>1 DEF EntryShape
  <2> QED BY <1>1, <2>1, <2>2
<1> QED BY <1>5, <1>6, <1>7, <1>8

\* generationExited, with the end of the watcher or of the failed start's
\* cleanup that called it.
LEMMA GenerationExitedStep ==
  ASSUME IInv, NEW g \in Generations, GenerationExited(g),
         \/ /\ watcher[g] = "watching"
            /\ watcher' = [watcher EXCEPT ![g] = "done"]
            /\ starter' = starter
         \/ /\ starter[g] = "reap"
            /\ starter' = [starter EXCEPT ![g] = "done"]
            /\ watcher' = watcher
  PROVE  IInv'
<1> DEFINE k == generationKey[g]
           e == entries[k]
           f == IF IsCurrent(g) THEN ExitedEntry(e) ELSE e
<1>1. /\ process[g] = "exited"
      /\ UNCHANGED <<stopper, nextGeneration, generationKey, process,
                     startCancelled, closing, shutdownDone, shutdownErrors>>
      /\ IsCurrent(g) => SetEntry(k, f) /\ DropUsers(k, f)
      /\ ~IsCurrent(g) => UNCHANGED <<entries, staleCallbacks, lease, connector>>
  BY DEF GenerationExited, generationVars, flagVars, entryVars, userVars
<1>2. k \in Keys /\ ~(g > nextGeneration) /\ ~shutdownDone
  BY WorkerBefore, NotSettled
<1>3. e \in Entry /\ EntryShape(e, closing, process) /\ entries \in [Keys -> Entry]
  BY <1>2, ShapeBefore DEF IInv, TypeOK
<1>4. /\ f \in Entry /\ EntryShape(f, closing, process)
      /\ f.gen \in {e.gen, 0}
      /\ IsCurrent(g) => /\ f.leases \subseteq e.leases
                         /\ f.connectors \subseteq e.connectors
                         /\ \/ e.state # "ready"
                            \/ f.leases = {} /\ f.connectors = {}
      /\ IsCurrent(g) /\ e.startPending =>
            f.state # "absent" /\ f.gen = e.gen /\ f.startPending
      /\ ~IsCurrent(g) => f = e
      /\ IsCurrent(g) => e.gen = g
  <2>1. CASE IsCurrent(g)
    <3>1. e.gen = g
      BY <2>1 DEF IsCurrent
    <3>2. f = ExitedEntry(e)
      BY <2>1
    <3> QED BY <1>1, <1>2, <2>1, <3>1, <3>2, ExitedEntryKeeps
  <2>2. CASE ~IsCurrent(g)
    BY <1>3, <2>2
  <2> QED BY <2>1, <2>2
<1> HIDE DEF f
<1>5. /\ entries' = [entries EXCEPT ![k] = f]
      /\ staleCallbacks' \subseteq
              [kind : TimerKinds, key : Keys, gen : 0 .. MaxGeneration]
  <2>1. CASE IsCurrent(g)
    BY <1>1, <1>2, <1>3, <1>4, <2>1, OrphansType DEF SetEntry, IInv, TypeOK
  <2>2. CASE ~IsCurrent(g)
    BY <1>1, <1>3, <1>4, <2>2 DEF IInv, TypeOK
  <2> QED BY <2>1, <2>2
<1>6. EntriesShaped'
  BY <1>1, <1>2, <1>4, <1>5, ShapeBefore, ShapeStep
<1>7. /\ lease' \in [Leases -> LeaseRecord]
      /\ connector' \in [Connectors -> ConnectorRecord]
      /\ LeasesLinked' /\ ConnectorsLinked' /\ UsersAreServed'
  <2>1. CASE IsCurrent(g)
    BY <1>1, <1>2, <1>4, <1>5, <2>1, DroppingUsers
  <2>2. CASE ~IsCurrent(g)
    BY <1>1, <2>2 DEF IInv, TypeOK, LeasesLinked, ConnectorsLinked, UsersAreServed
  <2> QED BY <2>1, <2>2
<1>8. TypeOK'
  BY <1>1, <1>3, <1>4, <1>5, <1>7 DEF IInv, TypeOK, StarterPhases
<1>9. \A h \in Generations :
          /\ h # g => starter'[h] = starter[h] /\ watcher'[h] = watcher[h]
          /\ starter'[h] = starter[h] \/ (starter[h] = "reap" /\ starter'[h] = "done")
  BY DEF IInv, TypeOK
<1>10. WorkersKeep
  BY <1>1, <1>2, <1>9 DEF IInv, OccupantIsAwaited, Owning, WorkersKeep
<1>11. EntryKeeps(k, f)
  <2> SUFFICES ASSUME NEW h \in Generations, generationKey[h] = k, e.gen = h
               PROVE  /\ starter'[h] \in Owning =>
                            f.state # "absent" /\ f.gen = h /\ f.startPending
                      /\ Occupies(h) =>
                            /\ f.state # "absent" /\ f.gen = h
                            /\ f.startPending \/ f.instance
    BY DEF EntryKeeps
  <2>1. starter'[h] \in Owning => starter[h] \in Owning
    BY <1>9 DEF Owning
  <2>2. starter[h] \in Owning => IsCurrent(h) /\ e.startPending
    BY DEF IInv, StarterOwnsStart, Owning
  <2>3. Occupies(h) => h # g /\ IsCurrent(h) /\ (e.startPending \/ e.instance)
    BY <1>1 DEF IInv, OccupantIsCurrent, Occupies
  <2>4. CASE IsCurrent(g)
    BY <1>4, <2>1, <2>2, <2>3, <2>4
  <2>5. CASE ~IsCurrent(g)
    BY <1>4, <2>1, <2>2, <2>3, <2>5 DEF IsCurrent
  <2> QED BY <2>4, <2>5
<1>12. /\ GenerationsInOrder' /\ StarterOwnsStart' /\ OccupantIsCurrent'
       /\ OccupantIsAwaited' /\ ShutdownSettled'
  BY <1>1, <1>2, <1>4, <1>5, <1>10, <1>11, WorkerStep
<1> QED BY <1>6, <1>7, <1>8, <1>12 DEF IInv

\* The end of stopGeneration, where completeStop leaves the entry f.
LEMMA StopperStep ==
  ASSUME IInv, NEW g \in Generations, NEW k \in Keys, NEW f \in Entry,
         stopper[g] = "stop",
         stopper' = [stopper EXCEPT ![g] = "done"],
         SetEntry(k, f), DropUsers(k, f),
         EntryShape(f, closing, process),
         f.leases \subseteq entries[k].leases,
         f.connectors \subseteq entries[k].connectors,
         entries[k].state # "ready",
         f.gen \in {entries[k].gen, 0},
         EntryKeeps(k, f),
         shutdownErrors' \in BOOLEAN,
         UNCHANGED <<nextGeneration, generationKey, process, startCancelled,
                     starter, watcher, closing, shutdownDone>>
  PROVE  IInv'
<1>1. /\ entries' = [entries EXCEPT ![k] = f]
      /\ staleCallbacks' = staleCallbacks \cup Orphans(k, entries[k], f)
      /\ entries[k] \in Entry
  BY ShapeBefore DEF SetEntry
<1>2. ~(g > nextGeneration) /\ ~shutdownDone
  BY WorkerBefore, NotSettled
<1>3. EntriesShaped'
  BY <1>1, ShapeBefore, ShapeStep
<1>4. /\ lease' \in [Leases -> LeaseRecord]
      /\ connector' \in [Connectors -> ConnectorRecord]
      /\ LeasesLinked' /\ ConnectorsLinked' /\ UsersAreServed'
  BY <1>1, DroppingUsers
<1>5. TypeOK'
  BY <1>1, <1>4, OrphansType DEF IInv, TypeOK
<1>6. \A h \in Generations : stopper'[h] = IF h = g THEN "done" ELSE stopper[h]
  BY DEF IInv, TypeOK
<1>7. WorkersKeep
  BY <1>2, <1>6 DEF IInv, OccupantIsAwaited, Owning, WorkersKeep
<1>9. /\ GenerationsInOrder' /\ StarterOwnsStart' /\ OccupantIsCurrent'
      /\ OccupantIsAwaited' /\ ShutdownSettled'
  BY <1>1, <1>2, <1>7, WorkerStep
<1> QED BY <1>3, <1>4, <1>5, <1>9 DEF IInv

\* completeStop of a reaped generation starts the next one for the leases that
\* waited.
LEMMA RestartStep ==
  ASSUME IInv, NEW g \in Generations, NEW k \in Keys, NEW e \in Entry,
         stopper[g] = "stop",
         stopper' = [stopper EXCEPT ![g] = "done"],
         ~closing,
         entries[k].state = "stopping",
         process[entries[k].gen] = "exited",
         e.leases = entries[k].leases,
         e.connectors = {},
         StartGeneration(k, e),
         lease' = AttachOpening(e.leases, nextGeneration + 1),
         shutdownErrors' \in BOOLEAN,
         UNCHANGED <<connector, startCancelled, watcher, closing, shutdownDone>>
  PROVE  IInv'
<1>1. ~(g > nextGeneration)
  BY WorkerBefore
<1>2. /\ entries[k].connectors = {} /\ ~entries[k].startPending
  BY ShapeBefore DEF EntryShape
<1>3. /\ stopper' \in [Generations -> {"none", "stop", "done"}]
      /\ \A h \in Generations : h > nextGeneration => stopper'[h] = stopper[h]
  BY <1>1 DEF IInv, TypeOK
<1>4. /\ entries' \in [Keys -> Entry]
      /\ entries'[k].state = "starting"
      /\ entries'[k].gen = nextGeneration + 1
      /\ SameUsers(e, entries'[k])
      /\ \A j \in Keys : j # k => entries'[j] = entries[j]
      /\ nextGeneration' = nextGeneration + 1
      /\ nextGeneration' \in 0 .. MaxGeneration
      /\ generationKey' \in [Generations -> Keys \cup {NoKey}]
      /\ process' \in [Generations -> {"none", "starting", "running", "exited"}]
      /\ starter' \in [Generations -> StarterPhases]
      /\ staleCallbacks' \subseteq
              [kind : TimerKinds, key : Keys, gen : 0 .. MaxGeneration]
      /\ GenerationsInOrder' /\ EntriesShaped' /\ StarterOwnsStart'
      /\ OccupantIsCurrent' /\ OccupantIsAwaited' /\ ShutdownSettled'
  BY <1>2, <1>3, StartGenerationStep
<1>5. lease \in [Leases -> LeaseRecord]
  BY DEF IInv, TypeOK
<1>6. /\ lease' \in [Leases -> LeaseRecord]
      /\ \A l \in Leases :
            /\ lease'[l].key = lease[l].key
            /\ lease'[l].caller = lease[l].caller
            /\ lease'[l].state = lease[l].state
            /\ lease[l].state # "opening" => lease'[l] = lease[l]
  <2> DEFINE n == nextGeneration + 1
             S == e.leases
  <2>1. n \in 0 .. MaxGeneration
    BY <1>4
  <2> HIDE DEF n, S
  <2>2. lease' = [l \in Leases |->
                      IF l \in S /\ lease[l].state = "opening"
                      THEN [lease[l] EXCEPT !.gen = n] ELSE lease[l]]
    BY DEF AttachOpening, n, S
  <2>3. \A l \in Leases :
          /\ [lease[l] EXCEPT !.gen = n] \in LeaseRecord
          /\ [lease[l] EXCEPT !.gen = n].key = lease[l].key
          /\ [lease[l] EXCEPT !.gen = n].caller = lease[l].caller
          /\ [lease[l] EXCEPT !.gen = n].state = lease[l].state
    BY <1>5, <2>1 DEF LeaseRecord
  <2> QED BY <1>5, <2>2, <2>3
<1>7. TypeOK'
  BY <1>3, <1>4, <1>6 DEF IInv, TypeOK
<1>8. LeasesLinked'
  <2>1. \A j \in Keys : entries'[j].leases = entries[j].leases
    BY <1>4 DEF SameUsers
  <2>2. \A j \in Keys : entries[j].leases \subseteq Leases
    BY DEF IInv, TypeOK, Entry
  <2> QED BY <1>6, <2>1, <2>2 DEF IInv, LeasesLinked
<1>9. ConnectorsLinked'
  <2>1. \A j \in Keys : entries'[j].connectors = entries[j].connectors
    BY <1>2, <1>4 DEF SameUsers
  <2> QED BY <2>1 DEF IInv, ConnectorsLinked
<1>10. UsersAreServed'
  <2>1. \A l \in Leases : lease'[l].state = "active" =>
          /\ lease'[l] = lease[l] /\ lease[l].key # k
          /\ lease[l].key \in Keys
    BY <1>6 DEF IInv, UsersAreServed, LeasesLinked
  <2>2. \A c \in Connectors : connector'[c].state = "open" =>
          /\ connector'[c] = connector[c] /\ connector[c].key # k
          /\ connector[c].key \in Keys
    BY DEF IInv, UsersAreServed, ConnectorsLinked
  <2> QED BY <1>4, <2>1, <2>2 DEF IInv, UsersAreServed
<1> QED BY <1>4, <1>7, <1>8, <1>9, <1>10 DEF IInv

\* The entries completeStop leaves.
LEMMA StoppedEntries ==
  ASSUME NEW e \in Entry
  PROVE  /\ ReapedEntry(e) \in Entry
         /\ ReapedEntry(e).state = "cold"
         /\ ~ReapedEntry(e).instance
         /\ ~ReapedEntry(e).reaped
         /\ ReapedEntry(e).gen = e.gen
         /\ ReapedEntry(e).startPending = e.startPending
         /\ SameUsers(e, ReapedEntry(e))
         /\ ReapedEntry(e).timer = e.timer
<1>1. 0 \in 0 .. MaxFailures
  BY RegistryAssumption DEF RegistryAssumption
<1> QED BY <1>1 DEF ReapedEntry, Entry, States, SameUsers

\* Dropping the users of an entry changes nothing else.
LEMMA DroppedUsersEntry ==
    ASSUME NEW e \in Entry
    PROVE  LET f == [e EXCEPT !.leases = {}, !.connectors = {}]
           IN  /\ f \in Entry /\ SameGeneration(e, f)
               /\ f.state = e.state /\ f.timer = e.timer
               /\ f.leases = {} /\ f.connectors = {}
  BY DEF Entry, SameGeneration

\* Dropping the leases of an entry changes nothing else.
LEMMA DroppedLeasesEntry ==
    ASSUME NEW e \in Entry
    PROVE  LET f == [e EXCEPT !.leases = {}]
           IN  /\ f \in Entry /\ SameGeneration(e, f)
               /\ f.state = e.state /\ f.timer = e.timer
               /\ f.leases = {} /\ f.connectors = e.connectors
  BY DEF Entry, SameGeneration

\* completeStop, in each of its outcomes.
LEMMA CompleteStopStep ==
  ASSUME IInv, NEW g \in Generations, NEW err \in BOOLEAN, CompleteStop(g, err)
  PROVE  IInv'
<1> DEFINE k == generationKey[g]
           e == entries[k]
           gone == e.reaped \/ process[g] = "exited"
<1>1. /\ stopper[g] = "stop"
      /\ UNCHANGED <<closing, shutdownDone, startCancelled, watcher>>
  BY DEF CompleteStop
<1>2. k \in Keys /\ ~(g > nextGeneration) /\ ~shutdownDone
  BY <1>1, WorkerBefore, NotSettled
<1>3. e \in Entry /\ EntryShape(e, closing, process) /\ closing \in BOOLEAN
  BY <1>2, ShapeBefore DEF IInv, TypeOK
<1>4. CASE ~(IsCurrent(g) /\ e.state = "stopping")
  <2>1. /\ stopper' = [stopper EXCEPT ![g] = "done"]
        /\ UNCHANGED <<entries, staleCallbacks, lease, connector,
                       nextGeneration, generationKey, process, starter,
                       shutdownErrors>>
    BY <1>4 DEF CompleteStop, entryVars, userVars
  <2>2. entries' = [entries EXCEPT ![k] = e]
    BY <1>2, <2>1 DEF IInv, TypeOK
  <2>3. \A h \in Generations : stopper'[h] = IF h = g THEN "done" ELSE stopper[h]
    BY <2>1 DEF IInv, TypeOK
  <2>4. WorkersKeep
    BY <1>1, <1>2, <2>1, <2>3 DEF IInv, OccupantIsAwaited, WorkersKeep
  <2>5. EntryKeeps(k, e)
    BY <2>1 DEF IInv, StarterOwnsStart, OccupantIsCurrent, IsCurrent, Owning, EntryKeeps
  <2>6. /\ GenerationsInOrder' /\ StarterOwnsStart' /\ OccupantIsCurrent'
        /\ OccupantIsAwaited' /\ ShutdownSettled'
    BY <1>1, <1>2, <1>3, <2>1, <2>2, <2>4, <2>5, WorkerStep
  <2>7. TypeOK'
    BY <1>1, <2>1 DEF IInv, TypeOK
  <2>8. EntriesShaped'
    BY <1>1, <2>1 DEF IInv, EntriesShaped, EntryShape, Unused
  <2>9. LeasesLinked' /\ ConnectorsLinked' /\ UsersAreServed'
    BY <2>1 DEF IInv, LeasesLinked, ConnectorsLinked, UsersAreServed
  <2> QED BY <2>6, <2>7, <2>8, <2>9 DEF IInv
<1>5. CASE IsCurrent(g) /\ e.state = "stopping"
  <2>1. /\ e.gen = g /\ e.instance /\ ~e.startPending /\ e.connectors = {}
        /\ e.state = "stopping" /\ e.gen # 0
        /\ gone <=> process[g] = "exited"
    BY <1>3, <1>5 DEF IsCurrent, EntryShape
  <2>2. \A h \in Generations :
          generationKey[h] = k /\ e.gen = h => h = g /\ starter[h] \notin Owning
    BY <2>1 DEF IInv, StarterOwnsStart, Owning
  <2>3. CASE ~gone /\ StopUnreaped(g)
    <3> DEFINE d == [e EXCEPT !.leases = {}, !.connectors = {}]
               f == Fail(d)
    <3>1. /\ d \in Entry /\ SameGeneration(e, d) /\ d.leases = {}
          /\ d.connectors = {} /\ d.timer = e.timer
      BY <1>3, DroppedUsersEntry
    <3>2. /\ SetEntry(k, f) /\ DropUsers(k, f)
          /\ shutdownErrors' = (shutdownErrors \/ closing)
          /\ stopper' = [stopper EXCEPT ![g] = "done"]
          /\ UNCHANGED <<nextGeneration, generationKey, process, starter>>
      BY <2>3 DEF StopUnreaped
    <3> HIDE DEF d
    <3>3. /\ f \in Entry /\ SameGeneration(e, f) /\ f.leases = {}
          /\ f.connectors = {} /\ f.state = "failed"
          /\ f.timer["idle"] = "none" /\ f.timer["start"] = e.timer["start"]
      BY <3>1, FailKeeps DEF SameGeneration, SameUsers
    <3> HIDE DEF f
    <3>4. EntryShape(f, closing, process)
      BY <1>3, <2>1, <2>3, <3>3 DEF EntryShape, SameGeneration
    <3>5. f.gen = e.gen /\ f.instance /\ shutdownErrors' \in BOOLEAN
      BY <1>3, <2>1, <3>2, <3>3 DEF SameGeneration, IInv, TypeOK
    <3>6. EntryKeeps(k, f)
      BY <2>1, <2>2, <3>2, <3>3, <3>5 DEF EntryKeeps
    <3> QED
      BY <1>1, <1>2, <2>1, <3>2, <3>3, <3>4, <3>5, <3>6, StopperStep
  <2>4. CASE gone /\ ~closing /\ e.leases # {}
    <3> DEFINE r == ReapedEntry(e)
               d == [r EXCEPT !.leases = {}]
               f == Fail(d)
    <3>1. /\ r \in Entry /\ r.leases = e.leases /\ r.connectors = {}
          /\ ~r.instance /\ ~r.reaped /\ r.gen = e.gen /\ ~r.startPending
          /\ r.timer = e.timer
      BY <1>3, <2>1, StoppedEntries DEF SameUsers
    <3>2. StopRestarts(g) /\ shutdownErrors' = (shutdownErrors \/ (closing /\ err))
      BY <1>5, <2>4 DEF CompleteStop
    <3>3. shutdownErrors' \in BOOLEAN
      BY <3>2 DEF IInv, TypeOK
    <3>4. CASE nextGeneration < MaxGeneration
      <4>1. /\ StartGeneration(k, r)
            /\ lease' = AttachOpening(r.leases, nextGeneration + 1)
            /\ UNCHANGED connector
            /\ stopper' = [stopper EXCEPT ![g] = "done"]
        BY <3>2, <3>4 DEF StopRestarts
      <4> HIDE DEF r
      <4> QED
        BY <1>1, <1>2, <2>1, <2>4, <3>1, <3>3, <4>1, RestartStep
    <3>5. CASE ~(nextGeneration < MaxGeneration)
      <4>1. /\ SetEntry(k, f) /\ DropUsers(k, f)
            /\ stopper' = [stopper EXCEPT ![g] = "done"]
            /\ UNCHANGED <<nextGeneration, generationKey, process, starter>>
        BY <3>2, <3>5 DEF StopRestarts
      <4> HIDE DEF r
      <4>2. /\ d \in Entry /\ SameGeneration(r, d) /\ d.leases = {}
            /\ d.connectors = {} /\ d.timer = r.timer
        BY <3>1, DroppedLeasesEntry
      <4> HIDE DEF d
      <4>3. /\ f \in Entry /\ SameGeneration(r, f) /\ f.leases = {}
            /\ f.connectors = {} /\ f.state = "failed"
            /\ f.timer["idle"] = "none" /\ f.timer["start"] = e.timer["start"]
        BY <3>1, <4>2, FailKeeps DEF SameGeneration, SameUsers
      <4> HIDE DEF f
      <4>4. EntryShape(f, closing, process)
        BY <1>3, <2>1, <3>1, <4>3 DEF EntryShape, SameGeneration
      <4>5. f.gen = e.gen
        BY <3>1, <4>3 DEF SameGeneration
      <4>6. ~Occupies(g)
        BY <2>1, <2>4 DEF Occupies
      <4>7. EntryKeeps(k, f)
        BY <2>2, <4>1, <4>6 DEF EntryKeeps
      <4> QED
        BY <1>1, <1>2, <2>1, <3>3, <4>1, <4>3, <4>4, <4>5, <4>7, StopperStep
    <3> QED BY <3>4, <3>5
  <2>5. CASE gone /\ ~(~closing /\ e.leases # {})
    <3> DEFINE r == ReapedEntry(e)
               d == [r EXCEPT !.leases = {}, !.connectors = {}]
               f == DeleteColdEntry(d)
    <3>1. /\ r \in Entry /\ ~r.instance /\ ~r.reaped /\ r.gen = e.gen
          /\ ~r.startPending /\ r.timer = e.timer /\ r.state = "cold"
      BY <1>3, <2>1, StoppedEntries
    <3>2. StopEvicts(g) /\ shutdownErrors' = (shutdownErrors \/ (closing /\ err))
      BY <1>5, <2>5 DEF CompleteStop
    <3>3. shutdownErrors' \in BOOLEAN
      BY <3>2 DEF IInv, TypeOK
    <3>4. /\ SetEntry(k, f) /\ DropUsers(k, f)
          /\ stopper' = [stopper EXCEPT ![g] = "done"]
          /\ UNCHANGED <<nextGeneration, generationKey, process, starter>>
      BY <3>2 DEF StopEvicts
    <3> HIDE DEF r
    <3>5. /\ d \in Entry /\ SameGeneration(r, d) /\ d.leases = {}
          /\ d.connectors = {} /\ d.timer = r.timer /\ d.state = "cold"
      BY <3>1, DroppedUsersEntry
    <3> HIDE DEF d
    <3>6. f \in Entry /\ (f = d \/ f = NoEntry)
      BY <3>5, DeleteColdEntryKeeps
    <3> HIDE DEF f
    <3>7. EntryShape(d, closing, process)
      BY <1>3, <2>1, <3>1, <3>5 DEF EntryShape, SameGeneration
    <3>8. EntryShape(NoEntry, closing, process)
      BY NoEntryFields DEF EntryShape, Unused
    <3>9. /\ f.gen \in {e.gen, 0} /\ f.leases = {} /\ f.connectors = {}
          /\ EntryShape(f, closing, process)
      BY <3>1, <3>5, <3>6, <3>7, <3>8, NoEntryFields DEF SameGeneration
    <3>10. ~Occupies(g)
      BY <2>1, <2>5 DEF Occupies
    <3>11. EntryKeeps(k, f)
      BY <2>2, <3>4, <3>10 DEF EntryKeeps
    <3> QED
      BY <1>1, <1>2, <2>1, <3>3, <3>4, <3>6, <3>9, <3>11, StopperStep
  <2> QED BY <1>5, <2>3, <2>4, <2>5 DEF CompleteStop
<1> QED BY <1>4, <1>5

----------------------------------------
(* Time and timer callbacks.                                               *)

\* Only timers, counters and deadlines of one entry change, and no start or
\* idle timer is armed.
LEMMA TimerOnlyStep ==
  ASSUME IInv, NEW k \in Keys, NEW f \in Entry,
         entries' = [entries EXCEPT ![k] = f],
         SameGeneration(entries[k], f), SameUsers(entries[k], f),
         f.state = entries[k].state,
         f.timer["start"] = "none" <=> entries[k].timer["start"] = "none",
         f.timer["idle"] = "none" <=> entries[k].timer["idle"] = "none",
         staleCallbacks' \subseteq
              [kind : TimerKinds, key : Keys, gen : 0 .. MaxGeneration],
         UNCHANGED <<lease, connector, nextGeneration, generationKey, process,
                     startCancelled, closing, shutdownDone, shutdownErrors,
                     starter, watcher, stopper>>
  PROVE  IInv'
<1>1. entries[k] \in Entry /\ EntryShape(entries[k], closing, process)
  BY ShapeBefore
<1>2. EntryShape(f, closing', process')
  BY <1>1 DEF EntryShape, SameGeneration, SameUsers, Unused
<1>3. EntriesShaped'
  BY <1>2, ShapeBefore, ShapeStep
<1>4. TypeOK'
  BY DEF IInv, TypeOK
<1>5. /\ entries \in [Keys -> Entry]
      /\ \A j \in Keys : /\ entries'[j].leases = entries[j].leases
                         /\ entries'[j].connectors = entries[j].connectors
                         /\ entries'[j].state = entries[j].state
                         /\ entries'[j].gen = entries[j].gen
                         /\ entries'[j].instance = entries[j].instance
  BY DEF IInv, TypeOK, SameGeneration, SameUsers
<1>6. LeasesLinked' /\ ConnectorsLinked'
  BY <1>5 DEF IInv, LeasesLinked, ConnectorsLinked
<1>7. UsersAreServed'
  <2>1. \A l \in Leases : lease[l].state = "active" => lease[l].key \in Keys
    BY DEF IInv, LeasesLinked
  <2>2. \A c \in Connectors : connector[c].state = "open" => connector[c].key \in Keys
    BY DEF IInv, ConnectorsLinked
  <2> QED BY <1>5, <2>1, <2>2 DEF IInv, UsersAreServed
<1> QED BY <1>3, <1>4, <1>6, <1>7, QuietStep DEF IInv

\* A deadline is reached.
LEMMA DeadlinePassesStep ==
  ASSUME IInv, NEW k \in Keys, NEW t \in TimerKinds, DeadlinePasses(k, t)
  PROVE  IInv'
<1> DEFINE e == entries[k]
           f == [e EXCEPT !.timer[t] = "due"]
<1>1. e \in Entry
  BY ShapeBefore
<1>2. /\ f \in Entry /\ SameGeneration(e, f) /\ SameUsers(e, f)
      /\ f.state = e.state
      /\ \A u \in TimerKinds : f.timer[u] = IF u = t THEN "due" ELSE e.timer[u]
  BY <1>1 DEF Entry, Phases, SameGeneration, SameUsers
<1>3. /\ entries' = [entries EXCEPT ![k] = f] /\ e.timer[t] = "future"
      /\ UNCHANGED <<staleCallbacks, lease, connector, nextGeneration,
                     generationKey, process, startCancelled, closing,
                     shutdownDone, shutdownErrors, starter, watcher, stopper>>
  BY DEF DeadlinePasses, userVars, generationVars, flagVars, workerVars
<1> HIDE DEF f
<1>4. /\ f.timer["start"] = "none" <=> e.timer["start"] = "none"
      /\ f.timer["idle"] = "none" <=> e.timer["idle"] = "none"
  BY <1>2, <1>3 DEF TimerKinds
<1>5. staleCallbacks' \subseteq
              [kind : TimerKinds, key : Keys, gen : 0 .. MaxGeneration]
  BY <1>3 DEF IInv, TypeOK
<1> QED BY <1>2, <1>3, <1>4, <1>5, TimerOnlyStep

\* The retry deadline or the stable period passes.
LEMMA PeriodPassesStep ==
  ASSUME IInv, NEW k \in Keys,
         RetryDeadlinePasses(k) \/ StablePeriodPasses(k)
  PROVE  IInv'
<1> DEFINE e == entries[k]
           r == [e EXCEPT !.retry = "past"]
           s == [e EXCEPT !.readyAt = "stable",
                          !.timer["stable"] =
                              IF e.timer["stable"] = "future" THEN "due"
                              ELSE e.timer["stable"]]
<1>1. e \in Entry
  BY ShapeBefore
<1>2. /\ UNCHANGED <<staleCallbacks, lease, connector, nextGeneration,
                     generationKey, process, startCancelled, closing,
                     shutdownDone, shutdownErrors, starter, watcher, stopper>>
  BY DEF RetryDeadlinePasses, StablePeriodPasses, userVars, generationVars, flagVars, workerVars
<1>3. staleCallbacks' \subseteq
              [kind : TimerKinds, key : Keys, gen : 0 .. MaxGeneration]
  BY <1>2 DEF IInv, TypeOK
<1>4. CASE RetryDeadlinePasses(k)
  <2>1. /\ r \in Entry /\ SameGeneration(e, r) /\ SameUsers(e, r)
        /\ r.state = e.state /\ r.timer = e.timer
    BY <1>1 DEF Entry, SameGeneration, SameUsers
  <2>2. entries' = [entries EXCEPT ![k] = r]
    BY <1>4 DEF RetryDeadlinePasses
  <2> HIDE DEF r
  <2> QED BY <1>2, <1>3, <2>1, <2>2, TimerOnlyStep
<1>5. CASE StablePeriodPasses(k)
  <2>1. /\ s \in Entry /\ SameGeneration(e, s) /\ SameUsers(e, s)
        /\ s.state = e.state /\ s.timer["start"] = e.timer["start"]
        /\ s.timer["idle"] = e.timer["idle"]
    BY <1>1 DEF Entry, Phases, TimerKinds, SameGeneration, SameUsers
  <2>2. entries' = [entries EXCEPT ![k] = s]
    BY <1>1, <1>5 DEF StablePeriodPasses, Entry
  <2> HIDE DEF s
  <2> QED BY <1>2, <1>3, <2>1, <2>2, TimerOnlyStep
<1> QED BY <1>4, <1>5

\* expireIdle begins the stop of an idle generation.
LEMMA ExpireIdleStep ==
  ASSUME IInv, NEW k \in Keys, ExpireIdle(k)
  PROVE  IInv'
<1> DEFINE e == entries[k]
           d == [e EXCEPT !.timer["idle"] = "none"]
           f == BeginStop(e)
<1>1. /\ e.timer["idle"] = "due" /\ ~closing
      /\ entries' = [entries EXCEPT ![k] = f]
      /\ staleCallbacks' = staleCallbacks \cup Orphans(k, d, f)
      /\ stopper' = [stopper EXCEPT ![e.gen] = "stop"]
      /\ UNCHANGED <<lease, connector, nextGeneration, generationKey, process,
                     startCancelled, starter, watcher, closing, shutdownDone,
                     shutdownErrors>>
  BY DEF ExpireIdle, CallbackSets, userVars, generationVars, flagVars
<1>2. /\ e \in Entry /\ EntryShape(e, closing, process) /\ e.state = "idle"
      /\ e.leases = {} /\ e.connectors = {} /\ e.instance /\ ~e.startPending
  BY <1>1, ShapeBefore DEF EntryShape, Unused
<1>3. d \in Entry
  BY <1>2 DEF Entry, TimerKinds, Phases
<1>4. /\ f \in Entry /\ SameUsers(e, f) /\ f.gen = e.gen
      /\ f.instance = e.instance /\ f.startPending = e.startPending
      /\ f.state = "stopping" /\ ~f.reaped /\ f.timer["idle"] = "none"
      /\ f.timer["start"] = e.timer["start"]
  BY <1>2, BeginStopKeeps
<1> HIDE DEF f, d
<1>5. EntriesShaped'
  <2>1. EntryShape(f, closing', process')
    BY <1>1, <1>2, <1>4 DEF EntryShape, SameUsers
  <2> QED BY <1>1, <1>4, <2>1, ShapeBefore, ShapeStep
<1>6. /\ e.gen \in Generations /\ e.gen <= nextGeneration
      /\ ~(e.gen > nextGeneration) /\ ~shutdownDone
  <2>1. e.gen \in Generations /\ e.gen <= nextGeneration
    BY <1>2, RegistryAssumption DEF Entry, EntryShape, Generations, IInv, GenerationsInOrder,
      RegistryAssumption
  <2>2. ~(e.gen > nextGeneration)
    BY <2>1, RegistryAssumption DEF IInv, TypeOK, Generations, RegistryAssumption
  <2> QED BY <1>1, <2>1, <2>2 DEF IInv, ShutdownSettled
<1>7. TypeOK'
  BY <1>1, <1>3, <1>4, OrphansType DEF IInv, TypeOK
<1>8. \A h \in Generations : stopper'[h] = IF h = e.gen THEN "stop" ELSE stopper[h]
  BY <1>1 DEF IInv, TypeOK
<1>9. WorkersKeep
  BY <1>1, <1>6, <1>8 DEF IInv, OccupantIsAwaited, WorkersKeep
<1>10. EntryKeeps(k, f)
  BY <1>1, <1>2, <1>4 DEF IInv, StarterOwnsStart, OccupantIsCurrent, Owning, EntryKeeps
<1>11. f.gen \in {e.gen, 0}
  BY <1>4
<1>12. /\ GenerationsInOrder' /\ StarterOwnsStart' /\ OccupantIsCurrent'
       /\ OccupantIsAwaited' /\ ShutdownSettled'
  BY <1>1, <1>4, <1>6, <1>9, <1>10, <1>11, WorkerStep
<1>13. /\ entries'[k] = f /\ \A j \in Keys : j # k => entries'[j] = entries[j]
  BY <1>1 DEF IInv, TypeOK
<1>14. LeasesLinked' /\ ConnectorsLinked'
  BY <1>1, <1>4, <1>13 DEF IInv, LeasesLinked, ConnectorsLinked, SameUsers
<1>15. UsersAreServed'
  <2>1. \A l \in Leases : lease[l].state = "active" =>
          lease[l].key \in Keys /\ lease[l].key # k
    BY <1>2 DEF IInv, LeasesLinked, UsersAreServed
  <2>2. \A c \in Connectors : connector[c].state = "open" =>
          connector[c].key \in Keys /\ connector[c].key # k
    BY <1>2 DEF IInv, ConnectorsLinked, UsersAreServed
  <2> QED BY <1>1, <1>13, <2>1, <2>2 DEF IInv, UsersAreServed
<1> QED BY <1>5, <1>7, <1>12, <1>14, <1>15 DEF IInv

\* resetStableGeneration.
LEMMA ResetStableStep ==
  ASSUME IInv, NEW k \in Keys, ResetStable(k)
  PROVE  IInv'
<1> DEFINE e == entries[k]
           d == [e EXCEPT !.timer["stable"] = "none"]
           c == Cancel(e, {"stable"})
           f == [c EXCEPT !.failures = 0]
<1>1. /\ entries' = [entries EXCEPT ![k] = f]
      /\ staleCallbacks' = staleCallbacks \cup Orphans(k, d, f)
      /\ UNCHANGED <<lease, connector, nextGeneration, generationKey, process,
                     startCancelled, closing, shutdownDone, shutdownErrors,
                     starter, watcher, stopper>>
  BY DEF ResetStable, CallbackSets, userVars, generationVars, flagVars, workerVars
<1>2. e \in Entry /\ 0 \in 0 .. MaxFailures
  BY ShapeBefore, RegistryAssumption DEF RegistryAssumption
<1>3. d \in Entry
  BY <1>2 DEF Entry, TimerKinds, Phases
<1>4. /\ c \in Entry /\ SameGeneration(e, c) /\ SameUsers(e, c)
      /\ c.state = e.state /\ c.timer["start"] = e.timer["start"]
      /\ c.timer["idle"] = e.timer["idle"]
  BY <1>2, CancelKeeps DEF TimerKinds
<1> HIDE DEF c, d
<1>5. /\ f \in Entry /\ SameGeneration(e, f) /\ SameUsers(e, f)
      /\ f.state = e.state /\ f.timer = c.timer
  BY <1>2, <1>4 DEF Entry, SameGeneration, SameUsers
<1> HIDE DEF f
<1>6. staleCallbacks' \subseteq
              [kind : TimerKinds, key : Keys, gen : 0 .. MaxGeneration]
  BY <1>1, <1>3, <1>5, OrphansType DEF IInv, TypeOK
<1> QED BY <1>1, <1>4, <1>5, <1>6, TimerOnlyStep

\* expireFailure evicts a failed entry or leaves it to a worker.
LEMMA ExpireFailureStep ==
  ASSUME IInv, NEW k \in Keys, ExpireFailure(k)
  PROVE  IInv'
<1> DEFINE e == entries[k]
           d == [e EXCEPT !.timer["failure"] = "none"]
           s == [e EXCEPT !.timer["failure"] = "spent"]
           f == DeleteFailedEntry(s)
<1>1. /\ entries' = [entries EXCEPT ![k] = f] /\ ~closing
      /\ staleCallbacks' = staleCallbacks \cup Orphans(k, d, f)
      /\ UNCHANGED <<lease, connector, nextGeneration, generationKey, process,
                     startCancelled, closing, shutdownDone, shutdownErrors,
                     starter, watcher, stopper>>
  BY DEF ExpireFailure, CallbackSets, userVars, generationVars, flagVars, workerVars
<1>2. e \in Entry /\ EntryShape(e, closing, process)
  BY ShapeBefore
<1>3. d \in Entry
  BY <1>2 DEF Entry, TimerKinds, Phases
<1>4. /\ s \in Entry /\ SameGeneration(e, s) /\ SameUsers(e, s)
      /\ s.state = e.state /\ s.timer["start"] = e.timer["start"]
      /\ s.timer["idle"] = e.timer["idle"]
  BY <1>2 DEF Entry, Phases, TimerKinds, SameGeneration, SameUsers
<1> HIDE DEF s, d
<1>5. CASE f = s
  <2>1. staleCallbacks' \subseteq
              [kind : TimerKinds, key : Keys, gen : 0 .. MaxGeneration]
    BY <1>1, <1>3, <1>4, <1>5, OrphansType DEF IInv, TypeOK
  <2> QED BY <1>1, <1>4, <1>5, <2>1, TimerOnlyStep
<1>6. CASE f # s
  <2>1. /\ f = NoEntry /\ ~e.instance /\ ~e.startPending
        /\ e.leases = {} /\ e.connectors = {} /\ f \in Entry
    BY <1>4, <1>6, DeleteFailedEntryKeeps, NoEntryIsEntry DEF SameGeneration, SameUsers, Unused
  <2> HIDE DEF f
  <2>2. staleCallbacks' \subseteq
              [kind : TimerKinds, key : Keys, gen : 0 .. MaxGeneration]
    BY <1>1, <1>3, <2>1, OrphansType DEF IInv, TypeOK
  <2>3. TypeOK'
    BY <1>1, <2>1, <2>2 DEF IInv, TypeOK
  <2>4. EntryShape(f, closing', process')
    BY <2>1, NoEntryFields DEF EntryShape, Unused
  <2>5. EntriesShaped'
    BY <1>1, <2>1, <2>4, ShapeBefore, ShapeStep
  <2>6. f.gen \in {e.gen, 0} /\ f.leases = {} /\ f.connectors = {}
    BY <2>1, NoEntryFields
  <2>7. WorkersKeep
    BY <1>1 DEF IInv, OccupantIsAwaited, WorkersKeep
  <2>8. EntryKeeps(k, f)
    BY <1>1, <2>1 DEF IInv, StarterOwnsStart, OccupantIsCurrent, Owning, EntryKeeps
  <2>9. ~shutdownDone
    BY <1>1 DEF IInv, ShutdownSettled
  <2>10. /\ GenerationsInOrder' /\ StarterOwnsStart' /\ OccupantIsCurrent'
         /\ OccupantIsAwaited' /\ ShutdownSettled'
    BY <1>1, <2>1, <2>6, <2>7, <2>8, <2>9, WorkerStep
  <2>11. /\ entries'[k] = f /\ \A j \in Keys : j # k => entries'[j] = entries[j]
    BY <1>1 DEF IInv, TypeOK
  <2>12. LeasesLinked' /\ ConnectorsLinked'
    BY <1>1, <2>1, <2>6, <2>11 DEF IInv, LeasesLinked, ConnectorsLinked
  <2>13. UsersAreServed'
    <3>1. \A l \in Leases : lease[l].state = "active" =>
            lease[l].key \in Keys /\ lease[l].key # k
      BY <2>1 DEF IInv, LeasesLinked
    <3>2. \A c \in Connectors : connector[c].state = "open" =>
            connector[c].key \in Keys /\ connector[c].key # k
      BY <2>1 DEF IInv, ConnectorsLinked
    <3> QED BY <1>1, <2>11, <3>1, <3>2 DEF IInv, UsersAreServed
  <2> QED BY <2>3, <2>5, <2>10, <2>12, <2>13 DEF IInv
<1> QED BY <1>5, <1>6

\* A callback that outlived its timer.
LEMMA RunStaleCallbackStep ==
  ASSUME IInv, NEW cb \in staleCallbacks, RunStaleCallback(cb)
  PROVE  IInv'
<1> DEFINE k == cb.key
           e == entries[k]
           r == [e EXCEPT !.failures = 0, !.timer["stable"] = "none"]
<1>1. /\ staleCallbacks' = staleCallbacks \ {cb}
      /\ \/ entries' = entries
         \/ entries' = [entries EXCEPT ![k].failures = 0,
                                       ![k].timer["stable"] = "none"]
      /\ UNCHANGED <<lease, connector, nextGeneration, generationKey, process,
                     startCancelled, closing, shutdownDone, shutdownErrors,
                     starter, watcher, stopper>>
  BY DEF RunStaleCallback, userVars, generationVars, flagVars, workerVars
<1>2. k \in Keys /\ entries \in [Keys -> Entry]
  BY DEF IInv, TypeOK
<1>3. e \in Entry /\ 0 \in 0 .. MaxFailures
  BY <1>2, RegistryAssumption DEF RegistryAssumption
<1>4. staleCallbacks' \subseteq
              [kind : TimerKinds, key : Keys, gen : 0 .. MaxGeneration]
  BY <1>1 DEF IInv, TypeOK
<1>5. CASE entries' = entries
  <2>1. entries' = [entries EXCEPT ![k] = e]
    BY <1>2, <1>5
  <2>2. SameGeneration(e, e) /\ SameUsers(e, e)
    BY DEF SameGeneration, SameUsers
  <2> QED BY <1>1, <1>2, <1>3, <1>4, <2>1, <2>2, TimerOnlyStep
<1>6. CASE entries' # entries
  <2>1. entries' = [entries EXCEPT ![k] = r]
    BY <1>1, <1>2, <1>3, <1>6 DEF Entry
  <2>2. /\ r \in Entry /\ SameGeneration(e, r) /\ SameUsers(e, r)
        /\ r.state = e.state /\ r.timer["start"] = e.timer["start"]
        /\ r.timer["idle"] = e.timer["idle"]
    BY <1>3 DEF Entry, Phases, TimerKinds, SameGeneration, SameUsers
  <2> HIDE DEF r
  <2> QED BY <1>1, <1>2, <1>4, <2>1, <2>2, TimerOnlyStep
<1> QED BY <1>5, <1>6

----------------------------------------
(* Shutdown.                                                               *)

\* What beginShutdownLocked leaves of an entry.
LEMMA ShutdownEntryKeeps ==
  ASSUME IInv, NEW k \in Keys
  PROVE  LET f == ShutdownEntry(entries[k])
         IN  /\ f \in Entry
             /\ EntryShape(f, TRUE, process)
             /\ f.leases = {} /\ f.connectors = {}
             /\ f.gen = entries[k].gen
             /\ f.startPending = entries[k].startPending
             /\ f.instance = entries[k].instance
             /\ f.state = "absent" <=> entries[k].state = "absent"
<1> DEFINE e == entries[k]
           c == Cancel(e, TimerKinds)
           d == [c EXCEPT !.leases = {}, !.connectors = {}]
           h == [d EXCEPT !.state = "cold"]
<1>1. e \in Entry /\ EntryShape(e, closing, process)
  BY ShapeBefore
<1>2. /\ c \in Entry /\ SameGeneration(e, c) /\ c.state = e.state
      /\ c.timer["start"] = "none" /\ c.timer["idle"] = "none"
  BY <1>1, CancelKeeps DEF TimerKinds
<1>3. ShutdownEntry(e) =
          CASE e.state \in {"ready", "idle", "failed"} /\ e.instance -> BeginStop(d)
            [] e.state \in {"ready", "idle", "failed"} /\ ~e.instance -> h
            [] OTHER -> d
  BY DEF ShutdownEntry
<1> HIDE DEF c
<1>4. /\ d \in Entry /\ SameGeneration(e, d) /\ d.state = e.state
      /\ d.leases = {} /\ d.connectors = {}
      /\ d.timer["start"] = "none" /\ d.timer["idle"] = "none"
  BY <1>2, DroppedUsersEntry DEF SameGeneration
<1> HIDE DEF d
<1>5. CASE e.state \in {"ready", "idle", "failed"} /\ e.instance
  <2> DEFINE f == BeginStop(d)
  <2>1. /\ f \in Entry /\ f.gen = e.gen /\ f.leases = {} /\ f.connectors = {}
        /\ f.instance = e.instance /\ f.startPending = e.startPending
        /\ f.state = "stopping" /\ ~f.reaped
        /\ f.timer["start"] = "none" /\ f.timer["idle"] = "none"
    BY <1>4, BeginStopKeeps DEF SameGeneration, SameUsers
  <2> HIDE DEF f
  <2>2. EntryShape(f, TRUE, process)
    BY <1>1, <1>5, <2>1 DEF EntryShape
  <2>3. ShutdownEntry(e) = f
    BY <1>3, <1>5 DEF f
  <2> QED BY <1>5, <2>1, <2>2, <2>3
<1>6. CASE e.state \in {"ready", "idle", "failed"} /\ ~e.instance
  <2>1. /\ h \in Entry /\ SameGeneration(e, h) /\ h.state = "cold"
        /\ h.leases = {} /\ h.connectors = {}
        /\ h.timer["start"] = "none" /\ h.timer["idle"] = "none"
    BY <1>4 DEF Entry, States, SameGeneration
  <2>2. ShutdownEntry(e) = h
    BY <1>3, <1>6
  <2> HIDE DEF h
  <2>3. EntryShape(h, TRUE, process)
    BY <1>1, <1>6, <2>1 DEF EntryShape, SameGeneration
  <2> QED BY <1>6, <2>1, <2>2, <2>3 DEF SameGeneration
<1>7. CASE e.state \notin {"ready", "idle", "failed"}
  <2>1. ShutdownEntry(e) = d
    BY <1>3, <1>7
  <2>2. EntryShape(d, TRUE, process)
    BY <1>1, <1>4, <1>7 DEF EntryShape, SameGeneration, Unused
  <2> QED BY <1>4, <1>7, <2>1, <2>2 DEF SameGeneration
<1> QED BY <1>5, <1>6, <1>7

\* beginShutdownLocked.
LEMMA BeginShutdownStep ==
  ASSUME IInv, BeginShutdown
  PROVE  IInv'
<1> DEFINE f(k) == ShutdownEntry(entries[k])
           S == UNION {entries[k].leases : k \in Keys}
           D == UNION {entries[k].connectors : k \in Keys}
<1>1. /\ ~closing /\ closing' = TRUE
      /\ startCancelled' = [g \in Generations |-> TRUE]
      /\ entries' = [k \in Keys |-> f(k)]
      /\ staleCallbacks' = staleCallbacks \cup
              UNION {Orphans(k, entries[k], f(k)) : k \in Keys}
      /\ lease' = Invalidated(S)
      /\ connector' = Disconnected(D)
      /\ stopper' = [g \in Generations |->
            IF \E k \in Keys : /\ entries[k].gen = g /\ entries[k].instance
                               /\ entries[k].state \in {"ready", "idle", "failed"}
            THEN "stop" ELSE stopper[g]]
      /\ UNCHANGED <<nextGeneration, shutdownDone, shutdownErrors,
                     generationKey, process, starter, watcher>>
  BY DEF BeginShutdown, CancelLifetime
<1>2. \A k \in Keys :
          /\ f(k) \in Entry /\ EntryShape(f(k), TRUE, process)
          /\ f(k).leases = {} /\ f(k).connectors = {}
          /\ f(k).gen = entries[k].gen
          /\ f(k).startPending = entries[k].startPending
          /\ f(k).instance = entries[k].instance
          /\ f(k).state = "absent" <=> entries[k].state = "absent"
  BY ShutdownEntryKeeps
<1> HIDE DEF f
<1>3. /\ entries' \in [Keys -> Entry]
      /\ \A k \in Keys : entries'[k] = f(k)
      /\ entries \in [Keys -> Entry]
  BY <1>1, <1>2 DEF IInv, TypeOK
<1>4. staleCallbacks' \subseteq
              [kind : TimerKinds, key : Keys, gen : 0 .. MaxGeneration]
  <2>1. \A k \in Keys : Orphans(k, entries[k], f(k)) \subseteq
              [kind : TimerKinds, key : Keys, gen : 0 .. MaxGeneration]
    BY <1>2, <1>3, OrphansType
  <2>2. UNION {Orphans(k, entries[k], f(k)) : k \in Keys} \subseteq
              [kind : TimerKinds, key : Keys, gen : 0 .. MaxGeneration]
    BY <2>1
  <2> QED BY <1>1, <2>2 DEF IInv, TypeOK
<1>5. /\ lease' \in [Leases -> LeaseRecord]
      /\ \A l \in Leases :
          /\ lease'[l].caller = lease[l].caller
          /\ lease'[l].state = IF l \in S THEN "closed" ELSE lease[l].state
  <2> HIDE DEF S
  <2>1. \A l \in Leases : lease'[l] =
          IF l \in S
          THEN [lease[l] EXCEPT !.state = "closed",
                   !.ready = IF lease[l].state = "opening" THEN "error"
                             ELSE lease[l].ready]
          ELSE lease[l]
    BY <1>1 DEF Invalidated
  <2>2. \A l \in Leases : lease[l] \in LeaseRecord
    BY DEF IInv, TypeOK
  <2>3. \A l \in Leases :
          /\ lease'[l] \in LeaseRecord
          /\ lease'[l].caller = lease[l].caller
          /\ lease'[l].state = IF l \in S THEN "closed" ELSE lease[l].state
    <3> SUFFICES ASSUME NEW l \in Leases
                 PROVE  /\ lease'[l] \in LeaseRecord
                        /\ lease'[l].caller = lease[l].caller
                        /\ lease'[l].state =
                              IF l \in S THEN "closed" ELSE lease[l].state
      OBVIOUS
    <3>1. CASE l \in S
      BY ZenonT(60), <2>1, <2>2, <3>1 DEF LeaseRecord, LeaseStates
    <3>2. CASE l \notin S
      BY <2>1, <2>2, <3>2
    <3> QED BY <3>1, <3>2
  <2> QED BY <1>1, <2>3 DEF Invalidated
<1>6. /\ connector' \in [Connectors -> ConnectorRecord]
      /\ \A c \in Connectors :
          connector'[c].state = IF c \in D THEN "closed" ELSE connector[c].state
  <2> HIDE DEF D
  <2> QED BY <1>1 DEF IInv, TypeOK, Disconnected, ConnectorRecord
<1>7. /\ \A l \in Leases : lease'[l].state \notin {"opening", "active"}
      /\ \A c \in Connectors : connector'[c].state # "open"
  <2>1. \A l \in Leases : lease[l].state \in {"opening", "active"} => l \in S
    BY DEF IInv, LeasesLinked
  <2>2. \A c \in Connectors : connector[c].state = "open" => c \in D
    BY DEF IInv, ConnectorsLinked
  <2> HIDE DEF S, D
  <2> QED BY <1>5, <1>6, <2>1, <2>2
<1>8. TypeOK'
  BY <1>1, <1>3, <1>4, <1>5, <1>6 DEF IInv, TypeOK
<1>9. GenerationsInOrder'
  <2>1. \A g \in Generations : g > nextGeneration => stopper'[g] = stopper[g]
    <3>1. \A k \in Keys, g \in Generations :
              entries[k].gen = g => ~(g > nextGeneration)
      BY RegistryAssumption DEF IInv, GenerationsInOrder, TypeOK, Generations, RegistryAssumption
    <3> QED BY <1>1, <3>1
  <2> QED BY <1>1, <1>2, <1>3, <2>1 DEF IInv, GenerationsInOrder
<1>10. EntriesShaped'
  BY <1>1, <1>2, <1>3 DEF EntriesShaped
<1>11. StarterOwnsStart'
  BY ZenonT(60), <1>1, <1>2, <1>3 DEF IInv, StarterOwnsStart, IsCurrent
<1>12. OccupantIsCurrent'
  BY ZenonT(60), <1>1, <1>2, <1>3 DEF IInv, OccupantIsCurrent, IsCurrent, Occupies
<1>13. OccupantIsAwaited'
  BY <1>1 DEF IInv, OccupantIsAwaited
<1>14. LeasesLinked'
  <2>1. \A l \in Leases : lease'[l].caller # "none" => lease'[l].state # "none"
    <3> HIDE DEF S
    <3> QED BY <1>5 DEF IInv, LeasesLinked
  <2> QED BY <1>2, <1>3, <1>7, <2>1 DEF LeasesLinked
<1>15. ConnectorsLinked' /\ UsersAreServed'
  BY <1>2, <1>3, <1>7 DEF ConnectorsLinked, UsersAreServed
<1>16. ShutdownSettled'
  BY <1>1 DEF IInv, ShutdownSettled
<1> QED
  BY <1>8, <1>9, <1>10, <1>11, <1>12, <1>13, <1>14, <1>15, <1>16 DEF IInv

\* The end of shutdown, with no worker left.
LEMMA FinishShutdownStep ==
  ASSUME IInv, FinishShutdown
  PROVE  IInv'
<1> DEFINE f(k) == IF entries[k].state = "absent" THEN NoEntry
                   ELSE [entries[k] EXCEPT !.state = "cold",
                            !.instance = FALSE, !.reaped = FALSE,
                            !.startPending = FALSE, !.retry = "none"]
<1>1. /\ closing /\ WorkersIdle /\ shutdownDone' = TRUE
      /\ entries' = [k \in Keys |-> f(k)]
      /\ UNCHANGED <<closing, shutdownErrors, staleCallbacks, lease,
                     connector, nextGeneration, generationKey, process,
                     startCancelled, starter, watcher, stopper>>
  BY DEF FinishShutdown, userVars, generationVars, workerVars
<1>2. \A k \in Keys :
          /\ entries[k] \in Entry /\ EntryShape(entries[k], closing, process)
  BY ShapeBefore
<1>3. \A k \in Keys :
          /\ f(k) \in Entry /\ f(k).state \in {"absent", "cold"}
          /\ ~f(k).instance /\ ~f(k).reaped /\ ~f(k).startPending
          /\ f(k).leases = entries[k].leases /\ f(k).connectors = {}
          /\ entries[k].connectors = {}
          /\ f(k).state = "absent" => entries[k].state = "absent"
          /\ f(k).gen \in {entries[k].gen, 0}
  <2> SUFFICES ASSUME NEW k \in Keys
               PROVE  /\ f(k) \in Entry /\ f(k).state \in {"absent", "cold"}
                      /\ ~f(k).instance /\ ~f(k).reaped /\ ~f(k).startPending
                      /\ f(k).leases = entries[k].leases
                      /\ f(k).connectors = {} /\ entries[k].connectors = {}
                      /\ f(k).state = "absent" => entries[k].state = "absent"
                      /\ f(k).gen \in {entries[k].gen, 0}
    OBVIOUS
  <2>1. entries[k].connectors = {}
    BY <1>1, <1>2 DEF EntryShape
  <2>2. CASE entries[k].state = "absent"
    <3>1. entries[k].leases = {}
      BY <1>2, <2>2 DEF EntryShape, Unused
    <3> QED BY <2>1, <2>2, <3>1, NoEntryIsEntry, NoEntryFields
  <2>3. CASE entries[k].state # "absent"
    BY ZenonT(60), <1>2, <2>1, <2>3 DEF Entry, States
  <2> QED BY <2>2, <2>3
<1> HIDE DEF f
<1>4. /\ entries' \in [Keys -> Entry] /\ \A k \in Keys : entries'[k] = f(k)
  BY <1>1, <1>3
<1>5. TypeOK'
  BY <1>1, <1>4 DEF IInv, TypeOK
<1>6. GenerationsInOrder'
  <2>1. nextGeneration \in Nat
    BY RegistryAssumption DEF IInv, TypeOK, RegistryAssumption
  <2>2. \A k \in Keys : entries'[k].gen <= nextGeneration
    BY <1>3, <1>4, <2>1 DEF IInv, GenerationsInOrder
  <2> QED BY <1>1, <2>2 DEF IInv, GenerationsInOrder
<1>7. EntriesShaped'
  <2>1. \A k \in Keys : EntryShape(f(k), closing', process')
    <3> SUFFICES ASSUME NEW k \in Keys
                 PROVE  EntryShape(f(k), closing', process')
      OBVIOUS
    <3>1. entries[k].state = "absent" => entries[k].leases = {}
      BY <1>2 DEF EntryShape, Unused
    <3>2. closing' = TRUE
      BY <1>1 DEF IInv, TypeOK
    <3> QED BY <1>3, <3>1, <3>2 DEF EntryShape, Unused
  <2> QED BY <1>4, <2>1 DEF EntriesShaped
<1>8. StarterOwnsStart'
  BY <1>1 DEF StarterOwnsStart, WorkersIdle
<1>9. OccupantIsCurrent'
  BY <1>1 DEF IInv, OccupantIsAwaited, OccupantIsCurrent, Occupies, WorkersIdle
<1>10. OccupantIsAwaited'
  BY <1>1 DEF IInv, OccupantIsAwaited
<1>11. LeasesLinked' /\ ConnectorsLinked'
  BY <1>1, <1>3, <1>4 DEF IInv, LeasesLinked, ConnectorsLinked
<1>12. UsersAreServed'
  <2>1. \A k \in Keys : entries[k].state # "ready"
    BY <1>1, <1>2 DEF EntryShape
  <2>2. /\ \A l \in Leases : lease[l].state # "active"
        /\ \A c \in Connectors : connector[c].state # "open"
    BY <2>1 DEF IInv, LeasesLinked, ConnectorsLinked, UsersAreServed
  <2> QED BY <1>1, <2>2 DEF UsersAreServed
<1>13. ShutdownSettled'
  BY <1>1 DEF ShutdownSettled, WorkersIdle, IInv, TypeOK
<1> QED
  BY <1>5, <1>6, <1>7, <1>8, <1>9, <1>10, <1>11, <1>12, <1>13 DEF IInv

----------------------------------------
(* The invariant and what follows from it.                                 *)

\* The invariant holds of an empty registry.
LEMMA InitIInv == Init => IInv
<1> SUFFICES ASSUME Init PROVE IInv
  OBVIOUS
<1>1. /\ \A k \in Keys : entries[k] = NoEntry
      /\ entries \in [Keys -> Entry]
  BY NoEntryIsEntry DEF Init
<1>2. /\ 0 \in 0 .. MaxGeneration
      /\ \A g \in Generations : ~(g <= 0) /\ g \in Nat
  BY RegistryAssumption DEF Generations, RegistryAssumption
<1>3. /\ lease \in [Leases -> LeaseRecord]
      /\ connector \in [Connectors -> ConnectorRecord]
  BY <1>2 DEF Init, LeaseRecord, LeaseStates, ConnectorRecord
<1>4. TypeOK
  BY <1>1, <1>2, <1>3 DEF Init, TypeOK, StarterPhases
<1>5. GenerationsInOrder
  BY <1>1, <1>2, NoEntryFields DEF Init, GenerationsInOrder
<1>6. EntriesShaped
  BY <1>1, NoEntryFields DEF Init, EntriesShaped, EntryShape, Unused
<1>7. StarterOwnsStart /\ OccupantIsCurrent /\ OccupantIsAwaited
  BY DEF Init, StarterOwnsStart, OccupantIsCurrent, OccupantIsAwaited, Occupies
<1>8. LeasesLinked /\ ConnectorsLinked /\ UsersAreServed
  BY <1>1, NoEntryFields DEF Init, LeasesLinked, ConnectorsLinked, UsersAreServed
<1>9. ShutdownSettled
  BY DEF Init, ShutdownSettled
<1> QED BY <1>4, <1>5, <1>6, <1>7, <1>8, <1>9 DEF IInv

\* A stuttering step keeps the invariant.
LEMMA StutterIInv == ASSUME IInv, UNCHANGED vars PROVE IInv'
<1>1. TypeOK' /\ GenerationsInOrder'
  BY DEF IInv, vars, TypeOK, GenerationsInOrder
<1>2. EntriesShaped' /\ StarterOwnsStart'
  BY DEF IInv, vars, EntriesShaped, EntryShape, Unused, StarterOwnsStart, IsCurrent
<1>3. OccupantIsCurrent' /\ OccupantIsAwaited'
  BY DEF IInv, vars, OccupantIsCurrent, OccupantIsAwaited, Occupies, IsCurrent
<1>4. LeasesLinked' /\ ConnectorsLinked' /\ UsersAreServed'
  BY DEF IInv, vars, LeasesLinked, ConnectorsLinked, UsersAreServed
<1>5. ShutdownSettled'
  BY DEF IInv, vars, ShutdownSettled, WorkersIdle
<1> QED BY <1>1, <1>2, <1>3, <1>4, <1>5 DEF IInv

\* Every step keeps the invariant.
LEMMA NextIInv == IInv /\ [Next]_vars => IInv'
<1> SUFFICES ASSUME IInv, [Next]_vars PROVE IInv'
  OBVIOUS
<1>1. ASSUME NEW l \in Leases, NEW k \in Keys, NEW p \in Policies,
             \/ AcquireStarting(l, k, p)
             \/ AcquireReady(l, k, p)
             \/ AcquireJoining(l, k, p)
      PROVE  IInv'
  BY <1>1, AcquireStartingStep, AcquireReadyStep, AcquireJoiningStep
<1>2. ASSUME NEW l \in Leases,
             AcquireReturns(l) \/ AcquireCancelled(l) \/ ReleaseHeld(l)
      PROVE  IInv'
  BY <1>2, AcquireReturnsStep, ReleaseStep DEF AcquireCancelled, ReleaseHeld
<1>3. ASSUME NEW c \in Connectors, NEW l \in Leases, OpenConnector(c, l)
      PROVE  IInv'
  BY <1>3, OpenConnectorStep
<1>4. ASSUME NEW c \in Connectors, CloseConnector(c)
      PROVE  IInv'
  BY <1>4, CloseConnectorStep
<1>5. ASSUME NEW g \in Generations, NEW o \in {"ready", "failed", "partial"},
             StartReturns(g, o)
      PROVE  IInv'
  BY <1>5, StartReturnsStep
<1>6. ASSUME NEW g \in Generations, StarterStep(g)
      PROVE  IInv'
  <2>1. CASE \/ PublishRefused(g) \/ PublishDetached(g) \/ StopFailedStart(g)
             \/ \E err \in BOOLEAN : StopDetached(g, err)
    BY <2>1, StarterAloneStep
  <2>2. CASE PublishTooLate(g)
    BY <2>2, PublishTooLateStep
  <2>3. CASE PublishReady(g)
    BY <2>3, PublishReadyStep
  <2>4. ASSUME NEW err \in BOOLEAN, CompleteStartFailure(g, err)
        PROVE  IInv'
    BY <2>4, CompleteStartFailureStep
  <2>5. CASE ReapFailedStart(g)
    BY <2>5, GenerationExitedStep DEF ReapFailedStart
  <2> QED BY <1>6, <2>1, <2>2, <2>3, <2>4, <2>5 DEF StarterStep
<1>7. ASSUME NEW g \in Generations, ProcessExits(g)
      PROVE  IInv'
  BY <1>7, ProcessExitsStep
<1>8. ASSUME NEW g \in Generations, WatchGeneration(g)
      PROVE  IInv'
  BY <1>8, GenerationExitedStep DEF WatchGeneration
<1>9. ASSUME NEW g \in Generations, NEW err \in BOOLEAN, CompleteStop(g, err)
      PROVE  IInv'
  BY <1>9, CompleteStopStep
<1>10. ASSUME NEW k \in Keys, TimerStep(k)
       PROVE  IInv'
  <2>1. ASSUME NEW t \in TimerKinds, DeadlinePasses(k, t)
        PROVE  IInv'
    BY <2>1, DeadlinePassesStep
  <2>2. CASE RetryDeadlinePasses(k) \/ StablePeriodPasses(k)
    BY <2>2, PeriodPassesStep
  <2>3. CASE ExpireStart(k) \/ ExpireIdle(k) \/ ResetStable(k) \/ ExpireFailure(k)
    BY <2>3, ExpireStartStep, ExpireIdleStep, ResetStableStep, ExpireFailureStep
  <2> QED BY <1>10, <2>1, <2>2, <2>3 DEF TimerStep
<1>11. ASSUME NEW cb \in staleCallbacks, RunStaleCallback(cb)
       PROVE  IInv'
  BY <1>11, RunStaleCallbackStep
<1>12. CASE BeginShutdown \/ FinishShutdown
  BY <1>12, BeginShutdownStep, FinishShutdownStep
<1>13. CASE UNCHANGED vars
  BY <1>13, StutterIInv
<1> QED
  BY <1>1, <1>2, <1>3, <1>4, <1>5, <1>6, <1>7, <1>8, <1>9, <1>10, <1>11, <1>12, <1>13 DEF Next

\* The registry always satisfies its inductive invariant.
THEOREM RegistryInvariant == Spec => []IInv
  BY InitIInv, NextIInv, PTL DEF Spec

\* Type correctness of the registry; in particular the generation counter never
\* passes the generation space and the failure counter of failLocked saturates.
THEOREM RegistryTypeCorrect == Spec => []TypeOK
<1>1. IInv => TypeOK
  BY DEF IInv
<1> QED BY <1>1, RegistryInvariant, PTL

\* startLocked never runs two generations of one key: an occupied generation
\* is the current one of its key, and a key has one current generation.
THEOREM RegistryOneGeneration == Spec => []OneGenerationPerKey
<1>1. IInv => OneGenerationPerKey
  BY DEF IInv, OccupantIsCurrent, OneGenerationPerKey, IsCurrent
<1> QED BY <1>1, RegistryInvariant, PTL

\* Lease.Instance and OpenConnector only ever see the ready generation.
THEOREM RegistryServesUsers == Spec => []UsersAreServed
<1>1. IInv => UsersAreServed
  BY DEF IInv
<1> QED BY <1>1, RegistryInvariant, PTL

\* maybeIdleLocked is reached on every path that drops a last user.
THEOREM RegistryIdlesUnused == Spec => []IdleExactlyWhenUnused
<1>1. IInv => IdleExactlyWhenUnused
  BY DEF IInv, EntriesShaped, EntryShape, IdleExactlyWhenUnused
<1> QED BY <1>1, RegistryInvariant, PTL

\* Shutdown completes only with every process reaped: a running process has a
\* worker waiting for it, and shutdownDone closes after the last worker.
THEOREM RegistryShutdownReaps == Spec => []ShutdownReapsAll
<1>1. IInv => ShutdownReapsAll
  BY DEF IInv, TypeOK, ShutdownSettled, WorkersIdle, OccupantIsAwaited, ShutdownReapsAll
<1> QED BY <1>1, RegistryInvariant, PTL

----------------------------------------
(* Timers.  What each step does to an entry is one of few things, seen     *)
(* from the backoff and the idle period it measures.                       *)

InBackoff(e) == e.state = "failed" /\ e.retry = "future"

Backoff(e) == e.retry = "future" => e.state = "failed" /\ e.timer["failure"] = "future"

\* The step from e to f keeps the backoff armed, does not end it and stops an
\* idle generation only when its idle period is over.
Honours(e, f) ==
  /\ Backoff(e) => Backoff(f)
  /\ Backoff(e) /\ InBackoff(e) => f.state = "failed"
  /\ e.state = "idle" /\ f.state = "stopping" => e.timer["idle"] = "due"

\* failLocked arms the retention timer together with the backoff.
LEMMA FailHonours ==
    ASSUME NEW e \in Entry, NEW d \in Entry
    PROVE  Honours(d, Fail(e))
  BY DEF Fail, Arm, Entry, TimerKinds, Honours, Backoff, InBackoff

\* Dropping users from an entry is of no concern to its timers.
LEMMA UsersHonour ==
    ASSUME NEW d \in Entry, NEW e \in Entry, NEW S \in SUBSET Leases,
           NEW C \in SUBSET Connectors, Honours(d, e)
    PROVE  /\ Honours(d, [e EXCEPT !.leases = S])
           /\ Honours(d, [e EXCEPT !.leases = S, !.connectors = C])
  BY DEF Entry, Honours, Backoff, InBackoff

\* One entry changes.
LEMMA OneEntryHonours ==
    ASSUME IInv, NEW k \in Keys, NEW f,
           entries' = [entries EXCEPT ![k] = f], Honours(entries[k], f)
    PROVE  \A j \in Keys : Honours(entries[j], entries'[j])
  BY DEF IInv, TypeOK, Honours, Backoff, InBackoff

\* An unchanged entry.
LEMMA SameHonours == ASSUME NEW e PROVE Honours(e, e)
  BY DEF Honours, Backoff, InBackoff

\* A start begins with no backoff, and never out of one.
LEMMA StartHonours ==
    ASSUME NEW d \in Entry, NEW e \in Entry, NEW g \in Generations,
           ~InBackoff(d)
    PROVE  Honours(d, StartEntry(e, g))
  BY DEF StartEntry, Arm, Cancel, Entry, TimerKinds, Honours, Backoff, InBackoff

\* Acquires: none of them touches an entry that is backing off.
LEMMA AcquireHonours ==
  ASSUME IInv, NEW l \in Leases, NEW k \in Keys, NEW p \in Policies,
         \/ AcquireStarting(l, k, p)
         \/ AcquireReady(l, k, p)
         \/ AcquireJoining(l, k, p)
  PROVE  \A j \in Keys : Honours(entries[j], entries'[j])
<1> DEFINE e == entries[k]
<1>0. e \in Entry /\ EntryShape(e, closing, process)
  BY ShapeBefore
<1>1. CASE AcquireStarting(l, k, p)
  <2> DEFINE d == [e EXCEPT !.policy = p, !.leases = @ \cup {l}]
             g == nextGeneration + 1
  <2>1. /\ ~InBackoff(e)
        /\ entries' = [entries EXCEPT ![k] = StartEntry(d, g)]
        /\ nextGeneration < MaxGeneration
    BY <1>1 DEF AcquireStarting, MayStart, InBackoff, StartGeneration, SetEntry
  <2>2. g \in Generations
    BY <2>1, RegistryAssumption DEF IInv, TypeOK, Generations, RegistryAssumption
  <2>3. d \in Entry
    BY <1>0 DEF Entry
  <2> HIDE DEF d, e, g
  <2> QED BY <1>0, <2>1, <2>2, <2>3, StartHonours, OneEntryHonours DEF e
<1>2. CASE AcquireReady(l, k, p)
  <2> DEFINE f == [Cancel(e, {"idle"}) EXCEPT !.state = "ready",
                                              !.leases = @ \cup {l}]
  <2>1. /\ e.state \in {"ready", "idle"}
        /\ entries' = [entries EXCEPT ![k] = f]
    BY <1>2 DEF AcquireReady, SetEntry
  <2>2. Honours(e, f)
    BY <1>0, <2>1 DEF Cancel, Entry, TimerKinds, Honours, Backoff, InBackoff
  <2> QED BY <2>1, <2>2, OneEntryHonours
<1>3. CASE AcquireJoining(l, k, p)
  <2> DEFINE f == [e EXCEPT !.leases = @ \cup {l}]
  <2>1. entries' = [entries EXCEPT ![k] = f]
    BY <1>3 DEF AcquireJoining, SetEntry
  <2>2. Honours(e, f)
    BY <1>0 DEF Entry, Honours, Backoff, InBackoff
  <2> QED BY <2>1, <2>2, OneEntryHonours
<1> QED BY <1>1, <1>2, <1>3

\* An abandoned start begins no backoff.
LEMMA UnusedStartHonours ==
  ASSUME NEW e \in Entry
  PROVE  Honours(e, CancelUnusedStart(e))
<1> DEFINE c == Cancel(e, {"start"})
           f == [c EXCEPT !.state = "failed", !.instance = FALSE,
                          !.reaped = FALSE, !.readyAt = "zero"]
           h == Arm([f EXCEPT !.retry = "past"], "failure")
<1>1. /\ ~StartIsUnused(e) => CancelUnusedStart(e) = e
      /\ StartIsUnused(e) => CancelUnusedStart(e) \in {f, h}
  BY DEF CancelUnusedStart
<1>2. c \in Entry /\ c.retry = e.retry
  <2>1. c.retry = e.retry
    BY DEF Cancel, Entry
  <2> QED BY <2>1, CancelKeeps
<1>3. f.retry = e.retry /\ h.retry = "past"
  <2> HIDE DEF c
  <2> QED BY <1>2 DEF Arm, Entry
<1>4. CASE StartIsUnused(e)
  <2>1. e.state = "starting"
    BY <1>4 DEF StartIsUnused
  <2> HIDE DEF f, h
  <2> QED BY <1>1, <1>3, <1>4, <2>1 DEF Honours, Backoff, InBackoff
<1> QED BY <1>1, <1>4, SameHonours

\* Users that leave: maybeIdleLocked and cancelUnusedStartLocked leave a failed
\* entry alone.
LEMMA LeavingHonours ==
  ASSUME IInv,
         \/ \E l \in Leases, c \in {"failed", "released"} :
               lease[l].caller # "none" /\ Release(l, c)
         \/ \E c \in Connectors : CloseConnector(c)
         \/ \E c \in Connectors, l \in Leases : OpenConnector(c, l)
  PROVE  \A j \in Keys : Honours(entries[j], entries'[j])
<1>1. ASSUME NEW l \in Leases, NEW c \in {"failed", "released"}, Release(l, c),
             lease[l].caller # "none"
      PROVE  \A j \in Keys : Honours(entries[j], entries'[j])
  <2> DEFINE k == lease[l].key
             e == entries[k]
             d == [e EXCEPT !.leases = @ \ {l}]
             f == MaybeIdle(CancelUnusedStart(d))
  <2>1. CASE lease[l].state = "closed"
    BY <1>1, <2>1, SameHonours DEF Release, entryVars
  <2>2. CASE lease[l].state # "closed"
    <3>1. entries' = [entries EXCEPT ![k] = f]
      BY <1>1, <2>2 DEF Release, SetEntry
    <3>2. lease[l].state \in {"opening", "active"}
      BY <1>1, <2>2 DEF IInv, TypeOK, LeaseRecord, LeaseStates, LeasesLinked
    <3>3. k \in Keys
      BY <3>2 DEF IInv, LeasesLinked
    <3>4. e \in Entry
      BY <3>3, ShapeBefore
    <3>5. d \in Entry /\ Honours(e, d)
      BY <3>4 DEF Entry, Honours, Backoff, InBackoff
    <3>6. Honours(e, CancelUnusedStart(d)) /\ CancelUnusedStart(d) \in Entry
      <4>1. /\ d.state = e.state /\ d.retry = e.retry
            /\ d.timer = e.timer
        BY <3>4 DEF Entry
      <4> HIDE DEF d
      <4> QED BY <3>5, <4>1, UnusedStartHonours, CancelUnusedStartKeeps DEF Honours, Backoff,
        InBackoff
    <3>7. Honours(e, f)
      <4> HIDE DEF d
      <4> QED BY <3>4, <3>6 DEF MaybeIdle, Arm, Entry, TimerKinds, Honours, Backoff, InBackoff
    <3> HIDE DEF f
    <3> QED BY <3>1, <3>3, <3>7, OneEntryHonours
  <2> QED BY SMTT(40), <2>1, <2>2
<1>2. ASSUME NEW c \in Connectors, CloseConnector(c)
      PROVE  \A j \in Keys : Honours(entries[j], entries'[j])
  <2> DEFINE k == connector[c].key
             e == entries[k]
             d == [e EXCEPT !.connectors = @ \ {c}]
  <2>1. entries' = [entries EXCEPT ![k] = MaybeIdle(d)] /\ k \in Keys
    BY <1>2 DEF CloseConnector, SetEntry, IInv, ConnectorsLinked
  <2>2. e \in Entry
    BY <2>1, ShapeBefore
  <2>3. Honours(e, MaybeIdle(d))
    BY <2>2 DEF MaybeIdle, Arm, Entry, TimerKinds, Honours, Backoff, InBackoff
  <2> HIDE DEF d
  <2> QED BY <2>1, <2>3, OneEntryHonours
<1>3. ASSUME NEW c \in Connectors, NEW l \in Leases, OpenConnector(c, l)
      PROVE  \A j \in Keys : Honours(entries[j], entries'[j])
  <2> DEFINE k == lease[l].key
             e == entries[k]
             f == [e EXCEPT !.connectors = @ \cup {c}]
  <2>1. entries' = [entries EXCEPT ![k] = f] /\ k \in Keys
    BY <1>3 DEF OpenConnector, SetEntry, IInv, LeasesLinked
  <2>2. Honours(e, f)
    BY <2>1, ShapeBefore DEF Entry, Honours, Backoff, InBackoff
  <2> HIDE DEF f
  <2> QED BY <2>1, <2>2, OneEntryHonours
<1> QED BY <1>1, <1>2, <1>3

\* The worker startGeneration.
LEMMA StarterHonours ==
  ASSUME IInv, ~closing, NEW g \in Generations,
         \/ PublishTooLate(g)
         \/ PublishReady(g)
         \/ \E err \in BOOLEAN : CompleteStartFailure(g, err)
  PROVE  \A j \in Keys : Honours(entries[j], entries'[j])
<1> DEFINE k == generationKey[g]
           e == entries[k]
<1>1. /\ k \in Keys /\ IsCurrent(g) /\ e.startPending
      /\ e \in Entry /\ EntryShape(e, closing, process)
  BY ShapeBefore DEF IInv, StarterOwnsStart, PublishTooLate, PublishReady, CompleteStartFailure
<1>2. CASE PublishTooLate(g)
  <2> DEFINE f == TimeoutStart(e)
  <2>1. entries' = [entries EXCEPT ![k] = [f EXCEPT !.leases = {}]]
    BY <1>2 DEF PublishTooLate, SetEntry
  <2>2. f \in Entry /\ f.connectors \in SUBSET Connectors
    BY <1>1, TimeoutStartKeeps DEF Entry
  <2>3. Honours(e, f)
    BY <1>1, CancelKeeps, FailHonours DEF TimeoutStart
  <2> HIDE DEF f
  <2> QED BY <1>1, <2>1, <2>2, <2>3, UsersHonour, OneEntryHonours
<1>3. CASE PublishReady(g)
  <2> DEFINE d == [Cancel(e, {"start", "stable"}) EXCEPT
                      !.startPending = FALSE, !.instance = TRUE,
                      !.readyAt = "recent", !.retry = "none",
                      !.state = "ready"]
             f == MaybeIdle(Arm(d, "stable"))
  <2>1. /\ entries' = [entries EXCEPT ![k] = f]
        /\ e.state = "starting"
    BY <1>3 DEF PublishReady, SetEntry, StartIsOrphaned
  <2>2. f.retry = "none" /\ f.state \in {"ready", "idle"}
    BY <1>1 DEF Cancel, Arm, MaybeIdle, Entry
  <2>3. Honours(e, f)
    BY <2>1, <2>2 DEF Honours, Backoff, InBackoff
  <2> HIDE DEF f
  <2> QED BY <1>1, <2>1, <2>3, OneEntryHonours
<1>4. ASSUME NEW err \in BOOLEAN, CompleteStartFailure(g, err)
      PROVE  \A j \in Keys : Honours(entries[j], entries'[j])
  <2> DEFINE gone == process[g] = "exited"
             d == [e EXCEPT !.instance = ~gone, !.startPending = FALSE]
             h == IF e.state = "starting" THEN Cancel(d, {"start"}) ELSE d
             f == FailedStartEntry(e, gone)
  <2>1. entries' = [entries EXCEPT ![k] = f]
    BY <1>1, <1>4 DEF CompleteStartFailure, SetEntry
  <2>2. d \in Entry /\ d.retry = e.retry /\ d.state = e.state /\ d.timer = e.timer
    BY <1>1 DEF Entry
  <2>3. CASE e.state = "starting"
    <3>1. Cancel(d, {"start"}) \in Entry
      BY <2>2, CancelKeeps
    <3>2. f = [Fail(Cancel(d, {"start"})) EXCEPT !.leases = {}]
      BY <1>4, <2>3 DEF FailedStartEntry
    <3>3. Fail(Cancel(d, {"start"})) \in Entry
      BY <3>1, FailKeeps
    <3>4. Honours(e, Fail(Cancel(d, {"start"})))
      BY <1>1, <3>1, FailHonours
    <3> HIDE DEF d, f
    <3> QED BY <1>1, <2>1, <3>2, <3>3, <3>4, UsersHonour, OneEntryHonours
  <2>4. CASE e.state # "starting"
    <3>1. f \in {d, DeleteFailedEntry(d)}
      BY <1>4, <2>4 DEF FailedStartEntry
    <3>2. Honours(e, d)
      <4> HIDE DEF d
      <4> QED BY <2>2 DEF Honours, Backoff, InBackoff
    <3>3. Honours(e, DeleteFailedEntry(d))
      <4> HIDE DEF d
      <4> QED BY <2>2, NoEntryFields DEF Honours, Backoff, InBackoff, DeleteFailedEntry,
        FailedEntryIsDeletable, NoEntry
    <3> HIDE DEF d, f
    <3> QED BY <1>1, <2>1, <3>1, <3>2, <3>3, OneEntryHonours
  <2> QED BY <2>3, <2>4
<1> QED BY <1>2, <1>3, <1>4

\* A reaped process: an entry that backs off stays for its retention timer.
LEMMA ExitHonours ==
  ASSUME IInv, NEW g \in Generations, GenerationExited(g)
  PROVE  \A j \in Keys : Honours(entries[j], entries'[j])
<1> DEFINE k == generationKey[g]
           e == entries[k]
           f == ExitedEntry(e)
<1>1. CASE ~IsCurrent(g)
  BY <1>1, SameHonours DEF GenerationExited, entryVars
<1>2. CASE IsCurrent(g)
  <2>1. entries' = [entries EXCEPT ![k] = f]
    BY <1>2 DEF GenerationExited, SetEntry
  <2>2. CASE k \notin Keys
    BY <2>1, <2>2, SameHonours DEF IInv, TypeOK
  <2>3. CASE k \in Keys
    <3>0. e \in Entry
      BY <2>3, ShapeBefore
    <3>1. ASSUME e.state = "stopping" PROVE Honours(e, f)
      <4>1. f = [e EXCEPT !.reaped = TRUE]
        BY <3>1 DEF ExitedEntry
      <4> QED BY <3>0, <3>1, <4>1 DEF Entry, Honours, Backoff, InBackoff
    <3>2. ASSUME e.state = "failed" PROVE Honours(e, f)
      <4> DEFINE d == [e EXCEPT !.instance = FALSE]
      <4>1. f = DeleteFailedEntry(d)
        BY <3>2 DEF ExitedEntry
      <4>2. d.state = e.state /\ d.retry = e.retry /\ d.timer = e.timer
        BY <3>0 DEF Entry
      <4> HIDE DEF d
      <4> QED BY <3>2, <4>1, <4>2, NoEntryFields DEF Honours, Backoff, InBackoff,
        DeleteFailedEntry, FailedEntryIsDeletable, NoEntry
    <3>3. ASSUME e.state \in {"ready", "idle"} PROVE Honours(e, f)
      <4> DEFINE c == Cancel(e, {"idle", "stable"})
                 d == [c EXCEPT !.instance = FALSE, !.leases = {},
                                !.connectors = {}]
      <4>1. f = Fail(d)
        BY <3>3 DEF ExitedEntry
      <4>2. c \in Entry
        BY <3>0, CancelKeeps
      <4>3. d \in Entry
        <5> HIDE DEF c
        <5> QED BY <4>2 DEF Entry
      <4> HIDE DEF d
      <4> QED BY <3>0, <4>1, <4>3, FailHonours
    <3>4. ASSUME e.state \notin {"stopping", "failed", "ready", "idle"}
         PROVE  Honours(e, f)
      <4>1. f = e
        BY <3>4 DEF ExitedEntry
      <4> QED BY <4>1, SameHonours
    <3>5. Honours(e, f)
      BY <3>1, <3>2, <3>3, <3>4
    <3> HIDE DEF f
    <3> QED BY <2>1, <2>3, <3>5, OneEntryHonours
  <2> QED BY <2>2, <2>3
<1> QED BY <1>1, <1>2

\* The worker stopGeneration: the entry it completes was stopping.
LEMMA StopHonours ==
  ASSUME IInv, NEW g \in Generations, NEW err \in BOOLEAN, CompleteStop(g, err)
  PROVE  \A j \in Keys : Honours(entries[j], entries'[j])
<1> DEFINE k == generationKey[g]
           e == entries[k]
           r == ReapedEntry(e)
<1>1. CASE ~(IsCurrent(g) /\ e.state = "stopping")
  BY <1>1, SameHonours DEF CompleteStop, entryVars
<1>2. CASE k \notin Keys
  BY <1>2, SameHonours DEF IInv, TypeOK, CompleteStop, StopUnreaped, StopRestarts, StopEvicts,
    StartGeneration, SetEntry, entryVars
<1>3. CASE IsCurrent(g) /\ e.state = "stopping" /\ k \in Keys
  <2>0. e \in Entry /\ ~InBackoff(e)
    BY <1>3, ShapeBefore DEF InBackoff
  <2>1. r \in Entry /\ r.retry = "none" /\ r.state = "cold"
    <3>1. r.retry = "none"
      BY <2>0 DEF ReapedEntry, Entry
    <3> QED BY <2>0, <3>1, StoppedEntries
  <2>2. CASE StopUnreaped(g)
    <3> DEFINE d == [e EXCEPT !.leases = {}, !.connectors = {}]
    <3>1. entries' = [entries EXCEPT ![k] = Fail(d)]
      BY <2>2 DEF StopUnreaped, SetEntry
    <3>2. d \in Entry
      BY <2>0 DEF Entry
    <3> HIDE DEF d
    <3> QED BY <1>3, <2>0, <3>1, <3>2, FailHonours, OneEntryHonours
  <2>3. CASE StopRestarts(g) /\ nextGeneration < MaxGeneration
    <3>1. entries' = [entries EXCEPT ![k] = StartEntry(r, nextGeneration + 1)]
      BY <2>3 DEF StopRestarts, StartGeneration, SetEntry
    <3>2. nextGeneration + 1 \in Generations
      BY <2>3, RegistryAssumption DEF IInv, TypeOK, Generations, RegistryAssumption
    <3> HIDE DEF r
    <3> QED BY <1>3, <2>0, <2>1, <3>1, <3>2, StartHonours, OneEntryHonours
  <2>4. CASE StopRestarts(g) /\ ~(nextGeneration < MaxGeneration)
    <3> DEFINE d == [r EXCEPT !.leases = {}]
    <3>1. entries' = [entries EXCEPT ![k] = Fail(d)]
      BY <2>4 DEF StopRestarts, SetEntry
    <3>2. d \in Entry
      <4> HIDE DEF r
      <4> QED BY <2>1 DEF Entry
    <3> HIDE DEF d
    <3> QED BY <1>3, <2>0, <3>1, <3>2, FailHonours, OneEntryHonours
  <2>5. CASE StopEvicts(g)
    <3> DEFINE d == [r EXCEPT !.leases = {}, !.connectors = {}]
               f == DeleteColdEntry(d)
    <3>1. entries' = [entries EXCEPT ![k] = f]
      BY <2>5 DEF StopEvicts, SetEntry
    <3>2. d.retry = "none" /\ d.state = "cold"
      <4> HIDE DEF r
      <4> QED BY <2>1 DEF Entry
    <3>3. f.retry = "none" /\ f.state \in {"cold", "absent"}
      <4> HIDE DEF d
      <4> QED BY <3>2, NoEntryFields DEF DeleteColdEntry, NoEntry
    <3>4. Honours(e, f)
      <4> HIDE DEF f
      <4> QED BY <2>0, <3>3 DEF Honours, Backoff, InBackoff
    <3> HIDE DEF f
    <3> QED BY <1>3, <3>1, <3>4, OneEntryHonours
  <2>6. StopUnreaped(g) \/ StopRestarts(g) \/ StopEvicts(g)
    BY <1>3 DEF CompleteStop
  <2> QED BY <2>2, <2>3, <2>4, <2>5, <2>6
<1> QED BY <1>1, <1>2, <1>3

\* Time and the callbacks: only expireIdle stops, only expireFailure forgets.
LEMMA TimeHonours ==
  ASSUME IInv, NEW k \in Keys, TimerStep(k)
  PROVE  \A j \in Keys : Honours(entries[j], entries'[j])
<1> DEFINE e == entries[k]
<1>0. e \in Entry
  BY ShapeBefore
<1>1. ASSUME NEW t \in TimerKinds, DeadlinePasses(k, t)
      PROVE  \A j \in Keys : Honours(entries[j], entries'[j])
  <2> DEFINE f == [e EXCEPT !.timer[t] = "due"]
  <2>1. /\ entries' = [entries EXCEPT ![k] = f]
        /\ t = "failure" => e.retry # "future"
    BY <1>1 DEF DeadlinePasses
  <2>2. Honours(e, f)
    BY <1>0, <2>1 DEF Entry, TimerKinds, Honours, Backoff, InBackoff
  <2> QED BY <2>1, <2>2, OneEntryHonours
<1>2. CASE RetryDeadlinePasses(k)
  <2> DEFINE f == [e EXCEPT !.retry = "past"]
  <2>1. entries' = [entries EXCEPT ![k] = f]
    BY <1>2 DEF RetryDeadlinePasses
  <2>2. Honours(e, f)
    BY <1>0 DEF Entry, Honours, Backoff, InBackoff
  <2> QED BY <2>1, <2>2, OneEntryHonours
<1>3. CASE StablePeriodPasses(k)
  <2> DEFINE f == [e EXCEPT !.readyAt = "stable",
                      !.timer["stable"] = IF @ = "future" THEN "due" ELSE @]
  <2>1. entries' = [entries EXCEPT ![k] = f]
    BY <1>3 DEF StablePeriodPasses
  <2>2. Honours(e, f)
    BY <1>0 DEF Entry, TimerKinds, Honours, Backoff, InBackoff
  <2> QED BY <2>1, <2>2, OneEntryHonours
<1>4. CASE ExpireStart(k)
  <2> DEFINE f == TimeoutStart(e)
  <2>1. entries' = [entries EXCEPT ![k] = [f EXCEPT !.leases = {}]]
    BY <1>4 DEF ExpireStart, CallbackSets
  <2>2. f \in Entry /\ Honours(e, f)
    BY <1>0, CancelKeeps, TimeoutStartKeeps, FailHonours DEF TimeoutStart
  <2> HIDE DEF f
  <2> QED BY <1>0, <2>1, <2>2, UsersHonour, OneEntryHonours
<1>5. CASE ExpireIdle(k)
  <2>1. /\ entries' = [entries EXCEPT ![k] = BeginStop(e)]
        /\ e.timer["idle"] = "due"
        /\ ~closing
    BY <1>5 DEF ExpireIdle, CallbackSets
  <2>2. e.state = "idle"
    BY <2>1, ShapeBefore DEF EntryShape
  <2>3. BeginStop(e).retry = e.retry
    BY <1>0 DEF BeginStop, Cancel, Entry
  <2>4. Honours(e, BeginStop(e))
    BY <2>1, <2>2, <2>3 DEF Honours, Backoff, InBackoff
  <2> QED BY <2>1, <2>4, OneEntryHonours
<1>6. CASE ResetStable(k)
  <2> DEFINE f == [Cancel(e, {"stable"}) EXCEPT !.failures = 0]
  <2>1. entries' = [entries EXCEPT ![k] = f]
    BY <1>6 DEF ResetStable, CallbackSets
  <2>2. Honours(e, f)
    BY <1>0 DEF Cancel, Entry, TimerKinds, Honours, Backoff, InBackoff
  <2> QED BY <2>1, <2>2, OneEntryHonours
<1>7. CASE ExpireFailure(k)
  <2> DEFINE f == [e EXCEPT !.timer["failure"] = "spent"]
  <2>1. /\ entries' = [entries EXCEPT ![k] = DeleteFailedEntry(f)]
        /\ e.timer["failure"] = "due"
    BY <1>7 DEF ExpireFailure, CallbackSets
  <2>2. f.state = e.state /\ f.retry = e.retry
    BY <1>0 DEF Entry
  <2>3. Honours(e, DeleteFailedEntry(f))
    <3> HIDE DEF f
    <3> QED BY <2>1, <2>2, NoEntryFields DEF DeleteFailedEntry, Honours, Backoff, InBackoff,
      NoEntry
  <2> HIDE DEF f
  <2> QED BY <2>1, <2>3, OneEntryHonours
<1> QED BY <1>1, <1>2, <1>3, <1>4, <1>5, <1>6, <1>7 DEF TimerStep

\* A callback without its timer: expireIdle and expireFailure do nothing.
LEMMA StaleHonours ==
  ASSUME IInv, NEW cb \in staleCallbacks, RunStaleCallback(cb)
  PROVE  \A j \in Keys : Honours(entries[j], entries'[j])
<1> DEFINE k == cb.key
           f == [entries[k] EXCEPT !.failures = 0, !.timer["stable"] = "none"]
<1>1. CASE entries' = entries
  BY <1>1, SameHonours
<1>2. CASE entries' # entries
  <2>1. /\ entries' = [entries EXCEPT ![k].failures = 0,
                                      ![k].timer["stable"] = "none"]
        /\ k \in Keys /\ entries \in [Keys -> Entry]
    BY <1>2 DEF RunStaleCallback, IInv, TypeOK
  <2>2. entries' = [entries EXCEPT ![k] = f]
    BY <2>1 DEF Entry
  <2>3. Honours(entries[k], f)
    BY <2>1, ShapeBefore DEF Entry, TimerKinds, Honours, Backoff, InBackoff
  <2> HIDE DEF f
  <2> QED BY <2>1, <2>2, <2>3, OneEntryHonours
<1> QED BY <1>1, <1>2

\* Nothing reopens the registry, and only beginShutdownLocked closes it.
LEMMA ClosingIsFinal ==
  ASSUME IInv, [Next]_vars
  PROVE  \/ closing' = closing
         \/ closing' = TRUE /\ closing = FALSE /\ BeginShutdown
<1>0. closing \in BOOLEAN
  BY DEF IInv, TypeOK
<1>1. CASE BeginShutdown
  BY <1>0, <1>1 DEF BeginShutdown
<1>2. CASE FinishShutdown
  BY <1>2 DEF FinishShutdown
<1>3. ASSUME NEW l \in Leases, NEW k \in Keys, NEW p \in Policies,
             \/ AcquireStarting(l, k, p)
             \/ AcquireReady(l, k, p)
             \/ AcquireJoining(l, k, p)
      PROVE  closing' = closing
  BY <1>3 DEF AcquireStarting, AcquireReady, AcquireJoining, flagVars
<1>4. ASSUME NEW l \in Leases,
             AcquireReturns(l) \/ AcquireCancelled(l) \/ ReleaseHeld(l)
      PROVE  closing' = closing
  BY <1>4 DEF AcquireReturns, AcquireCancelled, ReleaseHeld, Release, flagVars
<1>5. ASSUME NEW c \in Connectors,
             CloseConnector(c) \/ \E l \in Leases : OpenConnector(c, l)
      PROVE  closing' = closing
  BY <1>5 DEF CloseConnector, OpenConnector, flagVars
<1>6. ASSUME NEW g \in Generations,
             \/ \E o \in {"ready", "failed", "partial"} : StartReturns(g, o)
             \/ ProcessExits(g)
             \/ WatchGeneration(g)
             \/ \E err \in BOOLEAN : CompleteStop(g, err)
      PROVE  closing' = closing
  BY <1>6 DEF StartReturns, ProcessExits, WatchGeneration, GenerationExited, CompleteStop,
    flagVars
<1>7. ASSUME NEW g \in Generations, StarterStep(g)
      PROVE  closing' = closing
  BY <1>7 DEF StarterStep, PublishRefused, PublishDetached, PublishTooLate, PublishReady,
    StopFailedStart, CompleteStartFailure, StopDetached, ReapFailedStart, GenerationExited,
    flagVars
<1>8. ASSUME NEW k \in Keys, TimerStep(k)
      PROVE  closing' = closing
  BY <1>8 DEF TimerStep, DeadlinePasses, RetryDeadlinePasses, StablePeriodPasses, ExpireStart,
    ExpireIdle, ResetStable, ExpireFailure, flagVars
<1>9. ASSUME NEW cb \in staleCallbacks, RunStaleCallback(cb)
      PROVE  closing' = closing
  BY <1>9 DEF RunStaleCallback, flagVars
<1>10. CASE UNCHANGED vars
  BY <1>10 DEF vars
<1> QED
  BY <1>1, <1>2, <1>3, <1>4, <1>5, <1>6, <1>7, <1>8, <1>9, <1>10 DEF Next

\* Every step of an open registry honours every entry's timers.
LEMMA NextHonours ==
  ASSUME IInv, [Next]_vars, ~closing'
  PROVE  \A j \in Keys : Honours(entries[j], entries'[j])
<1>1. CASE UNCHANGED entries
  BY <1>1, SameHonours
<1>2. ASSUME NEW l \in Leases, NEW k \in Keys, NEW p \in Policies,
             \/ AcquireStarting(l, k, p)
             \/ AcquireReady(l, k, p)
             \/ AcquireJoining(l, k, p)
      PROVE  \A j \in Keys : Honours(entries[j], entries'[j])
  BY <1>2, AcquireHonours
<1>3. ASSUME NEW l \in Leases,
             AcquireReturns(l) \/ AcquireCancelled(l) \/ ReleaseHeld(l)
      PROVE  \A j \in Keys : Honours(entries[j], entries'[j])
  BY <1>1, <1>3, LeavingHonours DEF AcquireReturns, entryVars, AcquireCancelled, ReleaseHeld
<1>4. ASSUME NEW c \in Connectors,
             CloseConnector(c) \/ \E l \in Leases : OpenConnector(c, l)
      PROVE  \A j \in Keys : Honours(entries[j], entries'[j])
  BY <1>4, LeavingHonours
<1>5. ASSUME NEW g \in Generations,
             \/ \E o \in {"ready", "failed", "partial"} : StartReturns(g, o)
             \/ ProcessExits(g)
      PROVE  \A j \in Keys : Honours(entries[j], entries'[j])
  BY <1>1, <1>5 DEF StartReturns, ProcessExits, entryVars
<1>6. ASSUME NEW g \in Generations, StarterStep(g)
      PROVE  \A j \in Keys : Honours(entries[j], entries'[j])
  <2>1. CASE \/ PublishRefused(g) \/ PublishDetached(g) \/ StopFailedStart(g)
             \/ \E err \in BOOLEAN : StopDetached(g, err)
    BY <1>1, <2>1 DEF PublishRefused, PublishDetached, StopFailedStart, StopDetached, entryVars
  <2>2. CASE \/ PublishTooLate(g) \/ PublishReady(g)
             \/ \E err \in BOOLEAN : CompleteStartFailure(g, err)
    <3>1. ~closing
      BY <2>2 DEF PublishTooLate, PublishReady, CompleteStartFailure, flagVars
    <3> QED BY <2>2, <3>1, StarterHonours
  <2>3. CASE ReapFailedStart(g)
    BY <2>3, ExitHonours DEF ReapFailedStart
  <2> QED BY <1>6, <2>1, <2>2, <2>3 DEF StarterStep
<1>7. ASSUME NEW g \in Generations,
             \/ WatchGeneration(g)
             \/ \E err \in BOOLEAN : CompleteStop(g, err)
      PROVE  \A j \in Keys : Honours(entries[j], entries'[j])
  BY <1>7, ExitHonours, StopHonours DEF WatchGeneration
<1>8. ASSUME NEW k \in Keys, TimerStep(k)
      PROVE  \A j \in Keys : Honours(entries[j], entries'[j])
  BY <1>8, TimeHonours
<1>9. ASSUME NEW cb \in staleCallbacks, RunStaleCallback(cb)
      PROVE  \A j \in Keys : Honours(entries[j], entries'[j])
  BY <1>9, StaleHonours
<1>10. ~BeginShutdown /\ ~FinishShutdown
  <2>1. ~BeginShutdown
    BY DEF BeginShutdown
  <2>2. ASSUME FinishShutdown PROVE closing'
    BY <2>2 DEF FinishShutdown
  <2> QED BY <2>1, <2>2
<1>11. UNCHANGED vars => UNCHANGED entries
  BY DEF vars
<1> QED
  BY <1>1, <1>2, <1>3, <1>4, <1>5, <1>6, <1>7, <1>8, <1>9, <1>10, <1>11 DEF Next

\* While the registry is open, a backoff has its retention timer.
LEMMA NextBackoff == ASSUME IInv, BackoffArmed, [Next]_vars PROVE BackoffArmed'
<1> SUFFICES ASSUME ~closing', NEW k \in Keys
             PROVE  Backoff(entries'[k])
  BY DEF BackoffArmed, Backoff
<1>1. ~closing
  BY ClosingIsFinal
<1>2. Backoff(entries[k])
  BY <1>1 DEF BackoffArmed, Backoff
<1>3. Honours(entries[k], entries'[k])
  BY NextHonours
<1> QED BY <1>2, <1>3 DEF Honours

\* expireFailure, expireIdle and every other callback act only for the deadline
\* they were armed for: a failed key keeps its backoff and an idle generation
\* its idle period, whatever callbacks run late.
THEOREM RegistryHonoursTimers == Spec => TimersAreHonoured
<1>1. Init => BackoffArmed
  BY DEF Init, BackoffArmed, NoEntry
<1>2. IInv /\ BackoffArmed /\ [Next]_vars =>
          /\ BackoffArmed'
          /\ [\A k \in Keys :
                  entries[k].state = "failed" /\ entries[k].retry = "future"
                  /\ ~closing' => entries'[k].state = "failed"]_vars
          /\ [\A k \in Keys :
                  /\ entries[k].state = "idle" /\ entries'[k].state = "stopping"
                  /\ ~closing'
                  => entries[k].timer["idle"] = "due"]_vars
  <2> SUFFICES ASSUME IInv, BackoffArmed, [Next]_vars
               PROVE  /\ BackoffArmed'
                      /\ ~closing' => \A k \in Keys :
                           /\ InBackoff(entries[k]) => entries'[k].state = "failed"
                           /\ entries[k].state = "idle" /\ entries'[k].state = "stopping"
                                => entries[k].timer["idle"] = "due"
    BY DEF InBackoff
  <2>1. BackoffArmed'
    BY NextBackoff
  <2>2. ASSUME ~closing', NEW k \in Keys
        PROVE  /\ InBackoff(entries[k]) => entries'[k].state = "failed"
               /\ entries[k].state = "idle" /\ entries'[k].state = "stopping"
                    => entries[k].timer["idle"] = "due"
    <3>1. ~closing
      BY <2>2, ClosingIsFinal
    <3>2. Backoff(entries[k])
      BY <3>1 DEF BackoffArmed, Backoff
    <3>3. Honours(entries[k], entries'[k])
      BY <2>2, NextHonours
    <3> QED
      BY <3>2, <3>3 DEF Honours
  <2> QED
    BY <2>1, <2>2
<1> QED
  BY <1>1, <1>2, RegistryInvariant, PTL DEF Spec, TimersAreHonoured, BackoffIsKept,
    IdlePeriodIsHonoured

----------------------------------------
(* Acquires that fail.  A closed lease is never opened again and only a    *)
(* lease that closes while it opens is answered with an error.             *)

\* Leases that leave an entry are closed, all others stay as they are.
LEMMA InvalidatedSettled ==
  ASSUME IInv, LeasesSettled, NEW S, lease' = Invalidated(S)
  PROVE  LeasesSettled'
<1> SUFFICES ASSUME NEW l \in Leases PROVE Settled(lease'[l])
  BY DEF LeasesSettled
<1>1. Settled(lease[l]) /\ lease[l] \in LeaseRecord
  BY DEF LeasesSettled, IInv, TypeOK
<1>2. CASE l \in S
  BY <1>1, <1>2 DEF Invalidated, Settled, LeaseRecord
<1>3. CASE l \notin S
  BY <1>1, <1>3 DEF Invalidated
<1> QED BY <1>2, <1>3

\* One lease changes.
LEMMA OneLeaseSettled ==
    ASSUME IInv, LeasesSettled, NEW l \in Leases, NEW m,
           lease' = [lease EXCEPT ![l] = m], Settled(m)
    PROVE  LeasesSettled'
  BY DEF IInv, TypeOK, LeasesSettled, Settled

\* A lease closes with its own caller's leave, or answers it with an error.
LEMMA NextSettled == ASSUME IInv, LeasesSettled, [Next]_vars PROVE LeasesSettled'
<1>1. CASE UNCHANGED lease
  BY <1>1 DEF LeasesSettled, Settled
<1>2. ASSUME NEW l \in Leases, NEW k \in Keys, NEW p \in Policies,
             \/ AcquireStarting(l, k, p)
             \/ AcquireReady(l, k, p)
             \/ AcquireJoining(l, k, p)
      PROVE  LeasesSettled'
  <2> DEFINE m(g) == Opening(k, g)
             n(g) == [m(g) EXCEPT !.state = "active", !.ready = "ok"]
  <2>1. \/ \E g : lease' = [lease EXCEPT ![l] = m(g)]
        \/ \E g : lease' = [lease EXCEPT ![l] = n(g)]
    BY <1>2 DEF AcquireStarting, AcquireReady, AcquireJoining
  <2>2. \A g : Settled(m(g)) /\ Settled(n(g))
    BY DEF Opening, Settled
  <2> HIDE DEF m, n
  <2> QED BY <2>1, <2>2, OneLeaseSettled
<1>3. ASSUME NEW l \in Leases, AcquireReturns(l)
      PROVE  LeasesSettled'
  <2> DEFINE m == [lease[l] EXCEPT !.ready = "empty",
                      !.caller = IF lease[l].ready = "ok" THEN "held" ELSE "failed"]
  <2>1. lease[l] \in LeaseRecord /\ Settled(lease[l])
    BY DEF IInv, TypeOK, LeasesSettled
  <2>2. lease[l].ready # "empty" /\ lease' = [lease EXCEPT ![l] = m]
    BY <1>3, <2>1 DEF AcquireReturns, IInv, TypeOK, LeaseRecord
  <2>3. Settled(m)
    BY <2>1, <2>2 DEF LeaseRecord, Settled
  <2> QED BY <2>2, <2>3, OneLeaseSettled
<1>4. ASSUME NEW l \in Leases, AcquireCancelled(l) \/ ReleaseHeld(l)
      PROVE  LeasesSettled'
  <2>1. lease[l] \in LeaseRecord
    BY DEF IInv, TypeOK
  <2>2. PICK c : Release(l, c)
    BY <1>4 DEF AcquireCancelled, ReleaseHeld
  <2>3. \E m : lease' = [lease EXCEPT ![l] = m] /\ m.state = "closed"
    <3>1. CASE lease[l].state = "closed"
      <4> DEFINE m == [lease[l] EXCEPT !.caller = c]
      <4>1. lease' = [lease EXCEPT ![l] = m] /\ m.state = "closed"
        BY <2>1, <2>2, <3>1 DEF Release, LeaseRecord
      <4> QED BY <4>1
    <3>2. CASE lease[l].state # "closed"
      <4> DEFINE m == [lease[l] EXCEPT !.caller = c, !.state = "closed"]
      <4>1. lease' = [lease EXCEPT ![l].caller = c, ![l].state = "closed"]
        BY <2>2, <3>2 DEF Release
      <4>2. lease' = [lease EXCEPT ![l] = m] /\ m.state = "closed"
        BY <2>1, <4>1 DEF LeaseRecord, IInv, TypeOK
      <4> QED BY <4>2
    <3> QED BY <3>1, <3>2
  <2> QED BY <2>3, OneLeaseSettled DEF Settled
<1>5. ASSUME NEW c \in Connectors,
             CloseConnector(c) \/ \E l \in Leases : OpenConnector(c, l)
      PROVE  LeasesSettled'
  BY <1>1, <1>5 DEF CloseConnector, OpenConnector
<1>6. ASSUME NEW g \in Generations, PublishReady(g)
      PROVE  LeasesSettled'
  <2> SUFFICES ASSUME NEW l \in Leases PROVE Settled(lease'[l])
    BY DEF LeasesSettled
  <2>1. Settled(lease[l]) /\ lease[l] \in LeaseRecord
    BY DEF LeasesSettled, IInv, TypeOK
  <2>2. lease'[l] \in {lease[l], Activated(l, g)}
    BY <1>6 DEF PublishReady
  <2>3. lease'[l] # lease[l] => lease[l].state = "opening"
    BY <1>6 DEF PublishReady
  <2> QED BY <2>1, <2>2, <2>3 DEF Activated, LeaseRecord, Settled
<1>7. ASSUME NEW g \in Generations, StarterStep(g)
      PROVE  LeasesSettled'
  <2>1. UNCHANGED lease \/ (\E S : lease' = Invalidated(S)) \/ PublishReady(g)
    BY <1>7 DEF StarterStep, PublishRefused, PublishDetached, PublishTooLate, StopFailedStart,
      CompleteStartFailure, StopDetached, ReapFailedStart, GenerationExited, DropUsers, userVars
  <2> QED BY <1>1, <1>6, <2>1, InvalidatedSettled
<1>8. ASSUME NEW g \in Generations,
             \/ \E o \in {"ready", "failed", "partial"} : StartReturns(g, o)
             \/ ProcessExits(g)
             \/ WatchGeneration(g)
      PROVE  LeasesSettled'
  <2>1. UNCHANGED lease \/ \E S : lease' = Invalidated(S)
    BY <1>8 DEF StartReturns, ProcessExits, WatchGeneration, GenerationExited, DropUsers, userVars
  <2> QED BY <1>1, <2>1, InvalidatedSettled
<1>9. ASSUME NEW g \in Generations, NEW err \in BOOLEAN, CompleteStop(g, err)
      PROVE  LeasesSettled'
  <2>1. \/ UNCHANGED lease
        \/ \E S : lease' = Invalidated(S)
        \/ \E S, h : lease' = AttachOpening(S, h)
    BY <1>9 DEF CompleteStop, StopUnreaped, StopRestarts, StopEvicts, DropUsers, userVars
  <2>2. ASSUME NEW S, NEW h, lease' = AttachOpening(S, h)
        PROVE  LeasesSettled'
    <3> SUFFICES ASSUME NEW l \in Leases PROVE Settled(lease'[l])
      BY DEF LeasesSettled
    <3>1. Settled(lease[l]) /\ lease[l] \in LeaseRecord
      BY DEF LeasesSettled, IInv, TypeOK
    <3>2. lease'[l] \in {lease[l], [lease[l] EXCEPT !.gen = h]}
      BY <2>2 DEF AttachOpening
    <3> QED BY <3>1, <3>2 DEF LeaseRecord, Settled
  <2> QED BY <1>1, <2>1, <2>2, InvalidatedSettled
<1>10. ASSUME NEW k \in Keys, TimerStep(k)
       PROVE  LeasesSettled'
  <2>1. UNCHANGED lease \/ \E S : lease' = Invalidated(S)
    BY <1>10 DEF TimerStep, DeadlinePasses, RetryDeadlinePasses, StablePeriodPasses, ExpireStart,
      ExpireIdle, ResetStable, ExpireFailure, DropUsers, userVars
  <2> QED BY <1>1, <2>1, InvalidatedSettled
<1>11. ASSUME NEW cb \in staleCallbacks, RunStaleCallback(cb)
       PROVE  LeasesSettled'
  BY <1>1, <1>11 DEF RunStaleCallback, userVars
<1>12. CASE BeginShutdown \/ FinishShutdown \/ UNCHANGED vars
  <2>1. UNCHANGED lease \/ \E S : lease' = Invalidated(S)
    BY <1>12 DEF BeginShutdown, FinishShutdown, vars, userVars
  <2> QED BY <1>1, <2>1, InvalidatedSettled
<1> QED
  BY <1>2, <1>3, <1>4, <1>5, <1>7, <1>8, <1>9, <1>10, <1>11, <1>12 DEF Next

\* AcquireWithPolicy returns an error only after its lease is closed and out of
\* the entry: a failed or cancelled acquire keeps no resource up.
THEOREM RegistryFailedAcquires == Spec => []FailedAcquireHoldsNothing
<1>1. Init => LeasesSettled
  BY DEF Init, LeasesSettled, Settled
<1>2. IInv /\ LeasesSettled /\ [Next]_vars => LeasesSettled'
  BY NextSettled
<1>3. IInv /\ LeasesSettled => FailedAcquireHoldsNothing
  BY DEF IInv, LeasesLinked, LeasesSettled, Settled, FailedAcquireHoldsNothing
<1> QED BY <1>1, <1>2, <1>3, RegistryInvariant, PTL DEF Spec

----------------------------------------
(* The refinement: the mapping of RegistryRefinement takes every initial   *)
(* state of the registry to one of the pool, and every step to a step of   *)
(* the pool or to none.  SimInv adds to the registry's own invariant what  *)
(* the step simulation needs.                                              *)

\* The empty registry is the empty pool.
LEMMA InitRefines == Init => Pool!PoolInit
<1> SUFFICES ASSUME Init PROVE Pool!PoolInit
  OBVIOUS
<1>1. \A g \in Generations : AbstractPhase(g) = "none"
  BY DEF Init, AbstractPhase
<1>2. \A g \in Generations : ~Occupies(g)
  BY DEF Init, Occupies
<1>3. \A l \in Leases : AbstractLease(l) = [state |-> "none", key |-> NoKey, gen |-> 0]
  BY DEF Init, AbstractLease
<1> QED
  BY <1>1, <1>2, <1>3 DEF Init, Pool!PoolInit, Pool!Generation, Generations, Pool!NoHolder, Pool!NoUser

----------------------------------------
(* What the mapping says of a state.                                       *)

\* The phase of the current generation of an entry in the given state.
Look(state, g) ==
  IF state = "starting" /\ ~closing THEN "starting"
  ELSE IF state \in {"ready", "idle"} THEN "ready"
  ELSE IF Occupies(g) THEN "retiring" ELSE "ended"

\* A generation is current in its own key's entry or nowhere.
LEMMA CurrentPhase ==
  ASSUME SimInv, NEW k \in Keys, entries[k].state # "absent", entries[k].gen # 0
  PROVE  /\ entries[k].gen \in Generations
         /\ generationKey[entries[k].gen] = k
         /\ process[entries[k].gen] # "none"
         /\ AbstractPhase(entries[k].gen) = Look(entries[k].state, entries[k].gen)
<1> DEFINE g == entries[k].gen
<1>1. g \in Generations /\ g <= nextGeneration
  BY RegistryAssumption DEF SimInv, IInv, TypeOK, Entry, GenerationsInOrder, Generations,
    RegistryAssumption
<1>2. generationKey[g] = k /\ process[g] # "none"
  BY <1>1 DEF SimInv, GenerationsOwned
<1>3. IsCurrent(g)
  BY <1>2 DEF IsCurrent
<1> HIDE DEF g
<1> QED BY <1>1, <1>2, <1>3 DEF AbstractPhase, Look, g

\* A started generation has a key; one that is not current is over.
LEMMA StartedPhase ==
  ASSUME SimInv, NEW g \in Generations, process[g] # "none"
  PROVE  /\ generationKey[g] \in Keys
         /\ ~IsCurrent(g) => ~Occupies(g) /\ AbstractPhase(g) = "ended"
         /\ AbstractPhase(g) # "none"
         /\ AbstractPhase(g) \in {"starting", "ready"} => IsCurrent(g)
<1>1. generationKey[g] \in Keys
  BY DEF SimInv, IInv, TypeOK, GenerationsInOrder, Generations
<1>2. ~IsCurrent(g) => ~Occupies(g)
  BY DEF SimInv, IInv, OccupantIsCurrent
<1> QED BY <1>1, <1>2 DEF AbstractPhase

\* The leases of an entry that is not ready wait for it.
LEMMA WaitingLeases ==
    ASSUME SimInv, NEW k \in Keys, entries[k].state # "ready"
    PROVE  /\ entries[k].leases =
                {l \in Leases : lease[l].key = k /\ lease[l].state = "opening"}
           /\ \A l \in Leases : lease[l].key = k => lease[l].state # "active"
  BY DEF SimInv, IInv, TypeOK, Entry, LeasesLinked, UsersAreServed

\* The users of a ready entry, and of an idle one, use its generation.
LEMMA ActiveUsers ==
  ASSUME SimInv, NEW k \in Keys, entries[k].state \in {"ready", "idle"}
  PROVE  /\ entries[k].leases =
              {l \in Leases : /\ lease[l].gen = entries[k].gen
                             /\ lease[l].state = "active"}
         /\ entries[k].connectors =
              {c \in Connectors : /\ connector[c].gen = entries[k].gen
                                 /\ connector[c].state = "open"}
<1> DEFINE e == entries[k]
<1>0. /\ e \in Entry /\ e.gen # 0 /\ generationKey[e.gen] = k
      /\ e.state = "idle" => e.leases = {} /\ e.connectors = {}
  BY DEF SimInv, IInv, TypeOK, EntriesShaped, EntryShape, Unused, GenerationsOwned
<1>1. ASSUME NEW l \in e.leases
      PROVE  l \in Leases /\ lease[l].gen = e.gen /\ lease[l].state = "active"
  BY <1>0 DEF SimInv, IInv, Entry, LeasesLinked, UsersAreServed, OpeningsAttached
<1>2. ASSUME NEW l \in Leases, lease[l].gen = e.gen, lease[l].state = "active"
      PROVE  l \in e.leases
  <2>1. lease[l].key \in Keys /\ l \in entries[lease[l].key].leases
    BY <1>2 DEF SimInv, IInv, LeasesLinked
  <2>2. entries[lease[l].key].gen = e.gen
    BY <1>2 DEF SimInv, IInv, UsersAreServed
  <2>3. lease[l].key = k
    BY <1>0, <2>1, <2>2 DEF SimInv, GenerationsOwned
  <2> QED BY <2>1, <2>3
<1>3. ASSUME NEW c \in e.connectors
      PROVE  /\ c \in Connectors /\ connector[c].gen = e.gen
             /\ connector[c].state = "open"
  BY <1>0 DEF SimInv, IInv, Entry, ConnectorsLinked, UsersAreServed
<1>4. ASSUME NEW c \in Connectors, connector[c].gen = e.gen,
             connector[c].state = "open"
      PROVE  c \in e.connectors
  <2>1. connector[c].key \in Keys /\ c \in entries[connector[c].key].connectors
    BY <1>4 DEF SimInv, IInv, ConnectorsLinked
  <2>2. entries[connector[c].key].gen = e.gen
    BY <1>4 DEF SimInv, IInv, UsersAreServed
  <2>3. connector[c].key = k
    BY <1>0, <2>1, <2>2 DEF SimInv, GenerationsOwned
  <2> QED BY <2>1, <2>3
<1> QED BY <1>1, <1>2, <1>3, <1>4

----------------------------------------
(* Frames: steps that change one entry.                                    *)

\* The entry e goes on as f: with the same generation or none, no new user, no
\* new start, and no user left when it comes to rest.
Continues(e, f) ==
  /\ f.gen = e.gen \/ f.gen = 0
  /\ f.leases \subseteq e.leases
  /\ f.connectors \subseteq e.connectors
  /\ f.state = "starting" => e.state = "starting" /\ f.gen = e.gen
  /\ f.state = "ready" => e.state = "ready"
  /\ f.state \in {"absent", "cold", "failed"} => f.state = e.state \/ Unused(f)

\* What SimInv adds to IInv survives when entries continue and the leases that
\* stay in them stay as they are.
LEMMA ContinuingKeeps ==
  ASSUME SimInv, IInv',
         \A k \in Keys : Continues(entries[k], entries'[k]),
         \A k \in Keys : \A l \in entries'[k].leases :
              lease'[l].state = lease[l].state /\ lease'[l].gen = lease[l].gen,
         UNCHANGED <<nextGeneration, generationKey, closing>>,
         \A g \in Generations : process'[g] = "none" => process[g] = "none"
  PROVE  SimInv'
<1>1. GenerationsOwned'
  BY DEF SimInv, GenerationsOwned, Continues
<1>2. OpeningsAttached'
  BY DEF SimInv, OpeningsAttached, Continues
<1>3. RestingUnused'
  BY DEF SimInv, RestingUnused, Continues, Unused
<1> QED BY <1>1, <1>2, <1>3 DEF SimInv

\* The same for one entry, whose dropped leases only change.
LEMMA OneContinues ==
  ASSUME SimInv, IInv', NEW k \in Keys, NEW f,
         entries' = [entries EXCEPT ![k] = f],
         Continues(entries[k], f),
         \A l \in Leases : l \notin entries[k].leases \ f.leases =>
              lease'[l].state = lease[l].state /\ lease'[l].gen = lease[l].gen,
         UNCHANGED <<nextGeneration, generationKey, closing, process>>
  PROVE  SimInv'
<1>1. /\ entries \in [Keys -> Entry]
      /\ \A j \in Keys : entries[j].leases \subseteq Leases
  BY DEF SimInv, IInv, TypeOK, Entry
<1>2. \A j \in Keys : entries'[j] = IF j = k THEN f ELSE entries[j]
  BY <1>1
<1>3. \A j \in Keys : Continues(entries[j], entries'[j])
  BY <1>2 DEF Continues
<1>4. ASSUME NEW j \in Keys, NEW l \in entries'[j].leases
      PROVE  lease'[l].state = lease[l].state /\ lease'[l].gen = lease[l].gen
  <2>1. l \in entries[j].leases
    BY <1>3 DEF Continues
  <2>2. lease[l].key = j
    BY <2>1 DEF SimInv, IInv, LeasesLinked
  <2>3. l \notin entries[k].leases \ f.leases
    BY <1>2, <2>2 DEF SimInv, IInv, LeasesLinked
  <2> QED BY <1>1, <2>1, <2>3
<1> QED BY <1>3, <1>4, ContinuingKeeps

\* One entry changes and no process does: the phase of its current generation
\* follows the entry, the others stay.
LEMMA PhasesFollow ==
  ASSUME SimInv, NEW k \in Keys, NEW f,
         entries' = [entries EXCEPT ![k] = f],
         f.gen = entries[k].gen \/ f.state = "absent",
         f.state # "absent" => entries[k].state # "absent",
         UNCHANGED <<generationKey, closing, process>>
  PROVE  /\ \A g \in Generations : AbstractPhase(g)' =
              IF g = entries[k].gen /\ entries[k].state # "absent"
              THEN Look(f.state, g) ELSE AbstractPhase(g)
         /\ \A g \in Generations : Occupies(g)' = Occupies(g)
<1> SUFFICES ASSUME NEW g \in Generations
             PROVE  AbstractPhase(g)' =
                      IF g = entries[k].gen /\ entries[k].state # "absent"
                      THEN Look(f.state, g) ELSE AbstractPhase(g)
  BY DEF Occupies
<1>0. entries \in [Keys -> Entry]
  BY DEF SimInv, IInv, TypeOK
<1>1. CASE g = entries[k].gen /\ entries[k].state # "absent"
  <2>1. generationKey[g] = k /\ process[g] # "none"
    BY <1>1, CurrentPhase, RegistryAssumption DEF Generations, RegistryAssumption
  <2>2. entries'[k] = f
    BY <1>0
  <2>3. IsCurrent(g)' <=> f.state # "absent"
    BY <1>1, <2>1, <2>2 DEF IsCurrent
  <2> QED BY <1>1, <2>1, <2>2, <2>3 DEF AbstractPhase, Look, Occupies
<1>2. CASE ~(g = entries[k].gen /\ entries[k].state # "absent")
  <2>1. CASE process[g] = "none"
    BY <1>2, <2>1 DEF AbstractPhase
  <2>2. CASE process[g] # "none" /\ generationKey[g] = k
    <3>1. entries'[k] = f
      BY <1>0
    <3>2. ~IsCurrent(g) /\ ~IsCurrent(g)'
      BY <1>2, <2>2, <3>1 DEF IsCurrent
    <3> QED BY <1>2, <2>2, <3>2 DEF AbstractPhase, Occupies
  <2>3. CASE process[g] # "none" /\ generationKey[g] # k
    <3>1. generationKey[g] \in Keys
      BY <2>3, StartedPhase
    <3>2. entries'[generationKey[g]] = entries[generationKey[g]]
      BY <1>0, <2>3, <3>1
    <3> QED BY <1>2, <2>3, <3>2 DEF AbstractPhase, IsCurrent, Occupies
  <2> QED BY <2>1, <2>2, <2>3
<1> QED BY <1>1, <1>2

\* A step none of the mapped variables shows.
LEMMA PoolRests ==
    ASSUME UNCHANGED <<closing, generationKey, connector>>,
           \A g \in Generations : AbstractPhase(g)' = AbstractPhase(g),
           \A g \in Generations : Occupies(g)' = Occupies(g),
           \A l \in Leases : AbstractLease(l)' = AbstractLease(l)
    PROVE  UNCHANGED Pool!poolVars
  BY DEF Pool!poolVars

\* The states in which an entry looks alike to the callers.
LooksLike(e, f) ==
  \/ f.state = e.state
  \/ e.state \in {"ready", "idle"} /\ f.state \in {"ready", "idle"}
  \/ /\ e.state \notin {"starting", "ready", "idle"}
     /\ f.state \notin {"starting", "ready", "idle"}

\* An entry goes on, no caller sees it.
LEMMA QuietEntry ==
  ASSUME SimInv, IInv', NEW k \in Keys, NEW f,
         entries' = [entries EXCEPT ![k] = f],
         Continues(entries[k], f), LooksLike(entries[k], f),
         f.gen = entries[k].gen \/ f.state = "absent",
         f.state # "absent" => entries[k].state # "absent",
         \A l \in Leases : /\ lease'[l].state = lease[l].state
                           /\ lease'[l].key = lease[l].key
                           /\ lease'[l].gen = lease[l].gen,
         UNCHANGED <<connector, nextGeneration, generationKey, closing, process>>
  PROVE  SimInv' /\ UNCHANGED Pool!poolVars
<1>1. SimInv'
  BY OneContinues
<1>2. /\ \A g \in Generations : AbstractPhase(g)' =
              IF g = entries[k].gen /\ entries[k].state # "absent"
              THEN Look(f.state, g) ELSE AbstractPhase(g)
      /\ \A g \in Generations : Occupies(g)' = Occupies(g)
  BY PhasesFollow
<1>3. \A g \in Generations :
          g = entries[k].gen /\ entries[k].state # "absent" =>
              AbstractPhase(g) = Look(entries[k].state, g)
  BY CurrentPhase, RegistryAssumption DEF Generations, RegistryAssumption
<1>4. \A g : Look(f.state, g) = Look(entries[k].state, g)
  BY DEF LooksLike, Look
<1>5. \A g \in Generations : AbstractPhase(g)' = AbstractPhase(g)
  BY <1>2, <1>3, <1>4
<1>6. \A l \in Leases : AbstractLease(l)' = AbstractLease(l)
  BY DEF AbstractLease
<1> QED BY <1>1, <1>2, <1>5, <1>6, PoolRests

\* No entry changes and no process, and no lease as its callers know it.
LEMMA QuietStep2 ==
  ASSUME SimInv, IInv',
         \A l \in Leases : /\ lease'[l].state = lease[l].state
                           /\ lease'[l].key = lease[l].key
                           /\ lease'[l].gen = lease[l].gen,
         UNCHANGED <<entries, connector, nextGeneration, generationKey, closing,
                     process>>
  PROVE  SimInv' /\ UNCHANGED Pool!poolVars
<1>1. \A k \in Keys : Continues(entries[k], entries'[k])
  BY DEF Continues
<1>2. \A k \in Keys : entries[k].leases \subseteq Leases
  BY DEF SimInv, IInv, TypeOK, Entry
<1>3. SimInv'
  BY <1>1, <1>2, ContinuingKeeps
<1>4. /\ \A g \in Generations : AbstractPhase(g)' = AbstractPhase(g)
      /\ \A g \in Generations : Occupies(g)' = Occupies(g)
      /\ \A l \in Leases : AbstractLease(l)' = AbstractLease(l)
  BY DEF AbstractPhase, IsCurrent, Occupies, AbstractLease
<1> QED BY <1>3, <1>4, PoolRests

----------------------------------------
(* Acquires.                                                               *)

\* A caller takes the answer.
LEMMA AcquireReturnsRefines ==
  ASSUME SimInv, IInv', NEW l \in Leases, AcquireReturns(l)
  PROVE  SimInv' /\ UNCHANGED Pool!poolVars
<1>1. lease \in [Leases -> LeaseRecord]
  BY DEF SimInv, IInv, TypeOK
<1>2. \A m \in Leases : /\ lease'[m].state = lease[m].state
                        /\ lease'[m].key = lease[m].key
                        /\ lease'[m].gen = lease[m].gen
  BY <1>1 DEF AcquireReturns, LeaseRecord
<1> QED BY <1>2, QuietStep2 DEF AcquireReturns, entryVars, generationVars, flagVars

\* A lease of a ready key is active at once.
LEMMA AcquireReadyRefines ==
  ASSUME SimInv, IInv', NEW l \in Leases, NEW k \in Keys, NEW p \in Policies,
         AcquireReady(l, k, p)
  PROVE  SimInv' /\ Pool!PoolNext
<1> DEFINE e == entries[k]
           g == e.gen
           f == [Cancel(e, {"idle"}) EXCEPT !.state = "ready",
                                            !.leases = @ \cup {l}]
           n == [Opening(k, g) EXCEPT !.state = "active", !.ready = "ok"]
<1>0. /\ e \in Entry /\ EntryShape(e, closing, process)
      /\ entries \in [Keys -> Entry] /\ lease \in [Leases -> LeaseRecord]
  BY ShapeBefore DEF SimInv, IInv, TypeOK
<1>1. /\ lease[l].state = "none" /\ ~closing
      /\ e.state \in {"ready", "idle"}
      /\ entries' = [entries EXCEPT ![k] = f]
      /\ lease' = [lease EXCEPT ![l] = n]
      /\ UNCHANGED <<connector, nextGeneration, generationKey, closing, process>>
  BY DEF AcquireReady, MayReserve, SetEntry, generationVars, flagVars
<1>2. /\ f.state = "ready" /\ f.gen = g /\ f.leases = e.leases \cup {l}
      /\ f.connectors = e.connectors
  BY <1>0 DEF Cancel, Entry
<1>3. n.state = "active" /\ n.key = k /\ n.gen = g
  BY DEF Opening
<1> HIDE DEF f, n
<1>4. g # 0 /\ e.state # "absent"
  BY <1>0, <1>1 DEF EntryShape
<1>5. /\ g \in Generations /\ generationKey[g] = k
      /\ AbstractPhase(g) = "ready"
  BY <1>1, <1>4, CurrentPhase DEF Look
<1>6. \A m \in Leases : lease'[m] = IF m = l THEN n ELSE lease[m]
  BY <1>0, <1>1
<1>7. GenerationsOwned'
  BY <1>0, <1>1, <1>2 DEF SimInv, GenerationsOwned
<1>8. OpeningsAttached'
  <2> SUFFICES ASSUME NEW j \in Keys, NEW m \in entries'[j].leases
               PROVE  /\ entries'[j].state = "starting" =>
                            lease'[m].gen = entries'[j].gen
                      /\ entries'[j].state = "ready" => lease'[m].state = "active"
    BY DEF OpeningsAttached
  <2>1. CASE j = k
    <3>1. entries'[j] = f
      BY <1>0, <1>1, <2>1
    <3>2. CASE m = l
      BY <1>2, <1>3, <1>6, <3>1, <3>2
    <3>3. CASE m # l
      <4>1. m \in e.leases
        BY <1>2, <3>1, <3>3
      <4>2. m \in Leases /\ lease[m].state = "active"
        BY <1>1, <4>1, ActiveUsers
      <4> QED BY <1>2, <1>6, <3>1, <3>3, <4>2
    <3> QED BY <3>2, <3>3
  <2>2. CASE j # k
    <3>1. entries'[j] = entries[j] /\ m \in entries[j].leases
      BY <1>0, <1>1, <2>2
    <3>2. m \in Leases /\ m # l
      BY SMTT(40), <1>1, <3>1 DEF SimInv, IInv, LeasesLinked, TypeOK, Entry
    <3> QED BY <1>6, <3>1, <3>2 DEF SimInv, OpeningsAttached
  <2> QED BY <2>1, <2>2
<1>9. SimInv'
  <2>1. \A j \in Keys : entries'[j] = IF j = k THEN f ELSE entries[j]
    BY <1>0, <1>1
  <2>2. RestingUnused'
    BY <1>1, <1>2, <2>1 DEF SimInv, RestingUnused, Unused
  <2> QED BY <1>7, <1>8, <2>2 DEF SimInv
<1>10. /\ \A h \in Generations : AbstractPhase(h)' = AbstractPhase(h)
       /\ \A h \in Generations : Occupies(h)' = Occupies(h)
  BY <1>1, <1>2, <1>4, <1>5, PhasesFollow DEF Look
<1>11. \A m \in Leases : AbstractLease(m)' =
          IF m = l THEN [state |-> "active", key |-> k, gen |-> g]
          ELSE AbstractLease(m)
  BY <1>3, <1>6 DEF AbstractLease
<1>12. Pool!JoinReady(l, g)
  <2>1. AbstractLease(l).state = "none"
    BY <1>1 DEF AbstractLease
  <2> QED BY <1>1, <1>5, <1>10, <1>11, <2>1 DEF Pool!JoinReady
<1>13. Pool!LeaseStep(l)
  BY <1>5, <1>12 DEF Pool!LeaseStep, Pool!Generation, Generations
<1> QED BY <1>9, <1>13 DEF Pool!PoolNext

\* A lease waits for the generation that starts, or for the one after the stop.
LEMMA AcquireJoiningRefines ==
  ASSUME SimInv, IInv', NEW l \in Leases, NEW k \in Keys, NEW p \in Policies,
         AcquireJoining(l, k, p)
  PROVE  SimInv' /\ Pool!PoolNext
<1> DEFINE e == entries[k]
           f == [e EXCEPT !.leases = @ \cup {l}]
           n == Opening(k, IF e.state = "starting" THEN e.gen ELSE 0)
<1>0. /\ e \in Entry /\ EntryShape(e, closing, process)
      /\ entries \in [Keys -> Entry] /\ lease \in [Leases -> LeaseRecord]
  BY ShapeBefore DEF SimInv, IInv, TypeOK
<1>1. /\ lease[l].state = "none" /\ ~closing
      /\ e.state \in {"starting", "stopping"}
      /\ entries' = [entries EXCEPT ![k] = f]
      /\ lease' = [lease EXCEPT ![l] = n]
      /\ UNCHANGED <<connector, nextGeneration, generationKey, closing, process>>
  BY DEF AcquireJoining, MayReserve, SetEntry, generationVars, flagVars
<1>2. /\ f.state = e.state /\ f.gen = e.gen /\ f.leases = e.leases \cup {l}
      /\ f.connectors = e.connectors
  BY <1>0 DEF Entry
<1>3. /\ n.state = "opening" /\ n.key = k
      /\ e.state = "starting" => n.gen = e.gen
  BY DEF Opening
<1> HIDE DEF f, n
<1>4. e.gen # 0 /\ e.state # "absent"
  BY <1>0, <1>1 DEF EntryShape
<1>5. /\ \A m \in Leases : lease'[m] = IF m = l THEN n ELSE lease[m]
      /\ \A j \in Keys : entries'[j] = IF j = k THEN f ELSE entries[j]
  BY <1>0, <1>1
<1>6. GenerationsOwned'
  BY <1>1, <1>2, <1>5 DEF SimInv, GenerationsOwned
<1>7. OpeningsAttached'
  <2> SUFFICES ASSUME NEW j \in Keys, NEW m \in entries'[j].leases
               PROVE  /\ entries'[j].state = "starting" =>
                            lease'[m].gen = entries'[j].gen
                      /\ entries'[j].state = "ready" => lease'[m].state = "active"
    BY DEF OpeningsAttached
  <2>1. CASE m = l
    <3>1. j = k
      BY <1>1, <1>5, <2>1 DEF SimInv, IInv, LeasesLinked
    <3> QED BY <1>1, <1>2, <1>3, <1>5, <2>1, <3>1
  <2>2. CASE m # l
    <3>1. /\ m \in entries[j].leases /\ m \in Leases
          /\ entries'[j].state = entries[j].state
          /\ entries'[j].gen = entries[j].gen
      BY <1>0, <1>2, <1>5, <2>2 DEF Entry
    <3> QED BY <1>5, <2>2, <3>1 DEF SimInv, OpeningsAttached
  <2> QED BY <2>1, <2>2
<1>8. SimInv'
  <2>1. RestingUnused'
    BY <1>1, <1>2, <1>5 DEF SimInv, RestingUnused, Unused
  <2> QED BY <1>6, <1>7, <2>1 DEF SimInv
<1>9. /\ \A h \in Generations : AbstractPhase(h)' = AbstractPhase(h)
      /\ \A h \in Generations : Occupies(h)' = Occupies(h)
  <2>1. AbstractPhase(e.gen) = Look(e.state, e.gen)
    BY <1>4, CurrentPhase
  <2>2. /\ \A h \in Generations : AbstractPhase(h)' =
              IF h = e.gen /\ e.state # "absent"
              THEN Look(f.state, h) ELSE AbstractPhase(h)
        /\ \A h \in Generations : Occupies(h)' = Occupies(h)
    BY <1>1, <1>2, PhasesFollow
  <2> QED BY <1>2, <2>1, <2>2
<1>10. \A m \in Leases : AbstractLease(m)' =
          IF m = l THEN [state |-> "opening", key |-> k, gen |-> 0]
          ELSE AbstractLease(m)
  BY <1>3, <1>5 DEF AbstractLease
<1>11. \A g \in Generations : generationKey[g] = k => AbstractPhase(g) # "ready"
  BY <1>1 DEF AbstractPhase, IsCurrent
<1>12. Pool!Join(l, k)
  <2>1. AbstractLease(l).state = "none"
    BY <1>1 DEF AbstractLease
  <2> QED BY <1>1, <1>9, <1>10, <1>11, <2>1 DEF Pool!Join, Pool!Waits, Pool!Generation,
    Generations
<1>13. Pool!LeaseStep(l)
  BY <1>12 DEF Pool!LeaseStep
<1> QED BY <1>8, <1>13 DEF Pool!PoolNext

\* startLocked begins the next generation of the pool.
LEMMA GenerationBegins ==
  ASSUME SimInv, NEW k \in Keys, NEW e \in Entry,
         StartGeneration(k, e), ~closing, closing' = closing,
         entries[k].state \in {"absent", "cold", "failed", "stopping"},
         ~entries[k].startPending,
         entries[k].instance => process[entries[k].gen] = "exited"
  PROVE  /\ nextGeneration + 1 \in Generations
         /\ nextGeneration' = nextGeneration + 1
         /\ \A j \in Keys : j # k => entries'[j] = entries[j]
         /\ entries'[k].state = "starting"
         /\ entries'[k].gen = nextGeneration + 1
         /\ entries'[k].leases = e.leases
         /\ GenerationsOwned'
         /\ Pool!Begins(nextGeneration + 1, k)
<1> DEFINE g == nextGeneration + 1
           f == StartEntry(e, g)
<1>1. /\ nextGeneration \in Nat /\ MaxGeneration \in Nat
      /\ g \in Generations /\ nextGeneration < MaxGeneration
  BY RegistryAssumption DEF StartGeneration, SimInv, IInv, TypeOK, Generations, RegistryAssumption
<1>2. /\ entries' = [entries EXCEPT ![k] = f]
      /\ nextGeneration' = g
      /\ generationKey' = [generationKey EXCEPT ![g] = k]
      /\ process' = [process EXCEPT ![g] = "starting"]
  BY DEF StartGeneration, SetEntry
<1>3. /\ f.gen = g /\ f.state = "starting" /\ f.leases = e.leases
  BY <1>1, StartEntryKeeps DEF SameUsers
<1> HIDE DEF f
<1>4. /\ entries \in [Keys -> Entry]
      /\ generationKey \in [Generations -> Keys \cup {NoKey}]
      /\ process \in [Generations -> {"none", "starting", "running", "exited"}]
  BY DEF SimInv, IInv, TypeOK
<1>5. /\ entries'[k] = f /\ \A j \in Keys : j # k => entries'[j] = entries[j]
      /\ generationKey'[g] = k /\ process'[g] = "starting"
      /\ \A h \in Generations : h # g =>
          generationKey'[h] = generationKey[h] /\ process'[h] = process[h]
  BY <1>1, <1>2, <1>4
<1>6. \A h \in Generations : h \in Nat /\ (h # g => h > g \/ h <= nextGeneration)
  BY <1>1 DEF Generations
<1>7. GenerationsOwned'
  <2>1. \A j \in Keys : entries[j].gen # g
    BY <1>1, <1>4, RegistryAssumption DEF SimInv, IInv, GenerationsInOrder, Entry,
      RegistryAssumption
  <2>2. \A j \in Keys : entries[j].gen # 0 => entries[j].gen \in Generations
    BY <1>4, RegistryAssumption DEF Entry, Generations, RegistryAssumption
  <2>3. \A h \in Generations : h <= nextGeneration' => process'[h] # "none"
    BY <1>1, <1>2, <1>5, <1>6 DEF SimInv, GenerationsOwned
  <2> QED BY <1>3, <1>5, <2>1, <2>2, <2>3 DEF SimInv, GenerationsOwned
<1>8. /\ \A h \in Generations : generationKey[h] = k => ~Occupies(h)
      /\ process[g] = "none"
  BY <1>1, NoOwnerNoOccupant DEF SimInv, IInv, GenerationsInOrder
<1>9. \A h \in Generations : generationKey[h] = k =>
          AbstractPhase(h) \in {"none", "ended"}
  BY <1>8 DEF AbstractPhase, IsCurrent
<1>10. /\ AbstractPhase(g) = "none"
       /\ \A h \in Generations : h < g => AbstractPhase(h) # "none"
  <2>1. \A h \in Generations : h < g => process[h] # "none"
    BY <1>1, <1>6 DEF SimInv, GenerationsOwned
  <2> QED BY <1>1, <1>8, <2>1, StartedPhase DEF AbstractPhase
<1>11. \A h \in Generations : AbstractPhase(h)' =
          IF h = g THEN "starting" ELSE AbstractPhase(h)
  <2> SUFFICES ASSUME NEW h \in Generations
               PROVE  AbstractPhase(h)' =
                          IF h = g THEN "starting" ELSE AbstractPhase(h)
    OBVIOUS
  <2>1. CASE h = g
    BY <1>3, <1>5, <2>1 DEF AbstractPhase, IsCurrent
  <2>2. CASE h # g /\ process[h] = "none"
    BY <1>5, <2>2 DEF AbstractPhase
  <2>3. CASE h # g /\ process[h] # "none" /\ generationKey[h] = k
    <3>1. ~IsCurrent(h)' /\ ~Occupies(h)'
      BY <1>3, <1>5, <1>8, <2>3 DEF IsCurrent, Occupies
    <3>2. AbstractPhase(h) = "ended"
      BY <1>9, <2>3, StartedPhase
    <3> QED BY <1>5, <2>3, <3>1, <3>2 DEF AbstractPhase
  <2>4. CASE h # g /\ process[h] # "none" /\ generationKey[h] # k
    <3>1. generationKey[h] \in Keys
      BY <2>4, StartedPhase
    <3> QED BY <1>5, <2>4, <3>1 DEF AbstractPhase, IsCurrent, Occupies
  <2> QED BY <2>1, <2>2, <2>3, <2>4
<1>12. \A h \in Generations : Occupies(h)' <=> h = g \/ Occupies(h)
  BY <1>5 DEF Occupies
<1>13. Pool!Begins(g, k)
  <2>1. Pool!Vacant(k)
    BY <1>9 DEF Pool!Vacant, Pool!Generation, Generations
  <2>2. {h \in Generations : Occupies(h)}' = {h \in Generations : Occupies(h)} \cup {g}
    BY <1>1, <1>12
  <2> QED BY <1>1, <1>2, <1>10, <1>11, <2>1, <2>2 DEF Pool!Begins, Pool!Generation, Generations
<1> QED BY <1>1, <1>2, <1>3, <1>5, <1>7, <1>13

\* The first lease of a key at rest starts a generation.
LEMMA AcquireStartingRefines ==
  ASSUME SimInv, IInv', NEW l \in Leases, NEW k \in Keys, NEW p \in Policies,
         AcquireStarting(l, k, p)
  PROVE  SimInv' /\ Pool!PoolNext
<1> DEFINE e == entries[k]
           d == [e EXCEPT !.policy = p, !.leases = e.leases \cup {l}]
           g == nextGeneration + 1
           n == Opening(k, g)
<1>0. /\ e \in Entry /\ EntryShape(e, closing, process)
      /\ lease \in [Leases -> LeaseRecord]
  BY ShapeBefore DEF SimInv, IInv, TypeOK
<1>1. /\ StartGeneration(k, d)
      /\ lease[l].state = "none" /\ ~closing /\ MayStart(e)
      /\ lease' = [lease EXCEPT ![l] = Opening(k, nextGeneration')]
      /\ UNCHANGED <<connector, closing>>
  BY DEF AcquireStarting, MayReserve, flagVars
<1>2. /\ ~e.startPending /\ ~e.instance
      /\ e.state \in {"absent", "cold", "failed"}
      /\ e.leases = {}
  BY <1>0, <1>1 DEF MayStart, EntryShape, SimInv, RestingUnused, Unused
<1>3. d \in Entry /\ d.leases = {l}
  BY <1>0, <1>2 DEF Entry
<1> HIDE DEF d
<1>4. /\ g \in Generations /\ nextGeneration' = g
      /\ \A j \in Keys : j # k => entries'[j] = entries[j]
      /\ entries'[k].state = "starting" /\ entries'[k].gen = g
      /\ entries'[k].leases = {l}
      /\ GenerationsOwned' /\ Pool!Begins(g, k)
  BY <1>1, <1>2, <1>3, GenerationBegins
<1>5. /\ \A m \in Leases : lease'[m] = IF m = l THEN n ELSE lease[m]
      /\ n.state = "opening" /\ n.key = k /\ n.gen = g
  BY <1>0, <1>1, <1>4 DEF Opening
<1> HIDE DEF n
<1>6. SimInv'
  <2>1. ASSUME NEW j \in Keys, j # k, NEW m \in entries[j].leases
        PROVE  m \in Leases /\ lease'[m] = lease[m]
    <3>1. m \in Leases
      BY <2>1 DEF SimInv, IInv, TypeOK, Entry
    <3>2. lease[m].state \in {"opening", "active"}
      BY <2>1 DEF SimInv, IInv, LeasesLinked
    <3> QED BY <1>1, <1>5, <3>1, <3>2
  <2>2. OpeningsAttached'
    BY <1>4, <1>5, <2>1 DEF SimInv, OpeningsAttached
  <2>3. RestingUnused'
    BY <1>1, <1>4 DEF SimInv, RestingUnused, Unused
  <2> QED BY <1>4, <2>2, <2>3 DEF SimInv
<1>7. \A m \in Leases : AbstractLease(m)' =
          IF m = l THEN [state |-> "opening", key |-> k, gen |-> 0]
          ELSE AbstractLease(m)
  BY <1>5 DEF AbstractLease
<1>8. Pool!JoinAndBegin(l, k, g)
  <2>1. AbstractLease(l).state = "none"
    BY <1>1 DEF AbstractLease
  <2> QED BY <1>1, <1>4, <1>7, <2>1 DEF Pool!JoinAndBegin, Pool!Waits
<1>9. Pool!LeaseStep(l)
  BY <1>4, <1>8 DEF Pool!LeaseStep, Pool!Generation, Generations
<1> QED BY <1>6, <1>9 DEF Pool!PoolNext

----------------------------------------
(* Users that leave.                                                       *)

\* A lease is given back; the last one out of a start abandons it.
LEMMA ReleaseRefines ==
  ASSUME SimInv, IInv', NEW l \in Leases, NEW c, lease[l].caller # "none",
         Release(l, c)
  PROVE  SimInv' /\ (Pool!PoolNext \/ UNCHANGED Pool!poolVars)
<1> DEFINE k == lease[l].key
           e == entries[k]
           d == [e EXCEPT !.leases = @ \ {l}]
           u == CancelUnusedStart(d)
           f == MaybeIdle(u)
<1>0. lease \in [Leases -> LeaseRecord] /\ entries \in [Keys -> Entry]
  BY DEF SimInv, IInv, TypeOK
<1>1. CASE lease[l].state = "closed"
  <2>1. lease' = [lease EXCEPT ![l].caller = c]
    BY <1>1 DEF Release
  <2>2. \A m \in Leases : /\ lease'[m].state = lease[m].state
                          /\ lease'[m].key = lease[m].key
                          /\ lease'[m].gen = lease[m].gen
    BY <1>0, <2>1 DEF LeaseRecord
  <2>3. UNCHANGED <<entries, connector, nextGeneration, generationKey, closing,
                    process>>
    BY <1>1 DEF Release, entryVars, flagVars
  <2> QED BY <2>2, <2>3, QuietStep2
<1>2. CASE lease[l].state # "closed"
  <2>1. /\ lease[l].state \in {"opening", "active"}
        /\ k \in Keys /\ l \in e.leases
    BY <1>0, <1>2 DEF SimInv, IInv, LeaseRecord, LeaseStates, LeasesLinked
  <2>2. /\ lease' = [lease EXCEPT ![l].caller = c, ![l].state = "closed"]
        /\ entries' = [entries EXCEPT ![k] = f]
        /\ UNCHANGED <<connector, nextGeneration, generationKey, closing, process>>
    BY <1>2 DEF Release, SetEntry, flagVars
  <2>3. \A m \in Leases :
          /\ lease'[m].state = IF m = l THEN "closed" ELSE lease[m].state
          /\ lease'[m].key = lease[m].key
          /\ lease'[m].gen = lease[m].gen
    BY <1>0, <2>2 DEF LeaseRecord
  <2>4. /\ e \in Entry /\ EntryShape(e, closing, process)
        /\ e.state \notin {"absent", "cold", "failed", "idle"} /\ e.gen # 0
    BY <2>1, ShapeBefore DEF EntryShape, Unused, SimInv, RestingUnused
  <2>5. /\ d \in Entry /\ d.state = e.state /\ d.gen = e.gen
        /\ d.leases = e.leases \ {l} /\ d.connectors = e.connectors
    BY <2>4 DEF Entry
  <2> HIDE DEF d
  <2>6. /\ u \in Entry /\ u.gen = e.gen
        /\ u.leases = d.leases /\ u.connectors = d.connectors
        /\ u.state = IF e.state = "starting" /\ Unused(d) THEN "failed" ELSE e.state
    BY <2>5, CancelUnusedStartKeeps DEF SameUsers, StartIsUnused
  <2> HIDE DEF u
  <2>7. /\ f.gen = e.gen
        /\ f.leases = e.leases \ {l} /\ f.connectors = e.connectors
        /\ f.state = IF u.state = "ready" /\ Unused(u) THEN "idle" ELSE u.state
    BY <2>5, <2>6, MaybeIdleKeeps DEF SameUsers, SameGeneration
  <2> HIDE DEF f
  <2>8. SimInv'
    <3>1. Continues(e, f)
      BY <2>4, <2>5, <2>6, <2>7 DEF Continues, Unused
    <3>2. e.leases \ f.leases = {l}
      BY <2>1, <2>7
    <3>3. \A m \in Leases : m \notin e.leases \ f.leases =>
              lease'[m].state = lease[m].state /\ lease'[m].gen = lease[m].gen
      BY <2>3, <3>2
    <3> HIDE DEF k
    <3> QED BY <2>1, <2>2, <3>1, <3>3, OneContinues
  <2>9. /\ \A g \in Generations : AbstractPhase(g)' =
              IF g = e.gen THEN Look(f.state, g) ELSE AbstractPhase(g)
        /\ \A g \in Generations : Occupies(g)' = Occupies(g)
    BY <2>1, <2>2, <2>4, <2>7, PhasesFollow
  <2>10. /\ e.gen \in Generations /\ generationKey[e.gen] = k
         /\ AbstractPhase(e.gen) = Look(e.state, e.gen)
    BY <2>1, <2>4, CurrentPhase
  <2>11. \A g \in Generations :
            AbstractPhase(g) = "starting" /\ generationKey[g] = k => g = e.gen
    BY DEF AbstractPhase, IsCurrent
  <2>12. \A g \in Generations : AbstractPhase(g)' =
            IF /\ AbstractPhase(g) = "starting" /\ generationKey[g] = k
               /\ {m \in Leases : lease[m].key = k /\ lease[m].state = "opening"}
                      \subseteq {l}
            THEN (IF Occupies(g) THEN "retiring" ELSE "ended")
            ELSE AbstractPhase(g)
    <3>1. CASE e.state = "starting" /\ ~closing
      <4>1. e.leases = {m \in Leases : lease[m].key = k /\ lease[m].state = "opening"}
        BY <2>1, <3>1, WaitingLeases
      <4>2. e.connectors = {}
        BY <2>4, <3>1 DEF EntryShape
      <4>3. Unused(d) <=> e.leases \subseteq {l}
        BY <2>5, <4>2 DEF Unused
      <4> QED BY <2>6, <2>7, <2>9, <2>10, <2>11, <3>1, <4>1, <4>3 DEF Look
    <3>2. CASE ~(e.state = "starting" /\ ~closing)
      <4>1. \A g \in Generations :
              ~(AbstractPhase(g) = "starting" /\ generationKey[g] = k)
        BY <2>10, <2>11, <3>2 DEF Look
      <4>2. Look(f.state, e.gen) = Look(e.state, e.gen)
        BY <2>6, <2>7, <3>2 DEF Look
      <4> QED BY <2>9, <2>10, <4>1, <4>2
    <3> QED BY <3>1, <3>2
  <2>13. /\ \A m \in Leases : AbstractLease(m)' =
            IF m = l THEN [state |-> "closed", key |-> k, gen |-> 0]
            ELSE AbstractLease(m)
         /\ \A m \in Leases : /\ AbstractLease(m).state = lease[m].state
                               /\ AbstractLease(m).key = lease[m].key
    BY <2>3 DEF AbstractLease
  <2>14. Pool!Leave(l)
    <3>1. Pool!LeasesOf(k, "opening") =
              {m \in Leases : lease[m].key = k /\ lease[m].state = "opening"}
      BY <2>13 DEF Pool!LeasesOf
    <3>2. \A g \in Generations :
              Pool!Rest(g) = IF Occupies(g) THEN "retiring" ELSE "ended"
      BY DEF Pool!Rest
    <3>3. [m \in Leases |-> AbstractLease(m)]' = Pool!Closed({l})
      BY <2>1, <2>13 DEF Pool!Closed, AbstractLease
    <3> QED BY <2>1, <2>2, <2>9, <2>12, <2>13, <3>1, <3>2, <3>3 DEF Pool!Leave, Pool!Generation,
      Generations
  <2> QED BY <2>8, <2>14 DEF Pool!PoolNext, Pool!LeaseStep
<1> QED BY <1>1, <1>2

\* A connector is opened through an active lease.
LEMMA OpenConnectorRefines ==
  ASSUME SimInv, IInv', NEW c \in Connectors, NEW l \in Leases,
         OpenConnector(c, l)
  PROVE  SimInv' /\ Pool!PoolNext
<1> DEFINE k == lease[l].key
           e == entries[k]
           f == [e EXCEPT !.connectors = @ \cup {c}]
<1>0. entries \in [Keys -> Entry] /\ connector \in [Connectors -> ConnectorRecord]
  BY DEF SimInv, IInv, TypeOK
<1>1. /\ connector[c].state = "none" /\ ~closing
      /\ lease[l].state = "active" /\ e.state = "ready" /\ e.gen = lease[l].gen
      /\ connector' = [connector EXCEPT ![c] =
                          [state |-> "open", key |-> k, gen |-> lease[l].gen]]
      /\ entries' = [entries EXCEPT ![k] = f]
      /\ UNCHANGED <<lease, nextGeneration, generationKey, closing, process>>
  BY DEF OpenConnector, SetEntry, generationVars, flagVars
<1>2. k \in Keys /\ e \in Entry
  BY <1>0, <1>1 DEF SimInv, IInv, LeasesLinked
<1>3. f.state = e.state /\ f.gen = e.gen /\ f.leases = e.leases
  BY <1>2 DEF Entry
<1> HIDE DEF f, k
<1>4. \A j \in Keys : entries'[j] = IF j = k THEN f ELSE entries[j]
  BY <1>0, <1>1
<1>5. SimInv'
  <2>1. GenerationsOwned'
    BY <1>1, <1>3, <1>4 DEF SimInv, GenerationsOwned
  <2>2. OpeningsAttached'
    BY <1>1, <1>3, <1>4 DEF SimInv, OpeningsAttached
  <2>3. RestingUnused'
    BY <1>1, <1>3, <1>4 DEF SimInv, RestingUnused, Unused
  <2> QED BY <2>1, <2>2, <2>3 DEF SimInv
<1>6. /\ \A h \in Generations : AbstractPhase(h)' = AbstractPhase(h)
      /\ \A h \in Generations : Occupies(h)' = Occupies(h)
  <2>1. e.gen # 0
    BY <1>1, <1>2, ShapeBefore DEF EntryShape, SimInv
  <2>2. AbstractPhase(e.gen) = Look(e.state, e.gen)
    BY <1>1, <1>2, <2>1, CurrentPhase
  <2>3. /\ \A h \in Generations : AbstractPhase(h)' =
              IF h = e.gen /\ e.state # "absent"
              THEN Look(f.state, h) ELSE AbstractPhase(h)
        /\ \A h \in Generations : Occupies(h)' = Occupies(h)
    BY <1>1, <1>2, <1>3, PhasesFollow
  <2> QED BY <1>3, <2>2, <2>3
<1>7. /\ \A m \in Leases : AbstractLease(m)' = AbstractLease(m)
      /\ AbstractLease(l).state = "active"
      /\ AbstractLease(l).key = k /\ AbstractLease(l).gen = lease[l].gen
  BY <1>1 DEF AbstractLease, k
<1>8. Pool!Attach(c, l)
  BY <1>1, <1>6, <1>7 DEF Pool!Attach
<1> QED BY <1>5, <1>8 DEF Pool!PoolNext

\* A connector is closed; the entry may become idle, the generation stays ready.
LEMMA CloseConnectorRefines ==
  ASSUME SimInv, IInv', NEW c \in Connectors, CloseConnector(c)
  PROVE  SimInv' /\ Pool!PoolNext
<1> DEFINE k == connector[c].key
           e == entries[k]
           d == [e EXCEPT !.connectors = @ \ {c}]
           f == MaybeIdle(d)
<1>0. entries \in [Keys -> Entry] /\ connector \in [Connectors -> ConnectorRecord]
  BY DEF SimInv, IInv, TypeOK
<1>1. /\ connector[c].state = "open"
      /\ connector' = [connector EXCEPT ![c].state = "closed"]
      /\ entries' = [entries EXCEPT ![k] = f]
      /\ UNCHANGED <<lease, nextGeneration, generationKey, closing, process>>
  BY DEF CloseConnector, SetEntry, generationVars, flagVars
<1>2. k \in Keys /\ e \in Entry /\ e.state = "ready"
  BY <1>0, <1>1 DEF SimInv, IInv, ConnectorsLinked, UsersAreServed
<1>3. /\ d \in Entry /\ d.state = e.state /\ d.gen = e.gen /\ d.leases = e.leases
      /\ d.connectors \subseteq e.connectors
  BY <1>2 DEF Entry
<1> HIDE DEF d
<1>4. /\ f.gen = e.gen /\ f.leases = e.leases /\ f.connectors \subseteq e.connectors
      /\ f.state \in {"ready", "idle"}
  BY <1>2, <1>3, MaybeIdleKeeps DEF SameUsers, SameGeneration
<1> HIDE DEF f, k
<1>5. SimInv'
  <2>1. Continues(e, f)
    BY <1>2, <1>4 DEF Continues
  <2> QED BY <1>1, <1>2, <2>1, OneContinues
<1>6. /\ \A h \in Generations : AbstractPhase(h)' = AbstractPhase(h)
      /\ \A h \in Generations : Occupies(h)' = Occupies(h)
  <2>1. e.gen # 0
    BY <1>2, ShapeBefore DEF EntryShape, SimInv
  <2>2. AbstractPhase(e.gen) = "ready"
    BY <1>2, <2>1, CurrentPhase DEF Look
  <2>3. /\ \A h \in Generations : AbstractPhase(h)' =
              IF h = e.gen /\ e.state # "absent"
              THEN Look(f.state, h) ELSE AbstractPhase(h)
        /\ \A h \in Generations : Occupies(h)' = Occupies(h)
    BY <1>1, <1>2, <1>4, PhasesFollow
  <2> QED BY <1>4, <2>2, <2>3 DEF Look
<1>7. \A m \in Leases : AbstractLease(m)' = AbstractLease(m)
  BY <1>1 DEF AbstractLease
<1>8. Pool!Detach(c)
  <2>1. connector' = Pool!Disconnect({c})
    BY <1>0, <1>1 DEF Pool!Disconnect
  <2> QED BY <1>1, <1>6, <1>7, <2>1 DEF Pool!Detach
<1> QED BY <1>5, <1>8 DEF Pool!PoolNext

----------------------------------------
(* The worker startGeneration and the processes.                           *)

\* A process changes without leaving its entry.
LEMMA ProcessMoves ==
  ASSUME SimInv, IInv', NEW g \in Generations, NEW p \in {"running", "exited"},
         process[g] \in {"starting", "running"},
         process' = [process EXCEPT ![g] = p],
         UNCHANGED <<entries, lease, connector, nextGeneration, generationKey,
                     closing>>
  PROVE  SimInv' /\ (Pool!PoolNext \/ UNCHANGED Pool!poolVars)
<1>0. process \in [Generations -> {"none", "starting", "running", "exited"}]
  BY DEF SimInv, IInv, TypeOK
<1>1. \A h \in Generations : process'[h] = IF h = g THEN p ELSE process[h]
  BY <1>0
<1>2. SimInv'
  <2>1. \A k \in Keys : Continues(entries[k], entries'[k])
    BY DEF Continues
  <2> QED BY <1>1, <2>1, ContinuingKeeps
<1>3. \A m \in Leases : AbstractLease(m)' = AbstractLease(m)
  BY DEF AbstractLease
<1>4. CASE p = "running"
  <2>1. /\ \A h \in Generations : AbstractPhase(h)' = AbstractPhase(h)
        /\ \A h \in Generations : Occupies(h)' = Occupies(h)
    BY <1>1, <1>4 DEF AbstractPhase, IsCurrent, Occupies
  <2> QED BY <1>2, <1>3, <2>1, PoolRests
<1>5. CASE p = "exited"
  <2>1. \A h \in Generations : Occupies(h)' <=> Occupies(h) /\ h # g
    BY <1>1, <1>5 DEF Occupies
  <2>2. \A h \in Generations : AbstractPhase(h)' =
          IF h = g /\ AbstractPhase(g) = "retiring" THEN "ended" ELSE AbstractPhase(h)
    BY <1>1, <1>5 DEF AbstractPhase, IsCurrent, Occupies
  <2>3. Occupies(g)
    BY DEF Occupies
  <2>4. Pool!Exit(g)
    <3>1. {h \in Generations : Occupies(h)}' = {h \in Generations : Occupies(h)} \ {g}
      BY <2>1
    <3> QED BY <1>3, <2>2, <2>3, <3>1 DEF Pool!Exit, Pool!Generation, Generations
  <2>5. Pool!GenerationStep(g)
    BY <2>4 DEF Pool!GenerationStep
  <2> QED BY <1>2, <2>5 DEF Pool!PoolNext, Pool!Generation, Generations
<1> QED BY <1>4, <1>5

\* factory.Start returns.
LEMMA StartReturnsRefines ==
  ASSUME SimInv, IInv', NEW g \in Generations, NEW o, StartReturns(g, o)
  PROVE  SimInv' /\ (Pool!PoolNext \/ UNCHANGED Pool!poolVars)
<1> DEFINE p == IF o = "failed" THEN "exited" ELSE "running"
<1>1. /\ process' = [process EXCEPT ![g] = p]
      /\ UNCHANGED <<entries, lease, connector, nextGeneration, generationKey,
                     closing>>
  BY DEF StartReturns, entryVars, userVars, flagVars
<1>2. process[g] = "starting"
  BY StarterBefore DEF StartReturns, SimInv
<1>3. p \in {"running", "exited"}
  OBVIOUS
<1> HIDE DEF p
<1> QED BY <1>1, <1>2, <1>3, ProcessMoves

\* A process exits.
LEMMA ProcessExitsRefines ==
    ASSUME SimInv, IInv', NEW g \in Generations, ProcessExits(g)
    PROVE  SimInv' /\ (Pool!PoolNext \/ UNCHANGED Pool!poolVars)
  BY ProcessMoves DEF ProcessExits, entryVars, userVars, flagVars

\* Leases that are dropped are closed leases of the pool.
LEMMA DroppedLeases ==
  ASSUME SimInv, NEW S \in SUBSET Leases, lease' = Invalidated(S)
  PROVE  /\ \A l \in Leases :
              /\ lease'[l].state = IF l \in S THEN "closed" ELSE lease[l].state
              /\ lease'[l].key = lease[l].key
              /\ lease'[l].gen = lease[l].gen
         /\ [l \in Leases |-> AbstractLease(l)]' = Pool!Closed(S)
<1>0. \A l \in Leases : lease[l] \in LeaseRecord
  BY DEF SimInv, IInv, TypeOK
<1>1. \A l \in Leases :
          /\ lease'[l].state = IF l \in S THEN "closed" ELSE lease[l].state
          /\ lease'[l].key = lease[l].key
          /\ lease'[l].gen = lease[l].gen
  <2> SUFFICES ASSUME NEW l \in Leases
               PROVE  /\ lease'[l].state = IF l \in S THEN "closed" ELSE lease[l].state
                      /\ lease'[l].key = lease[l].key
                      /\ lease'[l].gen = lease[l].gen
    OBVIOUS
  <2>1. lease'[l] =
          IF l \in S
          THEN [lease[l] EXCEPT !.state = "closed",
                   !.ready = IF lease[l].state = "opening" THEN "error" ELSE @]
          ELSE lease[l]
    BY DEF Invalidated
  <2>2. CASE l \in S
    BY <1>0, <2>1, <2>2 DEF LeaseRecord
  <2>3. CASE l \notin S
    BY <2>1, <2>3
  <2> QED BY <2>2, <2>3
<1>2. \A l \in Leases : AbstractLease(l)' =
          IF l \in S THEN [AbstractLease(l) EXCEPT !.state = "closed", !.gen = 0]
          ELSE AbstractLease(l)
  BY <1>1 DEF AbstractLease
<1> QED BY <1>1, <1>2 DEF Pool!Closed

\* Connectors that are dropped, likewise.
LEMMA DroppedConnectors ==
    ASSUME NEW S, connector' = Disconnected(S)
    PROVE  connector' = Pool!Disconnect(S)
  BY DEF Disconnected, Pool!Disconnect

\* The entry of k drops the leases it no longer lists and continues.
LEMMA DroppingContinues ==
  ASSUME SimInv, IInv', NEW k \in Keys, NEW f,
         entries' = [entries EXCEPT ![k] = f], DropUsers(k, f),
         Continues(entries[k], f),
         UNCHANGED <<nextGeneration, generationKey, closing, process>>
  PROVE  SimInv'
<1> DEFINE S == entries[k].leases \ f.leases
<1>1. S \in SUBSET Leases /\ lease' = Invalidated(S)
  BY DEF DropUsers, SimInv, IInv, TypeOK, Entry
<1>2. \A l \in Leases : l \notin S =>
          lease'[l].state = lease[l].state /\ lease'[l].gen = lease[l].gen
  <2> HIDE DEF S
  <2> QED BY <1>1, DroppedLeases
<1> QED BY <1>2, OneContinues

\* A start that fails: whoever waited for it is told.
LEMMA StartFailsRefines ==
  ASSUME SimInv, IInv', NEW k \in Keys, NEW f,
         entries[k].state = "starting", ~closing,
         entries' = [entries EXCEPT ![k] = f], DropUsers(k, f),
         f.gen = entries[k].gen, f.state = "failed",
         f.leases = {}, f.connectors = entries[k].connectors,
         UNCHANGED <<nextGeneration, generationKey, closing, process>>
  PROVE  SimInv' /\ Pool!PoolNext
<1> DEFINE e == entries[k]
           g == e.gen
<1>0. e \in Entry /\ e.gen # 0 /\ e.connectors = {}
  BY ShapeBefore DEF EntryShape, SimInv
<1>1. SimInv'
  BY <1>0, DroppingContinues DEF Continues, Unused
<1>2. g \in Generations /\ generationKey[g] = k /\ AbstractPhase(g) = "starting"
  BY <1>0, CurrentPhase DEF Look
<1>3. /\ \A h \in Generations : AbstractPhase(h)' =
              IF h = g THEN (IF Occupies(g) THEN "retiring" ELSE "ended")
              ELSE AbstractPhase(h)
      /\ \A h \in Generations : Occupies(h)' = Occupies(h)
  BY PhasesFollow DEF Look
<1>4. /\ \A l \in Leases : /\ AbstractLease(l).state = lease[l].state
                           /\ AbstractLease(l).key = lease[l].key
      /\ e.leases \in SUBSET Leases
  BY <1>0 DEF AbstractLease, Entry
<1>5. Pool!LeasesOf(k, "opening") = e.leases
  BY <1>4, WaitingLeases DEF Pool!LeasesOf
<1>6. lease' = Invalidated(e.leases) /\ connector' = connector
  <2>1. e.leases \ f.leases = e.leases /\ e.connectors \ f.connectors = {}
    BY <1>0
  <2>2. Disconnected({}) = connector
    BY DEF Disconnected, SimInv, IInv, TypeOK
  <2> QED BY <2>1, <2>2 DEF DropUsers
<1>7. [l \in Leases |-> AbstractLease(l)]' = Pool!Closed(e.leases)
  BY <1>4, <1>6, DroppedLeases
<1>8. Pool!StartFails(g)
  <2>1. Pool!Rest(g) = IF Occupies(g) THEN "retiring" ELSE "ended"
    BY <1>2 DEF Pool!Rest
  <2> QED BY <1>2, <1>3, <1>5, <1>6, <1>7, <2>1 DEF Pool!StartFails, Pool!Generation, Generations
<1>9. Pool!GenerationStep(g)
  BY <1>8 DEF Pool!GenerationStep
<1> QED BY <1>1, <1>2, <1>9 DEF Pool!PoolNext, Pool!Generation, Generations

\* The start deadline passes, before or as the instance is published.
LEMMA TimeoutRefines ==
  ASSUME SimInv, IInv', NEW k \in Keys, entries[k].state = "starting", ~closing,
         entries' = [entries EXCEPT ![k] = [TimeoutStart(entries[k]) EXCEPT !.leases = {}]],
         DropUsers(k, [TimeoutStart(entries[k]) EXCEPT !.leases = {}]),
         UNCHANGED <<nextGeneration, generationKey, closing, process>>
  PROVE  SimInv' /\ Pool!PoolNext
<1> DEFINE t == TimeoutStart(entries[k])
           f == [t EXCEPT !.leases = {}]
<1>1. /\ t \in Entry /\ t.gen = entries[k].gen /\ t.state = "failed"
      /\ t.connectors = entries[k].connectors
  BY ShapeBefore, TimeoutStartKeeps DEF SameUsers, SameGeneration, SimInv
<1>2. /\ f.gen = entries[k].gen /\ f.state = "failed" /\ f.leases = {}
      /\ f.connectors = entries[k].connectors
  <2> HIDE DEF t
  <2> QED BY <1>1 DEF Entry
<1>3. entries' = [entries EXCEPT ![k] = f] /\ DropUsers(k, f)
  OBVIOUS
<1> HIDE DEF f
<1> QED BY <1>2, <1>3, StartFailsRefines

\* The instance is ready, but too late.
LEMMA PublishTooLateRefines ==
  ASSUME SimInv, IInv', NEW g \in Generations, PublishTooLate(g)
  PROVE  SimInv' /\ Pool!PoolNext
<1> DEFINE k == generationKey[g]
<1>1. /\ k \in Keys /\ entries[k].state = "starting" /\ ~closing
  BY DEF PublishTooLate, StartIsOrphaned, SimInv, IInv, StarterOwnsStart
<1>2. /\ entries' = [entries EXCEPT ![k] = [TimeoutStart(entries[k]) EXCEPT !.leases = {}]]
      /\ DropUsers(k, [TimeoutStart(entries[k]) EXCEPT !.leases = {}])
      /\ UNCHANGED <<nextGeneration, generationKey, closing, process>>
  BY DEF PublishTooLate, SetEntry, flagVars
<1> HIDE DEF k
<1> QED BY <1>1, <1>2, TimeoutRefines

\* expireStart.
LEMMA ExpireStartRefines ==
  ASSUME SimInv, IInv', NEW k \in Keys, ExpireStart(k)
  PROVE  SimInv' /\ Pool!PoolNext
<1>1. entries[k].state = "starting" /\ ~closing
  BY ShapeBefore DEF ExpireStart, EntryShape, SimInv
<1>2. /\ entries' = [entries EXCEPT ![k] = [TimeoutStart(entries[k]) EXCEPT !.leases = {}]]
      /\ DropUsers(k, [TimeoutStart(entries[k]) EXCEPT !.leases = {}])
      /\ UNCHANGED <<nextGeneration, generationKey, closing, process>>
  BY DEF ExpireStart, CallbackSets, flagVars
<1> QED BY <1>1, <1>2, TimeoutRefines

\* The generation is published and so is every lease that waited for it.
LEMMA PublishReadyRefines ==
  ASSUME SimInv, IInv', NEW g \in Generations, PublishReady(g)
  PROVE  SimInv' /\ Pool!PoolNext
<1> DEFINE k == generationKey[g]
           e == entries[k]
           a == Arm([Cancel(e, {"start", "stable"}) EXCEPT
                       !.startPending = FALSE, !.instance = TRUE,
                       !.readyAt = "recent", !.retry = "none",
                       !.state = "ready"], "stable")
           f == MaybeIdle(a)
<1>0. /\ k \in Keys /\ IsCurrent(g) /\ e.gen = g /\ g # 0
      /\ entries \in [Keys -> Entry] /\ lease \in [Leases -> LeaseRecord]
      /\ e \in Entry /\ e.connectors = {}
      /\ e.state = "starting" /\ ~closing
  <2>1. k \in Keys /\ e.state = "starting" /\ ~closing /\ e.gen = g /\ IsCurrent(g)
    BY DEF PublishReady, StartIsOrphaned, SimInv, IInv, StarterOwnsStart, IsCurrent
  <2> QED BY <2>1, ShapeBefore, RegistryAssumption DEF EntryShape, SimInv, IInv, TypeOK,
    Generations, RegistryAssumption
<1>1. /\ entries' = [entries EXCEPT ![k] = f]
      /\ lease' = [l \in Leases |->
                      IF /\ l \in e.leases
                         /\ lease[l].state = "opening" /\ lease[l].gen = g
                      THEN Activated(l, g) ELSE lease[l]]
      /\ UNCHANGED <<connector, nextGeneration, generationKey, closing, process>>
  BY DEF PublishReady, SetEntry, flagVars
<1>2. /\ f.gen = e.gen /\ f.state \in {"ready", "idle"}
      /\ f.leases = e.leases /\ f.connectors = e.connectors
  <2>1. /\ a.gen = e.gen /\ a.state = "ready" /\ a.leases = e.leases
        /\ a.connectors = e.connectors
    BY <1>0 DEF Arm, Cancel, Entry
  <2>2. /\ MaybeIdle(a).gen = a.gen /\ MaybeIdle(a).state \in {"ready", "idle"}
        /\ MaybeIdle(a).leases = a.leases
        /\ MaybeIdle(a).connectors = a.connectors
    BY <1>0, <2>1 DEF MaybeIdle, Arm, Cancel, Entry
  <2> HIDE DEF a
  <2> QED BY <2>1, <2>2
<1> HIDE DEF f, k
<1>3. /\ e.leases = {l \in Leases : lease[l].key = k /\ lease[l].state = "opening"}
      /\ \A l \in e.leases : lease[l].gen = g
  BY <1>0, WaitingLeases DEF SimInv, OpeningsAttached
<1>4. \A l \in Leases :
          /\ lease'[l].key = lease[l].key
          /\ lease'[l].gen = lease[l].gen
          /\ lease'[l].state = IF l \in e.leases THEN "active" ELSE lease[l].state
  <2> SUFFICES ASSUME NEW l \in Leases
               PROVE  /\ lease'[l].key = lease[l].key
                      /\ lease'[l].gen = lease[l].gen
                      /\ lease'[l].state = IF l \in e.leases THEN "active"
                                           ELSE lease[l].state
    OBVIOUS
  <2>1. lease[l] \in LeaseRecord
    BY <1>0
  <2>2. CASE l \in e.leases
    <3>1. lease'[l] = Activated(l, g) /\ lease[l].gen = g
      BY <1>1, <1>3, <2>2
    <3> QED BY <2>1, <2>2, <3>1 DEF Activated, LeaseRecord
  <2>3. CASE l \notin e.leases
    BY <1>1, <2>3
  <2> QED BY <2>2, <2>3
<1>5. \A j \in Keys : entries'[j] = IF j = k THEN f ELSE entries[j]
  BY <1>0, <1>1
<1>6. SimInv'
  <2>1. GenerationsOwned'
    BY <1>1, <1>2, <1>5 DEF SimInv, GenerationsOwned
  <2>2. OpeningsAttached'
    <3> SUFFICES ASSUME NEW j \in Keys, NEW m \in entries'[j].leases
                 PROVE  /\ entries'[j].state = "starting" =>
                              lease'[m].gen = entries'[j].gen
                        /\ entries'[j].state = "ready" => lease'[m].state = "active"
      BY DEF OpeningsAttached
    <3>1. m \in entries[j].leases /\ m \in Leases
      BY <1>0, <1>2, <1>5 DEF Entry
    <3>2. CASE j = k
      BY <1>2, <1>4, <1>5, <3>1, <3>2
    <3>3. CASE j # k
      <4>1. m \notin e.leases
        BY <3>1, <3>3, <1>3 DEF SimInv, IInv, LeasesLinked
      <4> QED BY <1>4, <1>5, <3>1, <3>3, <4>1 DEF SimInv, OpeningsAttached
    <3> QED BY <3>2, <3>3
  <2>3. RestingUnused'
    BY <1>0, <1>1, <1>2, <1>5 DEF SimInv, RestingUnused, Unused
  <2> QED BY <2>1, <2>2, <2>3 DEF SimInv
<1>7. /\ generationKey[g] = k /\ AbstractPhase(g) = "starting"
      /\ \A h \in Generations : AbstractPhase(h)' =
              IF h = g THEN "ready" ELSE AbstractPhase(h)
      /\ \A h \in Generations : Occupies(h)' = Occupies(h)
  <2>1. AbstractPhase(g) = Look(e.state, g) /\ generationKey[g] = k
    BY <1>0, CurrentPhase
  <2>2. /\ \A h \in Generations : AbstractPhase(h)' =
              IF h = e.gen /\ e.state # "absent"
              THEN Look(f.state, h) ELSE AbstractPhase(h)
        /\ \A h \in Generations : Occupies(h)' = Occupies(h)
    BY <1>0, <1>1, <1>2, PhasesFollow
  <2> QED BY <1>0, <1>2, <2>1, <2>2 DEF Look
<1>8. /\ \A l \in Leases : /\ AbstractLease(l).state = lease[l].state
                           /\ AbstractLease(l).key = lease[l].key
      /\ \A l \in Leases : AbstractLease(l)' =
            IF l \in e.leases
            THEN [AbstractLease(l) EXCEPT !.state = "active", !.gen = g]
            ELSE AbstractLease(l)
  BY <1>3, <1>4 DEF AbstractLease
<1>9. Pool!LeasesOf(k, "opening") = e.leases
  BY <1>3, <1>8 DEF Pool!LeasesOf
<1>10. Pool!Publish(g)
  BY <1>1, <1>7, <1>8, <1>9 DEF Pool!Publish, Pool!Generation, Generations
<1>11. Pool!GenerationStep(g)
  BY <1>10 DEF Pool!GenerationStep
<1> QED BY <1>6, <1>11 DEF Pool!PoolNext, Pool!Generation, Generations

\* completeStartFailure: an abandoned or closing start is settled unseen.
LEMMA CompleteStartFailureRefines ==
  ASSUME SimInv, IInv', NEW g \in Generations, NEW err \in BOOLEAN,
         CompleteStartFailure(g, err)
  PROVE  SimInv' /\ (Pool!PoolNext \/ UNCHANGED Pool!poolVars)
<1> DEFINE k == generationKey[g]
           e == entries[k]
           gone == process[g] = "exited"
           d == [e EXCEPT !.instance = ~gone, !.startPending = FALSE]
           f == FailedStartEntry(e, gone)
<1>0. /\ k \in Keys /\ IsCurrent(g) /\ e.startPending /\ e.gen = g
      /\ e \in Entry /\ EntryShape(e, closing, process)
  BY ShapeBefore DEF SimInv, IInv, StarterOwnsStart, IsCurrent, CompleteStartFailure
<1>1. /\ entries' = [entries EXCEPT ![k] = f] /\ DropUsers(k, f)
      /\ UNCHANGED <<nextGeneration, generationKey, closing, process>>
  BY <1>0 DEF CompleteStartFailure, SetEntry
<1>2. /\ d \in Entry /\ d.gen = e.gen /\ d.state = e.state
      /\ d.leases = e.leases /\ d.connectors = e.connectors
  BY <1>0 DEF Entry
<1>3. CASE ~closing /\ e.state = "starting"
  <2> DEFINE t == Fail(Cancel(d, {"start"}))
  <2>1. f = [t EXCEPT !.leases = {}]
    BY <1>3 DEF FailedStartEntry
  <2>2. /\ t \in Entry /\ t.state = "failed" /\ t.gen = e.gen
        /\ t.connectors = e.connectors
    <3> HIDE DEF d
    <3> QED BY <1>2, CancelKeeps, FailKeeps DEF SameUsers, SameGeneration
  <2>3. /\ f.gen = e.gen /\ f.state = "failed" /\ f.leases = {}
        /\ f.connectors = e.connectors
    <3> HIDE DEF t
    <3> QED BY <2>1, <2>2 DEF Entry
  <2> HIDE DEF f, k
  <2> QED BY <1>0, <1>1, <1>3, <2>3, StartFailsRefines
<1>4. CASE closing \/ e.state # "starting"
  <2>1. /\ e.leases = {} /\ e.connectors = {}
        /\ e.state # "absent"
        /\ ~closing => e.state = "failed"
        /\ e.state \notin {"ready", "idle"}
    BY <1>0, <1>4 DEF SimInv, RestingUnused, EntryShape, Unused, Entry, States
  <2>2. /\ f.gen = e.gen \/ (f.gen = 0 /\ f.state = "absent")
        /\ f.leases = {} /\ f.connectors = {}
        /\ f.state \in {"absent", "cold", "failed"}
    <3>1. CASE ~closing
      <4>1. f = IF gone THEN DeleteFailedEntry(d) ELSE d
        BY <1>4, <3>1 DEF FailedStartEntry
      <4> HIDE DEF d
      <4> QED BY <1>2, <2>1, <3>1, <4>1, DeleteFailedEntryKeeps, NoEntryFields
    <3>2. CASE closing
      <4> DEFINE h == IF e.state = "starting" THEN Cancel(d, {"start"}) ELSE d
                 x == [h EXCEPT !.state = "cold", !.leases = {}]
                 y == [h EXCEPT !.state = "failed", !.leases = {}]
      <4>1. f = IF gone THEN DeleteColdEntry(x) ELSE y
        BY <3>2 DEF FailedStartEntry
      <4>2. /\ h \in Entry /\ h.gen = e.gen /\ h.connectors = {}
        <5> HIDE DEF d
        <5> QED BY <1>2, <2>1, CancelKeeps DEF SameUsers, SameGeneration
      <4>3. /\ x \in Entry /\ x.gen = e.gen /\ x.leases = {} /\ x.connectors = {}
            /\ y \in Entry /\ y.gen = e.gen /\ y.leases = {} /\ y.connectors = {}
            /\ x.state = "cold" /\ y.state = "failed"
        <5> HIDE DEF h
        <5> QED BY <4>2 DEF Entry, States
      <4> HIDE DEF x, y
      <4> QED BY <4>1, <4>3, DeleteColdEntryKeeps, NoEntryFields
    <3> QED BY <3>1, <3>2
  <2> HIDE DEF f
  <2>3. lease' = lease /\ connector' = connector
    <3>1. e.leases \ f.leases = {} /\ e.connectors \ f.connectors = {}
      BY <2>1
    <3>2. Invalidated({}) = lease /\ Disconnected({}) = connector
      BY DEF Invalidated, Disconnected, SimInv, IInv, TypeOK
    <3> QED BY <1>1, <3>1, <3>2 DEF DropUsers
  <2>4. SimInv'
    <3>1. Continues(e, f)
      BY <2>1, <2>2 DEF Continues, Unused
    <3> HIDE DEF k
    <3> QED BY <1>0, <1>1, <3>1, DroppingContinues
  <2>5. UNCHANGED Pool!poolVars
    <3>1. /\ \A h \in Generations : AbstractPhase(h)' =
                  IF h = e.gen /\ e.state # "absent"
                  THEN Look(f.state, h) ELSE AbstractPhase(h)
          /\ \A h \in Generations : Occupies(h)' = Occupies(h)
      <4> HIDE DEF k
      <4> QED BY <1>0, <1>1, <2>1, <2>2, PhasesFollow
    <3>2. e.gen # 0
      BY <1>0, RegistryAssumption DEF Generations, RegistryAssumption
    <3>3. AbstractPhase(e.gen) = Look(e.state, e.gen)
      BY <1>0, <2>1, <3>2, CurrentPhase
    <3>4. Look(f.state, e.gen) = Look(e.state, e.gen)
      BY <1>4, <2>1, <2>2 DEF Look
    <3>5. \A l \in Leases : AbstractLease(l)' = AbstractLease(l)
      BY <2>3 DEF AbstractLease
    <3> QED BY <1>1, <2>3, <3>1, <3>3, <3>4, <3>5, PoolRests
  <2> QED BY <2>4, <2>5
<1> QED BY <1>3, <1>4

\* The steps of startGeneration only its own goroutine sees.
LEMMA StarterAloneRefines ==
  ASSUME SimInv, IInv', NEW g \in Generations,
         \/ PublishRefused(g) \/ PublishDetached(g) \/ StopFailedStart(g)
         \/ \E err \in BOOLEAN : StopDetached(g, err)
  PROVE  SimInv' /\ UNCHANGED Pool!poolVars
<1>1. UNCHANGED <<entries, lease, connector, nextGeneration, generationKey,
                  closing, process>>
  BY DEF PublishRefused, PublishDetached, StopFailedStart, StopDetached, entryVars, userVars,
    generationVars, flagVars
<1> QED BY <1>1, QuietStep2

----------------------------------------
(* The ends of a generation.                                               *)

\* generationExited: the users of a ready generation are told.
LEMMA GenerationExitedRefines ==
  ASSUME SimInv, IInv', NEW g \in Generations, GenerationExited(g)
  PROVE  SimInv' /\ (Pool!PoolNext \/ UNCHANGED Pool!poolVars)
<1> DEFINE k == generationKey[g]
           e == entries[k]
           f == ExitedEntry(e)
<1>0. /\ process[g] = "exited" /\ k \in Keys /\ g # 0
      /\ UNCHANGED <<nextGeneration, generationKey, closing, process>>
  BY StartedPhase, RegistryAssumption DEF GenerationExited, generationVars, flagVars, Generations,
    RegistryAssumption
<1>1. CASE ~IsCurrent(g)
  BY <1>0, <1>1, QuietStep2 DEF GenerationExited, entryVars, userVars
<1>2. CASE IsCurrent(g)
  <2>0. /\ entries' = [entries EXCEPT ![k] = f] /\ DropUsers(k, f)
        /\ e.state # "absent" /\ e.gen = g
        /\ e \in Entry /\ EntryShape(e, closing, process)
    BY <1>0, <1>2, ShapeBefore DEF GenerationExited, SetEntry, IsCurrent, SimInv
  <2>1. CASE e.state \notin {"ready", "idle"}
    <3>1. /\ f.gen = e.gen \/ (f.gen = 0 /\ f.state = "absent")
          /\ f.leases = e.leases /\ f.connectors = e.connectors
          /\ f.state = e.state \/ (e.state = "failed" /\ f.state = "absent")
      <4>1. CASE e.state = "stopping"
        <5>1. f = [e EXCEPT !.reaped = TRUE]
          BY <4>1 DEF ExitedEntry
        <5> QED BY <2>0, <4>1, <5>1 DEF Entry
      <4>2. CASE e.state = "failed"
        <5> DEFINE d == [e EXCEPT !.instance = FALSE]
        <5>1. f = DeleteFailedEntry(d)
          BY <4>2 DEF ExitedEntry
        <5>2. /\ d \in Entry /\ d.gen = e.gen /\ d.leases = e.leases
              /\ d.connectors = e.connectors /\ d.state = "failed"
          BY <2>0, <4>2 DEF Entry
        <5> HIDE DEF d
        <5> QED BY <4>2, <5>1, <5>2, DeleteFailedEntryKeeps, NoEntryFields DEF Unused
      <4>3. CASE e.state \notin {"stopping", "failed"}
        BY <2>1, <4>3 DEF ExitedEntry
      <4> QED BY <4>1, <4>2, <4>3
    <3> HIDE DEF f
    <3>2. Continues(e, f) /\ LooksLike(e, f)
      <4>1. e.state = "failed" => Unused(e)
        BY <1>0 DEF SimInv, RestingUnused
      <4> QED BY <2>0, <2>1, <3>1, <4>1 DEF Continues, LooksLike, Unused
    <3>3. lease' = lease /\ connector' = connector
      <4>1. e.leases \ f.leases = {} /\ e.connectors \ f.connectors = {}
        BY <3>1
      <4>2. Invalidated({}) = lease /\ Disconnected({}) = connector
        BY DEF Invalidated, Disconnected, SimInv, IInv, TypeOK
      <4> QED BY <2>0, <4>1, <4>2 DEF DropUsers
    <3> HIDE DEF k
    <3> QED BY <1>0, <2>0, <3>1, <3>2, <3>3, QuietEntry
  <2>2. CASE e.state \in {"ready", "idle"}
    <3> DEFINE c == Cancel(e, {"idle", "stable"})
               d == [c EXCEPT !.instance = FALSE, !.leases = {}, !.connectors = {}]
    <3>1. /\ f.gen = e.gen /\ f.state = "failed"
          /\ f.leases = {} /\ f.connectors = {}
      <4>1. f = Fail(d)
        BY <2>2 DEF ExitedEntry
      <4>2. c \in Entry /\ c.gen = e.gen
        BY <2>0, CancelKeeps DEF SameGeneration
      <4>3. d \in Entry /\ d.gen = e.gen /\ d.leases = {} /\ d.connectors = {}
        <5> HIDE DEF c
        <5> QED BY <4>2 DEF Entry
      <4> HIDE DEF d
      <4> QED BY <4>1, <4>3, FailKeeps DEF SameUsers, SameGeneration
    <3> HIDE DEF f
    <3>2. lease' = Invalidated(e.leases) /\ connector' = Disconnected(e.connectors)
      BY <2>0, <3>1 DEF DropUsers
    <3>3. SimInv'
      <4>1. Continues(e, f)
        BY <3>1 DEF Continues, Unused
      <4> HIDE DEF k
      <4> QED BY <1>0, <2>0, <4>1, DroppingContinues
    <3>4. /\ AbstractPhase(g) = "ready"
          /\ \A h \in Generations : AbstractPhase(h)' =
                IF h = g THEN "ended" ELSE AbstractPhase(h)
          /\ \A h \in Generations : Occupies(h)' = Occupies(h)
          /\ ~Occupies(g)
      <4>1. AbstractPhase(e.gen) = Look(e.state, e.gen)
        BY <1>0, <2>0, CurrentPhase
      <4>2. /\ \A h \in Generations : AbstractPhase(h)' =
                  IF h = e.gen /\ e.state # "absent"
                  THEN Look(f.state, h) ELSE AbstractPhase(h)
            /\ \A h \in Generations : Occupies(h)' = Occupies(h)
        <5> HIDE DEF k
        <5> QED BY <1>0, <2>0, <3>1, PhasesFollow
      <4>3. ~Occupies(g)
        BY <1>0 DEF Occupies
      <4> QED BY <2>0, <2>2, <3>1, <4>1, <4>2, <4>3 DEF Look
    <3>5. e.leases = {l \in Leases : /\ AbstractLease(l).gen = g
                                   /\ AbstractLease(l).state = "active"}
      BY <1>0, <2>0, <2>2, ActiveUsers DEF AbstractLease
    <3>6. e.connectors = {x \in Connectors : /\ connector[x].gen = g
                                            /\ connector[x].state = "open"}
      BY <1>0, <2>0, <2>2, ActiveUsers
    <3>7. [l \in Leases |-> AbstractLease(l)]' = Pool!Closed(e.leases)
      BY <2>0, <3>2, DroppedLeases DEF Entry
    <3>8. Pool!Notice(g)
      BY <1>0, <3>2, <3>4, <3>5, <3>6, <3>7, DroppedConnectors DEF Pool!Notice, Pool!Generation,
        Generations
    <3>9. Pool!GenerationStep(g)
      BY <3>8 DEF Pool!GenerationStep
    <3> QED BY <3>3, <3>9 DEF Pool!PoolNext, Pool!Generation, Generations
  <2> QED BY <2>1, <2>2
<1> QED BY <1>1, <1>2

\* completeStop: the leases that waited out the stop get the next generation,
\* or an error.
LEMMA CompleteStopRefines ==
  ASSUME SimInv, IInv', NEW g \in Generations, NEW err \in BOOLEAN,
         CompleteStop(g, err)
  PROVE  SimInv' /\ (Pool!PoolNext \/ UNCHANGED Pool!poolVars)
<1> DEFINE k == generationKey[g]
           e == entries[k]
           r == ReapedEntry(e)
<1>1. CASE ~(IsCurrent(g) /\ e.state = "stopping")
  <2>1. UNCHANGED <<entries, lease, connector, nextGeneration, generationKey,
                    closing, process>>
    BY <1>1 DEF CompleteStop, entryVars, userVars
  <2> QED BY <2>1, QuietStep2
<1>2. CASE IsCurrent(g) /\ e.state = "stopping"
  <2>0. k \in Keys
    <3>1. g <= nextGeneration
      BY DEF CompleteStop, SimInv, IInv, TypeOK, GenerationsInOrder, Generations
    <3> QED BY <3>1 DEF SimInv, IInv, GenerationsInOrder
  <2>1. /\ e \in Entry /\ EntryShape(e, closing, process) /\ e.gen = g /\ g # 0
        /\ e.connectors = {} /\ e.instance /\ ~e.startPending
        /\ closing => e.leases = {}
    BY <1>2, <2>0, ShapeBefore, RegistryAssumption DEF EntryShape, SimInv, RestingUnused, Unused,
      IsCurrent, Generations, RegistryAssumption
  <2>2. /\ e.leases = {l \in Leases : lease[l].key = k /\ lease[l].state = "opening"}
        /\ AbstractPhase(g) \in {"retiring", "ended"}
    BY <1>2, <2>0, <2>1, WaitingLeases, CurrentPhase DEF Look
  <2>3. Pool!LeasesOf(k, "opening") = e.leases
    BY <2>2 DEF Pool!LeasesOf, AbstractLease
  <2>4. \A h \in Generations : generationKey[h] = k =>
          AbstractPhase(h) \notin {"starting", "ready"}
    BY <1>2 DEF AbstractPhase, IsCurrent
  \* The entry ends in f without its leases: they are refused, if any.
  <2>5. ASSUME NEW f, f.gen = e.gen \/ (f.gen = 0 /\ f.state = "absent"),
               f.state \in {"absent", "cold", "failed"},
               f.leases = {}, f.connectors = {},
               entries' = [entries EXCEPT ![k] = f], DropUsers(k, f),
               UNCHANGED <<nextGeneration, generationKey, closing, process>>
        PROVE  SimInv' /\ (Pool!PoolNext \/ UNCHANGED Pool!poolVars)
    <3>1. lease' = Invalidated(e.leases) /\ connector' = connector
      <4>1. Disconnected({}) = connector
        BY DEF Disconnected, SimInv, IInv, TypeOK
      <4> QED BY <2>1, <2>5, <4>1 DEF DropUsers
    <3>2. SimInv'
      <4>1. Continues(e, f)
        BY <2>1, <2>5 DEF Continues, Unused
      <4> HIDE DEF k
      <4> QED BY <2>0, <2>5, <4>1, DroppingContinues
    <3>3. /\ \A h \in Generations : AbstractPhase(h)' = AbstractPhase(h)
          /\ \A h \in Generations : Occupies(h)' = Occupies(h)
      <4>1. /\ \A h \in Generations : AbstractPhase(h)' =
                  IF h = e.gen /\ e.state # "absent"
                  THEN Look(f.state, h) ELSE AbstractPhase(h)
            /\ \A h \in Generations : Occupies(h)' = Occupies(h)
        <5> HIDE DEF k
        <5> QED BY <1>2, <2>0, <2>5, PhasesFollow
      <4>2. AbstractPhase(g) = Look(e.state, g)
        BY <1>2, <2>0, <2>1, CurrentPhase
      <4>3. Look(f.state, g) = Look(e.state, g)
        BY <1>2, <2>5 DEF Look
      <4> QED BY <2>1, <4>1, <4>2, <4>3
    <3>4. [l \in Leases |-> AbstractLease(l)]' = Pool!Closed(e.leases)
      BY <2>1, <3>1, DroppedLeases DEF Entry
    <3>5. CASE e.leases = {}
      <4>1. \A l \in Leases : AbstractLease(l)' = AbstractLease(l)
        <5>1. Invalidated({}) = lease
          BY DEF Invalidated, SimInv, IInv, TypeOK
        <5> QED BY <3>1, <3>5, <5>1 DEF AbstractLease
      <4> QED BY <2>5, <3>1, <3>2, <3>3, <4>1, PoolRests
    <3>6. CASE e.leases # {}
      <4>1. Pool!Refuse(k)
        BY <2>3, <2>4, <2>5, <3>1, <3>3, <3>4, <3>6 DEF Pool!Refuse, Pool!Generation, Generations
      <4> QED BY <2>0, <3>2, <4>1 DEF Pool!PoolNext
    <3> QED BY <3>5, <3>6
  <2>6. CASE StopUnreaped(g)
    <3> DEFINE d == [e EXCEPT !.leases = {}, !.connectors = {}]
               f == Fail(d)
    <3>1. /\ entries' = [entries EXCEPT ![k] = f] /\ DropUsers(k, f)
          /\ UNCHANGED <<nextGeneration, generationKey, closing, process>>
      BY <2>6 DEF StopUnreaped, SetEntry, CompleteStop
    <3>2. /\ f.gen = e.gen /\ f.state = "failed"
          /\ f.leases = {} /\ f.connectors = {}
      <4>1. d \in Entry /\ d.gen = e.gen /\ d.leases = {} /\ d.connectors = {}
        BY <2>1 DEF Entry
      <4> HIDE DEF d
      <4> QED BY <4>1, FailKeeps DEF SameUsers, SameGeneration
    <3> HIDE DEF f
    <3> QED BY <2>5, <3>1, <3>2
  <2>7. /\ r \in Entry /\ r.gen = e.gen /\ r.state = "cold"
        /\ r.leases = e.leases /\ r.connectors = {}
    BY <2>1, StoppedEntries DEF SameUsers
  <2>8. CASE StopEvicts(g)
    <3> DEFINE d == [r EXCEPT !.leases = {}, !.connectors = {}]
               f == DeleteColdEntry(d)
    <3>1. /\ entries' = [entries EXCEPT ![k] = f] /\ DropUsers(k, f)
          /\ UNCHANGED <<nextGeneration, generationKey, closing, process>>
      BY <2>8 DEF StopEvicts, SetEntry, CompleteStop
    <3>2. /\ d \in Entry /\ d.gen = e.gen /\ d.state = "cold"
          /\ d.leases = {} /\ d.connectors = {}
      <4> HIDE DEF r
      <4> QED BY <2>7 DEF Entry
    <3>3. /\ f.gen = e.gen \/ (f.gen = 0 /\ f.state = "absent")
          /\ f.state \in {"absent", "cold"} /\ f.leases = {} /\ f.connectors = {}
      <4> HIDE DEF d
      <4> QED BY <3>2, DeleteColdEntryKeeps, NoEntryFields
    <3> HIDE DEF f
    <3> QED BY <2>5, <3>1, <3>3
  <2>9. CASE StopRestarts(g) /\ ~(nextGeneration < MaxGeneration)
    <3> DEFINE d == [r EXCEPT !.leases = {}]
               f == Fail(d)
    <3>1. /\ entries' = [entries EXCEPT ![k] = f] /\ DropUsers(k, f)
          /\ UNCHANGED <<nextGeneration, generationKey, closing, process>>
      BY <2>9 DEF StopRestarts, SetEntry, CompleteStop
    <3>2. d \in Entry /\ d.gen = e.gen /\ d.leases = {} /\ d.connectors = {}
      <4> HIDE DEF r
      <4> QED BY <2>7 DEF Entry
    <3>3. /\ f.gen = e.gen /\ f.state = "failed"
          /\ f.leases = {} /\ f.connectors = {}
      <4> HIDE DEF d
      <4> QED BY <3>2, FailKeeps DEF SameUsers, SameGeneration
    <3> HIDE DEF f
    <3> QED BY <2>5, <3>1, <3>3
  <2>10. CASE /\ StopRestarts(g) /\ nextGeneration < MaxGeneration
              /\ e.reaped \/ process[g] = "exited"
              /\ ~closing /\ e.leases # {}
    <3> DEFINE n == nextGeneration + 1
    <3>1. /\ StartGeneration(k, r) /\ closing' = closing
          /\ lease' = AttachOpening(r.leases, n) /\ connector' = connector
      BY <2>10 DEF StopRestarts, CompleteStop
    <3>2. process[e.gen] = "exited"
      BY <2>1, <2>10 DEF EntryShape
    <3>3. /\ n \in Generations /\ nextGeneration' = n
          /\ \A j \in Keys : j # k => entries'[j] = entries[j]
          /\ entries'[k].state = "starting" /\ entries'[k].gen = n
          /\ entries'[k].leases = e.leases
          /\ GenerationsOwned' /\ Pool!Begins(n, k)
      <4> HIDE DEF k, r
      <4> QED BY <1>2, <2>0, <2>1, <2>7, <2>10, <3>1, <3>2, GenerationBegins
    <3>4. \A l \in Leases :
              /\ lease'[l].state = lease[l].state
              /\ lease'[l].key = lease[l].key
              /\ lease'[l].gen = IF l \in e.leases THEN n ELSE lease[l].gen
      <4> SUFFICES ASSUME NEW l \in Leases
                   PROVE  /\ lease'[l].state = lease[l].state
                          /\ lease'[l].key = lease[l].key
                          /\ lease'[l].gen = IF l \in e.leases THEN n
                                             ELSE lease[l].gen
        OBVIOUS
      <4>1. lease[l] \in LeaseRecord
        BY DEF SimInv, IInv, TypeOK
      <4>2. lease'[l] = IF l \in e.leases THEN [lease[l] EXCEPT !.gen = n]
                        ELSE lease[l]
        BY <2>2, <2>7, <3>1 DEF AttachOpening
      <4> QED BY <4>1, <4>2 DEF LeaseRecord
    <3>5. SimInv'
      <4>1. ASSUME NEW j \in Keys, j # k, NEW m \in entries[j].leases
            PROVE  m \in Leases /\ m \notin e.leases
        BY <2>0, <4>1 DEF SimInv, IInv, TypeOK, Entry, LeasesLinked
      <4>2. OpeningsAttached'
        <5> SUFFICES ASSUME NEW j \in Keys, NEW m \in entries'[j].leases
                     PROVE  /\ entries'[j].state = "starting" =>
                                  lease'[m].gen = entries'[j].gen
                            /\ entries'[j].state = "ready" =>
                                  lease'[m].state = "active"
          BY DEF OpeningsAttached
        <5>1. CASE j = k
          BY <2>2, <3>3, <3>4, <5>1
        <5>2. CASE j # k
          BY <3>3, <3>4, <4>1, <5>2 DEF SimInv, OpeningsAttached
        <5> QED BY <5>1, <5>2
      <4>3. RestingUnused'
        BY <2>10, <3>1, <3>3 DEF SimInv, RestingUnused, Unused
      <4> QED BY <3>3, <4>2, <4>3 DEF SimInv
    <3>6. \A l \in Leases : AbstractLease(l)' = AbstractLease(l)
      BY <2>2, <3>4 DEF AbstractLease
    <3>7. Pool!Begin(n, k)
      BY <2>3, <2>10, <3>1, <3>3, <3>6 DEF Pool!Begin
    <3>8. Pool!GenerationStep(n)
      BY <2>0, <3>7 DEF Pool!GenerationStep
    <3> QED BY <3>3, <3>5, <3>8 DEF Pool!PoolNext, Pool!Generation, Generations
  <2>11. \/ StopUnreaped(g) \/ StopEvicts(g)
         \/ /\ StopRestarts(g) /\ ~closing /\ e.leases # {}
            /\ e.reaped \/ process[g] = "exited"
    BY <1>2 DEF CompleteStop
  <2> QED BY <2>6, <2>8, <2>9, <2>10, <2>11
<1> QED BY <1>1, <1>2

----------------------------------------
(* Time and timer callbacks.                                               *)

\* An entry keeps its generation, its users and its state.
LEMMA TimerOnlyRefines ==
  ASSUME SimInv, IInv', NEW k \in Keys, NEW f,
         entries' = [entries EXCEPT ![k] = f],
         f.gen = entries[k].gen, f.state = entries[k].state,
         SameUsers(entries[k], f),
         UNCHANGED <<lease, connector, nextGeneration, generationKey, closing,
                     process>>
  PROVE  SimInv' /\ UNCHANGED Pool!poolVars
<1>1. Continues(entries[k], f) /\ LooksLike(entries[k], f)
  BY DEF Continues, LooksLike, SameUsers
<1> QED BY <1>1, QuietEntry

\* The passing of time, and resetStableGeneration.
LEMMA TimePassesRefines ==
  ASSUME SimInv, IInv', NEW k \in Keys,
         \/ \E t \in TimerKinds : DeadlinePasses(k, t)
         \/ RetryDeadlinePasses(k) \/ StablePeriodPasses(k) \/ ResetStable(k)
  PROVE  SimInv' /\ UNCHANGED Pool!poolVars
<1> DEFINE e == entries[k]
<1>0. /\ e \in Entry
      /\ UNCHANGED <<lease, connector, nextGeneration, generationKey, closing,
                     process>>
  BY DEF SimInv, IInv, TypeOK, DeadlinePasses, RetryDeadlinePasses, StablePeriodPasses,
    ResetStable, userVars, generationVars, flagVars
<1>1. ASSUME NEW t \in TimerKinds, DeadlinePasses(k, t)
      PROVE  SimInv' /\ UNCHANGED Pool!poolVars
  <2> DEFINE f == [e EXCEPT !.timer[t] = "due"]
  <2>1. entries' = [entries EXCEPT ![k] = f]
    BY <1>1 DEF DeadlinePasses
  <2>2. f.gen = e.gen /\ f.state = e.state /\ SameUsers(e, f)
    BY <1>0 DEF Entry, SameUsers
  <2> HIDE DEF f
  <2> QED BY <1>0, <2>1, <2>2, TimerOnlyRefines
<1>2. CASE RetryDeadlinePasses(k)
  <2> DEFINE f == [e EXCEPT !.retry = "past"]
  <2>1. entries' = [entries EXCEPT ![k] = f]
    BY <1>2 DEF RetryDeadlinePasses
  <2>2. f.gen = e.gen /\ f.state = e.state /\ SameUsers(e, f)
    BY <1>0 DEF Entry, SameUsers
  <2> HIDE DEF f
  <2> QED BY <1>0, <2>1, <2>2, TimerOnlyRefines
<1>3. CASE StablePeriodPasses(k)
  <2> DEFINE f == [e EXCEPT !.readyAt = "stable",
                      !.timer["stable"] = IF @ = "future" THEN "due" ELSE @]
  <2>1. entries' = [entries EXCEPT ![k] = f]
    BY <1>3 DEF StablePeriodPasses
  <2>2. f.gen = e.gen /\ f.state = e.state /\ SameUsers(e, f)
    BY <1>0 DEF Entry, SameUsers
  <2> HIDE DEF f
  <2> QED BY <1>0, <2>1, <2>2, TimerOnlyRefines
<1>4. CASE ResetStable(k)
  <2> DEFINE c == Cancel(e, {"stable"})
             f == [c EXCEPT !.failures = 0]
  <2>1. entries' = [entries EXCEPT ![k] = f]
    BY <1>4 DEF ResetStable, CallbackSets
  <2>2. /\ c \in Entry /\ c.gen = e.gen /\ c.state = e.state
        /\ SameUsers(e, c)
    BY <1>0, CancelKeeps DEF SameGeneration
  <2>3. f.gen = e.gen /\ f.state = e.state /\ SameUsers(e, f)
    <3> HIDE DEF c
    <3> QED BY <2>2 DEF Entry, SameUsers
  <2> HIDE DEF f
  <2> QED BY <1>0, <2>1, <2>3, TimerOnlyRefines
<1> QED BY <1>1, <1>2, <1>3, <1>4

\* expireFailure forgets an entry no caller can tell from none.
LEMMA ExpireFailureRefines ==
  ASSUME SimInv, IInv', NEW k \in Keys, ExpireFailure(k)
  PROVE  SimInv' /\ UNCHANGED Pool!poolVars
<1> DEFINE e == entries[k]
           s == [e EXCEPT !.timer["failure"] = "spent"]
           f == DeleteFailedEntry(s)
<1>0. /\ e \in Entry
      /\ entries' = [entries EXCEPT ![k] = f]
      /\ UNCHANGED <<lease, connector, nextGeneration, generationKey, closing,
                     process>>
  BY DEF SimInv, IInv, TypeOK, ExpireFailure, CallbackSets, userVars, generationVars, flagVars
<1>1. s \in Entry /\ s.gen = e.gen /\ s.state = e.state /\ SameUsers(e, s)
  BY <1>0 DEF Entry, TimerKinds, Phases, SameUsers
<1> HIDE DEF s
<1>2. \/ f = s
      \/ /\ f = NoEntry /\ e.state = "failed"
         /\ e.leases = {} /\ e.connectors = {}
  BY <1>1 DEF DeleteFailedEntry, FailedEntryIsDeletable, Unused, SameUsers
<1>3. CASE f = s
  <2> HIDE DEF f
  <2> QED BY <1>0, <1>1, <1>3, TimerOnlyRefines
<1>4. CASE f # s
  <2>1. f.state = "absent" /\ f.gen = 0 /\ f.leases = {} /\ f.connectors = {}
    BY <1>2, <1>4, NoEntryFields
  <2>2. Continues(e, f) /\ LooksLike(e, f)
    BY <1>2, <1>4, <2>1 DEF Continues, LooksLike, Unused
  <2> HIDE DEF f
  <2> QED BY <1>0, <2>1, <2>2, QuietEntry
<1> QED BY <1>3, <1>4

\* resetStableGeneration without its timer; the other callbacks do nothing.
LEMMA RunStaleCallbackRefines ==
  ASSUME SimInv, IInv', NEW cb \in staleCallbacks, RunStaleCallback(cb)
  PROVE  SimInv' /\ UNCHANGED Pool!poolVars
<1> DEFINE k == cb.key
           f == [entries[k] EXCEPT !.failures = 0, !.timer["stable"] = "none"]
<1>0. /\ k \in Keys /\ entries \in [Keys -> Entry]
      /\ UNCHANGED <<lease, connector, nextGeneration, generationKey, closing,
                     process>>
  BY DEF SimInv, IInv, TypeOK, RunStaleCallback, userVars, generationVars, flagVars
<1>1. CASE entries' = entries
  BY <1>0, <1>1, QuietStep2
<1>2. CASE entries' # entries
  <2>1. entries' = [entries EXCEPT ![k].failures = 0,
                                   ![k].timer["stable"] = "none"]
    BY <1>2 DEF RunStaleCallback
  <2>2. entries' = [entries EXCEPT ![k] = f]
    BY <1>0, <2>1 DEF Entry
  <2>3. /\ f.gen = entries[k].gen /\ f.state = entries[k].state
        /\ SameUsers(entries[k], f)
    BY <1>0 DEF Entry, SameUsers
  <2> HIDE DEF f, k
  <2> QED BY <1>0, <2>2, <2>3, TimerOnlyRefines
<1> QED BY <1>1, <1>2

\* expireIdle gives up a generation nobody uses.
LEMMA ExpireIdleRefines ==
  ASSUME SimInv, IInv', NEW k \in Keys, ExpireIdle(k)
  PROVE  SimInv' /\ Pool!PoolNext
<1> DEFINE e == entries[k]
           g == e.gen
           f == BeginStop(e)
<1>0. /\ e \in Entry /\ e.state = "idle" /\ g # 0
      /\ e.leases = {} /\ e.connectors = {}
      /\ entries' = [entries EXCEPT ![k] = f]
      /\ UNCHANGED <<lease, connector, nextGeneration, generationKey, closing,
                     process>>
  BY ShapeBefore DEF SimInv, EntryShape, Unused, ExpireIdle, CallbackSets, userVars,
    generationVars, flagVars
<1>1. f.gen = g /\ f.state = "stopping" /\ SameUsers(e, f)
  BY <1>0, BeginStopKeeps
<1> HIDE DEF f
<1>2. SimInv'
  <2>1. Continues(e, f)
    BY <1>0, <1>1 DEF Continues, SameUsers
  <2> QED BY <1>0, <2>1, OneContinues
<1>3. g \in Generations /\ AbstractPhase(g) = "ready"
  BY <1>0, CurrentPhase DEF Look
<1>4. /\ \A h \in Generations : AbstractPhase(h)' =
              IF h = g THEN (IF Occupies(g) THEN "retiring" ELSE "ended")
              ELSE AbstractPhase(h)
      /\ \A h \in Generations : Occupies(h)' = Occupies(h)
  <2>1. /\ \A h \in Generations : AbstractPhase(h)' =
              IF h = entries[k].gen /\ entries[k].state # "absent"
              THEN Look(f.state, h) ELSE AbstractPhase(h)
        /\ \A h \in Generations : Occupies(h)' = Occupies(h)
    BY <1>0, <1>1, PhasesFollow
  <2> QED BY <1>0, <1>1, <2>1 DEF Look
<1>5. /\ \A l \in Leases : AbstractLease(l).state = "active" =>
              AbstractLease(l).gen # g
      /\ \A c \in Connectors : connector[c].state = "open" =>
              connector[c].gen # g
  BY <1>0, ActiveUsers DEF AbstractLease
<1>6. \A l \in Leases : AbstractLease(l)' = AbstractLease(l)
  BY <1>0 DEF AbstractLease
<1>7. Pool!Rest(g) = IF Occupies(g) THEN "retiring" ELSE "ended"
  BY <1>3 DEF Pool!Rest
<1>8. Pool!Retire(g)
  BY <1>0, <1>3, <1>4, <1>5, <1>6, <1>7 DEF Pool!Retire, Pool!Idle, Pool!Generation, Generations
<1>9. Pool!GenerationStep(g)
  BY <1>8 DEF Pool!GenerationStep
<1> QED BY <1>2, <1>3, <1>9 DEF Pool!PoolNext, Pool!Generation, Generations

----------------------------------------
(* Shutdown.                                                               *)

\* The phase of a generation while no entry starts or serves one.
LEMMA RetiredPhase ==
  ASSUME SimInv, closing, NEW g \in Generations, process[g] # "none"
  PROVE  AbstractPhase(g) = IF Occupies(g) THEN "retiring" ELSE "ended"
<1>1. generationKey[g] \in Keys
  BY StartedPhase
<1>2. entries[generationKey[g]].state \notin {"ready", "idle"}
  BY <1>1, ShapeBefore DEF SimInv, EntryShape
<1> QED BY <1>2 DEF AbstractPhase

\* beginShutdownLocked tells every user and gives up every generation.
LEMMA BeginShutdownRefines ==
  ASSUME SimInv, IInv', BeginShutdown
  PROVE  SimInv' /\ Pool!PoolNext
<1> DEFINE f(k) == ShutdownEntry(entries[k])
           S == UNION {entries[k].leases : k \in Keys}
           D == UNION {entries[k].connectors : k \in Keys}
<1>1. /\ ~closing /\ closing' = TRUE
      /\ entries' = [k \in Keys |-> f(k)]
      /\ lease' = Invalidated(S)
      /\ connector' = Disconnected(D)
      /\ UNCHANGED <<nextGeneration, generationKey, process>>
  BY DEF BeginShutdown
<1>2. \A k \in Keys :
          /\ EntryShape(f(k), TRUE, process)
          /\ f(k).leases = {} /\ f(k).connectors = {}
          /\ f(k).gen = entries[k].gen
  BY <1>1, ShutdownEntryKeeps DEF SimInv
<1> HIDE DEF f
<1>3. \A k \in Keys : entries'[k] = f(k)
  BY <1>1
<1>4. SimInv'
  <2>1. GenerationsOwned'
    BY <1>1, <1>2, <1>3 DEF SimInv, GenerationsOwned
  <2>2. OpeningsAttached' /\ RestingUnused'
    BY <1>2, <1>3 DEF OpeningsAttached, RestingUnused, Unused
  <2> QED BY <2>1, <2>2 DEF SimInv
<1>5. /\ S = {l \in Leases : lease[l].state \in {"opening", "active"}}
      /\ D = {c \in Connectors : connector[c].state = "open"}
  <2>1. \A k \in Keys : /\ entries[k].leases \subseteq Leases
                        /\ entries[k].connectors \subseteq Connectors
    BY DEF SimInv, IInv, TypeOK, Entry
  <2>2. S = {l \in Leases : lease[l].state \in {"opening", "active"}}
    BY <2>1 DEF SimInv, IInv, LeasesLinked
  <2>3. D = {c \in Connectors : connector[c].state = "open"}
    BY <2>1 DEF SimInv, IInv, ConnectorsLinked
  <2> QED BY <2>2, <2>3
<1> HIDE DEF S, D
<1>6. \A g \in Generations : Occupies(g)' = Occupies(g)
  BY <1>1 DEF Occupies
<1>7. \A g \in Generations : AbstractPhase(g)' =
          IF AbstractPhase(g) \in {"starting", "ready"}
          THEN Pool!Rest(g) ELSE AbstractPhase(g)
  <2> SUFFICES ASSUME NEW g \in Generations
               PROVE  AbstractPhase(g)' =
                          IF AbstractPhase(g) \in {"starting", "ready"}
                          THEN Pool!Rest(g) ELSE AbstractPhase(g)
    OBVIOUS
  <2>1. Pool!Rest(g) = IF Occupies(g) THEN "retiring" ELSE "ended"
    BY DEF Pool!Rest
  <2>2. CASE process[g] = "none"
    BY <1>1, <2>2 DEF AbstractPhase
  <2>3. CASE process[g] # "none"
    <3>1. AbstractPhase(g)' = IF Occupies(g)' THEN "retiring" ELSE "ended"
      <4>1. /\ generationKey'[g] = generationKey[g] /\ generationKey[g] \in Keys
            /\ process'[g] # "none"
        BY <1>1, <2>3, StartedPhase
      <4>2. entries'[generationKey[g]].state \notin {"ready", "idle"}
        BY <1>2, <1>3, <4>1 DEF EntryShape
      <4> QED BY <1>1, <4>1, <4>2 DEF AbstractPhase
    <3> QED BY <1>6, <2>1, <2>3, <3>1 DEF AbstractPhase
  <2> QED BY <2>2, <2>3
<1>8. \A l \in Leases : AbstractLease(l).state = lease[l].state
  BY DEF AbstractLease
<1>9. [l \in Leases |-> AbstractLease(l)]' = Pool!Closed(S)
  BY <1>1, <1>5, DroppedLeases
<1>10. connector' = Pool!Disconnect(D)
  BY <1>1, DroppedConnectors
<1>11. S = {l \in Leases :
              [m \in Leases |-> AbstractLease(m)][l].state \in {"opening", "active"}}
  BY <1>5, <1>8
<1>12. Pool!Close
  BY <1>1, <1>5, <1>6, <1>7, <1>9, <1>10, <1>11 DEF Pool!Close, Pool!Generation, Generations
<1> QED BY <1>4, <1>12 DEF Pool!PoolNext

\* The end of shutdown: the entries were of no use to anyone.
LEMMA FinishShutdownRefines ==
  ASSUME SimInv, IInv', FinishShutdown
  PROVE  SimInv' /\ UNCHANGED Pool!poolVars
<1> DEFINE f(k) == IF entries[k].state = "absent" THEN NoEntry
                   ELSE [entries[k] EXCEPT !.state = "cold",
                            !.instance = FALSE, !.reaped = FALSE,
                            !.startPending = FALSE, !.retry = "none"]
<1>1. /\ closing /\ closing' = closing
      /\ entries' = [k \in Keys |-> f(k)]
      /\ UNCHANGED <<lease, connector, nextGeneration, generationKey, process>>
  BY DEF FinishShutdown, userVars, generationVars
<1>2. \A k \in Keys : /\ f(k).gen \in {entries[k].gen, 0}
                      /\ f(k).leases = {} /\ f(k).connectors = {}
  <2>1. \A k \in Keys : /\ entries[k] \in Entry
                        /\ entries[k].leases = {} /\ entries[k].connectors = {}
    BY <1>1 DEF SimInv, IInv, TypeOK, RestingUnused, Unused
  <2> QED BY <2>1, NoEntryFields DEF Entry
<1> HIDE DEF f
<1>3. \A k \in Keys : entries'[k] = f(k)
  BY <1>1
<1>4. SimInv'
  <2>1. GenerationsOwned'
    BY <1>1, <1>2, <1>3 DEF SimInv, GenerationsOwned
  <2>2. OpeningsAttached' /\ RestingUnused'
    BY <1>2, <1>3 DEF OpeningsAttached, RestingUnused, Unused
  <2> QED BY <2>1, <2>2 DEF SimInv
<1>5. \A g \in Generations : Occupies(g)' = Occupies(g)
  BY <1>1 DEF Occupies
<1>6. \A g \in Generations : AbstractPhase(g)' = AbstractPhase(g)
  <2> SUFFICES ASSUME NEW g \in Generations
               PROVE  AbstractPhase(g)' = AbstractPhase(g)
    OBVIOUS
  <2>1. CASE process[g] = "none"
    BY <1>1, <2>1 DEF AbstractPhase
  <2>2. CASE process[g] # "none"
    <3>1. process'[g] # "none"
      BY <1>1, <2>2
    <3>2. AbstractPhase(g) = IF Occupies(g) THEN "retiring" ELSE "ended"
      BY <1>1, <2>2, RetiredPhase
    <3>3. AbstractPhase(g)' = IF Occupies(g)' THEN "retiring" ELSE "ended"
      <4>1. SimInv' /\ closing' /\ process'[g] # "none"
        BY <1>1, <1>4, <3>1
      <4>2. generationKey'[g] \in Keys
        BY <1>1, <2>2, StartedPhase
      <4>3. EntryShape(entries'[generationKey'[g]], closing', process')
        BY <4>1, <4>2 DEF IInv, EntriesShaped
      <4>4. entries'[generationKey'[g]].state \notin {"ready", "idle"}
        BY <4>1, <4>3 DEF EntryShape
      <4> QED BY <4>1, <4>4 DEF AbstractPhase
    <3> QED BY <1>5, <3>2, <3>3
  <2> QED BY <2>1, <2>2
<1>7. \A l \in Leases : AbstractLease(l)' = AbstractLease(l)
  BY <1>1 DEF AbstractLease
<1> QED BY <1>1, <1>4, <1>5, <1>6, <1>7, PoolRests

----------------------------------------
(* The simulation.                                                         *)

\* The empty registry satisfies what the simulation needs.
LEMMA InitSimInv == Init => SimInv
<1> SUFFICES ASSUME Init PROVE SimInv
  OBVIOUS
<1>1. \A k \in Keys : entries[k] = NoEntry
  BY DEF Init
<1>2. \A g \in Generations : ~(g <= nextGeneration)
  BY RegistryAssumption DEF Init, Generations, RegistryAssumption
<1> QED BY <1>1, <1>2, InitIInv, NoEntryFields DEF SimInv, GenerationsOwned, OpeningsAttached,
  RestingUnused, Unused

\* Every step of the registry keeps SimInv and is a step of the pool or none.
LEMMA NextRefines ==
  ASSUME SimInv, [Next]_vars
  PROVE  SimInv' /\ (Pool!PoolNext \/ UNCHANGED Pool!poolVars)
<1>0. IInv'
  BY NextIInv DEF SimInv
<1>1. ASSUME NEW l \in Leases, NEW k \in Keys, NEW p \in Policies,
             \/ AcquireStarting(l, k, p)
             \/ AcquireReady(l, k, p)
             \/ AcquireJoining(l, k, p)
      PROVE  SimInv' /\ (Pool!PoolNext \/ UNCHANGED Pool!poolVars)
  BY <1>0, <1>1, AcquireStartingRefines, AcquireReadyRefines, AcquireJoiningRefines
<1>2. ASSUME NEW l \in Leases,
             AcquireReturns(l) \/ AcquireCancelled(l) \/ ReleaseHeld(l)
      PROVE  SimInv' /\ (Pool!PoolNext \/ UNCHANGED Pool!poolVars)
  <2>1. CASE AcquireReturns(l)
    BY <1>0, <2>1, AcquireReturnsRefines
  <2>2. CASE AcquireCancelled(l) \/ ReleaseHeld(l)
    BY <1>0, <2>2, ReleaseRefines DEF AcquireCancelled, ReleaseHeld
  <2> QED BY <1>2, <2>1, <2>2
<1>3. ASSUME NEW c \in Connectors, NEW l \in Leases, OpenConnector(c, l)
      PROVE  SimInv' /\ (Pool!PoolNext \/ UNCHANGED Pool!poolVars)
  BY <1>0, <1>3, OpenConnectorRefines
<1>4. ASSUME NEW c \in Connectors, CloseConnector(c)
      PROVE  SimInv' /\ (Pool!PoolNext \/ UNCHANGED Pool!poolVars)
  BY <1>0, <1>4, CloseConnectorRefines
<1>5. ASSUME NEW g \in Generations, NEW o \in {"ready", "failed", "partial"},
             StartReturns(g, o)
      PROVE  SimInv' /\ (Pool!PoolNext \/ UNCHANGED Pool!poolVars)
  BY <1>0, <1>5, StartReturnsRefines
<1>6. ASSUME NEW g \in Generations, StarterStep(g)
      PROVE  SimInv' /\ (Pool!PoolNext \/ UNCHANGED Pool!poolVars)
  <2>1. CASE \/ PublishRefused(g) \/ PublishDetached(g) \/ StopFailedStart(g)
             \/ \E err \in BOOLEAN : StopDetached(g, err)
    BY <1>0, <2>1, StarterAloneRefines
  <2>2. CASE PublishTooLate(g)
    BY <1>0, <2>2, PublishTooLateRefines
  <2>3. CASE PublishReady(g)
    BY <1>0, <2>3, PublishReadyRefines
  <2>4. ASSUME NEW err \in BOOLEAN, CompleteStartFailure(g, err)
        PROVE  SimInv' /\ (Pool!PoolNext \/ UNCHANGED Pool!poolVars)
    BY <1>0, <2>4, CompleteStartFailureRefines
  <2>5. CASE ReapFailedStart(g)
    BY <1>0, <2>5, GenerationExitedRefines DEF ReapFailedStart
  <2> QED BY <1>6, <2>1, <2>2, <2>3, <2>4, <2>5 DEF StarterStep
<1>7. ASSUME NEW g \in Generations, ProcessExits(g)
      PROVE  SimInv' /\ (Pool!PoolNext \/ UNCHANGED Pool!poolVars)
  BY <1>0, <1>7, ProcessExitsRefines
<1>8. ASSUME NEW g \in Generations, WatchGeneration(g)
      PROVE  SimInv' /\ (Pool!PoolNext \/ UNCHANGED Pool!poolVars)
  BY <1>0, <1>8, GenerationExitedRefines DEF WatchGeneration
<1>9. ASSUME NEW g \in Generations, NEW err \in BOOLEAN, CompleteStop(g, err)
      PROVE  SimInv' /\ (Pool!PoolNext \/ UNCHANGED Pool!poolVars)
  BY <1>0, <1>9, CompleteStopRefines
<1>10. ASSUME NEW k \in Keys, TimerStep(k)
       PROVE  SimInv' /\ (Pool!PoolNext \/ UNCHANGED Pool!poolVars)
  <2>1. CASE \/ \E t \in TimerKinds : DeadlinePasses(k, t)
             \/ RetryDeadlinePasses(k) \/ StablePeriodPasses(k) \/ ResetStable(k)
    BY <1>0, <2>1, TimePassesRefines
  <2>2. CASE ExpireStart(k) \/ ExpireIdle(k) \/ ExpireFailure(k)
    BY <1>0, <2>2, ExpireStartRefines, ExpireIdleRefines, ExpireFailureRefines
  <2> QED BY <1>10, <2>1, <2>2 DEF TimerStep
<1>11. ASSUME NEW cb \in staleCallbacks, RunStaleCallback(cb)
       PROVE  SimInv' /\ (Pool!PoolNext \/ UNCHANGED Pool!poolVars)
  BY <1>0, <1>11, RunStaleCallbackRefines
<1>12. CASE BeginShutdown \/ FinishShutdown
  BY <1>0, <1>12, BeginShutdownRefines, FinishShutdownRefines
<1>13. CASE UNCHANGED vars
  BY <1>0, <1>13, QuietStep2 DEF vars
<1> QED
  BY <1>1, <1>2, <1>3, <1>4, <1>5, <1>6, <1>7, <1>8, <1>9, <1>10, <1>11, <1>12, <1>13 DEF Next

\* Every generation has an owner, waiting leases wait for the generation that
\* starts, and nothing uses an entry that cannot serve.
THEOREM RegistrySimulationInvariant == Spec => []SimInv
  BY InitSimInv, NextRefines, PTL DEF Spec

\* The registry keeps every promise of the lease pool: callers of
\* AcquireWithPolicy, Lease and Connector cannot tell the two apart.
THEOREM RegistryImplementsPool == Spec => ImplementsLeasePool
<1>1. SimInv /\ [Next]_vars => [Pool!PoolNext]_(Pool!poolVars)
  BY NextRefines
<1> QED BY <1>1, InitRefines, RegistrySimulationInvariant, PTL DEF Spec, ImplementsLeasePool,
  Pool!PoolSpec
=============================================================================
