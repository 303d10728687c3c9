------------------------------ MODULE McpProofs ------------------------------
(***************************************************************************)
(* Proofs about the MCP gateway: callers of one resource share a backend   *)
(* that is neither doubled nor lost, and the targets behind it own their   *)
(* plan, their lease and their streams.                                    *)
(***************************************************************************)
EXTENDS McpResources, McpTargets, FiniteSetTheorems, TLAPS

----------------------------------------
(* The resource handler.                                                   *)

StreamsOf(r) == {o \in Openers : opener[o].pc = "stream" /\ opener[o].res = r}
WaitersOf(r) == {o \in Openers : InOpen(o) /\ opener[o].res = r}
Starters(r) ==
  {o \in Openers : opener[o].pc \in {"starting", "started"} /\ opener[o].res = r}

\* The backend an opener has started and not stored yet.
Fresh(o, b) == opener[o].pc = "started" /\ opener[o].got = b

\* The timer of a runtime that is about to be stopped too late has room among
\* the late callbacks.
LateHasRoom == \A r \in Resources : runtimes[r].idle = "due" => late[r] < MaxLate

ClosedKeepsNothing ==
  closing => revoked /\ \A r \in Resources : runtimes[r] = NoRuntime

\* A runtime counts the callers in Open and the streams, and names its starter.
DemandIsCounted ==
  ~closing => \A r \in Resources :
    /\ runtimes[r].streams = Cardinality(StreamsOf(r))
    /\ runtimes[r].waiters = Cardinality(WaitersOf(r))
    /\ Starters(r) = {runtimes[r].starting} \ {Nobody}

\* A live backend has one owner.
OwnersAreApart ==
  /\ \A r \in Resources : runtimes[r].acquired # 0 =>
       /\ backend[runtimes[r].acquired] = "live"
       /\ runtimes[r].starting = Nobody
       /\ \A q \in Resources : runtimes[q].acquired = runtimes[r].acquired => q = r
       /\ \A o \in Openers : ~Fresh(o, runtimes[r].acquired)
  /\ \A o \in Openers : opener[o].pc = "started" /\ opener[o].got # 0 =>
       /\ backend[opener[o].got] = "live"
       /\ opener[o].outcome = "none"
       /\ \A p \in Openers : Fresh(p, opener[o].got) => p = o

StreamsHaveTheirs ==
  \A o \in Openers : opener[o].pc = "stream" /\ ~closing =>
    opener[o].got # 0 /\ runtimes[opener[o].res].acquired = opener[o].got

McpInv ==
  /\ McpTypeOK
  /\ LateHasRoom
  /\ ClosedKeepsNothing
  /\ DemandIsCounted
  /\ OwnersAreApart
  /\ StreamsHaveTheirs
  /\ NoBackendIsLost

LEMMA McpInvShares == ASSUME McpInv PROVE BackendsAreShared
<1>1. StreamsKeepTheirBackend
  BY DEF McpInv, McpTypeOK, Opener, StreamsHaveTheirs, OwnersAreApart, StreamsKeepTheirBackend
<1>2. StartsAreCoalesced
  <2> SUFFICES ASSUME NEW o \in Openers, opener[o].pc \in {"starting", "started"}, ~closing
               PROVE  /\ runtimes[opener[o].res].starting = o
                      /\ runtimes[opener[o].res].acquired = 0
    BY DEF StartsAreCoalesced
  <2>1. opener[o].res \in Resources
    BY DEF McpInv, McpTypeOK, Opener
  <2>2. o \in Starters(opener[o].res)
    BY DEF Starters
  <2>3. runtimes[opener[o].res].starting = o
    BY <2>1, <2>2 DEF McpInv, DemandIsCounted
  <2>4. o # Nobody
    BY McpAssumption
  <2> QED
    BY <2>1, <2>3, <2>4 DEF McpInv, OwnersAreApart
<1> QED
  BY <1>1, <1>2 DEF McpInv, BackendsAreShared

----------------------------------------

\* Giving demand back changes at most the timer: a runtime is deleted only
\* when nothing of it is left (releaseDemandLocked).
LEMMA DemandKept ==
  ASSUME NEW c \in Runtime, c.present
  PROVE  LET d == ReleaseDemand(c)
         IN  /\ d \in Runtime
             /\ d.present \/ d = NoRuntime
             /\ d.streams = c.streams /\ d.waiters = c.waiters
             /\ d.starting = c.starting /\ d.acquired = c.acquired
             /\ d.idle = "due" => c.idle = "due"
<1>1. NoRuntime \in Runtime
  BY McpAssumption DEF NoRuntime, Runtime, Errors
<1>2. CASE Needed(c)
  BY <1>2 DEF ReleaseDemand
<1>3. CASE ~Needed(c) /\ c.acquired = 0
  <2>1. ReleaseDemand(c) = IF c.leases = 0 THEN NoRuntime ELSE c
    BY <1>3 DEF ReleaseDemand
  <2> QED
    BY <1>1, <1>3, <2>1 DEF NoRuntime, Needed
<1>4. CASE ~Needed(c) /\ c.acquired # 0
  <2> DEFINE d == [c EXCEPT !.idle = "armed"]
  <2>1. ReleaseDemand(c) = IF c.idle = "none" THEN d ELSE c
    BY <1>4 DEF ReleaseDemand
  <2>2. d \in Runtime /\ d.present /\ d.streams = c.streams /\ d.waiters = c.waiters
        /\ d.starting = c.starting /\ d.acquired = c.acquired /\ d.idle = "armed"
    BY DEF Runtime
  <2> HIDE DEF d
  <2> QED
    BY <2>1, <2>2
<1> QED
  BY <1>2, <1>3, <1>4

\* Setting a runtime keeps the types, and room for late callbacks.
LEMMA SetKeeps ==
  ASSUME McpTypeOK, LateHasRoom, NEW r \in Resources, NEW c \in Runtime,
         c.present \/ c = NoRuntime,
         c.idle = "due" => runtimes[r].idle = "due",
         SetRuntime(r, c)
  PROVE  /\ runtimes' = [runtimes EXCEPT ![r] = c]
         /\ runtimes' \in [Resources -> Runtime]
         /\ \A q \in Resources : ~runtimes'[q].present => runtimes'[q] = NoRuntime
         /\ late' \in [Resources -> 0 .. MaxLate]
         /\ LateHasRoom'
<1>1. runtimes' = [runtimes EXCEPT ![r] = c] /\ runtimes' \in [Resources -> Runtime]
  BY DEF McpTypeOK, SetRuntime
<1>2. \A q \in Resources : ~runtimes'[q].present => runtimes'[q] = NoRuntime
  BY <1>1 DEF McpTypeOK
<1> DEFINE n == CASE ~c.present -> 0
                  [] c.present /\ runtimes[r].idle = "due" /\ c.idle = "none" -> late[r] + 1
                  [] OTHER -> late[r]
<1>3. late' = [late EXCEPT ![r] = n]
  BY DEF SetRuntime
<1>4. MaxLate \in Nat /\ late[r] \in 0 .. MaxLate
  BY McpAssumption DEF McpTypeOK
<1>5. n \in 0 .. MaxLate /\ (c.idle = "due" => n < MaxLate)
  <2>1. CASE ~c.present
    BY <1>4, <2>1 DEF NoRuntime
  <2>2. CASE c.present /\ runtimes[r].idle = "due" /\ c.idle = "none"
    <3>1. late[r] < MaxLate
      BY <2>2 DEF LateHasRoom
    <3> QED
      BY <1>4, <2>2, <3>1
  <2>3. CASE c.present /\ ~(runtimes[r].idle = "due" /\ c.idle = "none")
    BY <1>4, <2>3 DEF LateHasRoom
  <2> QED
    BY <2>1, <2>2, <2>3
<1> HIDE DEF n
<1>6. late' \in [Resources -> 0 .. MaxLate] /\ LateHasRoom'
  BY <1>1, <1>3, <1>5 DEF McpTypeOK, LateHasRoom
<1> QED
  BY <1>1, <1>2, <1>6

LEMMA McpInitInv == McpInit => McpInv
<1> SUFFICES ASSUME McpInit PROVE McpInv
  OBVIOUS
<1>1. \A o \in Openers : /\ opener[o].pc = "idle" /\ opener[o].res \in Resources
                         /\ opener[o].ctx = "live" /\ opener[o].on = Nobody
                         /\ opener[o].outcome = "none" /\ opener[o].got = 0
                         /\ opener[o].err = "none"
  BY DEF McpInit
<1>2. McpTypeOK
  <2>1. opener \in [Openers -> Opener]
    BY McpAssumption DEF McpInit, Opener, Errors
  <2>2. NoRuntime \in Runtime
    BY McpAssumption DEF NoRuntime, Runtime, Errors
  <2>3. runtimes \in [Resources -> Runtime] /\ \A r \in Resources : runtimes[r] = NoRuntime
    BY <2>2 DEF McpInit
  <2>4. backend \in [Backends -> BackendStates]
    BY DEF McpInit, BackendStates
  <2>5. late \in [Resources -> 0 .. MaxLate]
    BY McpAssumption DEF McpInit
  <2>6. closing \in BOOLEAN /\ revoked \in BOOLEAN
    BY DEF McpInit
  <2> QED
    BY <2>1, <2>3, <2>4, <2>5, <2>6 DEF McpTypeOK
<1>3. LateHasRoom /\ ClosedKeepsNothing /\ OwnersAreApart /\ StreamsHaveTheirs /\ NoBackendIsLost
  BY <1>1 DEF McpInit, LateHasRoom, ClosedKeepsNothing, OwnersAreApart, StreamsHaveTheirs,
    NoBackendIsLost, NoRuntime
<1>4. DemandIsCounted
  <2> SUFFICES ASSUME NEW r \in Resources
               PROVE  /\ runtimes[r].streams = Cardinality(StreamsOf(r))
                      /\ runtimes[r].waiters = Cardinality(WaitersOf(r))
                      /\ Starters(r) = {runtimes[r].starting} \ {Nobody}
    BY DEF DemandIsCounted
  <2>1. StreamsOf(r) = {} /\ WaitersOf(r) = {} /\ Starters(r) = {}
    BY <1>1 DEF StreamsOf, WaitersOf, Starters, InOpen
  <2> QED
    BY <2>1, FS_EmptySet DEF McpInit, NoRuntime
<1> QED
  BY <1>2, <1>3, <1>4 DEF McpInv

----------------------------------------

\* Each caller is on the same side of Open, and each runtime has the same
\* demand.
SameDemand ==
  /\ closing' = closing
  /\ \A r \in Resources : /\ runtimes'[r].streams = runtimes[r].streams
                          /\ runtimes'[r].waiters = runtimes[r].waiters
                          /\ runtimes'[r].starting = runtimes[r].starting
  /\ \A o \in Openers :
       /\ opener'[o].res = opener[o].res
       /\ InOpen(o)' <=> InOpen(o)
       /\ opener'[o].pc = "stream" <=> opener[o].pc = "stream"
       /\ opener'[o].pc \in {"starting", "started"} <=> opener[o].pc \in {"starting", "started"}

\* Each backend has the same owner.
SameBackends ==
  /\ closing' = closing /\ backend' = backend
  /\ \A r \in Resources :
       /\ runtimes'[r].acquired = runtimes[r].acquired
       /\ runtimes[r].acquired # 0 => runtimes'[r].starting = runtimes[r].starting
  /\ \A o \in Openers :
       /\ opener'[o].res = opener[o].res
       /\ opener'[o].got = opener[o].got
       /\ opener'[o].pc = "started" <=> opener[o].pc = "started"
       /\ opener[o].pc = "started" => opener'[o].outcome = opener[o].outcome
       /\ opener'[o].pc = "stream" <=> opener[o].pc = "stream"

LEMMA SameDemandKeeps == ASSUME DemandIsCounted, SameDemand PROVE DemandIsCounted'
<1> SUFFICES ASSUME ~closing', NEW r \in Resources
             PROVE  /\ runtimes'[r].streams = Cardinality(StreamsOf(r)')
                    /\ runtimes'[r].waiters = Cardinality(WaitersOf(r)')
                    /\ Starters(r)' = {runtimes'[r].starting} \ {Nobody}
  BY DEF DemandIsCounted
<1>1. StreamsOf(r)' = StreamsOf(r) /\ WaitersOf(r)' = WaitersOf(r) /\ Starters(r)' = Starters(r)
  BY DEF SameDemand, StreamsOf, WaitersOf, Starters
<1> QED
  BY <1>1 DEF DemandIsCounted, SameDemand

LEMMA SameBackendsKeep ==
  ASSUME McpTypeOK, OwnersAreApart, StreamsHaveTheirs, NoBackendIsLost, SameBackends
  PROVE  OwnersAreApart' /\ StreamsHaveTheirs' /\ NoBackendIsLost'
<1>1. OwnersAreApart'
  BY DEF OwnersAreApart, SameBackends, Fresh
<1>2. StreamsHaveTheirs'
  BY DEF StreamsHaveTheirs, SameBackends, McpTypeOK, Opener
<1>3. NoBackendIsLost'
  BY DEF NoBackendIsLost, SameBackends
<1> QED
  BY <1>1, <1>2, <1>3

\* The sets of callers are finite.
LEMMA CallersAreFinite ==
  ASSUME NEW r \in Resources
  PROVE  /\ IsFiniteSet(StreamsOf(r)) /\ Cardinality(StreamsOf(r)) \in Nat
         /\ IsFiniteSet(WaitersOf(r)) /\ Cardinality(WaitersOf(r)) \in Nat
<1>1. StreamsOf(r) \subseteq Openers /\ WaitersOf(r) \subseteq Openers
  BY DEF StreamsOf, WaitersOf
<1>2. IsFiniteSet(StreamsOf(r)) /\ IsFiniteSet(WaitersOf(r))
  BY <1>1, FS_Subset, McpAssumption
<1> QED
  BY <1>2, FS_CardinalityType

\* A caller that is in Open or has a stream keeps its runtime in place.
LEMMA CallersAreCounted ==
  ASSUME McpInv, ~closing, NEW o \in Openers
  PROVE  /\ opener[o].res \in Resources
         /\ InOpen(o) => runtimes[opener[o].res].waiters > 0 /\ runtimes[opener[o].res].present
         /\ opener[o].pc = "stream" => /\ runtimes[opener[o].res].streams > 0
                                       /\ runtimes[opener[o].res].present
<1> DEFINE r == opener[o].res
<1>1. r \in Resources
  BY DEF McpInv, McpTypeOK, Opener
<1>2. ~runtimes[r].present => runtimes[r].waiters = 0 /\ runtimes[r].streams = 0
  BY <1>1 DEF McpInv, McpTypeOK, NoRuntime
<1>3. ASSUME InOpen(o) PROVE runtimes[r].waiters > 0
  <2>1. o \in WaitersOf(r)
    BY <1>3 DEF WaitersOf
  <2>2. Cardinality(WaitersOf(r)) # 0
    BY <1>1, <2>1, CallersAreFinite, FS_EmptySet
  <2> QED
    BY <1>1, <2>2, CallersAreFinite DEF McpInv, DemandIsCounted
<1>4. ASSUME opener[o].pc = "stream" PROVE runtimes[r].streams > 0
  <2>1. o \in StreamsOf(r)
    BY <1>4 DEF StreamsOf
  <2>2. Cardinality(StreamsOf(r)) # 0
    BY <1>1, <2>1, CallersAreFinite, FS_EmptySet
  <2> QED
    BY <1>1, <2>2, CallersAreFinite DEF McpInv, DemandIsCounted
<1> QED
  BY <1>1, <1>2, <1>3, <1>4

----------------------------------------

LEMMA LeaseAcquiredKeeps ==
  ASSUME McpInv, NEW r \in Resources, LeaseAcquired(r) PROVE McpInv'
<1> DEFINE c == [runtimes[r] EXCEPT !.present = TRUE, !.leases = @ + 1]
<1>1. runtimes[r] \in Runtime /\ runtimes[r].leases + 1 \in 0 .. MaxLeases
  BY McpAssumption DEF McpInv, McpTypeOK, LeaseAcquired, Runtime
<1>2. /\ c \in Runtime /\ c.present /\ c.idle = runtimes[r].idle
      /\ c.streams = runtimes[r].streams /\ c.waiters = runtimes[r].waiters
      /\ c.starting = runtimes[r].starting /\ c.acquired = runtimes[r].acquired
  BY <1>1 DEF Runtime
<1>3. /\ SetRuntime(r, c) /\ ~closing
      /\ closing' = closing /\ revoked' = revoked /\ opener' = opener /\ backend' = backend
  BY DEF LeaseAcquired
<1> HIDE DEF c
<1>4. /\ runtimes' = [runtimes EXCEPT ![r] = c]
      /\ runtimes' \in [Resources -> Runtime]
      /\ \A q \in Resources : ~runtimes'[q].present => runtimes'[q] = NoRuntime
      /\ late' \in [Resources -> 0 .. MaxLate] /\ LateHasRoom'
  BY <1>2, <1>3, SetKeeps DEF McpInv
<1>5. McpTypeOK'
  BY <1>3, <1>4 DEF McpInv, McpTypeOK
<1>6. SameDemand
  BY <1>2, <1>3, <1>4 DEF SameDemand, InOpen, McpInv, McpTypeOK
<1>7. SameBackends
  BY <1>2, <1>3, <1>4 DEF SameBackends, McpInv, McpTypeOK
<1>8. ClosedKeepsNothing'
  BY <1>3 DEF ClosedKeepsNothing
<1> QED
  BY <1>4, <1>5, <1>6, <1>7, <1>8, SameDemandKeeps, SameBackendsKeep DEF McpInv

LEMMA LeaseReleasedKeeps ==
  ASSUME McpInv, NEW r \in Resources, LeaseReleased(r) PROVE McpInv'
<1> DEFINE c == [runtimes[r] EXCEPT !.leases = @ - 1]
           d == ReleaseDemand(c)
<1>1. /\ runtimes[r] \in Runtime /\ runtimes[r].leases - 1 \in 0 .. MaxLeases
      /\ runtimes[r].present
  BY McpAssumption DEF McpInv, McpTypeOK, LeaseReleased, Runtime, NoRuntime
<1>2. /\ c \in Runtime /\ c.present /\ c.idle = runtimes[r].idle
      /\ c.streams = runtimes[r].streams /\ c.waiters = runtimes[r].waiters
      /\ c.starting = runtimes[r].starting /\ c.acquired = runtimes[r].acquired
  BY <1>1 DEF Runtime
<1>3. /\ SetRuntime(r, d)
      /\ closing' = closing /\ revoked' = revoked /\ opener' = opener /\ backend' = backend
  BY DEF LeaseReleased
<1> HIDE DEF c
<1>4. /\ d \in Runtime /\ (d.present \/ d = NoRuntime) /\ (d.idle = "due" => c.idle = "due")
      /\ d.streams = c.streams /\ d.waiters = c.waiters
      /\ d.starting = c.starting /\ d.acquired = c.acquired
  BY <1>2, DemandKept
<1> HIDE DEF d
<1>5. /\ runtimes' = [runtimes EXCEPT ![r] = d]
      /\ runtimes' \in [Resources -> Runtime]
      /\ \A q \in Resources : ~runtimes'[q].present => runtimes'[q] = NoRuntime
      /\ late' \in [Resources -> 0 .. MaxLate] /\ LateHasRoom'
  BY <1>2, <1>3, <1>4, SetKeeps DEF McpInv
<1>6. McpTypeOK'
  BY <1>3, <1>5 DEF McpInv, McpTypeOK
<1>7. SameDemand
  BY <1>2, <1>3, <1>4, <1>5 DEF SameDemand, InOpen, McpInv, McpTypeOK
<1>8. SameBackends
  BY <1>2, <1>3, <1>4, <1>5 DEF SameBackends, McpInv, McpTypeOK
<1>9. ~closing
  BY <1>1 DEF McpInv, ClosedKeepsNothing, NoRuntime
<1>10. ClosedKeepsNothing'
  BY <1>3, <1>9 DEF ClosedKeepsNothing
<1> QED
  BY <1>5, <1>6, <1>7, <1>8, <1>10, SameDemandKeeps, SameBackendsKeep DEF McpInv

\* A caller that enters Open is counted before it looks at anything.
LEMMA OpenBeginKeeps ==
  ASSUME McpInv, NEW o \in Openers, OpenBegin(o) PROVE McpInv'
<1> DEFINE r == opener[o].res
           c == [runtimes[r] EXCEPT !.waiters = @ + 1, !.idle = "none"]
<1>1. r \in Resources /\ opener[o] \in Opener
  BY DEF McpInv, McpTypeOK, Opener
<1>2. /\ runtimes[r] \in Runtime /\ runtimes[r].present /\ runtimes[r].waiters + 1 \in Nat
      /\ ~closing
  BY <1>1 DEF McpInv, McpTypeOK, OpenBegin, Runtime, NoRuntime, ClosedKeepsNothing
<1>3. /\ c \in Runtime /\ c.present /\ c.idle = "none"
      /\ c.streams = runtimes[r].streams /\ c.waiters = runtimes[r].waiters + 1
      /\ c.starting = runtimes[r].starting /\ c.acquired = runtimes[r].acquired
  BY <1>2 DEF Runtime
<1>4. /\ SetRuntime(r, c) /\ opener[o].pc = "idle"
      /\ opener' = [opener EXCEPT ![o].pc = "loop"]
      /\ closing' = closing /\ revoked' = revoked /\ backend' = backend
  BY DEF OpenBegin
<1> HIDE DEF c
<1>5. /\ runtimes' = [runtimes EXCEPT ![r] = c]
      /\ runtimes' \in [Resources -> Runtime]
      /\ \A q \in Resources : ~runtimes'[q].present => runtimes'[q] = NoRuntime
      /\ late' \in [Resources -> 0 .. MaxLate] /\ LateHasRoom'
  BY <1>1, <1>3, <1>4, SetKeeps DEF McpInv
<1>6. opener' \in [Openers -> Opener] /\ McpTypeOK'
  <2>1. opener' \in [Openers -> Opener]
    BY <1>1, <1>4 DEF McpInv, McpTypeOK, Opener
  <2> QED
    BY <1>4, <1>5, <2>1 DEF McpInv, McpTypeOK
<1>7. \A p \in Openers : /\ opener'[p].res = opener[p].res /\ opener'[p].got = opener[p].got
                         /\ opener'[p].outcome = opener[p].outcome
                         /\ opener'[p].pc = IF p = o THEN "loop" ELSE opener[p].pc
  BY <1>1, <1>4 DEF McpInv, McpTypeOK, Opener
<1>8. SameBackends
  BY <1>1, <1>3, <1>4, <1>5, <1>7 DEF SameBackends, McpInv, McpTypeOK
<1>9. DemandIsCounted'
  <2> SUFFICES ASSUME NEW q \in Resources
               PROVE  /\ runtimes'[q].streams = Cardinality(StreamsOf(q)')
                      /\ runtimes'[q].waiters = Cardinality(WaitersOf(q)')
                      /\ Starters(q)' = {runtimes'[q].starting} \ {Nobody}
    BY DEF DemandIsCounted
  <2>1. StreamsOf(q)' = StreamsOf(q) /\ Starters(q)' = Starters(q)
    BY <1>4, <1>7 DEF StreamsOf, Starters
  <2>2. o \notin WaitersOf(q)
    BY <1>4 DEF WaitersOf, InOpen
  <2>3. WaitersOf(q)' = IF q = r THEN WaitersOf(q) \cup {o} ELSE WaitersOf(q)
    BY <1>4, <1>7 DEF WaitersOf, InOpen
  <2>4. Cardinality(WaitersOf(q) \cup {o}) = Cardinality(WaitersOf(q)) + 1
    BY <2>2, FS_AddElement, CallersAreFinite
  <2> QED
    BY <1>1, <1>2, <1>3, <1>5, <2>1, <2>3, <2>4 DEF McpInv, DemandIsCounted, McpTypeOK
<1>10. ClosedKeepsNothing'
  BY <1>2, <1>4 DEF ClosedKeepsNothing
<1> QED
  BY <1>5, <1>6, <1>8, <1>9, <1>10, SameBackendsKeep DEF McpInv

\* Steps that only move a caller within Open, or change its context.
LEMMA MovesKeep ==
  ASSUME McpInv, NEW o \in Openers,
         CancelContext(o) \/ WaitCancelled(o) \/ BackoffElapsed(o)
  PROVE  McpInv'
<1>1. /\ runtimes' = runtimes /\ closing' = closing /\ revoked' = revoked
      /\ backend' = backend /\ late' = late
  BY DEF CancelContext, WaitCancelled, BackoffElapsed
<1>2. opener[o] \in Opener
  BY DEF McpInv, McpTypeOK
<1>3. /\ opener' \in [Openers -> Opener]
      /\ \A p \in Openers : /\ opener'[p].res = opener[p].res /\ opener'[p].got = opener[p].got
                            /\ opener'[p].outcome = opener[p].outcome
                            /\ InOpen(p)' <=> InOpen(p)
                            /\ p # o => opener'[p] = opener[p]
                            /\ opener'[p].pc = "started" <=> opener[p].pc = "started"
                            /\ opener'[p].pc = "starting" <=> opener[p].pc = "starting"
                            /\ opener'[p].pc = "stream" <=> opener[p].pc = "stream"
  <2>1. CASE CancelContext(o)
    BY <1>2, <2>1 DEF CancelContext, McpInv, McpTypeOK, Opener, InOpen
  <2>2. CASE WaitCancelled(o)
    BY <1>2, <2>2 DEF WaitCancelled, Interruptible, LeaveRuntime, McpInv, McpTypeOK, Opener, InOpen, Errors
  <2>3. CASE BackoffElapsed(o)
    BY <1>2, <2>3 DEF BackoffElapsed, Goto, McpInv, McpTypeOK, Opener, InOpen
  <2> QED
    BY <2>1, <2>2, <2>3
<1>4. McpTypeOK'
  BY <1>1, <1>3 DEF McpInv, McpTypeOK
<1>5. SameDemand /\ SameBackends
  BY <1>1, <1>3 DEF SameDemand, SameBackends
<1>6. LateHasRoom' /\ ClosedKeepsNothing'
  BY <1>1 DEF McpInv, LateHasRoom, ClosedKeepsNothing
<1> QED
  BY <1>4, <1>5, <1>6, SameDemandKeeps, SameBackendsKeep DEF McpInv

\* Timers, and the end of every lease.
LEMMA TimersKeep ==
  ASSUME McpInv, (\E r \in Resources : RetryDue(r) \/ IdleDue(r)) \/ RevokeLeases
  PROVE  McpInv'
<1>1. CASE \E r \in Resources : RetryDue(r) \/ IdleDue(r)
  <2> PICK r \in Resources : RetryDue(r) \/ IdleDue(r)
    BY <1>1
  <2>1. /\ closing' = closing /\ revoked' = revoked /\ opener' = opener
        /\ backend' = backend /\ late' = late
    BY DEF RetryDue, IdleDue
  <2>2. runtimes[r] \in Runtime /\ runtimes[r].present
    BY DEF RetryDue, IdleDue, McpInv, McpTypeOK, NoRuntime
  <2>3. PICK c \in Runtime : /\ runtimes' = [runtimes EXCEPT ![r] = c] /\ c.present
                             /\ c.streams = runtimes[r].streams /\ c.waiters = runtimes[r].waiters
                             /\ c.starting = runtimes[r].starting
                             /\ c.acquired = runtimes[r].acquired
                             /\ c.idle = "due" => runtimes[r].idle = "due" \/ late[r] < MaxLate
    <3>1. CASE RetryDue(r)
      <4> DEFINE c == [runtimes[r] EXCEPT !.backoff = FALSE]
      <4>1. /\ c \in Runtime /\ c.present /\ c.idle = runtimes[r].idle
            /\ c.streams = runtimes[r].streams /\ c.waiters = runtimes[r].waiters
            /\ c.starting = runtimes[r].starting /\ c.acquired = runtimes[r].acquired
        BY <2>2 DEF Runtime
      <4>2. runtimes' = [runtimes EXCEPT ![r] = c]
        BY <3>1 DEF RetryDue
      <4> HIDE DEF c
      <4> QED
        BY <4>1, <4>2
    <3>2. CASE IdleDue(r)
      <4> DEFINE c == [runtimes[r] EXCEPT !.idle = "due"]
      <4>1. /\ c \in Runtime /\ c.present
            /\ c.streams = runtimes[r].streams /\ c.waiters = runtimes[r].waiters
            /\ c.starting = runtimes[r].starting /\ c.acquired = runtimes[r].acquired
        BY <2>2 DEF Runtime
      <4>2. runtimes' = [runtimes EXCEPT ![r] = c] /\ late[r] < MaxLate
        BY <3>2 DEF IdleDue
      <4> HIDE DEF c
      <4> QED
        BY <4>1, <4>2
    <3> QED
      BY <3>1, <3>2
  <2>4. McpTypeOK'
    BY <2>1, <2>3 DEF McpInv, McpTypeOK
  <2>5. LateHasRoom'
    BY <2>1, <2>3 DEF McpInv, McpTypeOK, LateHasRoom
  <2>6. SameDemand /\ SameBackends
    BY <2>1, <2>3 DEF SameDemand, SameBackends, InOpen, McpInv, McpTypeOK
  <2>7. ClosedKeepsNothing'
    BY <2>1, <2>2 DEF McpInv, ClosedKeepsNothing, NoRuntime
  <2> QED
    BY <2>4, <2>5, <2>6, <2>7, SameDemandKeeps, SameBackendsKeep DEF McpInv
<1>2. CASE RevokeLeases
  <2>1. /\ runtimes' = runtimes /\ closing' = closing /\ revoked' = TRUE
        /\ backend' = backend /\ late' = late
    BY <1>2 DEF RevokeLeases
  <2>2. \A p \in Openers : /\ opener'[p] \in Opener
                           /\ opener'[p].res = opener[p].res /\ opener'[p].got = opener[p].got
                           /\ opener'[p].outcome = opener[p].outcome
                           /\ opener'[p].pc = opener[p].pc
    <3> SUFFICES ASSUME NEW p \in Openers
                 PROVE  /\ opener'[p] \in Opener
                        /\ opener'[p].res = opener[p].res /\ opener'[p].got = opener[p].got
                        /\ opener'[p].outcome = opener[p].outcome
                        /\ opener'[p].pc = opener[p].pc
      OBVIOUS
    <3>1. opener[p] \in Opener
      BY DEF McpInv, McpTypeOK
    <3>2. opener'[p] = IF InOpen(p) THEN [opener[p] EXCEPT !.ctx = "cancelled"] ELSE opener[p]
      BY <1>2 DEF RevokeLeases
    <3> QED
      BY <3>1, <3>2 DEF Opener
  <2>3. opener' \in [Openers -> Opener]
    <3>1. opener' = [p \in Openers |-> opener'[p]]
      BY <1>2 DEF RevokeLeases
    <3> QED
      BY <2>2, <3>1
  <2>4. McpTypeOK'
    BY <2>1, <2>3 DEF McpInv, McpTypeOK
  <2>5. SameDemand /\ SameBackends
    BY <2>1, <2>2 DEF SameDemand, SameBackends, InOpen
  <2>6. LateHasRoom' /\ ClosedKeepsNothing'
    BY <2>1 DEF McpInv, LateHasRoom, ClosedKeepsNothing
  <2> QED
    BY <2>4, <2>5, <2>6, SameDemandKeeps, SameBackendsKeep DEF McpInv
<1> QED
  BY <1>1, <1>2

\* A start that returns: its backend is in nobody's hands but the starter's.
LEMMA StartKeeps ==
  ASSUME McpInv, NEW o \in Openers, StartSucceeds(o) \/ BackendStartFails(o)
  PROVE  McpInv'
<1>1. /\ runtimes' = runtimes /\ closing' = closing /\ revoked' = revoked /\ late' = late
      /\ opener[o].pc = "starting"
  BY DEF StartSucceeds, BackendStartFails
<1>2. opener[o] \in Opener
  BY DEF McpInv, McpTypeOK
<1>3. PICK b \in 0 .. MaxBackends, e \in Errors :
        /\ opener' = [opener EXCEPT ![o].pc = "started", ![o].got = b, ![o].outcome = e]
        /\ b # 0 => /\ b \in Backends /\ e = "none" /\ backend[b] = "unused"
                    /\ backend' = [backend EXCEPT ![b] = "live"]
        /\ b = 0 => backend' = backend
  <2>1. CASE StartSucceeds(o)
    <3>1. PICK b \in Backends : /\ backend[b] = "unused"
                                /\ backend' = [backend EXCEPT ![b] = "live"]
                                /\ opener' = [opener EXCEPT ![o].pc = "started", ![o].got = b,
                                                            ![o].outcome = "none"]
      BY <2>1 DEF StartSucceeds
    <3>2. b \in 0 .. MaxBackends /\ b # 0 /\ "none" \in Errors
      BY McpAssumption DEF Backends, Errors
    <3> QED
      BY <3>1, <3>2
  <2>2. CASE BackendStartFails(o)
    <3>1. PICK e \in {"transient", "permanent", "cancelled"} :
            opener' = [opener EXCEPT ![o].pc = "started", ![o].got = 0, ![o].outcome = e]
      BY <2>2 DEF BackendStartFails
    <3>2. 0 \in 0 .. MaxBackends /\ e \in Errors /\ backend' = backend
      BY <2>2, McpAssumption DEF Errors, BackendStartFails
    <3> QED
      BY <3>1, <3>2
  <2> QED
    BY <2>1, <2>2
<1>4. opener' \in [Openers -> Opener]
  BY <1>2, <1>3 DEF McpInv, McpTypeOK, Opener
<1>5. \A p \in Openers : /\ p # o => opener'[p] = opener[p]
                         /\ opener'[p].res = opener[p].res
  BY <1>2, <1>3 DEF McpInv, McpTypeOK, Opener
<1>6. opener'[o].pc = "started" /\ opener'[o].got = b /\ opener'[o].outcome = e
  BY <1>2, <1>3 DEF McpInv, McpTypeOK, Opener
<1>7. backend' \in [Backends -> BackendStates]
  BY <1>3 DEF McpInv, McpTypeOK, BackendStates
<1>8. McpTypeOK'
  BY <1>1, <1>4, <1>7 DEF McpInv, McpTypeOK
<1>9. SameDemand
  BY <1>1, <1>5, <1>6 DEF SameDemand, InOpen
<1>10. \A a \in Backends : backend[a] = "live" => backend'[a] = "live"
  BY <1>3 DEF McpInv, McpTypeOK, BackendStates
<1>11. \A r \in Resources : runtimes[r].acquired # 0 => runtimes[r].acquired \in Backends
  BY McpAssumption DEF McpInv, McpTypeOK, Runtime, Backends
<1>12. \A p \in Openers : opener[p].got # 0 => opener[p].got \in Backends
  BY McpAssumption DEF McpInv, McpTypeOK, Opener, Backends
<1>13. b # 0 => backend'[b] = "live"
  BY <1>3 DEF McpInv, McpTypeOK
<1>14. b # 0 => /\ \A r \in Resources : runtimes[r].acquired # b
                /\ \A p \in Openers : ~Fresh(p, b)
  BY <1>3 DEF McpInv, OwnersAreApart, Fresh
<1>15. OwnersAreApart'
  <2>1. ASSUME NEW r \in Resources, runtimes[r].acquired # 0
        PROVE  /\ backend'[runtimes[r].acquired] = "live"
               /\ runtimes[r].starting = Nobody
               /\ \A q \in Resources : runtimes[q].acquired = runtimes[r].acquired => q = r
               /\ \A p \in Openers : ~Fresh(p, runtimes[r].acquired)'
    BY <1>1, <1>5, <1>6, <1>10, <1>11, <1>14, <2>1 DEF McpInv, OwnersAreApart, Fresh
  <2>2. ASSUME NEW p \in Openers, opener'[p].pc = "started", opener'[p].got # 0
        PROVE  /\ backend'[opener'[p].got] = "live"
               /\ opener'[p].outcome = "none"
               /\ \A q \in Openers : opener'[q].pc = "started" /\ opener'[q].got = opener'[p].got
                                       => q = p
    <3>1. CASE p = o
      BY ZenonT(60), <1>3, <1>5, <1>6, <1>13, <1>14, <2>2, <3>1 DEF Fresh
    <3>2. CASE p # o
      BY <1>5, <1>6, <1>10, <1>12, <1>14, <2>2, <3>2 DEF McpInv, OwnersAreApart, Fresh
    <3> QED
      BY <3>1, <3>2
  <2> QED
    BY <1>1, <2>1, <2>2 DEF OwnersAreApart, Fresh
<1>16. StreamsHaveTheirs'
  BY <1>1, <1>5, <1>6 DEF McpInv, StreamsHaveTheirs
<1>17. NoBackendIsLost'
  <2> SUFFICES ASSUME NEW a \in Backends, backend'[a] = "live"
               PROVE  \/ \E r \in Resources : runtimes'[r].acquired = a
                      \/ \E p \in Openers : opener'[p].pc = "started" /\ opener'[p].got = a
    BY DEF NoBackendIsLost
  <2>1. CASE a = b
    BY <1>6, <2>1
  <2>2. CASE a # b
    <3>1. backend[a] = "live"
      BY <1>3, <2>2 DEF McpInv, McpTypeOK
    <3>2. \A p \in Openers : opener[p].pc = "started" => p # o
      BY <1>1
    <3> QED
      BY <1>1, <1>5, <3>1, <3>2 DEF McpInv, NoBackendIsLost
  <2> QED
    BY <2>1, <2>2
<1>18. LateHasRoom' /\ ClosedKeepsNothing'
  BY <1>1 DEF McpInv, LateHasRoom, ClosedKeepsNothing
<1> QED
  BY <1>8, <1>9, <1>15, <1>16, <1>17, <1>18, SameDemandKeeps DEF McpInv

LEMMA BackendReleasedKeeps ==
  ASSUME McpInv, NEW b \in Backends, BackendReleased(b) PROVE McpInv'
<1>1. /\ runtimes' = runtimes /\ closing' = closing /\ revoked' = revoked /\ late' = late
      /\ opener' = opener /\ backend[b] = "dropped"
      /\ backend' = [backend EXCEPT ![b] = "released"]
  BY DEF BackendReleased
<1>2. \A a \in Backends : backend[a] = "live" <=> backend'[a] = "live"
  BY <1>1 DEF McpInv, McpTypeOK
<1>3. McpTypeOK'
  BY <1>1 DEF McpInv, McpTypeOK, BackendStates
<1>4. SameDemand
  BY <1>1 DEF SameDemand, InOpen
<1>5. \A r \in Resources : runtimes[r].acquired # 0 => runtimes[r].acquired \in Backends
  BY McpAssumption DEF McpInv, McpTypeOK, Runtime, Backends
<1>6. \A p \in Openers : opener[p].got # 0 => opener[p].got \in Backends
  BY McpAssumption DEF McpInv, McpTypeOK, Opener, Backends
<1>7. OwnersAreApart'
  BY <1>1, <1>2, <1>5, <1>6 DEF McpInv, OwnersAreApart, Fresh
<1>8. StreamsHaveTheirs' /\ NoBackendIsLost' /\ LateHasRoom' /\ ClosedKeepsNothing'
  BY <1>1, <1>2 DEF McpInv, StreamsHaveTheirs, NoBackendIsLost, LateHasRoom, ClosedKeepsNothing
<1> QED
  BY <1>3, <1>4, <1>7, <1>8, SameDemandKeeps DEF McpInv

\* A caller joins the retained backend: it waits no more and has a stream.
LEMMA JoinKeeps == ASSUME McpInv, NEW o \in Openers, JoinBackend(o) PROVE McpInv'
<1> DEFINE r == opener[o].res
           c == TakeStream(runtimes[r])
<1>1. r \in Resources /\ opener[o] \in Opener /\ ~closing /\ InOpen(o)
  BY DEF McpInv, McpTypeOK, Opener, JoinBackend, InOpen
<1>2. /\ runtimes[r] \in Runtime /\ runtimes[r].present
      /\ runtimes[r].waiters > 0 /\ runtimes[r].waiters \in Nat /\ runtimes[r].streams \in Nat
      /\ runtimes[r].acquired # 0 /\ runtimes[r].acquired \in 0 .. MaxBackends
  BY <1>1, CallersAreCounted DEF McpInv, McpTypeOK, JoinBackend, Runtime
<1>3. runtimes[r].waiters - 1 \in Nat /\ runtimes[r].streams + 1 \in Nat
  BY <1>2
<1>4. /\ c \in Runtime /\ c.present /\ c.idle = "none"
      /\ c.streams = runtimes[r].streams + 1 /\ c.waiters = runtimes[r].waiters - 1
      /\ c.starting = runtimes[r].starting /\ c.acquired = runtimes[r].acquired
  BY <1>2, <1>3 DEF Runtime, TakeStream
<1>5. /\ SetRuntime(r, c) /\ opener[o].pc = "loop"
      /\ opener' = [opener EXCEPT ![o].pc = "stream", ![o].ctx = "live",
                                  ![o].got = runtimes[r].acquired]
      /\ closing' = closing /\ revoked' = revoked /\ backend' = backend
  BY DEF JoinBackend
<1> HIDE DEF c
<1>6. /\ runtimes' = [runtimes EXCEPT ![r] = c]
      /\ runtimes' \in [Resources -> Runtime]
      /\ \A q \in Resources : ~runtimes'[q].present => runtimes'[q] = NoRuntime
      /\ late' \in [Resources -> 0 .. MaxLate] /\ LateHasRoom'
  BY <1>1, <1>4, <1>5, SetKeeps DEF McpInv
<1>7. opener' \in [Openers -> Opener]
  BY <1>1, <1>2, <1>5 DEF McpInv, McpTypeOK, Opener
<1>8. McpTypeOK'
  BY <1>5, <1>6, <1>7 DEF McpInv, McpTypeOK
<1>9. \A p \in Openers : /\ opener'[p].res = opener[p].res
                         /\ p # o => opener'[p] = opener[p]
  BY <1>1, <1>5 DEF McpInv, McpTypeOK, Opener
<1>10. opener'[o].pc = "stream" /\ opener'[o].got = runtimes[r].acquired
  BY <1>1, <1>5 DEF McpInv, McpTypeOK, Opener
<1>11. \A q \in Resources : /\ runtimes'[q].acquired = runtimes[q].acquired
                            /\ runtimes'[q].starting = runtimes[q].starting
  BY <1>1, <1>4, <1>6 DEF McpInv, McpTypeOK
<1>13. OwnersAreApart' /\ NoBackendIsLost'
  <2>0. backend' = backend
    BY <1>5
  <2>1. \A p \in Openers :
          opener[p].pc = "started" \/ opener'[p].pc = "started" => opener'[p] = opener[p]
    BY <1>5, <1>9, <1>10
  <2>3. OwnersAreApart'
    <3>1. ASSUME NEW q \in Resources, runtimes'[q].acquired # 0
          PROVE  /\ backend'[runtimes'[q].acquired] = "live"
                 /\ runtimes'[q].starting = Nobody
                 /\ \A t \in Resources : runtimes'[t].acquired = runtimes'[q].acquired => t = q
                 /\ \A p \in Openers :
                      ~(opener'[p].pc = "started" /\ opener'[p].got = runtimes'[q].acquired)
      BY <2>0, <1>11, <2>1, <3>1 DEF McpInv, OwnersAreApart, Fresh
    <3>2. ASSUME NEW p \in Openers, opener'[p].pc = "started", opener'[p].got # 0
          PROVE  /\ backend'[opener'[p].got] = "live"
                 /\ opener'[p].outcome = "none"
                 /\ \A q \in Openers :
                      opener'[q].pc = "started" /\ opener'[q].got = opener'[p].got => q = p
      BY <2>0, <2>1, <3>2 DEF McpInv, OwnersAreApart, Fresh
    <3> QED
      BY <3>1, <3>2 DEF OwnersAreApart, Fresh
  <2>4. NoBackendIsLost'
    <3> SUFFICES ASSUME NEW a \in Backends, backend[a] = "live"
                 PROVE  \/ \E q \in Resources : runtimes'[q].acquired = a
                        \/ \E p \in Openers : opener'[p].pc = "started" /\ opener'[p].got = a
      BY <2>0 DEF NoBackendIsLost
    <3> QED
      BY <1>11, <2>1 DEF McpInv, NoBackendIsLost
  <2> QED
    BY <2>3, <2>4
<1>14. StreamsHaveTheirs'
  BY <1>1, <1>2, <1>5, <1>9, <1>10, <1>11 DEF McpInv, McpTypeOK, Opener, StreamsHaveTheirs
<1>15. DemandIsCounted'
  <2> SUFFICES ASSUME NEW q \in Resources
               PROVE  /\ runtimes'[q].streams = Cardinality(StreamsOf(q)')
                      /\ runtimes'[q].waiters = Cardinality(WaitersOf(q)')
                      /\ Starters(q)' = {runtimes'[q].starting} \ {Nobody}
    BY DEF DemandIsCounted
  <2>1. Starters(q)' = Starters(q)
    BY <1>5, <1>9, <1>10 DEF Starters
  <2>2. WaitersOf(q)' = IF q = r THEN WaitersOf(q) \ {o} ELSE WaitersOf(q)
    BY <1>5, <1>9, <1>10 DEF WaitersOf, InOpen
  <2>3. StreamsOf(q)' = IF q = r THEN StreamsOf(q) \cup {o} ELSE StreamsOf(q)
    BY <1>5, <1>9, <1>10 DEF StreamsOf
  <2>4. q = r => o \in WaitersOf(q) /\ o \notin StreamsOf(q)
    BY <1>1, <1>5 DEF WaitersOf, StreamsOf
  <2>5. q = r => /\ Cardinality(WaitersOf(q) \ {o}) = Cardinality(WaitersOf(q)) - 1
                 /\ Cardinality(StreamsOf(q) \cup {o}) = Cardinality(StreamsOf(q)) + 1
    BY <2>4, FS_AddElement, FS_RemoveElement, CallersAreFinite
  <2> QED
    BY <1>1, <1>4, <1>6, <2>1, <2>2, <2>3, <2>5 DEF McpInv, DemandIsCounted, McpTypeOK
<1>16. ClosedKeepsNothing'
  BY <1>1, <1>5 DEF ClosedKeepsNothing
<1> QED
  BY <1>6, <1>8, <1>13, <1>14, <1>15, <1>16 DEF McpInv

\* The other branches of the loop: at most one caller becomes the starter.
LEMMA LoopKeeps == ASSUME McpInv, NEW o \in Openers, Loop(o) PROVE McpInv'
<1> DEFINE r == opener[o].res
           d == [runtimes[r] EXCEPT !.idle = "none"]
           s == [d EXCEPT !.starting = o]
<1>1. /\ r \in Resources /\ opener[o] \in Opener /\ InOpen(o) /\ opener[o].pc = "loop"
      /\ runtimes[r] \in Runtime
  BY DEF McpInv, McpTypeOK, Opener, Loop, InOpen
<1>2. closing' = closing /\ revoked' = revoked /\ backend' = backend
  BY DEF Loop
<1>3. /\ d \in Runtime /\ d.present = runtimes[r].present /\ d.idle = "none"
      /\ d.streams = runtimes[r].streams /\ d.waiters = runtimes[r].waiters
      /\ d.starting = runtimes[r].starting /\ d.acquired = runtimes[r].acquired
  BY <1>1 DEF Runtime
<1>4. /\ s \in Runtime /\ s.present = runtimes[r].present /\ s.idle = "none"
      /\ s.streams = runtimes[r].streams /\ s.waiters = runtimes[r].waiters
      /\ s.starting = o /\ s.acquired = runtimes[r].acquired
  BY <1>1 DEF Runtime
<1>5. \/ /\ runtimes' = runtimes /\ late' = late
         /\ \E e \in {"closing", "gone"} : LeaveRuntime(o, e)
      \/ /\ ~closing /\ runtimes[r].present /\ SetRuntime(r, d)
         /\ \/ opener' = [opener EXCEPT ![o].pc = "waiting", ![o].on = runtimes[r].starting]
            \/ \E e \in Errors : LeaveRuntime(o, e)
            \/ Goto(o, "backoff")
      \/ /\ ~closing /\ runtimes[r].present /\ SetRuntime(r, s)
         /\ MayStart(runtimes[r]) /\ Goto(o, "starting")
  BY <1>1 DEF Loop, Runtime
<1> HIDE DEF d, s
<1>6. opener' \in [Openers -> Opener]
  <2>1. runtimes[r].starting \in Openers \cup {Nobody}
    BY <1>1 DEF Runtime
  <2> QED
    BY <1>1, <1>5, <2>1 DEF McpInv, McpTypeOK, Opener, LeaveRuntime, Goto
<1>7. \A p \in Openers : /\ opener'[p].res = opener[p].res
                         /\ opener'[p].got = opener[p].got
                         /\ opener'[p].outcome = opener[p].outcome
                         /\ p # o => opener'[p] = opener[p]
  BY <1>1, <1>5 DEF McpInv, McpTypeOK, Opener, LeaveRuntime, Goto
<1>8. opener'[o].pc \in {"leaving", "waiting", "backoff", "starting"}
  BY <1>1, <1>5 DEF McpInv, McpTypeOK, Opener, LeaveRuntime, Goto
<1>9. \/ runtimes' = runtimes /\ late' = late
      \/ ~closing /\ \E c \in {d, s} : SetRuntime(r, c) /\ c.present
  BY <1>3, <1>4, <1>5
<1>10. /\ runtimes' \in [Resources -> Runtime]
       /\ \A q \in Resources : ~runtimes'[q].present => runtimes'[q] = NoRuntime
       /\ late' \in [Resources -> 0 .. MaxLate] /\ LateHasRoom'
  <2>1. CASE runtimes' = runtimes /\ late' = late
    BY <2>1 DEF McpInv, McpTypeOK, LateHasRoom
  <2>2. ASSUME NEW c \in {d, s}, SetRuntime(r, c), c.present
        PROVE  /\ runtimes' \in [Resources -> Runtime]
               /\ \A q \in Resources : ~runtimes'[q].present => runtimes'[q] = NoRuntime
               /\ late' \in [Resources -> 0 .. MaxLate] /\ LateHasRoom'
    BY <1>1, <1>3, <1>4, <2>2, SetKeeps DEF McpInv
  <2> QED
    BY <1>9, <2>1, <2>2
<1>11. McpTypeOK'
  BY <1>2, <1>6, <1>10 DEF McpInv, McpTypeOK
<1>12. ClosedKeepsNothing'
  BY <1>2, <1>9 DEF McpInv, ClosedKeepsNothing
<1>13. CASE opener'[o].pc # "starting"
  <2>1. runtimes' = runtimes \/ SetRuntime(r, d)
    BY <1>1, <1>5, <1>13 DEF Goto, McpInv, McpTypeOK, Opener
  <2>2. runtimes' = runtimes \/ runtimes' = [runtimes EXCEPT ![r] = d]
    BY <2>1 DEF SetRuntime
  <2>3. SameDemand
    BY <1>1, <1>2, <1>3, <1>7, <1>8, <1>13, <2>2 DEF SameDemand, InOpen, McpInv, McpTypeOK
  <2>4. SameBackends
    BY <1>1, <1>2, <1>3, <1>7, <1>8, <1>13, <2>2 DEF SameBackends, McpInv, McpTypeOK
  <2> QED
    BY <1>10, <1>11, <1>12, <2>3, <2>4, SameDemandKeeps, SameBackendsKeep DEF McpInv
<1>14. CASE opener'[o].pc = "starting"
  <2>1. ~closing /\ SetRuntime(r, s) /\ MayStart(runtimes[r])
    BY <1>1, <1>5, <1>14 DEF Goto, LeaveRuntime, McpInv, McpTypeOK, Opener
  <2>2. runtimes' = [runtimes EXCEPT ![r] = s]
    BY <2>1 DEF SetRuntime
  <2>3. SameBackends
    BY <1>1, <1>2, <1>4, <1>7, <1>14, <2>1, <2>2 DEF SameBackends, McpInv, McpTypeOK, MayStart
  <2>4. DemandIsCounted'
    <3> SUFFICES ASSUME NEW q \in Resources
                 PROVE  /\ runtimes'[q].streams = Cardinality(StreamsOf(q)')
                        /\ runtimes'[q].waiters = Cardinality(WaitersOf(q)')
                        /\ Starters(q)' = {runtimes'[q].starting} \ {Nobody}
      BY DEF DemandIsCounted
    <3>1. StreamsOf(q)' = StreamsOf(q) /\ WaitersOf(q)' = WaitersOf(q)
      BY <1>1, <1>7, <1>14 DEF StreamsOf, WaitersOf, InOpen
    <3>2. Starters(q)' = IF q = r THEN Starters(q) \cup {o} ELSE Starters(q)
      BY <1>1, <1>7, <1>14 DEF Starters
    <3>3. Starters(r) = {} /\ o # Nobody
      BY <1>1, <2>1, McpAssumption DEF McpInv, DemandIsCounted, MayStart
    <3> QED
      BY <1>1, <1>4, <2>1, <2>2, <3>1, <3>2, <3>3 DEF McpInv, DemandIsCounted, McpTypeOK
  <2> QED
    BY <1>10, <1>11, <1>12, <2>3, <2>4, SameBackendsKeep DEF McpInv
<1> QED
  BY <1>13, <1>14

\* The result of a start is stored in the runtime that still waits for it, or
\* dropped after a shutdown.
LEMMA StoreKeeps == ASSUME McpInv, NEW o \in Openers, Store(o) PROVE McpInv'
<1> DEFINE r == opener[o].res
           e == opener[o].outcome
           b == opener[o].got
           next == CASE e = "none" -> "loop"
                     [] e # "none" /\ opener[o].ctx = "cancelled" -> "leaving"
                     [] e # "none" /\ opener[o].ctx = "live" ->
                           IF RetryableStart(e) THEN "loop" ELSE "leaving"
           v == IF e = "none"
                THEN [runtimes[r] EXCEPT !.acquired = b, !.lastErr = "none", !.backoff = FALSE]
                ELSE [runtimes[r] EXCEPT !.lastErr = e, !.backoff = RetryableStart(e)]
           c == [v EXCEPT !.starting = Nobody]
           d == ReleaseDemand(c)
<1>1. /\ r \in Resources /\ opener[o] \in Opener /\ InOpen(o) /\ opener[o].pc = "started"
      /\ runtimes[r] \in Runtime /\ e \in Errors /\ b \in 0 .. MaxBackends
  BY DEF McpInv, McpTypeOK, Opener, Store, InOpen
<1>2. closing' = closing /\ revoked' = revoked
  BY DEF Store
<1>3. next \in {"loop", "leaving"}
  <2>1. opener[o].ctx \in {"live", "cancelled"}
    BY <1>1 DEF Opener
  <2> QED
    BY <2>1
<1>4. RetryableStart(e) \in BOOLEAN
  BY DEF RetryableStart
<1>5. /\ c \in Runtime /\ c.present = runtimes[r].present /\ c.idle = runtimes[r].idle
      /\ c.streams = runtimes[r].streams /\ c.waiters = runtimes[r].waiters
      /\ c.starting = Nobody /\ c.acquired = IF e = "none" THEN b ELSE runtimes[r].acquired
  <2>1. CASE e = "none"
    BY <1>1, <2>1 DEF Runtime, Errors
  <2>2. CASE e # "none"
    BY <1>1, <1>4, <2>2 DEF Runtime
  <2> QED
    BY <2>1, <2>2
<1> DEFINE left == [opener[o] EXCEPT !.pc = "leaving", !.err = "gone", !.got = 0, !.outcome = "none"]
           done == [opener[o] EXCEPT !.pc = next, !.got = 0, !.outcome = "none",
                                     !.err = IF next = "leaving" THEN e ELSE "none"]
<1>6. \/ /\ ~runtimes[r].present
         /\ backend' = GoneBackend(b)
         /\ opener' = [opener EXCEPT ![o] = left]
         /\ runtimes' = runtimes /\ late' = late
      \/ /\ runtimes[r].present
         /\ SetRuntime(r, d)
         /\ opener' = [w \in Openers |->
               IF w = o THEN done
               ELSE IF w \in Wakes(o)
               THEN [opener[w] EXCEPT !.pc = "loop", !.on = Nobody] ELSE opener[w]]
         /\ backend' = backend
  BY <1>1 DEF Store, McpInv, McpTypeOK
<1>7. /\ left \in Opener /\ left.pc = "leaving" /\ left.res = r /\ left.got = 0
      /\ done \in Opener /\ done.pc = next /\ done.res = r /\ done.got = 0
  <2>1. next \in {"loop", "leaving"} /\ "none" \in Errors /\ 0 \in 0 .. MaxBackends
    <3>1. "none" \in Errors /\ 0 \in 0 .. MaxBackends
      BY McpAssumption DEF Errors
    <3> QED
      BY <1>3, <3>1
  <2>2. (IF next = "leaving" THEN e ELSE "none") \in Errors
    BY <1>1, <2>1
  <2> HIDE DEF next
  <2>3. left \in Opener /\ left.pc = "leaving" /\ left.res = r /\ left.got = 0
    BY <1>1, <2>1 DEF Opener
  <2>4. done \in Opener /\ done.pc = next /\ done.res = r /\ done.got = 0
    BY <1>1, <2>1, <2>2 DEF Opener
  <2> QED
    BY <2>3, <2>4
<1> HIDE DEF v, c, next, left, done
<1>8. CASE ~runtimes[r].present
  <2>1. closing
    BY <1>1, <1>8, CallersAreCounted
  <2>2. /\ backend' = GoneBackend(b) /\ opener' = [opener EXCEPT ![o] = left]
        /\ runtimes' = runtimes /\ late' = late
    BY <1>6, <1>8
  <2>3. \A p \in Openers : /\ p # o => opener'[p] = opener[p]
                           /\ opener'[o] = left
    BY <1>1, <2>2 DEF McpInv, McpTypeOK
  <2>4. opener' \in [Openers -> Opener]
    BY <1>7, <2>2 DEF McpInv, McpTypeOK
  <2>5. backend' \in [Backends -> BackendStates]
    BY <2>2 DEF GoneBackend, McpInv, McpTypeOK, BackendStates
  <2>6. \A a \in Backends : backend'[a] = IF a = b THEN "dropped" ELSE backend[a]
    BY <1>1, <2>2, McpAssumption DEF GoneBackend, McpInv, McpTypeOK, Backends
  <2>7. McpTypeOK' /\ LateHasRoom' /\ ClosedKeepsNothing'
    BY <1>2, <2>2, <2>4, <2>5 DEF McpInv, McpTypeOK, LateHasRoom, ClosedKeepsNothing
  <2>8. \A q \in Resources : runtimes'[q].acquired = 0
    BY <2>1, <2>2 DEF McpInv, ClosedKeepsNothing, NoRuntime
  <2>9. \A p \in Openers : opener'[p].pc = "started" => p # o /\ opener'[p] = opener[p]
    BY <1>7, <2>3
  <2>10. OwnersAreApart'
    <3> SUFFICES ASSUME NEW p \in Openers, opener'[p].pc = "started", opener'[p].got # 0
                 PROVE  /\ backend'[opener'[p].got] = "live"
                        /\ opener'[p].outcome = "none"
                        /\ \A q \in Openers : opener'[q].pc = "started" /\ opener'[q].got = opener'[p].got => q = p
      BY <2>8 DEF OwnersAreApart, Fresh
    <3>1. p # o /\ opener'[p] = opener[p]
      BY <2>9
    <3>2. opener[p].got \in Backends
      BY <3>1, McpAssumption DEF McpInv, McpTypeOK, Opener, Backends
    <3>3. /\ backend[opener[p].got] = "live" /\ opener[p].outcome = "none"
          /\ \A q \in Openers : Fresh(q, opener[p].got) => q = p
      BY <3>1 DEF McpInv, OwnersAreApart
    <3>4. opener[p].got # b
      BY <1>1, <3>1, <3>3 DEF Fresh
    <3> QED
      BY <2>6, <2>9, <3>1, <3>2, <3>3, <3>4 DEF Fresh
  <2>11. StreamsHaveTheirs' /\ DemandIsCounted'
    BY <1>2, <2>1 DEF StreamsHaveTheirs, DemandIsCounted
  <2>12. NoBackendIsLost'
    <3> SUFFICES ASSUME NEW a \in Backends, backend'[a] = "live"
                 PROVE  \E p \in Openers : opener'[p].pc = "started" /\ opener'[p].got = a
      BY DEF NoBackendIsLost
    <3>1. a # b /\ backend[a] = "live" /\ a # 0
      BY <2>6 DEF Backends
    <3>2. \A q \in Resources : runtimes[q].acquired # a
      BY <2>2, <2>8, <3>1
    <3>3. PICK p \in Openers : opener[p].pc = "started" /\ opener[p].got = a
      BY <3>1, <3>2 DEF McpInv, NoBackendIsLost
    <3> QED
      BY <2>3, <3>1, <3>3
  <2> QED
    BY <2>7, <2>10, <2>11, <2>12 DEF McpInv
<1>9. CASE runtimes[r].present
  <2>1. ~closing
    BY <1>1, <1>9 DEF McpInv, ClosedKeepsNothing, NoRuntime
  <2>2. /\ SetRuntime(r, d) /\ backend' = backend
        /\ opener' = [w \in Openers |->
              IF w = o THEN done
              ELSE IF w \in Wakes(o)
              THEN [opener[w] EXCEPT !.pc = "loop", !.on = Nobody] ELSE opener[w]]
    BY <1>6, <1>9
  <2>3. /\ d \in Runtime /\ (d.present \/ d = NoRuntime) /\ (d.idle = "due" => c.idle = "due")
        /\ d.streams = c.streams /\ d.waiters = c.waiters
        /\ d.starting = c.starting /\ d.acquired = c.acquired
    BY <1>5, <1>9, DemandKept
  <2> HIDE DEF d
  <2>4. /\ runtimes' = [runtimes EXCEPT ![r] = d]
        /\ runtimes' \in [Resources -> Runtime]
        /\ \A q \in Resources : ~runtimes'[q].present => runtimes'[q] = NoRuntime
        /\ late' \in [Resources -> 0 .. MaxLate] /\ LateHasRoom'
    BY <1>1, <1>5, <2>2, <2>3, SetKeeps DEF McpInv
  <2>5. \A p \in Openers : /\ opener'[p] \in Opener
                           /\ opener'[p].res = opener[p].res
                           /\ p # o => /\ opener'[p].got = opener[p].got
                                       /\ opener'[p].outcome = opener[p].outcome
                                       /\ opener'[p].pc = "started" <=> opener[p].pc = "started"
                                       /\ opener'[p].pc = "starting" <=> opener[p].pc = "starting"
                                       /\ opener'[p].pc = "stream" <=> opener[p].pc = "stream"
                                       /\ opener'[p].pc = "idle" <=> opener[p].pc = "idle"
    <3> SUFFICES ASSUME NEW p \in Openers
                 PROVE  /\ opener'[p] \in Opener
                        /\ opener'[p].res = opener[p].res
                        /\ p # o => /\ opener'[p].got = opener[p].got
                                    /\ opener'[p].outcome = opener[p].outcome
                                    /\ opener'[p].pc = "started" <=> opener[p].pc = "started"
                                    /\ opener'[p].pc = "starting" <=> opener[p].pc = "starting"
                                    /\ opener'[p].pc = "stream" <=> opener[p].pc = "stream"
                                    /\ opener'[p].pc = "idle" <=> opener[p].pc = "idle"
      OBVIOUS
    <3>1. opener[p] \in Opener
      BY DEF McpInv, McpTypeOK
    <3>2. CASE p = o
      BY <1>7, <2>2, <3>2
    <3>3. CASE p # o /\ p \in Wakes(o)
      <4>1. opener'[p] = [opener[p] EXCEPT !.pc = "loop", !.on = Nobody]
        BY <2>2, <3>3
      <4>2. opener[p].pc = "waiting"
        BY <3>3 DEF Wakes
      <4> QED
        BY <3>1, <3>3, <4>1, <4>2 DEF Opener
    <3>4. CASE p # o /\ p \notin Wakes(o)
      BY <2>2, <3>1, <3>4
    <3> QED
      BY <3>2, <3>3, <3>4
  <2>6. opener'[o].pc \in {"loop", "leaving"} /\ opener'[o].got = 0
    BY <1>3, <1>7, <2>2
  <2>7. opener' \in [Openers -> Opener]
    <3>1. opener' = [w \in Openers |-> opener'[w]]
      BY <2>2
    <3> QED
      BY <2>5, <3>1
  <2>8. McpTypeOK'
    BY <1>2, <2>2, <2>4, <2>7 DEF McpInv, McpTypeOK
  <2>9. ClosedKeepsNothing'
    BY <1>2, <2>1 DEF ClosedKeepsNothing
  <2>10. o \in Starters(r) /\ Starters(r) = {o} /\ runtimes[r].starting = o /\ o # Nobody
    BY <1>1, <2>1, McpAssumption DEF McpInv, DemandIsCounted, Starters
  <2>11. runtimes[r].acquired = 0
    BY <1>1, <2>10 DEF McpInv, OwnersAreApart
  <2>12. b # 0 => e = "none"
    BY <1>1 DEF McpInv, OwnersAreApart
  <2>13. \A q \in Resources : /\ runtimes'[q].acquired = IF q = r THEN b ELSE runtimes[q].acquired
                              /\ runtimes'[q].starting = IF q = r THEN Nobody ELSE runtimes[q].starting
                              /\ runtimes'[q].streams = runtimes[q].streams
                              /\ runtimes'[q].waiters = runtimes[q].waiters
    BY <1>1, <1>5, <2>3, <2>4, <2>11, <2>12 DEF McpInv, McpTypeOK
  <2>14. DemandIsCounted'
    <3> SUFFICES ASSUME NEW q \in Resources
                 PROVE  /\ runtimes'[q].streams = Cardinality(StreamsOf(q)')
                        /\ runtimes'[q].waiters = Cardinality(WaitersOf(q)')
                        /\ Starters(q)' = {runtimes'[q].starting} \ {Nobody}
      BY DEF DemandIsCounted
    <3>1. StreamsOf(q)' = StreamsOf(q)
      BY <1>1, <2>5, <2>6 DEF StreamsOf
    <3>2. WaitersOf(q)' = WaitersOf(q)
      BY <1>1, <2>5, <2>6 DEF WaitersOf, InOpen
    <3>3. Starters(q)' = Starters(q) \ {o}
      BY <1>1, <2>5, <2>6 DEF Starters
    <3>4. q # r => o \notin Starters(q)
      BY DEF Starters
    <3> QED
      BY <2>1, <2>10, <2>13, <3>1, <3>2, <3>3, <3>4 DEF McpInv, DemandIsCounted
  <2>15. \A p \in Openers :
           /\ opener'[p].pc = "started" => /\ p # o /\ opener[p].pc = "started"
                                          /\ opener'[p].got = opener[p].got
                                          /\ opener'[p].outcome = opener[p].outcome
           /\ opener[p].pc = "started" /\ p # o =>
                opener'[p].pc = "started" /\ opener'[p].got = opener[p].got
    BY <2>5, <2>6
  <2>20. backend' = backend
    BY <2>2
  <2>16. b # 0 => /\ backend[b] = "live"
                  /\ \A p \in Openers : opener[p].pc = "started" /\ opener[p].got = b => p = o
                  /\ \A q \in Resources : runtimes[q].acquired # b
    BY <1>1 DEF McpInv, OwnersAreApart, Fresh
  <2>17. OwnersAreApart'
    <3>1. ASSUME NEW q \in Resources, runtimes'[q].acquired # 0
          PROVE  /\ backend'[runtimes'[q].acquired] = "live"
                 /\ runtimes'[q].starting = Nobody
                 /\ \A t \in Resources : runtimes'[t].acquired = runtimes'[q].acquired => t = q
                 /\ \A p \in Openers : ~(opener'[p].pc = "started" /\ opener'[p].got = runtimes'[q].acquired)
      <4>1. CASE q = r
        BY <2>20, <2>13, <2>15, <2>16, <3>1, <4>1
      <4>2. CASE q # r
        BY <2>20, <2>13, <2>15, <2>16, <3>1, <4>2 DEF McpInv, OwnersAreApart, Fresh
      <4> QED
        BY <4>1, <4>2
    <3>2. ASSUME NEW p \in Openers, opener'[p].pc = "started", opener'[p].got # 0
          PROVE  /\ backend'[opener'[p].got] = "live"
                 /\ opener'[p].outcome = "none"
                 /\ \A q \in Openers : opener'[q].pc = "started" /\ opener'[q].got = opener'[p].got => q = p
      <4>1. p # o
        BY <2>6, <3>2
      <4> QED
        BY <2>20, <2>5, <2>15, <3>2, <4>1 DEF McpInv, OwnersAreApart, Fresh
    <3> QED
      BY <3>1, <3>2 DEF OwnersAreApart, Fresh
  <2>18. StreamsHaveTheirs'
    <3> SUFFICES ASSUME NEW p \in Openers, opener'[p].pc = "stream"
                 PROVE  opener'[p].got # 0 /\ runtimes'[opener'[p].res].acquired = opener'[p].got
      BY DEF StreamsHaveTheirs
    <3>1. p # o
      BY <2>6
    <3>2. opener[p].got # 0 /\ runtimes[opener[p].res].acquired = opener[p].got
          /\ opener[p].res \in Resources
      BY <2>1, <2>5, <3>1 DEF McpInv, StreamsHaveTheirs, McpTypeOK, Opener
    <3> QED
      BY <2>5, <2>11, <2>13, <3>1, <3>2
  <2>19. NoBackendIsLost'
    <3> SUFFICES ASSUME NEW a \in Backends, backend'[a] = "live"
                 PROVE  \/ \E q \in Resources : runtimes'[q].acquired = a
                        \/ \E p \in Openers : opener'[p].pc = "started" /\ opener'[p].got = a
      BY DEF NoBackendIsLost
    <3>1. a # 0
      BY McpAssumption DEF Backends
    <3>4. backend[a] = "live"
      BY <2>2
    <3>2. CASE \E q \in Resources : runtimes[q].acquired = a
      BY <2>11, <2>13, <3>1, <3>2
    <3>3. CASE \E p \in Openers : opener[p].pc = "started" /\ opener[p].got = a
      BY <1>1, <2>5, <2>13, <3>3
    <3> QED
      BY <3>2, <3>3, <3>4 DEF McpInv, NoBackendIsLost
  <2> QED
    BY <2>4, <2>8, <2>9, <2>14, <2>17, <2>18, <2>19 DEF McpInv
<1> QED
  BY <1>8, <1>9

\* The deferred function of Open: the caller is counted no more.
LEMMA OpenFailsKeeps == ASSUME McpInv, NEW o \in Openers, OpenFails(o) PROVE McpInv'
<1> DEFINE r == opener[o].res
           c == [runtimes[r] EXCEPT !.waiters = @ - 1]
           d == LeftRuntime(runtimes[r])
           u == [opener[o] EXCEPT !.pc = "idle", !.ctx = "live", !.on = Nobody, !.err = "none"]
<1>1. /\ r \in Resources /\ opener[o] \in Opener /\ InOpen(o) /\ opener[o].pc = "leaving"
      /\ runtimes[r] \in Runtime
  BY DEF McpInv, McpTypeOK, Opener, OpenFails, InOpen
<1>2. /\ SetRuntime(r, d) /\ opener' = [opener EXCEPT ![o] = u]
      /\ closing' = closing /\ revoked' = revoked /\ backend' = backend
  BY DEF OpenFails
<1>3. /\ u \in Opener /\ u.pc = "idle" /\ u.res = r /\ u.got = opener[o].got
      /\ u.outcome = opener[o].outcome
  BY <1>1 DEF Opener, Errors
<1>4. runtimes[r].present /\ runtimes[r].waiters > 0 =>
        /\ c \in Runtime /\ c.present /\ c.idle = runtimes[r].idle
        /\ c.streams = runtimes[r].streams /\ c.waiters = runtimes[r].waiters - 1
        /\ c.starting = runtimes[r].starting /\ c.acquired = runtimes[r].acquired
  <2> SUFFICES ASSUME runtimes[r].present, runtimes[r].waiters > 0
               PROVE  /\ c \in Runtime /\ c.present /\ c.idle = runtimes[r].idle
                      /\ c.streams = runtimes[r].streams /\ c.waiters = runtimes[r].waiters - 1
                      /\ c.starting = runtimes[r].starting /\ c.acquired = runtimes[r].acquired
    OBVIOUS
  <2>1. runtimes[r].waiters - 1 \in Nat
    BY <1>1 DEF Runtime
  <2> QED
    BY <1>1, <2>1 DEF Runtime
<1>5. d = IF runtimes[r].present /\ runtimes[r].waiters > 0
          THEN ReleaseDemand(c) ELSE runtimes[r]
  BY DEF LeftRuntime
<1> HIDE DEF c, d, u
<1>6. /\ d \in Runtime /\ (d.present \/ d = NoRuntime)
      /\ (d.idle = "due" => runtimes[r].idle = "due")
      /\ d.streams = runtimes[r].streams
      /\ d.starting = runtimes[r].starting /\ d.acquired = runtimes[r].acquired
      /\ runtimes[r].present /\ runtimes[r].waiters > 0 => d.waiters = runtimes[r].waiters - 1
      /\ ~runtimes[r].present => d = runtimes[r]
  <2>1. CASE runtimes[r].present /\ runtimes[r].waiters > 0
    BY <1>4, <1>5, <2>1, DemandKept
  <2>2. CASE ~(runtimes[r].present /\ runtimes[r].waiters > 0)
    BY <1>1, <1>5, <2>2 DEF McpInv, McpTypeOK
  <2> QED
    BY <2>1, <2>2
<1>7. /\ runtimes' = [runtimes EXCEPT ![r] = d]
      /\ runtimes' \in [Resources -> Runtime]
      /\ \A q \in Resources : ~runtimes'[q].present => runtimes'[q] = NoRuntime
      /\ late' \in [Resources -> 0 .. MaxLate] /\ LateHasRoom'
  BY <1>1, <1>2, <1>6, SetKeeps DEF McpInv
<1>8. \A p \in Openers : opener'[p] = IF p = o THEN u ELSE opener[p]
  BY <1>2 DEF McpInv, McpTypeOK
<1>9. McpTypeOK'
  BY <1>2, <1>3, <1>7 DEF McpInv, McpTypeOK
<1>10. SameBackends
  <2>1. \A p \in Openers :
          /\ opener'[p].res = opener[p].res
          /\ opener'[p].got = opener[p].got
          /\ opener'[p].pc = "started" <=> opener[p].pc = "started"
          /\ opener[p].pc = "started" => opener'[p].outcome = opener[p].outcome
          /\ opener'[p].pc = "stream" <=> opener[p].pc = "stream"
    BY <1>1, <1>3, <1>8
  <2>2. \A q \in Resources : /\ runtimes'[q].acquired = runtimes[q].acquired
                             /\ runtimes'[q].starting = runtimes[q].starting
    BY <1>1, <1>6, <1>7 DEF McpInv, McpTypeOK
  <2> QED
    BY <1>2, <2>1, <2>2 DEF SameBackends
<1>11. ClosedKeepsNothing'
  <2> SUFFICES ASSUME closing PROVE \A q \in Resources : runtimes'[q] = NoRuntime
    BY <1>2 DEF McpInv, ClosedKeepsNothing
  <2>1. ~runtimes[r].present
    BY <1>1 DEF McpInv, ClosedKeepsNothing, NoRuntime
  <2> QED
    BY <1>6, <1>7, <2>1 DEF McpInv, ClosedKeepsNothing, McpTypeOK
<1>12. DemandIsCounted'
  <2> SUFFICES ASSUME ~closing, NEW q \in Resources
               PROVE  /\ runtimes'[q].streams = Cardinality(StreamsOf(q)')
                      /\ runtimes'[q].waiters = Cardinality(WaitersOf(q)')
                      /\ Starters(q)' = {runtimes'[q].starting} \ {Nobody}
    BY <1>2 DEF DemandIsCounted
  <2>1. StreamsOf(q)' = StreamsOf(q) /\ Starters(q)' = Starters(q)
    BY <1>1, <1>3, <1>8 DEF StreamsOf, Starters
  <2>2. WaitersOf(q)' = IF q = r THEN WaitersOf(q) \ {o} ELSE WaitersOf(q)
    BY <1>1, <1>3, <1>8 DEF WaitersOf, InOpen
  <2>3. q = r => o \in WaitersOf(q)
    BY <1>1 DEF WaitersOf
  <2>4. q = r => Cardinality(WaitersOf(q) \ {o}) = Cardinality(WaitersOf(q)) - 1
    BY <2>3, FS_RemoveElement, CallersAreFinite
  <2>5. runtimes[r].present /\ runtimes[r].waiters > 0
    BY <1>1, CallersAreCounted
  <2> QED
    BY <1>1, <1>6, <1>7, <2>1, <2>2, <2>4, <2>5 DEF McpInv, DemandIsCounted, McpTypeOK
<1> QED
  BY <1>7, <1>9, <1>10, <1>11, <1>12, SameBackendsKeep DEF McpInv

\* A stream is closed: the last demand arms the idle timer or, once the
\* backend is gone, deletes the runtime.
LEMMA CloseStreamKeeps == ASSUME McpInv, NEW o \in Openers, CloseStream(o) PROVE McpInv'
<1> DEFINE r == opener[o].res
           c == [runtimes[r] EXCEPT !.streams = @ - 1]
           d == IF runtimes[r].present /\ runtimes[r].streams > 0
                THEN ReleaseDemand(c) ELSE runtimes[r]
           u == [opener[o] EXCEPT !.pc = "idle", !.got = 0]
<1>1. /\ r \in Resources /\ opener[o] \in Opener /\ opener[o].pc = "stream"
      /\ runtimes[r] \in Runtime
  BY DEF McpInv, McpTypeOK, Opener, CloseStream
<1>2. /\ SetRuntime(r, d)
      /\ closing' = closing /\ revoked' = revoked /\ backend' = backend
  BY DEF CloseStream
<1>3. \A p \in Openers : opener'[p] = IF p = o THEN u ELSE opener[p]
  BY <1>1 DEF CloseStream, McpInv, McpTypeOK
<1>4. /\ u \in Opener /\ u.pc = "idle" /\ u.res = r
  <2>1. 0 \in 0 .. MaxBackends
    BY McpAssumption
  <2> QED
    BY <1>1, <2>1 DEF Opener
<1>5. runtimes[r].present /\ runtimes[r].streams > 0 =>
        /\ c \in Runtime /\ c.present /\ c.idle = runtimes[r].idle
        /\ c.streams = runtimes[r].streams - 1 /\ c.waiters = runtimes[r].waiters
        /\ c.starting = runtimes[r].starting /\ c.acquired = runtimes[r].acquired
  <2> SUFFICES ASSUME runtimes[r].present, runtimes[r].streams > 0
               PROVE  /\ c \in Runtime /\ c.present /\ c.idle = runtimes[r].idle
                      /\ c.streams = runtimes[r].streams - 1 /\ c.waiters = runtimes[r].waiters
                      /\ c.starting = runtimes[r].starting /\ c.acquired = runtimes[r].acquired
    OBVIOUS
  <2>1. runtimes[r].streams - 1 \in Nat
    BY <1>1 DEF Runtime
  <2> QED
    BY <1>1, <2>1 DEF Runtime
<1> HIDE DEF c, u
<1>6. /\ d \in Runtime /\ (d.present \/ d = NoRuntime)
      /\ (d.idle = "due" => runtimes[r].idle = "due")
      /\ d.waiters = runtimes[r].waiters
      /\ d.starting = runtimes[r].starting /\ d.acquired = runtimes[r].acquired
      /\ runtimes[r].present /\ runtimes[r].streams > 0 => d.streams = runtimes[r].streams - 1
      /\ ~runtimes[r].present => d = runtimes[r]
  <2>1. CASE runtimes[r].present /\ runtimes[r].streams > 0
    BY <1>5, <2>1, DemandKept
  <2>2. CASE ~(runtimes[r].present /\ runtimes[r].streams > 0)
    BY <1>1, <2>2 DEF McpInv, McpTypeOK
  <2> QED
    BY <2>1, <2>2
<1> HIDE DEF d
<1>7. /\ runtimes' = [runtimes EXCEPT ![r] = d]
      /\ runtimes' \in [Resources -> Runtime]
      /\ \A q \in Resources : ~runtimes'[q].present => runtimes'[q] = NoRuntime
      /\ late' \in [Resources -> 0 .. MaxLate] /\ LateHasRoom'
  BY <1>1, <1>2, <1>6, SetKeeps DEF McpInv
<1>8. opener' \in [Openers -> Opener]
  <2>1. opener' = [opener EXCEPT ![o] = u]
    BY <1>3 DEF CloseStream, McpInv, McpTypeOK
  <2> QED
    BY <1>4, <2>1 DEF McpInv, McpTypeOK
<1>9. McpTypeOK'
  BY <1>2, <1>7, <1>8 DEF McpInv, McpTypeOK
<1>10. \A q \in Resources : /\ runtimes'[q].acquired = runtimes[q].acquired
                            /\ runtimes'[q].starting = runtimes[q].starting
  BY <1>1, <1>6, <1>7 DEF McpInv, McpTypeOK
<1>11. OwnersAreApart' /\ NoBackendIsLost' /\ StreamsHaveTheirs'
  <2>1. \A p \in Openers :
          opener[p].pc = "started" \/ opener'[p].pc = "started" => opener'[p] = opener[p]
    BY <1>1, <1>3, <1>4
  <2>2. OwnersAreApart'
    <3>1. ASSUME NEW q \in Resources, runtimes'[q].acquired # 0
          PROVE  /\ backend'[runtimes'[q].acquired] = "live"
                 /\ runtimes'[q].starting = Nobody
                 /\ \A t \in Resources : runtimes'[t].acquired = runtimes'[q].acquired => t = q
                 /\ \A p \in Openers :
                      ~(opener'[p].pc = "started" /\ opener'[p].got = runtimes'[q].acquired)
      BY <1>2, <1>10, <2>1, <3>1 DEF McpInv, OwnersAreApart, Fresh
    <3>2. ASSUME NEW p \in Openers, opener'[p].pc = "started", opener'[p].got # 0
          PROVE  /\ backend'[opener'[p].got] = "live"
                 /\ opener'[p].outcome = "none"
                 /\ \A q \in Openers :
                      opener'[q].pc = "started" /\ opener'[q].got = opener'[p].got => q = p
      BY <1>2, <2>1, <3>2 DEF McpInv, OwnersAreApart, Fresh
    <3> QED
      BY <3>1, <3>2 DEF OwnersAreApart, Fresh
  <2>3. NoBackendIsLost'
    <3> SUFFICES ASSUME NEW a \in Backends, backend[a] = "live"
                 PROVE  \/ \E q \in Resources : runtimes'[q].acquired = a
                        \/ \E p \in Openers : opener'[p].pc = "started" /\ opener'[p].got = a
      BY <1>2 DEF NoBackendIsLost
    <3> QED
      BY <1>10, <2>1 DEF McpInv, NoBackendIsLost
  <2>4. StreamsHaveTheirs'
    BY <1>2, <1>3, <1>4, <1>10 DEF McpInv, StreamsHaveTheirs, McpTypeOK, Opener
  <2> QED
    BY <2>2, <2>3, <2>4
<1>12. ClosedKeepsNothing'
  <2> SUFFICES ASSUME closing PROVE \A q \in Resources : runtimes'[q] = NoRuntime
    BY <1>2 DEF McpInv, ClosedKeepsNothing
  <2>1. ~runtimes[r].present
    BY <1>1 DEF McpInv, ClosedKeepsNothing, NoRuntime
  <2> QED
    BY <1>6, <1>7, <2>1 DEF McpInv, ClosedKeepsNothing, McpTypeOK
<1>13. DemandIsCounted'
  <2> SUFFICES ASSUME ~closing, NEW q \in Resources
               PROVE  /\ runtimes'[q].streams = Cardinality(StreamsOf(q)')
                      /\ runtimes'[q].waiters = Cardinality(WaitersOf(q)')
                      /\ Starters(q)' = {runtimes'[q].starting} \ {Nobody}
    BY <1>2 DEF DemandIsCounted
  <2>1. WaitersOf(q)' = WaitersOf(q) /\ Starters(q)' = Starters(q)
    BY <1>1, <1>3, <1>4 DEF WaitersOf, InOpen, Starters
  <2>2. StreamsOf(q)' = IF q = r THEN StreamsOf(q) \ {o} ELSE StreamsOf(q)
    BY <1>1, <1>3, <1>4 DEF StreamsOf
  <2>3. q = r => o \in StreamsOf(q)
    BY <1>1 DEF StreamsOf
  <2>4. q = r => Cardinality(StreamsOf(q) \ {o}) = Cardinality(StreamsOf(q)) - 1
    BY <2>3, FS_RemoveElement, CallersAreFinite
  <2>5. runtimes[r].present /\ runtimes[r].streams > 0
    BY <1>1, CallersAreCounted
  <2> QED
    BY <1>1, <1>6, <1>7, <2>1, <2>2, <2>4, <2>5 DEF McpInv, DemandIsCounted, McpTypeOK
<1> QED
  BY <1>7, <1>9, <1>11, <1>12, <1>13 DEF McpInv

\* An idle callback, in time or late: it expires what nobody uses, or nothing.
LEMMA ExpireKeeps ==
  ASSUME McpInv, NEW r \in Resources, ExpireIdle(r) \/ ExpireLate(r) PROVE McpInv'
<1> DEFINE c == runtimes[r]
           d == Expired(runtimes[r])
<1>1. /\ closing' = closing /\ revoked' = revoked /\ opener' = opener
      /\ c \in Runtime /\ late[r] \in 0 .. MaxLate
  BY DEF ExpireIdle, ExpireLate, McpInv, McpTypeOK
<1>2. CASE Expires(c)
  <2>1. /\ c.present /\ c.waiters = 0 /\ c.streams = 0 /\ c.starting = Nobody
        /\ c.acquired # 0 /\ c.acquired \in Backends /\ ~closing
    BY <1>1, <1>2, McpAssumption DEF Expires, Needed, Runtime, Backends, McpInv, ClosedKeepsNothing, NoRuntime
  <2>2. /\ runtimes' = [runtimes EXCEPT ![r] = d]
        /\ backend' = [backend EXCEPT ![c.acquired] = "dropped"]
    BY <1>2 DEF ExpireIdle, ExpireLate
  <2>3. /\ d \in Runtime /\ (d.present \/ d = NoRuntime) /\ d.idle = "none"
        /\ d.streams = 0 /\ d.waiters = 0 /\ d.starting = Nobody /\ d.acquired = 0
    <3>1. CASE c.leases = 0
      BY <3>1, McpAssumption DEF Expired, NoRuntime, Runtime, Errors
    <3>2. CASE c.leases # 0
      <4> DEFINE n == [c EXCEPT !.acquired = 0, !.idle = "none", !.lastErr = "none",
                                !.backoff = FALSE]
      <4>1. d = n
        BY <3>2 DEF Expired
      <4>2. 0 \in 0 .. MaxBackends /\ "none" \in Errors
        BY McpAssumption DEF Errors
      <4>3. /\ n \in Runtime /\ n.present = c.present /\ n.idle = "none"
            /\ n.streams = c.streams /\ n.waiters = c.waiters /\ n.starting = c.starting
            /\ n.acquired = 0
        BY <1>1, <4>2 DEF Runtime
      <4> HIDE DEF n
      <4> QED
        BY <2>1, <4>1, <4>3
    <3> QED
      BY <3>1, <3>2
  <2> HIDE DEF d
  <2>4. late' \in [Resources -> 0 .. MaxLate] /\ \A q \in Resources \ {r} : late'[q] = late[q]
    <3>1. PICK n \in {0, late[r], late[r] - 1} :
            late' = [late EXCEPT ![r] = n] /\ (n = late[r] - 1 => n = 0 \/ late[r] > 0)
      <4>1. CASE ExpireIdle(r)
        <5>1. late' = [late EXCEPT ![r] = IF d.present THEN @ ELSE 0]
          BY <4>1 DEF ExpireIdle, d
        <5>2. late' = [late EXCEPT ![r] = 0] \/ late' = [late EXCEPT ![r] = late[r]]
          BY <5>1 DEF McpInv, McpTypeOK
        <5>3. late[r] = late[r] - 1 => FALSE
          BY <1>1, McpAssumption
        <5> QED
          BY <5>2, <5>3
      <4>2. CASE ExpireLate(r)
        <5>1. late[r] > 0
          BY <4>2 DEF ExpireLate
        <5>2. late' = [late EXCEPT ![r] =
                         CASE ~d.present -> 0
                           [] d.present /\ c.idle # "none" -> @
                           [] OTHER -> @ - 1]
          BY <1>2, <4>2 DEF ExpireLate, d
        <5>3. \/ late' = [late EXCEPT ![r] = 0]
              \/ late' = [late EXCEPT ![r] = late[r]]
              \/ late' = [late EXCEPT ![r] = late[r] - 1]
          BY <5>2 DEF McpInv, McpTypeOK
        <5> QED
          BY <5>1, <5>3
      <4> QED
        BY <4>1, <4>2
    <3>2. n \in 0 .. MaxLate
      BY <1>1, <3>1, McpAssumption
    <3> QED
      BY <3>1, <3>2 DEF McpInv, McpTypeOK
  <2>5. McpTypeOK'
    BY <1>1, <2>2, <2>3, <2>4 DEF McpInv, McpTypeOK, BackendStates
  <2>6. LateHasRoom'
    BY <2>2, <2>3, <2>4 DEF McpInv, McpTypeOK, LateHasRoom
  <2>7. SameDemand
    BY <1>1, <2>1, <2>2, <2>3 DEF SameDemand, InOpen, McpInv, McpTypeOK
  <2>8. ClosedKeepsNothing'
    BY <1>1, <2>1 DEF ClosedKeepsNothing
  <2>9. \A q \in Resources : runtimes'[q].acquired = IF q = r THEN 0 ELSE runtimes[q].acquired
    BY <2>2, <2>3 DEF McpInv, McpTypeOK
  <2>10. \A q \in Resources : q # r /\ runtimes[q].acquired # 0 => runtimes[q].acquired # c.acquired
    BY <2>1 DEF McpInv, OwnersAreApart
  <2>11. \A p \in Openers : opener[p].pc = "started" => opener[p].got # c.acquired
    BY <2>1 DEF McpInv, OwnersAreApart, Fresh
  <2>12. \A a \in Backends : backend'[a] = IF a = c.acquired THEN "dropped" ELSE backend[a]
    BY <2>2 DEF McpInv, McpTypeOK
  <2>13. /\ \A q \in Resources : runtimes[q].acquired # 0 => runtimes[q].acquired \in Backends
         /\ \A p \in Openers : opener[p].got # 0 => opener[p].got \in Backends
    <3>1. ASSUME NEW q \in Resources, runtimes[q].acquired # 0
          PROVE  runtimes[q].acquired \in Backends
      BY <3>1, McpAssumption DEF McpInv, McpTypeOK, Runtime, Backends
    <3>2. ASSUME NEW p \in Openers, opener[p].got # 0 PROVE opener[p].got \in Backends
      BY <3>2, McpAssumption DEF McpInv, McpTypeOK, Opener, Backends
    <3> QED
      BY <3>1, <3>2
  <2>14. OwnersAreApart'
    <3>1. ASSUME NEW q \in Resources, runtimes'[q].acquired # 0
          PROVE  /\ backend'[runtimes'[q].acquired] = "live"
                 /\ runtimes'[q].starting = Nobody
                 /\ \A t \in Resources : runtimes'[t].acquired = runtimes'[q].acquired => t = q
                 /\ \A p \in Openers :
                      ~(opener'[p].pc = "started" /\ opener'[p].got = runtimes'[q].acquired)
      <4>1. q # r /\ runtimes'[q] = runtimes[q]
        BY <2>2, <2>9, <3>1 DEF McpInv, McpTypeOK
      <4> QED
        BY <1>1, <2>9, <2>10, <2>12, <2>13, <3>1, <4>1 DEF McpInv, OwnersAreApart, Fresh
    <3>2. ASSUME NEW p \in Openers, opener'[p].pc = "started", opener'[p].got # 0
          PROVE  /\ backend'[opener'[p].got] = "live"
                 /\ opener'[p].outcome = "none"
                 /\ \A q \in Openers :
                      opener'[q].pc = "started" /\ opener'[q].got = opener'[p].got => q = p
      BY <1>1, <2>11, <2>12, <2>13, <3>2 DEF McpInv, OwnersAreApart, Fresh
    <3> QED
      BY <3>1, <3>2 DEF OwnersAreApart, Fresh
  <2>15. NoBackendIsLost'
    <3> SUFFICES ASSUME NEW a \in Backends, backend'[a] = "live"
                 PROVE  \/ \E q \in Resources : runtimes'[q].acquired = a
                        \/ \E p \in Openers : opener'[p].pc = "started" /\ opener'[p].got = a
      BY DEF NoBackendIsLost
    <3>1. a # c.acquired /\ backend[a] = "live"
      BY <2>12
    <3> QED
      BY <1>1, <2>9, <3>1 DEF McpInv, NoBackendIsLost
  <2>16. StreamsHaveTheirs'
    <3> SUFFICES ASSUME NEW p \in Openers, opener[p].pc = "stream"
                 PROVE  opener[p].got # 0 /\ runtimes'[opener[p].res].acquired = opener[p].got
      BY <1>1 DEF StreamsHaveTheirs
    <3>1. opener[p].res # r
      BY <2>1, CallersAreCounted
    <3> QED
      BY <2>1, <2>9, <3>1 DEF McpInv, StreamsHaveTheirs, McpTypeOK, Opener
  <2> QED
    BY <2>5, <2>6, <2>7, <2>8, <2>14, <2>15, <2>16, SameDemandKeeps DEF McpInv
<1>3. CASE ~Expires(c)
  <2>1. runtimes' = runtimes /\ backend' = backend /\ late[r] > 0
        /\ late' = [late EXCEPT ![r] = @ - 1]
    BY <1>3 DEF ExpireIdle, ExpireLate
  <2>2. late[r] - 1 \in 0 .. MaxLate /\ late[r] - 1 < late[r]
    BY <1>1, <2>1, McpAssumption
  <2>3. McpTypeOK'
    BY <1>1, <2>1, <2>2 DEF McpInv, McpTypeOK
  <2>4. LateHasRoom'
    BY <1>1, <2>1, <2>2, McpAssumption DEF McpInv, McpTypeOK, LateHasRoom
  <2>5. SameDemand /\ SameBackends /\ ClosedKeepsNothing'
    BY <1>1, <2>1 DEF SameDemand, SameBackends, InOpen, McpInv, ClosedKeepsNothing
  <2> QED
    BY <2>3, <2>4, <2>5, SameDemandKeeps, SameBackendsKeep DEF McpInv
<1> QED
  BY <1>2, <1>3

\* The shutdown of the handler drops every retained backend, once.
LEMMA ShutdownKeeps == ASSUME McpInv, Shutdown PROVE McpInv'
<1>1. /\ revoked /\ closing' = TRUE /\ revoked' = revoked /\ opener' = opener
      /\ runtimes' = [q \in Resources |-> NoRuntime] /\ late' = [q \in Resources |-> 0]
      /\ backend' = [b \in Backends |-> IF b \in ShutdownDrops THEN "dropped" ELSE backend[b]]
  BY DEF Shutdown
<1>2. NoRuntime \in Runtime /\ NoRuntime.idle = "none" /\ NoRuntime.acquired = 0
  BY McpAssumption DEF NoRuntime, Runtime, Errors
<1>3. McpTypeOK'
  <2>1. backend' \in [Backends -> BackendStates]
    BY <1>1 DEF McpInv, McpTypeOK, BackendStates
  <2>2. runtimes' \in [Resources -> Runtime]
        /\ \A q \in Resources : ~runtimes'[q].present => runtimes'[q] = NoRuntime
    BY <1>1, <1>2
  <2>3. late' \in [Resources -> 0 .. MaxLate] /\ closing' \in BOOLEAN /\ revoked' \in BOOLEAN
    BY <1>1, McpAssumption DEF McpInv, McpTypeOK
  <2> QED
    BY <1>1, <2>1, <2>2, <2>3 DEF McpInv, McpTypeOK
<1>4. /\ LateHasRoom' /\ ClosedKeepsNothing' /\ DemandIsCounted' /\ StreamsHaveTheirs'
  BY <1>1, <1>2 DEF LateHasRoom, ClosedKeepsNothing, DemandIsCounted, StreamsHaveTheirs
<1>5. OwnersAreApart'
  <2> SUFFICES ASSUME NEW p \in Openers, opener[p].pc = "started", opener[p].got # 0
               PROVE  backend'[opener[p].got] = "live"
    BY <1>1, <1>2 DEF McpInv, OwnersAreApart, Fresh
  <2>1. opener[p].got \in Backends
    BY McpAssumption DEF McpInv, McpTypeOK, Opener, Backends
  <2>2. opener[p].got \notin ShutdownDrops
    BY DEF McpInv, OwnersAreApart, Fresh, ShutdownDrops
  <2> QED
    BY <1>1, <2>1, <2>2 DEF McpInv, OwnersAreApart
<1>6. NoBackendIsLost'
  <2> SUFFICES ASSUME NEW a \in Backends, backend'[a] = "live"
               PROVE  \E p \in Openers : opener'[p].pc = "started" /\ opener'[p].got = a
    BY DEF NoBackendIsLost
  <2>1. backend[a] = "live" /\ a \notin ShutdownDrops
    BY <1>1
  <2>2. a # 0
    BY McpAssumption DEF Backends
  <2> QED
    BY <1>1, <2>1, <2>2 DEF McpInv, NoBackendIsLost, ShutdownDrops
<1> QED
  BY <1>3, <1>4, <1>5, <1>6 DEF McpInv

LEMMA McpInvStep == McpInv /\ [McpNext]_mcpVars => McpInv'
<1> SUFFICES ASSUME McpInv, [McpNext]_mcpVars PROVE McpInv'
  OBVIOUS
<1>1. CASE UNCHANGED mcpVars
  <2>1. /\ runtimes' = runtimes /\ closing' = closing /\ revoked' = revoked
        /\ opener' = opener /\ backend' = backend /\ late' = late
    BY <1>1 DEF mcpVars
  <2>2. SameDemand /\ SameBackends
    BY <2>1 DEF SameDemand, SameBackends, InOpen
  <2>3. McpTypeOK' /\ LateHasRoom' /\ ClosedKeepsNothing'
    BY <2>1 DEF McpInv, McpTypeOK, LateHasRoom, ClosedKeepsNothing
  <2> QED
    BY <2>2, <2>3, SameDemandKeeps, SameBackendsKeep DEF McpInv
<1>2. ASSUME NEW r \in Resources, LeaseAcquired(r) PROVE McpInv'
  BY <1>2, LeaseAcquiredKeeps
<1>3. ASSUME NEW r \in Resources, LeaseReleased(r) PROVE McpInv'
  BY <1>3, LeaseReleasedKeeps
<1>4. ASSUME NEW r \in Resources, RetryDue(r) \/ IdleDue(r) PROVE McpInv'
  BY <1>4, TimersKeep
<1>5. ASSUME NEW r \in Resources, ExpireIdle(r) \/ ExpireLate(r) PROVE McpInv'
  BY <1>5, ExpireKeeps
<1>6. ASSUME NEW o \in Openers, OpenBegin(o) PROVE McpInv'
  BY <1>6, OpenBeginKeeps
<1>7. ASSUME NEW o \in Openers, CancelContext(o) \/ WaitCancelled(o) \/ BackoffElapsed(o)
      PROVE  McpInv'
  BY <1>7, MovesKeep
<1>8. ASSUME NEW o \in Openers, JoinBackend(o) PROVE McpInv'
  BY <1>8, JoinKeeps
<1>9. ASSUME NEW o \in Openers, Loop(o) PROVE McpInv'
  BY <1>9, LoopKeeps
<1>10. ASSUME NEW o \in Openers, StartSucceeds(o) \/ BackendStartFails(o) PROVE McpInv'
  BY <1>10, StartKeeps
<1>11. ASSUME NEW o \in Openers, Store(o) PROVE McpInv'
  BY <1>11, StoreKeeps
<1>12. ASSUME NEW o \in Openers, OpenFails(o) PROVE McpInv'
  BY <1>12, OpenFailsKeeps
<1>13. ASSUME NEW o \in Openers, CloseStream(o) PROVE McpInv'
  BY <1>13, CloseStreamKeeps
<1>14. ASSUME NEW b \in Backends, BackendReleased(b) PROVE McpInv'
  BY <1>14, BackendReleasedKeeps
<1>15. CASE RevokeLeases
  BY <1>15, TimersKeep
<1>16. CASE Shutdown
  BY <1>16, ShutdownKeeps
<1> QED
  BY <1>1, <1>2, <1>3, <1>4, <1>5, <1>6, <1>7, <1>8, <1>9, <1>10, <1>11, <1>12, <1>13, <1>14,
    <1>15, <1>16 DEF McpNext

\* The inductive invariant of the handler (resourcehandler.Service).
THEOREM HandlerInvariant == McpSpec => []McpInv
BY McpInitInv, McpInvStep, PTL DEF McpSpec

\* Callers that open, leave, cancel and expire at once share one backend of a
\* resource, and none is lost (Open, store, releaseDemandLocked, expireIdle).
THEOREM HandlerSharesBackends == McpSpec => []BackendsAreShared
BY HandlerInvariant, McpInvShares, PTL

----------------------------------------
(* The targets.                                                            *)

Phases == {"none", "starting", "ready", "retiring", "ended"}
Holder == [state : {"none", "opening", "active", "closed"}, key : Keys \cup {NoKey},
           gen : Generation \cup {0}]
User == [state : {"none", "open", "closed"}, key : Keys \cup {NoKey}, gen : Generation \cup {0}]

PoolTypeOK ==
  /\ closed \in BOOLEAN
  /\ phase \in [Generation -> Phases]
  /\ owner \in [Generation -> Keys \cup {NoKey}]
  /\ alive \subseteq Generation
  /\ holder \in [Leases -> Holder]
  /\ user \in [Connectors -> User]

\* A generation starts only as long as a lease waits for it.
StartsAreAwaited ==
  \A g \in Generation :
    phase[g] = "starting" => owner[g] \in Keys /\ LeasesOf(owner[g], "opening") # {}

Occupied(g) == phase[g] \in {"starting", "ready", "retiring"}

OneOccupant ==
  \A g, h \in Generation : Occupied(g) /\ Occupied(h) /\ owner[g] = owner[h] => g = h

PoolInv == PoolTypeOK /\ StartsAreAwaited /\ OneOccupant

TargetSteps == {"none", "prepared", "acquire", "waiting", "unregister", "failed", "held", "wait",
                "release", "drop", "done"}
Target ==
  [pc : TargetSteps, key : Keys \cup {NoKey}, lease : Leases \cup {NoLease}, accepting : BOOLEAN,
   live : BOOLEAN, service : BOOLEAN,
   revoke : {"none", "cancel", "service", "closing", "revoked"}, closing : SUBSET Connectors]
ServeSteps == {"none", "look", "reacquire", "waiting", "giveback", "yield", "open", "serving",
               "close", "returned"}
Call ==
  [pc : ServeSteps, target : Targets \cup {NoTarget}, lease : Leases \cup {NoLease},
   connector : Connectors \cup {NoConnector}]

TargetsTypeOK ==
  /\ kind \in [Targets -> {"http", "stdio", "plain"}]
  /\ target \in [Targets -> Target]
  /\ plans \in [Keys -> [plan : Targets \cup {NoTarget}, refs : Nat]]
  /\ pinned \subseteq Targets
  /\ reads \in [Generation -> Targets \cup {NoTarget}]
  /\ serve \in [Connections -> Call]
  /\ resolver \in [pc : {"open", "revoke", "release", "done"}, closing : BOOLEAN,
                   active : SUBSET Targets]

Unheld == {"none", "prepared", "acquire", "waiting", "unregister", "failed"}
Leaving == {"wait", "release", "drop", "done"}

\* Each kind of target takes its own steps, under a key if it has a plan, and
\* accepts no stream once it is revoked.
TargetsInOrder ==
  \A t \in Targets :
    /\ kind[t] = "plain" => target[t].pc \in {"none", "held", "done"}
    /\ kind[t] = "stdio" =>
         target[t].pc \in {"none", "prepared", "failed", "held", "wait", "release", "done"}
    /\ kind[t] = "http" /\ target[t].pc # "none" => target[t].key \in Keys
    /\ target[t].pc \in Unheld => target[t].revoke = "none"
    /\ target[t].revoke # "none" => ~target[t].accepting
    /\ target[t].pc \in Leaving => target[t].revoke # "none"

\* A stream under way keeps its target from being released.
StreamsHoldTargets ==
  \A s \in Connections : serve[s].pc \notin {"none", "returned"} =>
    /\ serve[s].target \in Targets
    /\ kind[serve[s].target] # "plain" => target[serve[s].target].pc \in {"held", "wait"}
    /\ serve[s].pc # "serving" => kind[serve[s].target] = "http"

TargetHas(t, l) ==
  kind[t] = "http" /\ target[t].pc \in {"waiting", "held", "wait", "release"} /\ target[t].lease = l

StreamHas(s, l) == serve[s].pc \in {"waiting", "giveback", "yield"} /\ serve[s].lease = l

\* A lease is in the hands of a target or of a stream until it is closed.
LeasesAreHeld ==
  /\ \A t \in Targets : target[t].pc = "waiting" =>
       /\ target[t].lease \in Leases
       /\ holder[target[t].lease].key = target[t].key
       /\ holder[target[t].lease].state # "none"
  /\ \A t \in Targets : kind[t] = "http" /\ target[t].pc \in {"held", "wait", "release"} =>
       target[t].lease \in Leases /\ holder[target[t].lease].state \in {"active", "closed"}
  /\ \A s \in Connections : serve[s].pc = "waiting" =>
       /\ serve[s].lease \in Leases
       /\ holder[serve[s].lease].key = target[serve[s].target].key
       /\ holder[serve[s].lease].state # "none"
  /\ \A s \in Connections : serve[s].pc \in {"giveback", "yield"} =>
       serve[s].lease \in Leases /\ holder[serve[s].lease].state \in {"active", "closed"}
  /\ \A l \in Leases : holder[l].state \in {"opening", "active"} =>
       \/ \E t \in Targets : TargetHas(t, l)
       \/ \E s \in Connections : StreamHas(s, l)

\* An open connector is in the hands of the stream that serves through it.
ConnectorsAreHeld ==
  /\ \A s \in Connections :
       serve[s].pc \in {"serving", "close"} /\ kind[serve[s].target] = "http" =>
         serve[s].connector \in Connectors
  /\ \A c \in Connectors : user[c].state = "open" =>
       \E s \in Connections : /\ serve[s].connector = c /\ serve[s].pc \in {"serving", "close"}
                              /\ kind[serve[s].target] = "http"

PlansAreCounted == \A k \in Keys : plans[k].refs = Cardinality(Counted(k))

PlanOf(k, t) == k \in Keys /\ plans[k].refs > 0 /\ plans[k].plan = t

\* The mounts of a target are open as long as it is being prepared, holds its
\* launch, or gave its plan to the entry of its key.
PinsAreOwned ==
  /\ \A k \in Keys : plans[k].refs > 0 =>
       /\ plans[k].plan \in pinned
       /\ kind[plans[k].plan] = "http"
       /\ target[plans[k].plan].key = k
       /\ target[plans[k].plan].pc \notin {"none", "prepared"}
  /\ \A t \in Targets : target[t].pc = "prepared" => t \in pinned
  /\ \A t \in pinned :
       \/ target[t].pc = "prepared"
       \/ kind[t] = "stdio" /\ target[t].pc \in {"held", "wait", "release"}
       \/ kind[t] = "http" /\ PlanOf(target[t].key, t)

\* What a start has read is the plan of its key still.
ReadsAreCurrent ==
  \A g \in Generation :
    /\ phase[g] = "none" => reads[g] = NoTarget
    /\ phase[g] = "starting" /\ reads[g] # NoTarget => reads[g] = plans[owner[g]].plan

\* The shutdown waits for every target that was registered, and none is
\* registered after it has begun.
ShutdownHasAll ==
  /\ resolver.closing <=> resolver.pc # "open"
  /\ resolver.pc # "open" => \A t \in Targets :
       kind[t] = "stdio" /\ target[t].pc \in {"held", "wait", "release"} => t \in resolver.active
  /\ resolver.pc = "done" => \A t \in resolver.active : target[t].pc = "done"

TargetsInv ==
  /\ PoolInv
  /\ TargetsTypeOK
  /\ TargetsInOrder
  /\ StreamsHoldTargets
  /\ LeasesAreHeld
  /\ ConnectorsAreHeld
  /\ PlansAreCounted
  /\ PinsAreOwned
  /\ ReadsAreCurrent
  /\ ShutdownHasAll

----------------------------------------

\* A step of the pool: every lease but those of S keeps its key and goes on
\* from waiting over active to closed; a generation begins once.
LeasesShed(S) ==
  /\ \A l \in Leases \ S :
       /\ holder'[l].key = holder[l].key
       /\ holder'[l].state = "none" <=> holder[l].state = "none"
       /\ holder'[l].state = "opening" => holder[l].state = "opening"
       /\ holder'[l].state = "active" => holder[l].state \in {"opening", "active"}
  /\ \A g \in Generation :
       /\ phase'[g] = "none" => phase[g] = "none"
       /\ phase'[g] = "starting" =>
            phase[g] = "none" \/ (phase[g] = "starting" /\ owner'[g] = owner[g])

\* No connector is opened by it.
PoolSheds(S) ==
  /\ LeasesShed(S)
  /\ \A c \in Connectors : user'[c].state = "open" => user[c].state = "open"

LEMMA ClosedOnes ==
  ASSUME PoolTypeOK, NEW S, holder' = Closed(S)
  PROVE  /\ holder' \in [Leases -> Holder]
         /\ \A l \in Leases : /\ holder'[l].key = holder[l].key
                              /\ l \in S => holder'[l].state = "closed"
                              /\ l \notin S => holder'[l] = holder[l]
<1>1. ASSUME NEW l \in Leases
      PROVE  /\ holder'[l] \in Holder /\ holder'[l].key = holder[l].key
             /\ l \in S => holder'[l].state = "closed"
             /\ l \notin S => holder'[l] = holder[l]
  <2>1. holder[l] \in Holder
    BY DEF PoolTypeOK
  <2>2. holder'[l] = IF l \in S THEN [holder[l] EXCEPT !.state = "closed", !.gen = 0] ELSE holder[l]
    BY DEF Closed
  <2>3. CASE l \in S
    BY <2>1, <2>2, <2>3 DEF Holder
  <2>4. CASE l \notin S
    BY <2>1, <2>2, <2>4
  <2> QED
    BY <2>3, <2>4
<1>2. holder' = [l \in Leases |-> holder'[l]]
  BY DEF Closed
<1> QED
  BY <1>1, <1>2

LEMMA DisconnectedOnes ==
  ASSUME PoolTypeOK, NEW S, user' = Disconnect(S)
  PROVE  /\ user' \in [Connectors -> User]
         /\ \A c \in Connectors : user'[c].state = "open" => c \notin S /\ user'[c] = user[c]
<1>1. ASSUME NEW c \in Connectors
      PROVE  user'[c] \in User /\ (user'[c].state = "open" => c \notin S /\ user'[c] = user[c])
  <2>1. user[c] \in User
    BY DEF PoolTypeOK
  <2>2. user'[c] = IF c \in S THEN [user[c] EXCEPT !.state = "closed"] ELSE user[c]
    BY DEF Disconnect
  <2>3. CASE c \in S
    BY <2>1, <2>2, <2>3 DEF User
  <2>4. CASE c \notin S
    BY <2>1, <2>2, <2>4
  <2> QED
    BY <2>3, <2>4
<1>2. user' = [c \in Connectors |-> user'[c]]
  BY DEF Disconnect
<1> QED
  BY <1>1, <1>2

\* Leases that end, generations that end.
LEMMA LeaveSheds ==
  ASSUME PoolInv, NEW l \in Leases, Leave(l)
  PROVE  /\ PoolInv' /\ PoolSheds({}) /\ holder'[l].state = "closed" /\ user' = user
<1> DEFINE k == holder[l].key
<1>1. /\ holder[l].state \in {"opening", "active"} /\ holder' = Closed({l})
      /\ closed' = closed /\ owner' = owner /\ alive' = alive /\ user' = user
  BY DEF Leave
<1>2. \A g \in Generation : phase'[g] =
        IF phase[g] = "starting" /\ owner[g] = k /\ LeasesOf(k, "opening") \subseteq {l}
        THEN Rest(g) ELSE phase[g]
  BY DEF Leave
<1>3. phase' \in [Generation -> Phases]
  <2>1. \A g \in Generation : phase'[g] \in Phases
    BY <1>2 DEF PoolInv, PoolTypeOK, Phases, Rest
  <2>2. phase' = [g \in Generation |-> phase'[g]]
    BY DEF Leave
  <2> QED
    BY <2>1, <2>2
<1>4. /\ holder' \in [Leases -> Holder] /\ holder'[l].state = "closed"
      /\ \A m \in Leases : /\ holder'[m].key = holder[m].key
                           /\ m # l => holder'[m] = holder[m]
  <2>1. PoolTypeOK /\ holder' = Closed({l})
    BY <1>1 DEF PoolInv
  <2>2. /\ holder' \in [Leases -> Holder]
        /\ \A m \in Leases : /\ holder'[m].key = holder[m].key
                             /\ m \in {l} => holder'[m].state = "closed"
                             /\ m \notin {l} => holder'[m] = holder[m]
    BY <2>1, ClosedOnes
  <2> QED
    BY <2>2
<1>5. PoolTypeOK'
  BY <1>1, <1>3, <1>4 DEF PoolInv, PoolTypeOK
<1>6. StartsAreAwaited'
  <2> SUFFICES ASSUME NEW g \in Generation, phase'[g] = "starting"
               PROVE  owner[g] \in Keys /\ LeasesOf(owner[g], "opening")' # {}
    BY <1>1 DEF StartsAreAwaited, LeasesOf
  <2>1. phase[g] = "starting" /\ ~(owner[g] = k /\ LeasesOf(k, "opening") \subseteq {l})
    BY <1>2 DEF Rest
  <2>2. owner[g] \in Keys /\ LeasesOf(owner[g], "opening") # {}
    BY <2>1 DEF PoolInv, StartsAreAwaited
  <2>3. PICK m \in Leases : m # l /\ holder[m].key = owner[g] /\ holder[m].state = "opening"
    BY <2>1, <2>2 DEF LeasesOf
  <2>4. m \in LeasesOf(owner[g], "opening")'
    BY <1>4, <1>1, <2>3 DEF LeasesOf
  <2> QED
    BY <2>2, <2>4
<1>7. OneOccupant'
  BY <1>1, <1>2 DEF PoolInv, OneOccupant, Occupied, Rest
<1>8. PoolSheds({})
  BY <1>1, <1>2, <1>4 DEF PoolSheds, LeasesShed, Rest
<1> QED
  BY <1>1, <1>4, <1>5, <1>6, <1>7, <1>8 DEF PoolInv

LEMMA JoinsShed ==
  ASSUME PoolInv, NEW l \in Leases, NEW k \in Keys, AcquireBy(l, k)
  PROVE  /\ PoolInv' /\ PoolSheds({l}) /\ user' = user
         /\ holder[l].state = "none" /\ holder'[l].key = k
         /\ holder'[l].state \in {"opening", "active"}
<1>1. closed' = closed /\ user' = user /\ holder[l].state = "none"
  BY DEF AcquireBy, Join, JoinAndBegin, JoinReady
<1>2. \/ /\ holder' = [holder EXCEPT ![l] = Waits(k)] /\ phase' = phase /\ owner' = owner
         /\ alive' = alive
      \/ /\ holder' = [holder EXCEPT ![l] = Waits(k)] /\ \E g \in Generation : Begins(g, k)
      \/ /\ phase' = phase /\ owner' = owner /\ alive' = alive
         /\ \E g \in Generation :
              holder' = [holder EXCEPT ![l] = [state |-> "active", key |-> k, gen |-> g]]
  BY DEF AcquireBy, Join, JoinAndBegin, JoinReady
<1>3. /\ holder' \in [Leases -> Holder] /\ holder'[l].key = k
      /\ holder'[l].state \in {"opening", "active"}
      /\ \A m \in Leases : m # l => holder'[m] = holder[m]
  BY <1>2 DEF Waits, Holder, PoolInv, PoolTypeOK
<1>5. CASE phase' = phase /\ owner' = owner /\ alive' = alive
  <2>1. PoolTypeOK' /\ OneOccupant'
    BY <1>1, <1>3, <1>5 DEF PoolInv, PoolTypeOK, OneOccupant, Occupied
  <2>2. StartsAreAwaited'
    <3> SUFFICES ASSUME NEW g \in Generation, phase[g] = "starting"
                 PROVE  owner[g] \in Keys /\ LeasesOf(owner[g], "opening")' # {}
      BY <1>5 DEF StartsAreAwaited, LeasesOf
    <3>1. owner[g] \in Keys /\ LeasesOf(owner[g], "opening") # {}
      BY DEF PoolInv, StartsAreAwaited
    <3>2. LeasesOf(owner[g], "opening") \subseteq LeasesOf(owner[g], "opening")'
      BY <1>1, <1>3, <1>5 DEF LeasesOf
    <3> QED
      BY <3>1, <3>2
  <2>3. PoolSheds({l})
    BY <1>1, <1>3, <1>5 DEF PoolSheds, LeasesShed
  <2> QED
    BY <1>1, <1>3, <2>1, <2>2, <2>3 DEF PoolInv
<1>6. ASSUME NEW g \in Generation, Begins(g, k), holder' = [holder EXCEPT ![l] = Waits(k)]
      PROVE  PoolInv' /\ PoolSheds({l})
  <2>1. /\ phase[g] = "none" /\ phase' = [phase EXCEPT ![g] = "starting"]
        /\ owner' = [owner EXCEPT ![g] = k] /\ alive' = alive \cup {g} /\ Vacant(k)
    BY <1>6 DEF Begins
  <2>2. PoolTypeOK'
    BY <1>1, <1>3, <2>1 DEF PoolInv, PoolTypeOK, Phases
  <2>3. holder'[l] = Waits(k)
    BY <1>6 DEF PoolInv, PoolTypeOK
  <2>4. StartsAreAwaited'
    <3> SUFFICES ASSUME NEW h \in Generation, phase'[h] = "starting"
                 PROVE  owner'[h] \in Keys /\ LeasesOf(owner[h], "opening")' # {}
      BY DEF StartsAreAwaited
    <3>1. CASE h = g
      <4>1. owner'[h] = k
        BY <2>1, <3>1 DEF PoolInv, PoolTypeOK
      <4>2. l \in LeasesOf(owner[h], "opening")'
        BY <2>3, <4>1 DEF LeasesOf, Waits
      <4> QED
        BY <4>1, <4>2
    <3>2. CASE h # g
      <4>1. phase[h] = "starting" /\ owner'[h] = owner[h]
        BY <2>1, <3>2 DEF PoolInv, PoolTypeOK
      <4>2. owner[h] \in Keys /\ LeasesOf(owner[h], "opening") # {}
        BY <4>1 DEF PoolInv, StartsAreAwaited
      <4>3. LeasesOf(owner[h], "opening") \subseteq LeasesOf(owner[h], "opening")'
        BY <1>1, <1>3, <4>1 DEF LeasesOf
      <4> QED
        BY <4>1, <4>2, <4>3
    <3> QED
      BY <3>1, <3>2
  <2>5. OneOccupant'
    BY <2>1 DEF PoolInv, PoolTypeOK, OneOccupant, Occupied, Vacant
  <2>6. PoolSheds({l})
    BY <1>1, <1>3, <2>1 DEF PoolSheds, LeasesShed, PoolInv, PoolTypeOK
  <2> QED
    BY <2>2, <2>4, <2>5, <2>6 DEF PoolInv
<1> QED
  BY <1>1, <1>2, <1>3, <1>5, <1>6

\* The steps of the pool that are not a caller's.
PoolsOwn ==
  \/ \E g \in Generation :
       \/ \E k \in Keys : Begin(g, k)
       \/ Publish(g) \/ StartFails(g) \/ Retire(g) \/ Exit(g) \/ Notice(g)
  \/ \E k \in Keys : Refuse(k)
  \/ Close

LEMMA OwnStepsShed == ASSUME PoolInv, PoolsOwn PROVE PoolInv' /\ PoolSheds({})
<1> USE DEF PoolInv
<1>1. ASSUME NEW g \in Generation, NEW k \in Keys, Begin(g, k) PROVE PoolInv' /\ PoolSheds({})
  <2>1. /\ phase[g] = "none" /\ phase' = [phase EXCEPT ![g] = "starting"]
        /\ owner' = [owner EXCEPT ![g] = k] /\ alive' = alive \cup {g} /\ Vacant(k)
        /\ closed' = closed /\ holder' = holder /\ user' = user
        /\ LeasesOf(k, "opening") # {}
    BY <1>1 DEF Begin, Begins
  <2>2. PoolTypeOK'
    BY <2>1 DEF PoolTypeOK, Phases
  <2>3. StartsAreAwaited'
    BY <2>1 DEF StartsAreAwaited, PoolTypeOK, LeasesOf
  <2>4. OneOccupant'
    BY <2>1 DEF PoolTypeOK, OneOccupant, Occupied, Vacant
  <2>5. PoolSheds({})
    BY <2>1 DEF PoolSheds, LeasesShed, PoolTypeOK
  <2> QED
    BY <2>2, <2>3, <2>4, <2>5
<1>2. ASSUME NEW g \in Generation, Publish(g) PROVE PoolInv' /\ PoolSheds({})
  <2>1. /\ phase[g] = "starting" /\ phase' = [phase EXCEPT ![g] = "ready"]
        /\ closed' = closed /\ owner' = owner /\ alive' = alive /\ user' = user
    BY <1>2 DEF Publish
  <2>2. ASSUME NEW l \in Leases
        PROVE  /\ holder'[l] \in Holder /\ holder'[l].key = holder[l].key
               /\ l \in LeasesOf(owner[g], "opening") => holder'[l].state = "active"
               /\ l \notin LeasesOf(owner[g], "opening") => holder'[l] = holder[l]
    <3>1. holder[l] \in Holder
      BY DEF PoolTypeOK
    <3>2. holder'[l] = IF l \in LeasesOf(owner[g], "opening")
                       THEN [holder[l] EXCEPT !.state = "active", !.gen = g] ELSE holder[l]
      BY <1>2 DEF Publish
    <3>3. CASE l \in LeasesOf(owner[g], "opening")
      BY <3>1, <3>2, <3>3 DEF Holder
    <3>4. CASE l \notin LeasesOf(owner[g], "opening")
      BY <3>1, <3>2, <3>4
    <3> QED
      BY <3>3, <3>4
  <2>3. holder' \in [Leases -> Holder]
    <3>1. holder' = [l \in Leases |-> holder'[l]]
      BY <1>2 DEF Publish
    <3> QED
      BY <2>2, <3>1
  <2>4. PoolTypeOK'
    BY <2>1, <2>3 DEF PoolTypeOK, Phases
  <2>5. StartsAreAwaited'
    <3> SUFFICES ASSUME NEW h \in Generation, phase'[h] = "starting"
                 PROVE  owner[h] \in Keys /\ LeasesOf(owner[h], "opening")' # {}
      BY <2>1 DEF StartsAreAwaited, LeasesOf
    <3>1. h # g /\ phase[h] = "starting"
      BY <2>1 DEF PoolTypeOK
    <3>2. owner[h] # owner[g]
      BY <2>1, <3>1 DEF OneOccupant, Occupied
    <3>3. owner[h] \in Keys /\ LeasesOf(owner[h], "opening") # {}
      BY <3>1 DEF StartsAreAwaited
    <3>4. LeasesOf(owner[h], "opening") \subseteq LeasesOf(owner[h], "opening")'
      BY <2>1, <2>2, <3>2 DEF LeasesOf
    <3> QED
      BY <3>3, <3>4
  <2>6. OneOccupant'
    BY <2>1 DEF PoolTypeOK, OneOccupant, Occupied
  <2>7. PoolSheds({})
    <3>1. \A l \in LeasesOf(owner[g], "opening") : l \in Leases /\ holder[l].state = "opening"
      BY DEF LeasesOf
    <3> QED
      BY <2>1, <2>2, <3>1 DEF PoolSheds, LeasesShed, PoolTypeOK
  <2> QED
    BY <2>4, <2>5, <2>6, <2>7
<1>3. ASSUME NEW g \in Generation, StartFails(g) PROVE PoolInv' /\ PoolSheds({})
  <2> DEFINE S == LeasesOf(owner[g], "opening")
  <2>1. /\ phase[g] = "starting" /\ phase' = [phase EXCEPT ![g] = Rest(g)] /\ holder' = Closed(S)
        /\ closed' = closed /\ owner' = owner /\ alive' = alive /\ user' = user
    BY <1>3 DEF StartFails
  <2>2. /\ holder' \in [Leases -> Holder]
        /\ \A l \in Leases : /\ holder'[l].key = holder[l].key
                             /\ l \in S => holder'[l].state = "closed"
                             /\ l \notin S => holder'[l] = holder[l]
    BY <2>1, ClosedOnes
  <2>3. PoolTypeOK'
    BY <2>1, <2>2 DEF PoolTypeOK, Phases, Rest
  <2>4. StartsAreAwaited'
    <3> SUFFICES ASSUME NEW h \in Generation, phase'[h] = "starting"
                 PROVE  owner[h] \in Keys /\ LeasesOf(owner[h], "opening")' # {}
      BY <2>1 DEF StartsAreAwaited, LeasesOf
    <3>1. h # g /\ phase[h] = "starting"
      BY <2>1 DEF PoolTypeOK, Rest
    <3>2. owner[h] # owner[g]
      BY <2>1, <3>1 DEF OneOccupant, Occupied
    <3>3. owner[h] \in Keys /\ LeasesOf(owner[h], "opening") # {}
      BY <3>1 DEF StartsAreAwaited
    <3>4. LeasesOf(owner[h], "opening") \subseteq LeasesOf(owner[h], "opening")'
      BY <2>1, <2>2, <3>2 DEF LeasesOf
    <3> QED
      BY <3>3, <3>4
  <2>5. OneOccupant'
    BY <2>1 DEF PoolTypeOK, OneOccupant, Occupied, Rest
  <2>6. PoolSheds({})
    <3>1. \A l \in S : l \in Leases /\ holder[l].state = "opening"
      BY DEF LeasesOf
    <3> HIDE DEF S
    <3> QED
      BY <2>1, <2>2, <3>1 DEF PoolSheds, LeasesShed, PoolTypeOK, Rest
  <2> QED
    BY <2>3, <2>4, <2>5, <2>6
<1>4. ASSUME NEW g \in Generation, Retire(g) \/ Exit(g) PROVE PoolInv' /\ PoolSheds({})
  <2>1. /\ closed' = closed /\ owner' = owner /\ holder' = holder /\ user' = user
        /\ alive' \subseteq alive
    BY <1>4 DEF Retire, Exit
  <2>2. /\ phase' \in [Generation -> Phases]
        /\ \A h \in Generation : \/ phase'[h] = phase[h]
                                 \/ phase[h] = "ready" /\ phase'[h] \in {"retiring", "ended"}
                                 \/ phase[h] = "retiring" /\ phase'[h] = "ended"
    <3>1. CASE Retire(g)
      BY <3>1 DEF Retire, PoolTypeOK, Phases, Rest
    <3>2. CASE Exit(g)
      BY <3>2 DEF Exit, PoolTypeOK, Phases
    <3> QED
      BY <1>4, <3>1, <3>2
  <2>3. PoolTypeOK'
    BY <2>1, <2>2 DEF PoolTypeOK
  <2>4. StartsAreAwaited'
    BY <2>1, <2>2 DEF StartsAreAwaited, LeasesOf
  <2>5. OneOccupant'
    BY <2>1, <2>2 DEF OneOccupant, Occupied
  <2>6. PoolSheds({})
    BY <2>1, <2>2 DEF PoolSheds, LeasesShed
  <2> QED
    BY <2>3, <2>4, <2>5, <2>6
<1>5. ASSUME NEW g \in Generation, Notice(g) PROVE PoolInv' /\ PoolSheds({})
  <2> DEFINE S == {l \in Leases : holder[l].gen = g /\ holder[l].state = "active"}
             D == {c \in Connectors : user[c].gen = g /\ user[c].state = "open"}
  <2>1. /\ phase[g] = "ready" /\ phase' = [phase EXCEPT ![g] = "ended"] /\ holder' = Closed(S)
        /\ user' = Disconnect(D) /\ closed' = closed /\ owner' = owner /\ alive' = alive
    BY <1>5 DEF Notice
  <2>2. /\ holder' \in [Leases -> Holder]
        /\ \A l \in Leases : /\ holder'[l].key = holder[l].key
                             /\ l \in S => holder'[l].state = "closed"
                             /\ l \notin S => holder'[l] = holder[l]
    BY <2>1, ClosedOnes
  <2>3. /\ user' \in [Connectors -> User]
        /\ \A c \in Connectors : user'[c].state = "open" => user'[c] = user[c]
    BY <2>1, DisconnectedOnes
  <2>4. \A l \in S : holder[l].state = "active"
    OBVIOUS
  <2> HIDE DEF S, D
  <2>5. PoolTypeOK'
    BY <2>1, <2>2, <2>3 DEF PoolTypeOK, Phases
  <2>6. StartsAreAwaited'
    BY <2>1, <2>2, <2>4 DEF StartsAreAwaited, PoolTypeOK, LeasesOf
  <2>7. OneOccupant'
    BY <2>1 DEF PoolTypeOK, OneOccupant, Occupied
  <2>8. PoolSheds({})
    BY <2>1, <2>2, <2>3, <2>4 DEF PoolSheds, LeasesShed, PoolTypeOK
  <2> QED
    BY <2>5, <2>6, <2>7, <2>8
<1>6. ASSUME NEW k \in Keys, Refuse(k) PROVE PoolInv' /\ PoolSheds({})
  <2> DEFINE S == LeasesOf(k, "opening")
  <2>1. /\ holder' = Closed(S) /\ phase' = phase /\ user' = user
        /\ closed' = closed /\ owner' = owner /\ alive' = alive
        /\ \A g \in Generation : owner[g] = k => phase[g] # "starting"
    BY <1>6 DEF Refuse
  <2>2. /\ holder' \in [Leases -> Holder]
        /\ \A l \in Leases : /\ holder'[l].key = holder[l].key
                             /\ l \in S => holder'[l].state = "closed"
                             /\ l \notin S => holder'[l] = holder[l]
    BY <2>1, ClosedOnes
  <2>3. \A l \in S : holder[l].state = "opening" /\ holder[l].key = k
    BY DEF LeasesOf
  <2> HIDE DEF S
  <2>4. PoolTypeOK' /\ OneOccupant'
    BY <2>1, <2>2 DEF PoolTypeOK, OneOccupant, Occupied
  <2>5. StartsAreAwaited'
    <3> SUFFICES ASSUME NEW h \in Generation, phase[h] = "starting"
                 PROVE  owner[h] \in Keys /\ LeasesOf(owner[h], "opening")' # {}
      BY <2>1 DEF StartsAreAwaited, LeasesOf
    <3>1. owner[h] \in Keys /\ LeasesOf(owner[h], "opening") # {} /\ owner[h] # k
      BY <2>1 DEF StartsAreAwaited
    <3>2. LeasesOf(owner[h], "opening") \subseteq LeasesOf(owner[h], "opening")'
      BY <2>1, <2>2, <2>3, <3>1 DEF LeasesOf
    <3> QED
      BY <3>1, <3>2
  <2>6. PoolSheds({})
    BY <2>1, <2>2, <2>3 DEF PoolSheds, LeasesShed, PoolTypeOK
  <2> QED
    BY <2>4, <2>5, <2>6
<1>7. ASSUME Close PROVE PoolInv' /\ PoolSheds({})
  <2> DEFINE S == {l \in Leases : holder[l].state \in {"opening", "active"}}
             D == {c \in Connectors : user[c].state = "open"}
  <2>1. /\ holder' = Closed(S) /\ user' = Disconnect(D) /\ closed' = TRUE
        /\ owner' = owner /\ alive' = alive
        /\ phase' = [g \in Generation |->
             IF phase[g] \in {"starting", "ready"} THEN Rest(g) ELSE phase[g]]
    BY <1>7 DEF Close
  <2>2. /\ holder' \in [Leases -> Holder]
        /\ \A l \in Leases : /\ holder'[l].key = holder[l].key
                             /\ l \in S => holder'[l].state = "closed"
                             /\ l \notin S => holder'[l] = holder[l]
    BY <2>1, ClosedOnes
  <2>3. /\ user' \in [Connectors -> User]
        /\ \A c \in Connectors : user'[c].state = "open" => user'[c] = user[c]
    BY <2>1, DisconnectedOnes
  <2>4. \A l \in S : holder[l].state \in {"opening", "active"}
    OBVIOUS
  <2> HIDE DEF S, D
  <2>5. /\ phase' \in [Generation -> Phases]
        /\ \A h \in Generation : /\ phase'[h] # "starting"
                                 /\ phase'[h] = "none" => phase[h] = "none"
                                 /\ Occupied(h)' => Occupied(h)
    BY <2>1 DEF PoolTypeOK, Phases, Rest, Occupied
  <2>6. PoolTypeOK'
    BY <2>1, <2>2, <2>3, <2>5 DEF PoolTypeOK
  <2>7. StartsAreAwaited' /\ OneOccupant'
    BY <2>1, <2>5 DEF StartsAreAwaited, OneOccupant
  <2>8. PoolSheds({})
    BY <2>1, <2>2, <2>3, <2>4, <2>5 DEF PoolSheds, LeasesShed, PoolTypeOK
  <2> QED
    BY <2>6, <2>7, <2>8
<1> QED
  BY <1>1, <1>2, <1>3, <1>4, <1>5, <1>6, <1>7 DEF PoolsOwn

\* Connectors that open and close.
LEMMA ConnectorsShed ==
  ASSUME PoolInv, NEW c \in Connectors, Detach(c) \/ \E l \in Leases : Attach(c, l)
  PROVE  /\ PoolInv' /\ LeasesShed({}) /\ holder' = holder /\ phase' = phase /\ owner' = owner
         /\ \A d \in Connectors : d # c => user'[d] = user[d]
         /\ Detach(c) => user'[c].state # "open" /\ PoolSheds({})
<1> USE DEF PoolInv
<1>1. /\ closed' = closed /\ phase' = phase /\ owner' = owner /\ alive' = alive /\ holder' = holder
  BY DEF Attach, Detach
<1>2. ASSUME Detach(c)
      PROVE  /\ user' \in [Connectors -> User] /\ user'[c].state # "open" /\ PoolSheds({})
             /\ \A d \in Connectors : d # c => user'[d] = user[d]
  <2>1. user' = Disconnect({c})
    BY <1>2 DEF Detach
  <2>2. /\ user' \in [Connectors -> User]
        /\ \A d \in Connectors : user'[d].state = "open" => d \notin {c} /\ user'[d] = user[d]
    BY <2>1, DisconnectedOnes
  <2>3. \A d \in Connectors : d # c => user'[d] = user[d]
    BY <2>1 DEF Disconnect
  <2>4. PoolSheds({})
    BY <1>1, <2>2 DEF PoolSheds, LeasesShed, PoolTypeOK
  <2> QED
    BY <2>2, <2>3, <2>4
<1>3. ASSUME NEW l \in Leases, Attach(c, l)
      PROVE  /\ user' \in [Connectors -> User]
             /\ \A d \in Connectors : d # c => user'[d] = user[d]
  <2>1. user' = [user EXCEPT ![c] = [state |-> "open", key |-> holder[l].key, gen |-> holder[l].gen]]
    BY <1>3 DEF Attach
  <2>2. holder[l] \in Holder
    BY DEF PoolTypeOK
  <2> QED
    BY <2>1, <2>2 DEF PoolTypeOK, User, Holder
<1>5. /\ user' \in [Connectors -> User] /\ \A d \in Connectors : d # c => user'[d] = user[d]
  BY <1>2, <1>3
<1>6. PoolTypeOK' /\ StartsAreAwaited' /\ OneOccupant'
  BY <1>1, <1>5 DEF PoolTypeOK, StartsAreAwaited, OneOccupant, Occupied, LeasesOf
<1>7. LeasesShed({})
  BY <1>1 DEF LeasesShed
<1> QED
  BY <1>1, <1>2, <1>5, <1>6, <1>7

\* What does not depend on the pool.
LEMMA OwnersStay ==
  ASSUME TargetsInv, UNCHANGED <<kind, target, plans, pinned, serve>>
  PROVE  TargetsInOrder' /\ StreamsHoldTargets' /\ PlansAreCounted' /\ PinsAreOwned'
<1>1. \A k \in Keys : Counted(k)' = Counted(k)
  BY DEF Counted
<1>2. PlansAreCounted'
  BY <1>1 DEF TargetsInv, PlansAreCounted
<1>3. TargetsInOrder' /\ StreamsHoldTargets'
  BY DEF TargetsInv, TargetsInOrder, StreamsHoldTargets
<1>4. PinsAreOwned'
  BY DEF TargetsInv, PinsAreOwned, PlanOf
<1> QED
  BY <1>2, <1>3, <1>4

\* A lease that is in use stays in use or is closed.
LEMMA ShedLeases ==
  ASSUME PoolInv, PoolInv', NEW S, LeasesShed(S)
  PROVE  \A l \in Leases \ S :
           /\ holder'[l].key = holder[l].key
           /\ holder[l].state # "none" => holder'[l].state # "none"
           /\ holder[l].state \in {"active", "closed"} => holder'[l].state \in {"active", "closed"}
           /\ holder'[l].state \in {"opening", "active"} => holder[l].state \in {"opening", "active"}
<1> SUFFICES ASSUME NEW l \in Leases \ S
             PROVE  /\ holder'[l].key = holder[l].key
                    /\ holder[l].state # "none" => holder'[l].state # "none"
                    /\ holder[l].state \in {"active", "closed"} => holder'[l].state \in {"active", "closed"}
                    /\ holder'[l].state \in {"opening", "active"} => holder[l].state \in {"opening", "active"}
  OBVIOUS
<1>1. /\ holder'[l].key = holder[l].key
      /\ holder'[l].state = "none" <=> holder[l].state = "none"
      /\ holder'[l].state = "opening" => holder[l].state = "opening"
      /\ holder'[l].state = "active" => holder[l].state \in {"opening", "active"}
  BY DEF PoolSheds, LeasesShed
<1>2. holder[l] \in Holder /\ holder'[l] \in Holder
  BY DEF PoolInv, PoolTypeOK
<1>3. holder'[l].state \in {"none", "opening", "active", "closed"}
  BY <1>2 DEF Holder
<1> QED
  BY <1>1, <1>3

LEMMA ReadsStay ==
  ASSUME TargetsInv, PoolInv', NEW S, LeasesShed(S), UNCHANGED <<plans, reads>>
  PROVE  ReadsAreCurrent'
<1> SUFFICES ASSUME NEW g \in Generation
             PROVE  /\ phase'[g] = "none" => reads[g] = NoTarget
                    /\ phase'[g] = "starting" /\ reads[g] # NoTarget =>
                         reads[g] = plans[owner'[g]].plan
  BY DEF ReadsAreCurrent
<1>1. /\ phase'[g] = "none" => phase[g] = "none"
      /\ phase'[g] = "starting" =>
           phase[g] = "none" \/ (phase[g] = "starting" /\ owner'[g] = owner[g])
  BY DEF PoolSheds, LeasesShed
<1>2. /\ phase[g] = "none" => reads[g] = NoTarget
      /\ phase[g] = "starting" /\ reads[g] # NoTarget => reads[g] = plans[owner[g]].plan
  BY DEF TargetsInv, ReadsAreCurrent
<1> QED
  BY <1>1, <1>2

\* What does.
LEMMA LeasesStay ==
  ASSUME TargetsInv, PoolInv', PoolSheds({}), UNCHANGED <<kind, target, plans, reads, serve>>
  PROVE  LeasesAreHeld' /\ ConnectorsAreHeld' /\ ReadsAreCurrent'
<1>1. \A l \in Leases :
        /\ holder'[l].key = holder[l].key
        /\ holder[l].state # "none" => holder'[l].state # "none"
        /\ holder[l].state \in {"active", "closed"} => holder'[l].state \in {"active", "closed"}
        /\ holder'[l].state \in {"opening", "active"} => holder[l].state \in {"opening", "active"}
  <2>1. \A l \in Leases \ {} :
        /\ holder'[l].key = holder[l].key
        /\ holder[l].state # "none" => holder'[l].state # "none"
        /\ holder[l].state \in {"active", "closed"} => holder'[l].state \in {"active", "closed"}
        /\ holder'[l].state \in {"opening", "active"} => holder[l].state \in {"opening", "active"}
    BY ShedLeases DEF TargetsInv, PoolSheds
  <2> QED
    BY <2>1
<1>2. \A t \in Targets : target[t].pc = "waiting" =>
        /\ target[t].lease \in Leases
        /\ holder'[target[t].lease].key = target[t].key
        /\ holder'[target[t].lease].state # "none"
  BY <1>1 DEF TargetsInv, LeasesAreHeld
<1>3. \A t \in Targets : kind[t] = "http" /\ target[t].pc \in {"held", "wait", "release"} =>
        target[t].lease \in Leases /\ holder'[target[t].lease].state \in {"active", "closed"}
  BY <1>1 DEF TargetsInv, LeasesAreHeld
<1>4. \A s \in Connections : serve[s].pc = "waiting" =>
        /\ serve[s].lease \in Leases
        /\ holder'[serve[s].lease].key = target[serve[s].target].key
        /\ holder'[serve[s].lease].state # "none"
  BY <1>1 DEF TargetsInv, LeasesAreHeld
<1>5. \A s \in Connections : serve[s].pc \in {"giveback", "yield"} =>
       serve[s].lease \in Leases /\ holder'[serve[s].lease].state \in {"active", "closed"}
  BY <1>1 DEF TargetsInv, LeasesAreHeld
<1>6. \A l \in Leases : holder'[l].state \in {"opening", "active"} =>
       \/ \E t \in Targets : TargetHas(t, l)
       \/ \E s \in Connections : StreamHas(s, l)
  BY <1>1 DEF TargetsInv, LeasesAreHeld
<1>7. LeasesAreHeld'
  BY <1>2, <1>3, <1>4, <1>5, <1>6 DEF LeasesAreHeld, TargetHas, StreamHas
<1>8. ConnectorsAreHeld'
  BY DEF PoolSheds, LeasesShed, TargetsInv, ConnectorsAreHeld
<1>9. ReadsAreCurrent'
  BY ReadsStay DEF PoolSheds
<1> QED
  BY <1>7, <1>8, <1>9

\* The pool's own steps, and those of a start.
LEMMA PoolKeepsTargets == ASSUME TargetsInv, PoolsOwn, UNCHANGED targetVars PROVE TargetsInv'
<1>1. UNCHANGED <<kind, target, plans, pinned, reads, serve, resolver>>
  BY DEF targetVars
<1>2. PoolInv' /\ PoolSheds({})
  BY OwnStepsShed DEF TargetsInv
<1>3. TargetsInOrder' /\ StreamsHoldTargets' /\ PlansAreCounted' /\ PinsAreOwned'
  BY <1>1, OwnersStay
<1>4. LeasesAreHeld' /\ ConnectorsAreHeld' /\ ReadsAreCurrent'
  BY <1>1, <1>2, LeasesStay
<1>5. TargetsTypeOK' /\ ShutdownHasAll'
  BY <1>1 DEF TargetsInv, TargetsTypeOK, ShutdownHasAll
<1> QED
  BY <1>2, <1>3, <1>4, <1>5 DEF TargetsInv

LEMMA PoolStays ==
  ASSUME PoolInv, UNCHANGED poolVars
  PROVE  PoolInv' /\ PoolSheds({}) /\ holder' = holder /\ user' = user
         /\ phase' = phase /\ owner' = owner /\ alive' = alive
<1>1. /\ closed' = closed /\ phase' = phase /\ owner' = owner /\ alive' = alive
      /\ holder' = holder /\ user' = user
  BY DEF poolVars
<1>2. PoolTypeOK' /\ StartsAreAwaited' /\ OneOccupant'
  BY <1>1 DEF PoolInv, PoolTypeOK, StartsAreAwaited, OneOccupant, Occupied, LeasesOf
<1>3. PoolSheds({})
  BY <1>1 DEF PoolSheds, LeasesShed
<1> QED
  BY <1>1, <1>2, <1>3 DEF PoolInv

LEMMA StartsKeepTargets ==
  ASSUME TargetsInv, NEW g \in Generation, StartReads(g) \/ StartLaunches(g)
  PROVE  TargetsInv'
<1>1. /\ UNCHANGED <<kind, target, plans, pinned, serve, resolver>> /\ UNCHANGED poolVars
      /\ \/ reads' = reads
         \/ phase[g] = "starting" /\ reads' = [reads EXCEPT ![g] = plans[owner[g]].plan]
  BY DEF StartReads, StartLaunches
<1>2. /\ PoolInv' /\ PoolSheds({}) /\ holder' = holder /\ user' = user
      /\ phase' = phase /\ owner' = owner
  BY <1>1, PoolStays DEF TargetsInv
<1>3. TargetsInOrder' /\ StreamsHoldTargets' /\ PlansAreCounted' /\ PinsAreOwned'
  BY <1>1, OwnersStay
<1>4. LeasesAreHeld' /\ ConnectorsAreHeld'
  BY <1>1, <1>2 DEF TargetsInv, LeasesAreHeld, ConnectorsAreHeld, TargetHas, StreamHas
<1>5. phase[g] = "starting" => plans[owner[g]].plan \in Targets \cup {NoTarget}
  <2>1. phase[g] = "starting" => owner[g] \in Keys
    BY DEF TargetsInv, PoolInv, StartsAreAwaited
  <2> QED
    BY <2>1 DEF TargetsInv, TargetsTypeOK
<1>6. TargetsTypeOK'
  BY <1>1, <1>5 DEF TargetsInv, TargetsTypeOK
<1>7. ReadsAreCurrent'
  BY <1>1, <1>2 DEF TargetsInv, TargetsTypeOK, ReadsAreCurrent
<1>8. ShutdownHasAll'
  BY <1>1 DEF TargetsInv, ShutdownHasAll
<1> QED
  BY <1>2, <1>3, <1>4, <1>6, <1>7, <1>8 DEF TargetsInv

LEMMA ShutdownKeepsTargets ==
  ASSUME TargetsInv, ShutdownBegins \/ ShutdownRevokes \/ ShutdownReturns
  PROVE  TargetsInv'
<1>1. UNCHANGED <<kind, target, plans, pinned, reads, serve>> /\ UNCHANGED poolVars
  BY DEF ShutdownBegins, ShutdownRevokes, ShutdownReturns
<1>2. PoolInv' /\ PoolSheds({})
  BY <1>1, PoolStays DEF TargetsInv
<1>3. TargetsInOrder' /\ StreamsHoldTargets' /\ PlansAreCounted' /\ PinsAreOwned'
  BY <1>1, OwnersStay
<1>4. LeasesAreHeld' /\ ConnectorsAreHeld' /\ ReadsAreCurrent'
  BY <1>1, <1>2, LeasesStay
<1>5. TargetsTypeOK'
  <2> DEFINE R == [pc : {"open", "revoke", "release", "done"}, closing : BOOLEAN,
                   active : SUBSET Targets]
  <2>1. Registered \subseteq Targets /\ resolver \in R
    BY DEF Registered, TargetsInv, TargetsTypeOK
  <2>2. resolver' \in R
    <3>1. CASE ShutdownBegins
      BY <2>1, <3>1 DEF ShutdownBegins
    <3>2. CASE ShutdownRevokes
      BY <2>1, <3>2 DEF ShutdownRevokes
    <3>3. CASE ShutdownReturns
      BY <2>1, <3>3 DEF ShutdownReturns
    <3> QED
      BY <3>1, <3>2, <3>3
  <2> QED
    BY <1>1, <2>2 DEF TargetsInv, TargetsTypeOK
<1>6. ShutdownHasAll'
  <2>1. CASE ShutdownBegins
    BY <1>1, <2>1 DEF ShutdownBegins, Registered, ShutdownHasAll
  <2>2. CASE ShutdownRevokes \/ ShutdownReturns
    <3>1. /\ resolver.pc \in {"revoke", "release"} /\ resolver'.active = resolver.active
          /\ resolver'.closing = resolver.closing
          /\ resolver'.pc \in {"release", "done"}
          /\ resolver'.pc = "done" => \A t \in resolver.active : target[t].pc = "done"
      BY <2>2 DEF TargetsInv, TargetsTypeOK, ShutdownRevokes, ShutdownReturns, TargetAt
    <3> QED
      BY <1>1, <3>1 DEF TargetsInv, ShutdownHasAll
  <2> QED
    BY <2>1, <2>2
<1> QED
  BY <1>2, <1>3, <1>4, <1>5, <1>6 DEF TargetsInv

\* What a call may be after a step: its target is not released, and it serves
\* an HTTP target through a connector.
CallIsSound(r) ==
  r.pc \notin {"none", "returned"} =>
    /\ r.target \in Targets
    /\ kind[r.target] # "plain" => target[r.target].pc \in {"held", "wait"}
    /\ r.pc # "serving" => kind[r.target] = "http"
    /\ r.pc \in {"serving", "close"} /\ kind[r.target] = "http" => r.connector \in Connectors

\* The lease it waits for or gives back.
CallHasLease(r) ==
  /\ r.pc = "waiting" =>
       /\ r.lease \in Leases
       /\ holder'[r.lease].key = target[r.target].key
       /\ holder'[r.lease].state # "none"
  /\ r.pc \in {"giveback", "yield"} =>
       r.lease \in Leases /\ holder'[r.lease].state \in {"active", "closed"}

\* A lease the call had, or got from the pool, is with it still or closed.
LeasesPass(s, r, S) ==
  /\ \A l \in S : l \in Leases => holder[l].state = "none"
  /\ \A l \in Leases : holder'[l].state \in {"opening", "active"} /\ (l \in S \/ StreamHas(s, l)) =>
       r.pc \in {"waiting", "giveback", "yield"} /\ r.lease = l

\* And so is the connector.
ConnectorsPass(s, r) ==
  \A c \in Connectors : user'[c].state = "open" =>
    \/ /\ user[c].state = "open"
       /\ ~(/\ serve[s].pc \in {"serving", "close"} /\ serve[s].connector = c
            /\ kind[serve[s].target] = "http")
    \/ r.connector = c /\ r.pc \in {"serving", "close"} /\ kind[r.target] = "http"

\* A step of the stream s that makes it r, whatever it does to the pool.
LEMMA StreamMoves ==
  ASSUME TargetsInv, PoolInv', NEW S, LeasesShed(S),
         UNCHANGED <<kind, target, plans, pinned, reads, resolver>>,
         NEW s \in Connections, NEW r \in Call, serve' = [serve EXCEPT ![s] = r],
         CallIsSound(r), CallHasLease(r), LeasesPass(s, r, S), ConnectorsPass(s, r)
  PROVE  TargetsInv'
<1> USE DEF CallIsSound, CallHasLease, LeasesPass, ConnectorsPass
<1>1. \A p \in Connections : serve'[p] = IF p = s THEN r ELSE serve[p]
  BY DEF TargetsInv, TargetsTypeOK
<1>2. \A l \in Leases \ S :
        /\ holder'[l].key = holder[l].key
        /\ holder[l].state # "none" => holder'[l].state # "none"
        /\ holder[l].state \in {"active", "closed"} => holder'[l].state \in {"active", "closed"}
        /\ holder'[l].state \in {"opening", "active"} => holder[l].state \in {"opening", "active"}
  BY ShedLeases DEF TargetsInv
<1>3. TargetsTypeOK'
  BY DEF TargetsInv, TargetsTypeOK
<1>4. TargetsInOrder' /\ PlansAreCounted' /\ PinsAreOwned' /\ ShutdownHasAll'
  <2>1. \A k \in Keys : Counted(k)' = Counted(k)
    BY DEF Counted
  <2>2. PlansAreCounted'
    BY <2>1 DEF TargetsInv, PlansAreCounted
  <2>3. PinsAreOwned'
    BY DEF TargetsInv, PinsAreOwned, PlanOf
  <2>4. TargetsInOrder' /\ ShutdownHasAll'
    BY DEF TargetsInv, TargetsInOrder, ShutdownHasAll
  <2> QED
    BY <2>2, <2>3, <2>4
<1>5. StreamsHoldTargets'
  BY <1>1 DEF TargetsInv, StreamsHoldTargets
<1>6. ReadsAreCurrent'
  BY ReadsStay
<1>7. ConnectorsAreHeld'
  <2>0. \A p \in Connections :
          serve'[p].pc \in {"serving", "close"} /\ kind[serve'[p].target] = "http" =>
            serve'[p].connector \in Connectors
    BY <1>1 DEF TargetsInv, ConnectorsAreHeld
  <2> SUFFICES ASSUME NEW c \in Connectors, user'[c].state = "open"
               PROVE  \E p \in Connections :
                        /\ serve'[p].connector = c /\ serve'[p].pc \in {"serving", "close"}
                        /\ kind[serve'[p].target] = "http"
    BY <2>0 DEF ConnectorsAreHeld
  <2>1. CASE /\ user[c].state = "open"
             /\ ~(/\ serve[s].pc \in {"serving", "close"} /\ serve[s].connector = c
                  /\ kind[serve[s].target] = "http")
    <3>1. PICK p \in Connections :
            /\ serve[p].connector = c /\ serve[p].pc \in {"serving", "close"}
            /\ kind[serve[p].target] = "http"
      BY <2>1 DEF TargetsInv, ConnectorsAreHeld
    <3>2. p # s
      BY <2>1, <3>1
    <3> QED
      BY <1>1, <3>1, <3>2
  <2>2. CASE r.connector = c /\ r.pc \in {"serving", "close"} /\ kind[r.target] = "http"
    BY <1>1, <2>2
  <2> QED
    BY <2>1, <2>2
<1>8. LeasesAreHeld'
  <2>1. \A t \in Targets : target[t].pc = "waiting" =>
          /\ target[t].lease \in Leases
          /\ holder'[target[t].lease].key = target[t].key
          /\ holder'[target[t].lease].state # "none"
    BY <1>2 DEF TargetsInv, LeasesAreHeld
  <2>2. \A t \in Targets : kind[t] = "http" /\ target[t].pc \in {"held", "wait", "release"} =>
          target[t].lease \in Leases /\ holder'[target[t].lease].state \in {"active", "closed"}
    BY <1>2 DEF TargetsInv, LeasesAreHeld
  <2>3. \A p \in Connections : serve[p].pc = "waiting" =>
          /\ serve[p].lease \in Leases
          /\ holder'[serve[p].lease].key = target[serve[p].target].key
          /\ holder'[serve[p].lease].state # "none"
    BY <1>2 DEF TargetsInv, LeasesAreHeld
  <2>4. \A p \in Connections : serve[p].pc \in {"giveback", "yield"} =>
         serve[p].lease \in Leases /\ holder'[serve[p].lease].state \in {"active", "closed"}
    BY <1>2 DEF TargetsInv, LeasesAreHeld
  <2>5. ASSUME NEW l \in Leases, holder'[l].state \in {"opening", "active"}
        PROVE  (\E t \in Targets : TargetHas(t, l)) \/ (\E p \in Connections : StreamHas(p, l)')
    <3>1. CASE l \in S \/ StreamHas(s, l)
      <4>1. StreamHas(s, l)'
        BY <1>1, <2>5, <3>1 DEF StreamHas
      <4> QED
        BY <4>1
    <3>2. CASE l \notin S /\ ~StreamHas(s, l)
      <4>1. \/ \E t \in Targets : TargetHas(t, l)
            \/ \E p \in Connections : StreamHas(p, l)
        BY <1>2, <2>5, <3>2 DEF TargetsInv, LeasesAreHeld
      <4>2. \A p \in Connections : StreamHas(p, l) => StreamHas(p, l)'
        BY <1>1, <3>2 DEF StreamHas
      <4> QED
        BY <4>1, <4>2
    <3> QED
      BY <3>1, <3>2
  <2>6. \A p \in Connections : serve'[p].pc = "waiting" =>
          /\ serve'[p].lease \in Leases
          /\ holder'[serve'[p].lease].key = target[serve'[p].target].key
          /\ holder'[serve'[p].lease].state # "none"
    BY <1>1, <2>3
  <2>7. \A p \in Connections : serve'[p].pc \in {"giveback", "yield"} =>
         serve'[p].lease \in Leases /\ holder'[serve'[p].lease].state \in {"active", "closed"}
    BY <1>1, <2>4
  <2>8. \A t \in Targets, l \in Leases : TargetHas(t, l)' = TargetHas(t, l)
    BY DEF TargetHas
  <2> QED
    BY <2>1, <2>2, <2>5, <2>6, <2>7, <2>8 DEF LeasesAreHeld
<1> QED
  BY <1>3, <1>4, <1>5, <1>6, <1>7, <1>8 DEF TargetsInv

\* What the call record of a stream becomes.
LEMMA CallGoes ==
  ASSUME TargetsInv, NEW s \in Connections, NEW pc \in ServeSteps, ServeGoes(s, pc)
  PROVE  \E r \in Call : /\ serve' = [serve EXCEPT ![s] = r]
                         /\ r.pc = pc /\ r.target = serve[s].target
                         /\ pc # "returned" => r.lease = serve[s].lease /\ r.connector = serve[s].connector
<1> DEFINE r == IF pc = "returned" THEN [NoServe EXCEPT !.target = serve[s].target, !.pc = pc]
                ELSE [serve[s] EXCEPT !.pc = pc]
<1>1. serve[s] \in Call
  BY DEF TargetsInv, TargetsTypeOK
<1>2. r \in Call
  BY <1>1 DEF Call, NoServe, ServeSteps
<1>3. /\ r.pc = pc /\ r.target = serve[s].target
      /\ pc # "returned" => r.lease = serve[s].lease /\ r.connector = serve[s].connector
  BY <1>1 DEF Call, NoServe
<1>4. serve' = [serve EXCEPT ![s] = r]
  BY DEF ServeGoes
<1> QED
  BY <1>2, <1>3, <1>4

CallGets(s, l, pc) == serve' = [serve EXCEPT ![s].lease = l, ![s].pc = pc]

LEMMA CallTakes ==
  ASSUME TargetsInv, NEW s \in Connections, NEW pc \in ServeSteps, NEW l \in Leases \cup {NoLease},
         CallGets(s, l, pc)
  PROVE  \E r \in Call : /\ serve' = [serve EXCEPT ![s] = r]
                         /\ r.pc = pc /\ r.target = serve[s].target
                         /\ r.lease = l /\ r.connector = serve[s].connector
<1> DEFINE r == [serve[s] EXCEPT !.lease = l, !.pc = pc]
<1>1. serve[s] \in Call /\ serve \in [Connections -> Call]
  BY DEF TargetsInv, TargetsTypeOK
<1>2. r \in Call
  BY <1>1 DEF Call
<1>3. r.pc = pc /\ r.target = serve[s].target /\ r.lease = l /\ r.connector = serve[s].connector
  BY <1>1 DEF Call
<1>4. serve' = [serve EXCEPT ![s] = r]
  BY <1>1 DEF CallGets
<1> QED
  BY <1>2, <1>3, <1>4

\* A stream that is under way and does nothing to the pool.
LEMMA StreamWalks ==
  ASSUME TargetsInv, UNCHANGED poolVars,
         UNCHANGED <<kind, target, plans, pinned, reads, resolver>>,
         NEW s \in Connections, NEW r \in Call, serve' = [serve EXCEPT ![s] = r],
         serve[s].pc \notin {"none", "returned"}, r.target = serve[s].target,
         r.pc \in {"serving", "close"} =>
           serve[s].pc \in {"serving", "close"} /\ r.connector = serve[s].connector,
         r.pc # "close" => serve[s].pc # "close",
         serve[s].pc = "serving" => r.pc = IF kind[serve[s].target] = "http" THEN "close" ELSE "returned",
         r.pc = "waiting" => FALSE,
         r.pc \in {"giveback", "yield"} =>
           serve[s].pc = "waiting" /\ r.lease = serve[s].lease /\ holder[serve[s].lease].state = "active",
         serve[s].pc \in {"waiting", "giveback", "yield"} =>
           r.pc \in {"giveback", "yield"} \/ holder[serve[s].lease].state \notin {"opening", "active"},
         r.pc = "none" => FALSE
  PROVE  TargetsInv'
<1>1. /\ PoolInv' /\ LeasesShed({}) /\ holder' = holder /\ user' = user
  BY PoolStays DEF TargetsInv, PoolSheds
<1>2. /\ serve[s].target \in Targets
      /\ kind[serve[s].target] # "plain" => target[serve[s].target].pc \in {"held", "wait"}
      /\ serve[s].pc # "serving" => kind[serve[s].target] = "http"
  BY DEF TargetsInv, StreamsHoldTargets
<1>3. CallIsSound(r)
  BY <1>2 DEF CallIsSound, TargetsInv, ConnectorsAreHeld
<1>4. CallHasLease(r)
  BY <1>1 DEF CallHasLease, TargetsInv, LeasesAreHeld
<1>5. LeasesPass(s, r, {})
  BY <1>1 DEF LeasesPass, StreamHas
<1>6. ConnectorsPass(s, r)
  <2> SUFFICES ASSUME NEW c \in Connectors, user[c].state = "open", serve[s].connector = c,
                      kind[serve[s].target] = "http", serve[s].pc \in {"serving", "close"}
               PROVE  r.connector = c /\ r.pc \in {"serving", "close"} /\ kind[r.target] = "http"
    BY <1>1 DEF ConnectorsPass
  <2> QED
    BY <1>2
<1> QED
  BY <1>1, <1>3, <1>4, <1>5, <1>6, StreamMoves

LEMMA StreamIsServed ==
  ASSUME TargetsInv, NEW s \in Connections, serve[s].pc \notin {"none", "returned"}
  PROVE  /\ serve[s] \in Call /\ serve[s].target \in Targets
         /\ kind[serve[s].target] # "plain" => target[serve[s].target].pc \in {"held", "wait"}
         /\ serve[s].pc # "serving" =>
              /\ kind[serve[s].target] = "http"
              /\ target[serve[s].target].pc \in {"held", "wait"}
              /\ target[serve[s].target].key \in Keys
              /\ target[serve[s].target].lease \in Leases
              /\ holder[target[serve[s].target].lease].state \in {"active", "closed"}
<1>1. serve[s] \in Call
  BY DEF TargetsInv, TargetsTypeOK
<1>2. /\ serve[s].target \in Targets
      /\ kind[serve[s].target] # "plain" => target[serve[s].target].pc \in {"held", "wait"}
      /\ serve[s].pc # "serving" => kind[serve[s].target] = "http"
  BY DEF TargetsInv, StreamsHoldTargets
<1>3. serve[s].pc # "serving" =>
        /\ target[serve[s].target].pc \in {"held", "wait"}
        /\ target[serve[s].target].key \in Keys
        /\ target[serve[s].target].lease \in Leases
        /\ holder[target[serve[s].target].lease].state \in {"active", "closed"}
  BY <1>2 DEF TargetsInv, TargetsInOrder, LeasesAreHeld
<1> QED
  BY <1>1, <1>2, <1>3

LEMMA ServeConnectorKeeps ==
  ASSUME TargetsInv, NEW s \in Connections, NEW t \in Targets, ServeConnector(s, t)
  PROVE  TargetsInv'
<1> DEFINE r == [NoServe EXCEPT !.target = t, !.pc = IF Admits(t) THEN FirstStep(t) ELSE "returned"]
<1>1. /\ serve[s].pc = "none" /\ target[t].pc \in {"held", "wait", "release", "drop", "done"}
      /\ serve' = [serve EXCEPT ![s] = r]
      /\ UNCHANGED <<kind, target, plans, pinned, reads, resolver>> /\ UNCHANGED poolVars
  BY DEF ServeConnector, ServeAt
<1>2. r \in Call
  BY DEF Call, NoServe, Admits, FirstStep, ServeSteps
<1>3. /\ r.target = t /\ r.pc \in {"look", "serving", "returned"}
      /\ r.pc = "look" => kind[t] = "http"
      /\ r.pc = "serving" => kind[t] # "http"
      /\ r.pc # "returned" => kind[t] = "plain" \/ target[t].accepting
  BY DEF NoServe, Admits, FirstStep
<1> HIDE DEF r
<1>4. target[t].accepting => target[t].pc = "held"
  BY <1>1 DEF TargetsInv, TargetsInOrder, Leaving
<1>5. /\ PoolInv' /\ LeasesShed({}) /\ holder' = holder /\ user' = user
  BY <1>1, PoolStays DEF TargetsInv, PoolSheds
<1>6. CallIsSound(r)
  BY <1>3, <1>4 DEF CallIsSound
<1>7. CallHasLease(r) /\ LeasesPass(s, r, {})
  BY <1>1, <1>3 DEF CallHasLease, LeasesPass, StreamHas
<1>8. ConnectorsPass(s, r)
  BY <1>1, <1>5 DEF ConnectorsPass
<1> QED
  BY <1>1, <1>2, <1>5, <1>6, <1>7, <1>8, StreamMoves

\* The steps of a call that leave the pool alone.
LEMMA WalkingKeeps ==
  ASSUME TargetsInv, NEW s \in Connections,
         \/ LookForLease(s) \/ OpenRetries(s) \/ ServingEnds(s)
         \/ \E retry \in BOOLEAN : ReacquireRefused(s, retry)
         \/ Swap(s) /\ target' = target
  PROVE  TargetsInv'
<1>0. /\ UNCHANGED <<kind, target, plans, pinned, reads, resolver>> /\ UNCHANGED poolVars
      /\ serve[s].pc \notin {"none", "returned"}
  BY DEF LookForLease, OpenRetries, ServingEnds, ReacquireRefused, Swap, ServeAt
<1>1. /\ serve[s] \in Call /\ serve[s].target \in Targets
      /\ serve[s].pc # "serving" => target[serve[s].target].lease \in Leases
  BY <1>0, StreamIsServed
<1>2. CASE LookForLease(s)
  <2>1. serve[s].pc = "look"
    BY <1>2 DEF LookForLease, ServeAt
  <2>2. CASE ServeGoes(s, "returned") \/ ServeGoes(s, "reacquire")
    <3>1. PICK r \in Call : /\ serve' = [serve EXCEPT ![s] = r]
                            /\ r.pc \in {"returned", "reacquire"} /\ r.target = serve[s].target
      BY <2>2, CallGoes DEF ServeSteps
    <3> QED
      BY <1>0, <2>1, <3>1, StreamWalks
  <2>3. CASE serve' = [serve EXCEPT ![s].lease = HeldLease(s), ![s].pc = "open"]
    <3>1. HeldLease(s) \in Leases
      BY <1>1, <2>1 DEF HeldLease
    <3>a. CallGets(s, HeldLease(s), "open")
      BY <2>3 DEF CallGets
    <3>2. PICK r \in Call : /\ serve' = [serve EXCEPT ![s] = r]
                            /\ r.pc = "open" /\ r.target = serve[s].target
      BY <3>a, <3>1, CallTakes DEF ServeSteps
    <3> QED
      BY <1>0, <2>1, <3>2, StreamWalks
  <2> QED
    BY <1>2, <2>2, <2>3 DEF LookForLease
<1>3. CASE OpenRetries(s)
  <2> DEFINE pc == IF target[serve[s].target].service THEN "look" ELSE "returned"
  <2>1. serve[s].pc = "open" /\ serve' = [serve EXCEPT ![s].lease = NoLease, ![s].pc = pc]
    BY <1>3 DEF OpenRetries, ServeAt
  <2>2. pc \in {"look", "returned"} /\ CallGets(s, NoLease, pc)
    BY <2>1 DEF CallGets
  <2> HIDE DEF pc
  <2>3. PICK r \in Call : /\ serve' = [serve EXCEPT ![s] = r]
                          /\ r.pc = pc /\ r.target = serve[s].target
    <3>1. pc \in ServeSteps /\ NoLease \in Leases \cup {NoLease} /\ CallGets(s, NoLease, pc)
      BY <2>2 DEF ServeSteps
    <3>2. \E r \in Call : /\ serve' = [serve EXCEPT ![s] = r]
                           /\ r.pc = pc /\ r.target = serve[s].target
                           /\ r.lease = NoLease /\ r.connector = serve[s].connector
      BY <3>1, CallTakes
    <3> QED
      BY <3>2
  <2> QED
    BY <1>0, <2>1, <2>2, <2>3, StreamWalks
<1>4. CASE ServingEnds(s)
  <2> DEFINE pc == IF kind[serve[s].target] = "http" THEN "close" ELSE "returned"
  <2>1. serve[s].pc = "serving" /\ ServeGoes(s, pc)
    BY <1>4 DEF ServingEnds, ServeAt
  <2>2. PICK r \in Call : /\ serve' = [serve EXCEPT ![s] = r]
                          /\ r.pc = pc /\ r.target = serve[s].target
                          /\ pc # "returned" => r.connector = serve[s].connector
    BY <2>1, CallGoes DEF ServeSteps
  <2> QED
    BY <1>0, <2>1, <2>2, StreamWalks
<1>5. ASSUME NEW retry \in BOOLEAN, ReacquireRefused(s, retry) PROVE TargetsInv'
  <2> DEFINE r == [NoServe EXCEPT !.target = serve[s].target,
                                  !.pc = IF retry THEN "look" ELSE "returned"]
  <2>1. /\ serve[s].pc = "reacquire" \/ (serve[s].pc = "waiting" /\ holder[serve[s].lease].state = "closed")
        /\ serve' = [serve EXCEPT ![s] = r]
    BY <1>5 DEF ReacquireRefused, ServeAt
  <2>2. r \in Call
    BY <1>1 DEF Call, NoServe, ServeSteps
  <2>3. r.pc \in {"look", "returned"} /\ r.target = serve[s].target
    BY DEF NoServe
  <2> HIDE DEF r
  <2> QED
    BY <1>0, <2>1, <2>2, <2>3, StreamWalks
<1>6. CASE Swap(s) /\ target' = target
  <2>0. serve[s].pc = "waiting" /\ holder[serve[s].lease].state = "active"
    BY <1>6 DEF Swap, ServeAt
  <2>1. CASE ServeGoes(s, "giveback") \/ ServeGoes(s, "yield")
    <3>1. PICK r \in Call : /\ serve' = [serve EXCEPT ![s] = r]
                            /\ r.pc \in {"giveback", "yield"} /\ r.target = serve[s].target
                            /\ r.lease = serve[s].lease
      BY <2>1, CallGoes DEF ServeSteps
    <3> QED
      BY <1>0, <2>0, <3>1, StreamWalks
  <2>2. CASE target' = [target EXCEPT ![serve[s].target].lease = serve[s].lease]
             /\ holder[target[serve[s].target].lease].state # "active"
    <3>1. target[serve[s].target].lease = serve[s].lease
      BY <1>1, <1>6, <2>2 DEF TargetsInv, TargetsTypeOK, Target
    <3> QED
      BY <2>0, <2>2, <3>1
  <2> QED
    BY <1>6, <2>1, <2>2 DEF Swap
<1> QED
  BY <1>2, <1>3, <1>4, <1>5, <1>6

\* A call that waits for a replacement lease.
LEMMA ReacquireKeeps ==
  ASSUME TargetsInv, NEW s \in Connections, NEW l \in Leases, Reacquire(s, l)
  PROVE  TargetsInv'
<1> DEFINE k == target[serve[s].target].key
<1>1. /\ serve[s].pc = "reacquire" /\ AcquireBy(l, k)
      /\ serve' = [serve EXCEPT ![s].pc = "waiting", ![s].lease = l]
      /\ UNCHANGED <<kind, target, plans, pinned, reads, resolver>>
  BY DEF Reacquire, ServeAt
<1>2. /\ serve[s] \in Call /\ serve[s].target \in Targets /\ k \in Keys
      /\ kind[serve[s].target] = "http" /\ target[serve[s].target].pc \in {"held", "wait"}
  BY <1>1, StreamIsServed
<1>3. /\ PoolInv' /\ LeasesShed({l}) /\ user' = user
      /\ holder[l].state = "none" /\ holder'[l].key = k
      /\ holder'[l].state \in {"opening", "active"}
  BY <1>1, <1>2, JoinsShed DEF TargetsInv, PoolSheds
<1> DEFINE r == [serve[s] EXCEPT !.pc = "waiting", !.lease = l]
<1>4. /\ r \in Call /\ r.pc = "waiting" /\ r.lease = l /\ r.target = serve[s].target
  BY <1>2 DEF Call, ServeSteps
<1>5. serve' = [serve EXCEPT ![s] = r]
  BY <1>1 DEF TargetsInv, TargetsTypeOK
<1> HIDE DEF r
<1>6. CallIsSound(r)
  BY <1>2, <1>4 DEF CallIsSound
<1>7. CallHasLease(r)
  BY <1>3, <1>4 DEF CallHasLease
<1>8. LeasesPass(s, r, {l})
  BY <1>1, <1>3, <1>4 DEF LeasesPass, StreamHas
<1>9. ConnectorsPass(s, r)
  BY <1>1, <1>3 DEF ConnectorsPass
<1> QED
  BY <1>1, <1>3, <1>4, <1>5, <1>6, <1>7, <1>8, <1>9, StreamMoves

\* A call that gives up its lease, waiting or too late.
LEMMA GivingUpKeeps ==
  ASSUME TargetsInv, NEW s \in Connections, ReacquireCancelled(s) \/ GiveBack(s)
  PROVE  TargetsInv'
<1>1. /\ UNCHANGED <<kind, target, plans, pinned, reads, resolver>>
      /\ serve[s].pc \in {"reacquire", "waiting", "giveback", "yield"}
  BY DEF ReacquireCancelled, GiveBack, ServeAt
<1>2. /\ serve[s] \in Call /\ serve[s].target \in Targets
      /\ kind[serve[s].target] = "http" /\ target[serve[s].target].pc \in {"held", "wait"}
      /\ target[serve[s].target].lease \in Leases
  BY <1>1, StreamIsServed
<1>3. serve[s].pc \in {"waiting", "giveback", "yield"} => serve[s].lease \in Leases
  BY DEF TargetsInv, LeasesAreHeld
<1>4. \E r \in Call : /\ serve' = [serve EXCEPT ![s] = r]
                      /\ r.pc \in {"returned", "open"} /\ r.target = serve[s].target
  <2>1. CASE ServeGoes(s, "returned")
    <3>1. \E r \in Call : /\ serve' = [serve EXCEPT ![s] = r]
                          /\ r.pc = "returned" /\ r.target = serve[s].target
      BY <2>1, CallGoes DEF ServeSteps
    <3> QED
      BY <3>1
  <2>2. CASE serve' = [serve EXCEPT ![s].lease = HeldLease(s), ![s].pc = "open"]
    <3>1. HeldLease(s) \in Leases
      BY <1>2 DEF HeldLease
    <3>2. CallGets(s, HeldLease(s), "open")
      BY <2>2 DEF CallGets
    <3>3. \E r \in Call : /\ serve' = [serve EXCEPT ![s] = r]
                          /\ r.pc = "open" /\ r.target = serve[s].target
      BY <3>1, <3>2, CallTakes DEF ServeSteps
    <3> QED
      BY <3>3
  <2> QED
    BY <2>1, <2>2 DEF ReacquireCancelled, GiveBack
<1>5. PICK r \in Call : /\ serve' = [serve EXCEPT ![s] = r]
                        /\ r.pc \in {"returned", "open"} /\ r.target = serve[s].target
  BY <1>4
<1>6. /\ PoolInv' /\ LeasesShed({}) /\ user' = user
      /\ serve[s].pc \in {"waiting", "giveback", "yield"} =>
           holder'[serve[s].lease].state \notin {"opening", "active"}
  <2>1. CASE serve[s].lease \in Leases /\ Leave(serve[s].lease)
    <3>1. /\ PoolInv' /\ PoolSheds({}) /\ holder'[serve[s].lease].state = "closed" /\ user' = user
      BY <2>1, LeaveSheds DEF TargetsInv
    <3> QED
      BY <3>1 DEF PoolSheds
  <2>2. CASE /\ UNCHANGED poolVars
             /\ \/ serve[s].pc = "reacquire"
                \/ serve[s].pc \in {"giveback", "yield"} /\ holder[serve[s].lease].state # "active"
    <3>1. /\ PoolInv' /\ PoolSheds({}) /\ holder' = holder /\ user' = user
      BY <2>2, PoolStays DEF TargetsInv
    <3>2. serve[s].pc \in {"giveback", "yield"} => holder[serve[s].lease].state \in {"active", "closed"}
      BY DEF TargetsInv, LeasesAreHeld
    <3> QED
      BY <2>2, <3>1, <3>2 DEF PoolSheds
  <2> QED
    BY <1>3, <2>1, <2>2 DEF ReacquireCancelled, GiveBack, ServeAt
<1>7. CallIsSound(r) /\ CallHasLease(r)
  BY <1>2, <1>5 DEF CallIsSound, CallHasLease
<1>8. LeasesPass(s, r, {})
  BY <1>1, <1>6 DEF LeasesPass, StreamHas
<1>9. ConnectorsPass(s, r)
  BY <1>1, <1>6 DEF ConnectorsPass
<1> QED
  BY <1>1, <1>5, <1>6, <1>7, <1>8, <1>9, StreamMoves

\* A call that opens a connector or closes it.
LEMMA OpenSucceedsKeeps ==
  ASSUME TargetsInv, NEW s \in Connections, NEW c \in Connectors, OpenSucceeds(s, c)
  PROVE  TargetsInv'
<1> DEFINE pc == IF user'[c].gen \in alive THEN "serving" ELSE "close"
           r == [serve[s] EXCEPT !.connector = c, !.pc = pc]
<1>1. /\ serve[s].pc = "open" /\ Attach(c, serve[s].lease)
      /\ target[serve[s].target].lease = serve[s].lease
      /\ serve' = [serve EXCEPT ![s].connector = c, ![s].pc = pc]
      /\ UNCHANGED <<kind, target, plans, pinned, reads, resolver>>
  BY DEF OpenSucceeds, ServeAt, HeldLease
<1>2. /\ serve[s] \in Call /\ serve[s].target \in Targets /\ serve[s].lease \in Leases
      /\ kind[serve[s].target] = "http" /\ target[serve[s].target].pc \in {"held", "wait"}
  BY <1>1, StreamIsServed
<1>3. r \in Call /\ r.pc \in {"serving", "close"} /\ r.connector = c /\ r.target = serve[s].target
  BY <1>2 DEF Call, ServeSteps
<1>4. serve' = [serve EXCEPT ![s] = r]
  BY <1>1 DEF TargetsInv, TargetsTypeOK
<1> HIDE DEF r
<1>5. /\ PoolInv' /\ LeasesShed({}) /\ holder' = holder
      /\ \A d \in Connectors : d # c => user'[d] = user[d]
  BY <1>1, <1>2, ConnectorsShed DEF TargetsInv
<1>6. CallIsSound(r) /\ CallHasLease(r)
  BY <1>2, <1>3 DEF CallIsSound, CallHasLease
<1>7. LeasesPass(s, r, {})
  BY <1>1 DEF LeasesPass, StreamHas
<1>8. ConnectorsPass(s, r)
  BY <1>1, <1>2, <1>3, <1>5 DEF ConnectorsPass
<1> QED
  BY <1>1, <1>3, <1>4, <1>5, <1>6, <1>7, <1>8, StreamMoves

LEMMA CloseConnectionKeeps ==
  ASSUME TargetsInv, NEW s \in Connections, CloseConnection(s)
  PROVE  TargetsInv'
<1> DEFINE c == serve[s].connector
<1>1. /\ serve[s].pc = "close" /\ ServeGoes(s, "returned")
      /\ (user[c].state = "open" /\ Detach(c)) \/ (user[c].state # "open" /\ UNCHANGED poolVars)
      /\ UNCHANGED <<kind, target, plans, pinned, reads, resolver>>
  BY DEF CloseConnection, ServeAt
<1>2. kind[serve[s].target] = "http"
  BY <1>1, StreamIsServed
<1>3. c \in Connectors
  BY <1>1, <1>2 DEF TargetsInv, ConnectorsAreHeld
<1>4. PICK r \in Call : /\ serve' = [serve EXCEPT ![s] = r]
                        /\ r.pc = "returned" /\ r.target = serve[s].target
  BY <1>1, CallGoes DEF ServeSteps
<1>5. /\ PoolInv' /\ LeasesShed({}) /\ holder' = holder
      /\ \A d \in Connectors : user'[d].state = "open" => d # c /\ user[d].state = "open"
  <2>1. CASE user[c].state = "open" /\ Detach(c)
    BY <1>3, <2>1, ConnectorsShed DEF TargetsInv
  <2>2. CASE user[c].state # "open" /\ UNCHANGED poolVars
    BY <2>2, PoolStays DEF TargetsInv, PoolSheds
  <2> QED
    BY <1>1, <2>1, <2>2
<1>6. CallIsSound(r) /\ CallHasLease(r)
  BY <1>4 DEF CallIsSound, CallHasLease
<1>7. LeasesPass(s, r, {})
  BY <1>1 DEF LeasesPass, StreamHas
<1>8. ConnectorsPass(s, r)
  BY <1>1, <1>5 DEF ConnectorsPass
<1> QED
  BY <1>1, <1>4, <1>5, <1>6, <1>7, <1>8, StreamMoves

----------------------------------------
(* A step of one target that makes it u.                                   *)

TargetInOrder(t, u) ==
  /\ kind[t] = "plain" => u.pc \in {"none", "held", "done"}
  /\ kind[t] = "stdio" =>
       u.pc \in {"none", "prepared", "failed", "held", "wait", "release", "done"}
  /\ kind[t] = "http" /\ u.pc # "none" => u.key \in Keys
  /\ u.pc \in Unheld => u.revoke = "none"
  /\ u.revoke # "none" => ~u.accepting
  /\ u.pc \in Leaving => u.revoke # "none"

\* Its streams find it as they knew it.
TargetKeepsStreams(t, u) ==
  /\ kind[t] # "plain" /\ target[t].pc \in {"held", "wait"} /\ u.pc \notin {"held", "wait"} =>
       Serving(t) \subseteq {s \in Connections : serve[s].pc = "none"}
  /\ target[t].pc # "none" => u.key = target[t].key

TargetHasLease(t, u) ==
  /\ u.pc = "waiting" =>
       u.lease \in Leases /\ holder'[u.lease].key = u.key /\ holder'[u.lease].state # "none"
  /\ kind[t] = "http" /\ u.pc \in {"held", "wait", "release"} =>
       u.lease \in Leases /\ holder'[u.lease].state \in {"active", "closed"}

TargetLeasesPass(t, u, S) ==
  /\ \A l \in S : l \in Leases => holder[l].state = "none"
  /\ \A l \in Leases :
       holder'[l].state \in {"opening", "active"} /\ (l \in S \/ TargetHas(t, l)) =>
         \/ kind[t] = "http" /\ u.pc \in {"waiting", "held", "wait", "release"} /\ u.lease = l
         \/ l \notin S /\ \E s \in Connections : StreamHas(s, l)

NoneOpens == \A c \in Connectors : user'[c].state = "open" => user[c].state = "open"

LEMMA TargetMoves ==
  ASSUME TargetsInv, PoolInv', NEW S, LeasesShed(S), NoneOpens, UNCHANGED <<kind, serve>>,
         NEW t \in Targets, NEW u \in Target, target' = [target EXCEPT ![t] = u],
         TargetInOrder(t, u), TargetKeepsStreams(t, u), TargetHasLease(t, u),
         TargetLeasesPass(t, u, S)
  PROVE  /\ target' \in [Targets -> Target]
         /\ TargetsInOrder' /\ StreamsHoldTargets' /\ LeasesAreHeld' /\ ConnectorsAreHeld'
<1>1. \A p \in Targets : target'[p] = IF p = t THEN u ELSE target[p]
  BY DEF TargetsInv, TargetsTypeOK
<1>2. \A l \in Leases \ S :
        /\ holder'[l].key = holder[l].key
        /\ holder[l].state # "none" => holder'[l].state # "none"
        /\ holder[l].state \in {"active", "closed"} => holder'[l].state \in {"active", "closed"}
        /\ holder'[l].state \in {"opening", "active"} => holder[l].state \in {"opening", "active"}
  BY ShedLeases DEF TargetsInv
<1>3. target' \in [Targets -> Target]
  BY DEF TargetsInv, TargetsTypeOK
<1>4. TargetsInOrder'
  BY <1>1 DEF TargetsInv, TargetsInOrder, TargetInOrder
<1>5. StreamsHoldTargets'
  <2> SUFFICES ASSUME NEW s \in Connections, serve[s].pc \notin {"none", "returned"}
               PROVE  /\ serve[s].target \in Targets
                      /\ kind[serve[s].target] # "plain" =>
                           target'[serve[s].target].pc \in {"held", "wait"}
                      /\ serve[s].pc # "serving" => kind[serve[s].target] = "http"
    BY DEF StreamsHoldTargets
  <2>1. /\ serve[s].target \in Targets
        /\ kind[serve[s].target] # "plain" => target[serve[s].target].pc \in {"held", "wait"}
        /\ serve[s].pc # "serving" => kind[serve[s].target] = "http"
    BY DEF TargetsInv, StreamsHoldTargets
  <2>2. serve[s].target = t => s \in Serving(t)
    BY DEF Serving
  <2> QED
    BY <1>1, <2>1, <2>2 DEF TargetKeepsStreams
<1>6. ConnectorsAreHeld'
  BY DEF NoneOpens, TargetsInv, ConnectorsAreHeld
<1>7. LeasesAreHeld'
  <2>1. \A p \in Targets : target'[p].pc = "waiting" =>
          /\ target'[p].lease \in Leases
          /\ holder'[target'[p].lease].key = target'[p].key
          /\ holder'[target'[p].lease].state # "none"
    <3> SUFFICES ASSUME NEW p \in Targets, target'[p].pc = "waiting"
                 PROVE  /\ target'[p].lease \in Leases
                        /\ holder'[target'[p].lease].key = target'[p].key
                        /\ holder'[target'[p].lease].state # "none"
      OBVIOUS
    <3>1. CASE p = t
      BY <1>1, <3>1 DEF TargetHasLease
    <3>2. CASE p # t
      <4>1. target'[p] = target[p]
        BY <1>1, <3>2
      <4> QED
        BY <1>2, <4>1 DEF TargetsInv, LeasesAreHeld, TargetLeasesPass
    <3> QED
      BY <3>1, <3>2
  <2>2. \A p \in Targets : kind[p] = "http" /\ target'[p].pc \in {"held", "wait", "release"} =>
          target'[p].lease \in Leases /\ holder'[target'[p].lease].state \in {"active", "closed"}
    <3> SUFFICES ASSUME NEW p \in Targets, kind[p] = "http",
                        target'[p].pc \in {"held", "wait", "release"}
                 PROVE  target'[p].lease \in Leases /\ holder'[target'[p].lease].state \in {"active", "closed"}
      OBVIOUS
    <3>1. CASE p = t
      BY <1>1, <3>1 DEF TargetHasLease
    <3>2. CASE p # t
      <4>1. target'[p] = target[p]
        BY <1>1, <3>2
      <4> QED
        BY <1>2, <4>1 DEF TargetsInv, LeasesAreHeld, TargetLeasesPass
    <3> QED
      BY <3>1, <3>2
  <2>3. \A p \in Connections : serve[p].pc = "waiting" =>
          /\ serve[p].lease \in Leases
          /\ holder'[serve[p].lease].key = target'[serve[p].target].key
          /\ holder'[serve[p].lease].state # "none"
    <3> SUFFICES ASSUME NEW p \in Connections, serve[p].pc = "waiting"
                 PROVE  /\ serve[p].lease \in Leases
                        /\ holder'[serve[p].lease].key = target'[serve[p].target].key
                        /\ holder'[serve[p].lease].state # "none"
      OBVIOUS
    <3>1. /\ serve[p].lease \in Leases /\ holder[serve[p].lease].key = target[serve[p].target].key
          /\ holder[serve[p].lease].state # "none"
      BY DEF TargetsInv, LeasesAreHeld
    <3>2. serve[p].target \in Targets /\ target[serve[p].target].pc \in {"held", "wait"}
      BY DEF TargetsInv, StreamsHoldTargets
    <3>3. target'[serve[p].target].key = target[serve[p].target].key
      BY <1>1, <3>2 DEF TargetKeepsStreams
    <3> QED
      BY <1>2, <3>1, <3>3 DEF TargetLeasesPass
  <2>4. \A p \in Connections : serve[p].pc \in {"giveback", "yield"} =>
         serve[p].lease \in Leases /\ holder'[serve[p].lease].state \in {"active", "closed"}
    BY <1>2 DEF TargetsInv, LeasesAreHeld, TargetLeasesPass
  <2>5. ASSUME NEW l \in Leases, holder'[l].state \in {"opening", "active"}
        PROVE  (\E p \in Targets : TargetHas(p, l)') \/ (\E s \in Connections : StreamHas(s, l))
    <3>1. CASE l \in S \/ TargetHas(t, l)
      <4>1. \/ kind[t] = "http" /\ u.pc \in {"waiting", "held", "wait", "release"} /\ u.lease = l
            \/ \E s \in Connections : StreamHas(s, l)
        BY <2>5, <3>1 DEF TargetLeasesPass
      <4> QED
        BY <1>1, <4>1 DEF TargetHas
    <3>2. CASE l \notin S /\ ~TargetHas(t, l)
      <4>1. \/ \E p \in Targets : TargetHas(p, l)
            \/ \E p \in Connections : StreamHas(p, l)
        BY <1>2, <2>5, <3>2 DEF TargetsInv, LeasesAreHeld
      <4>2. \A p \in Targets : TargetHas(p, l) => TargetHas(p, l)'
        BY <1>1, <3>2 DEF TargetHas
      <4> QED
        BY <4>1, <4>2
    <3> QED
      BY <3>1, <3>2
  <2>6. \A s \in Connections, l \in Leases : StreamHas(s, l)' = StreamHas(s, l)
    BY DEF StreamHas
  <2> QED
    BY <2>1, <2>2, <2>3, <2>4, <2>5, <2>6 DEF LeasesAreHeld
<1> QED
  BY <1>3, <1>4, <1>5, <1>6, <1>7

\* Targets that are counted by the entry of their key.
CountedSteps == {"acquire", "waiting", "unregister", "held", "wait", "release", "drop"}

PlanIsKept(t, u) ==
  \/ u.pc = target[t].pc
  \/ /\ u.pc \notin {"none", "prepared"}
     /\ kind[t] = "http" => target[t].pc # "prepared" /\ (target[t].pc \in CountedSteps <=> u.pc \in CountedSteps)
     /\ kind[t] = "stdio" /\ t \in pinned => u.pc \in {"held", "wait", "release"}

LEMMA PlansStay ==
  ASSUME TargetsInv, UNCHANGED <<kind, plans, pinned>>,
         NEW t \in Targets, NEW u \in Target, target' = [target EXCEPT ![t] = u],
         TargetKeepsStreams(t, u), PlanIsKept(t, u)
  PROVE  PlansAreCounted' /\ PinsAreOwned'
<1>1. \A p \in Targets : target'[p] = IF p = t THEN u ELSE target[p]
  BY DEF TargetsInv, TargetsTypeOK
<1>2. \A p \in Targets : kind[p] = "http" =>
        /\ target[p].pc \in CountedSteps <=> target'[p].pc \in CountedSteps
        /\ target[p].pc \in CountedSteps => target'[p].key = target[p].key
  BY <1>1 DEF PlanIsKept, TargetKeepsStreams, CountedSteps
<1>3. ASSUME NEW k \in Keys PROVE Counted(k)' = Counted(k)
  <2>1. Counted(k) = {p \in Targets : kind[p] = "http" /\ target[p].key = k /\ target[p].pc \in CountedSteps}
    BY DEF Counted, CountedSteps
  <2>2. Counted(k)' = {p \in Targets : kind[p] = "http" /\ target'[p].key = k /\ target'[p].pc \in CountedSteps}
    BY DEF Counted, CountedSteps
  <2> QED
    BY <1>2, <2>1, <2>2
<1>4. PlansAreCounted'
  BY <1>3 DEF TargetsInv, PlansAreCounted
<1>5. PinsAreOwned'
  <2>1. ASSUME NEW k \in Keys, plans[k].refs > 0
        PROVE  /\ plans[k].plan \in pinned
               /\ kind[plans[k].plan] = "http"
               /\ target'[plans[k].plan].key = k
               /\ target'[plans[k].plan].pc \notin {"none", "prepared"}
    <3>1. /\ plans[k].plan \in pinned
          /\ kind[plans[k].plan] = "http"
          /\ target[plans[k].plan].key = k
          /\ target[plans[k].plan].pc \notin {"none", "prepared"}
      BY <2>1 DEF TargetsInv, PinsAreOwned
    <3>2. plans[k].plan \in Targets
      BY <3>1 DEF TargetsInv, TargetsTypeOK
    <3> QED
      BY <1>1, <3>1, <3>2 DEF PlanIsKept, TargetKeepsStreams
  <2>2. ASSUME NEW p \in Targets, target'[p].pc = "prepared" PROVE p \in pinned
    <3>1. target[p].pc = "prepared"
      BY <1>1, <2>2 DEF PlanIsKept
    <3> QED
      BY <3>1 DEF TargetsInv, PinsAreOwned
  <2>3. ASSUME NEW p \in pinned
        PROVE  \/ target'[p].pc = "prepared"
               \/ kind[p] = "stdio" /\ target'[p].pc \in {"held", "wait", "release"}
               \/ kind[p] = "http" /\ PlanOf(target'[p].key, p)
    <3>1. p \in Targets
      BY DEF TargetsInv, TargetsTypeOK
    <3>2. \/ target[p].pc = "prepared"
          \/ kind[p] = "stdio" /\ target[p].pc \in {"held", "wait", "release"}
          \/ kind[p] = "http" /\ PlanOf(target[p].key, p)
      BY DEF TargetsInv, PinsAreOwned
    <3>3. CASE p # t
      BY <1>1, <3>1, <3>2, <3>3
    <3>4. CASE p = t /\ kind[t] = "stdio"
      BY <1>1, <3>2, <3>4 DEF PlanIsKept
    <3>5. CASE p = t /\ kind[t] = "http" /\ target[t].pc = "prepared"
      BY <1>1, <3>5 DEF PlanIsKept
    <3>6. CASE p = t /\ kind[t] = "http" /\ target[t].pc # "prepared"
      <4>1. PlanOf(target[p].key, p)
        BY <3>2, <3>6
      <4>2. target[t].pc # "none"
        BY <3>6, <4>1 DEF PlanOf, TargetsInv, PinsAreOwned
      <4> QED
        BY <1>1, <3>6, <4>1, <4>2 DEF TargetKeepsStreams
    <3>7. kind[t] = "plain" => target[t].pc # "prepared"
      BY DEF TargetsInv, TargetsInOrder
    <3>8. kind[t] \in {"http", "stdio", "plain"}
      BY DEF TargetsInv, TargetsTypeOK
    <3> QED
      BY <3>2, <3>3, <3>4, <3>5, <3>6, <3>7, <3>8
  <2>4. \A k \in Keys, p \in Targets : PlanOf(k, p)' = PlanOf(k, p)
    BY DEF PlanOf
  <2> QED
    BY <2>1, <2>2, <2>3, <2>4 DEF PinsAreOwned, PlanOf
<1> QED
  BY <1>4, <1>5

\* The shutdown that waits for the targets it found misses none.
ShutdownKnows(t, u) ==
  /\ kind[t] = "stdio" /\ u.pc \in {"held", "wait", "release"} =>
       ~resolver.closing \/ target[t].pc \in {"held", "wait", "release"}
  /\ target[t].pc = "done" => u.pc = "done"

LEMMA ShutdownStays ==
  ASSUME TargetsInv, UNCHANGED <<kind, resolver>>,
         NEW t \in Targets, NEW u \in Target, target' = [target EXCEPT ![t] = u],
         ShutdownKnows(t, u)
  PROVE  ShutdownHasAll'
<1>1. \A p \in Targets : target'[p] = IF p = t THEN u ELSE target[p]
  BY DEF TargetsInv, TargetsTypeOK
<1>2. resolver.closing <=> resolver.pc # "open"
  BY DEF TargetsInv, ShutdownHasAll
<1>3. resolver.active \subseteq Targets
  BY DEF TargetsInv, TargetsTypeOK
<1>4. resolver.pc # "open" => \A p \in Targets :
        kind[p] = "stdio" /\ target'[p].pc \in {"held", "wait", "release"} => p \in resolver.active
  BY <1>1, <1>2 DEF ShutdownKnows, TargetsInv, ShutdownHasAll
<1>5. resolver.pc = "done" => \A p \in resolver.active : target'[p].pc = "done"
  BY <1>1, <1>3 DEF ShutdownKnows, TargetsInv, ShutdownHasAll
<1> QED
  BY <1>2, <1>4, <1>5 DEF ShutdownHasAll

\* A step of a target that leaves its plan alone.
LEMMA TargetWalks ==
  ASSUME TargetsInv, PoolInv', NEW S, LeasesShed(S), NoneOpens,
         UNCHANGED <<kind, plans, pinned, reads, serve, resolver>>,
         NEW t \in Targets, NEW u \in Target, target' = [target EXCEPT ![t] = u],
         TargetInOrder(t, u), TargetKeepsStreams(t, u), TargetHasLease(t, u),
         TargetLeasesPass(t, u, S), PlanIsKept(t, u), ShutdownKnows(t, u)
  PROVE  TargetsInv'
<1>1. /\ target' \in [Targets -> Target]
      /\ TargetsInOrder' /\ StreamsHoldTargets' /\ LeasesAreHeld' /\ ConnectorsAreHeld'
  BY TargetMoves
<1>2. PlansAreCounted' /\ PinsAreOwned'
  BY PlansStay
<1>3. ShutdownHasAll'
  BY ShutdownStays
<1>4. ReadsAreCurrent'
  BY ReadsStay
<1>5. TargetsTypeOK'
  BY <1>1 DEF TargetsInv, TargetsTypeOK
<1> QED
  BY <1>1, <1>2, <1>3, <1>4, <1>5 DEF TargetsInv

\* The pool does nothing, or the target goes on with the lease it has.
LEMMA LeaseIsKept ==
  ASSUME TargetsInv, UNCHANGED poolVars, NEW t \in Targets, NEW u \in Target,
         u.lease = target[t].lease, u.key = target[t].key, u.pc # "waiting",
         kind[t] = "http" /\ target[t].pc = "waiting" =>
           u.pc \in {"held", "wait", "release"} \/ holder[target[t].lease].state \notin {"opening", "active"},
         kind[t] = "http" /\ target[t].pc \in {"held", "wait", "release"} =>
           u.pc \in {"held", "wait", "release"} \/ holder[target[t].lease].state \notin {"opening", "active"},
         kind[t] = "http" /\ u.pc \in {"held", "wait", "release"} =>
           \/ target[t].pc \in {"held", "wait", "release"}
           \/ target[t].pc = "waiting" /\ holder[target[t].lease].state = "active"
  PROVE  /\ PoolInv' /\ LeasesShed({}) /\ NoneOpens
         /\ TargetHasLease(t, u) /\ TargetLeasesPass(t, u, {})
<1>1. /\ PoolInv' /\ PoolSheds({}) /\ holder' = holder /\ user' = user
  BY PoolStays DEF TargetsInv
<1>2. TargetHasLease(t, u)
  BY <1>1 DEF TargetHasLease, TargetsInv, LeasesAreHeld
<1>3. TargetLeasesPass(t, u, {})
  BY <1>1 DEF TargetLeasesPass, TargetHas
<1> QED
  BY <1>1, <1>2, <1>3 DEF PoolSheds, NoneOpens

\* A step of a target that only sets its flags.
LEMMA FlagsKeep ==
  ASSUME TargetsInv, PoolInv', LeasesShed({}), NoneOpens, holder' = holder,
         UNCHANGED <<kind, plans, pinned, reads, serve, resolver>>,
         NEW t \in Targets, NEW u \in Target, target' = [target EXCEPT ![t] = u],
         u.pc = target[t].pc, u.key = target[t].key, u.lease = target[t].lease,
         TargetInOrder(t, u)
  PROVE  TargetsInv'
<1>1. TargetKeepsStreams(t, u) /\ PlanIsKept(t, u) /\ ShutdownKnows(t, u)
  BY DEF TargetKeepsStreams, PlanIsKept, ShutdownKnows
<1>2. TargetHasLease(t, u)
  BY DEF TargetHasLease, TargetsInv, LeasesAreHeld
<1>3. TargetLeasesPass(t, u, {})
  BY DEF TargetLeasesPass, TargetHas
<1> QED
  BY <1>1, <1>2, <1>3, TargetWalks

LEMMA RevokingKeeps ==
  ASSUME TargetsInv, NEW t \in Targets,
         Revoke(t) \/ RevokeCancels(t) \/ RevokeService(t) \/ RevokeReturns(t)
  PROVE  TargetsInv'
<1>1. UNCHANGED <<kind, plans, pinned, reads, serve, resolver>> /\ UNCHANGED poolVars
  BY DEF Revoke, RevokeCancels, RevokeService, RevokeReturns
<1>2. PoolInv' /\ LeasesShed({}) /\ NoneOpens /\ holder' = holder
  BY <1>1, PoolStays DEF TargetsInv, PoolSheds, NoneOpens
<1>3. target[t] \in Target /\ target \in [Targets -> Target]
  BY DEF TargetsInv, TargetsTypeOK
<1>4. /\ kind[t] = "plain" => target[t].pc \in {"none", "held", "done"}
      /\ kind[t] = "stdio" =>
           target[t].pc \in {"none", "prepared", "failed", "held", "wait", "release", "done"}
      /\ kind[t] = "http" /\ target[t].pc # "none" => target[t].key \in Keys
      /\ target[t].pc \in Unheld => target[t].revoke = "none"
      /\ target[t].revoke # "none" => ~target[t].accepting
  BY DEF TargetsInv, TargetsInOrder
<1>5. \E u \in Target : /\ target' = [target EXCEPT ![t] = u]
                        /\ u.pc = target[t].pc /\ u.key = target[t].key /\ u.lease = target[t].lease
                        /\ u.revoke # "none" /\ ~u.accepting /\ target[t].pc \notin Unheld
  <2>1. CASE Revoke(t)
    <3> DEFINE u == [target[t] EXCEPT !.accepting = FALSE, !.revoke = "cancel"]
    <3>1. /\ u \in Target /\ u.pc = target[t].pc /\ u.key = target[t].key
          /\ u.lease = target[t].lease /\ u.revoke # "none" /\ ~u.accepting
      BY <1>3 DEF Target
    <3>2. target' = [target EXCEPT ![t] = u] /\ target[t].pc \notin Unheld
      BY <1>3, <2>1 DEF Revoke, TargetAt, Unheld
    <3> QED
      BY <3>1, <3>2
  <2>2. CASE RevokeCancels(t)
    <3> DEFINE u == [target[t] EXCEPT !.live = FALSE,
                       !.revoke = IF kind[t] = "http" THEN "service" ELSE "revoked"]
    <3>1. /\ u \in Target /\ u.pc = target[t].pc /\ u.key = target[t].key
          /\ u.lease = target[t].lease /\ u.revoke # "none" /\ u.accepting = target[t].accepting
      BY <1>3 DEF Target
    <3>2. target' = [target EXCEPT ![t] = u] /\ target[t].revoke = "cancel"
      BY <1>3, <2>2 DEF RevokeCancels
    <3> QED
      BY <1>4, <3>1, <3>2
  <2>3. CASE RevokeService(t)
    <3> DEFINE u == [target[t] EXCEPT !.service = FALSE, !.revoke = "closing",
                       !.closing = ConnectorsOf(t)]
    <3>0. ConnectorsOf(t) \subseteq Connectors
      <4>1. \A s \in Connections : serve[s].connector \in Connectors \cup {NoConnector}
        BY DEF TargetsInv, TargetsTypeOK, Call
      <4> QED
        BY <4>1 DEF ConnectorsOf
    <3>1. /\ u \in Target /\ u.pc = target[t].pc /\ u.key = target[t].key
          /\ u.lease = target[t].lease /\ u.revoke # "none" /\ u.accepting = target[t].accepting
      BY <1>3, <3>0 DEF Target
    <3>2. target' = [target EXCEPT ![t] = u] /\ target[t].revoke = "service"
      BY <1>3, <2>3 DEF RevokeService
    <3> QED
      BY <1>4, <3>1, <3>2
  <2>4. CASE RevokeReturns(t)
    <3> DEFINE u == [target[t] EXCEPT !.revoke = "revoked"]
    <3>1. /\ u \in Target /\ u.pc = target[t].pc /\ u.key = target[t].key
          /\ u.lease = target[t].lease /\ u.revoke # "none" /\ u.accepting = target[t].accepting
      BY <1>3 DEF Target
    <3>2. target' = [target EXCEPT ![t] = u] /\ target[t].revoke = "closing"
      BY <1>3, <2>4 DEF RevokeReturns
    <3> QED
      BY <1>4, <3>1, <3>2
  <2> QED
    BY <2>1, <2>2, <2>3, <2>4
<1>6. PICK u \in Target : /\ target' = [target EXCEPT ![t] = u]
                          /\ u.pc = target[t].pc /\ u.key = target[t].key /\ u.lease = target[t].lease
                          /\ u.revoke # "none" /\ ~u.accepting /\ target[t].pc \notin Unheld
  BY <1>5
<1>7. TargetInOrder(t, u)
  BY <1>4, <1>6 DEF TargetInOrder
<1> QED
  BY <1>1, <1>2, <1>6, <1>7, FlagsKeep

LEMMA RevokeConnectorKeeps ==
  ASSUME TargetsInv, NEW t \in Targets, NEW c \in Connectors, RevokeConnector(t, c)
  PROVE  TargetsInv'
<1>1. /\ UNCHANGED <<kind, plans, pinned, reads, serve, resolver>>
      /\ Detach(c) \/ UNCHANGED poolVars
      /\ target' = [target EXCEPT ![t].closing = @ \ {c}]
  BY DEF RevokeConnector
<1>2. PoolInv' /\ LeasesShed({}) /\ NoneOpens /\ holder' = holder
  <2>1. CASE Detach(c)
    BY <2>1, ConnectorsShed DEF TargetsInv, PoolSheds, NoneOpens
  <2>2. CASE UNCHANGED poolVars
    BY <2>2, PoolStays DEF TargetsInv, PoolSheds, NoneOpens
  <2> QED
    BY <1>1, <2>1, <2>2
<1>3. target[t] \in Target /\ target \in [Targets -> Target]
  BY DEF TargetsInv, TargetsTypeOK
<1> DEFINE u == [target[t] EXCEPT !.closing = target[t].closing \ {c}]
<1>4. /\ u \in Target /\ u.pc = target[t].pc /\ u.key = target[t].key
      /\ u.lease = target[t].lease /\ u.revoke = target[t].revoke /\ u.accepting = target[t].accepting
  BY <1>3 DEF Target
<1>5. target' = [target EXCEPT ![t] = u]
  BY <1>1, <1>3
<1> HIDE DEF u
<1>6. TargetInOrder(t, u)
  BY <1>4 DEF TargetInOrder, TargetsInv, TargetsInOrder
<1> QED
  BY <1>1, <1>2, <1>4, <1>5, <1>6, FlagsKeep

LEMMA GoesTo ==
  ASSUME TargetsInv, NEW t \in Targets, NEW pc \in TargetSteps, TargetGoes(t, pc)
  PROVE  \E u \in Target : /\ target' = [target EXCEPT ![t] = u] /\ u.pc = pc
                           /\ u.key = target[t].key /\ u.lease = target[t].lease
                           /\ u.revoke = target[t].revoke /\ u.accepting = target[t].accepting
<1> DEFINE u == [target[t] EXCEPT !.pc = pc]
<1>1. target[t] \in Target /\ target \in [Targets -> Target]
  BY DEF TargetsInv, TargetsTypeOK
<1>2. /\ u \in Target /\ u.pc = pc
      /\ u.key = target[t].key /\ u.lease = target[t].lease
      /\ u.revoke = target[t].revoke /\ u.accepting = target[t].accepting
  BY <1>1 DEF Target
<1>3. target' = [target EXCEPT ![t] = u]
  BY <1>1 DEF TargetGoes
<1> QED
  BY <1>2, <1>3

LEMMA ReadyOnes ==
  ASSUME TargetsInv, NEW t \in Targets
  PROVE  /\ Ready(t) \in Target /\ Ready(t).pc = "held" /\ Ready(t).accepting
         /\ Ready(t).key = target[t].key /\ Ready(t).lease = target[t].lease
         /\ Ready(t).revoke = target[t].revoke
<1>1. target[t] \in Target
  BY DEF TargetsInv, TargetsTypeOK
<1> QED
  BY <1>1 DEF Ready, Target, TargetSteps

\* The kind of a target tells which steps it takes.
LEMMA KindsTell ==
  ASSUME TargetsInv, NEW t \in Targets
  PROVE  /\ kind[t] \in {"http", "stdio", "plain"}
         /\ target[t].pc \in TargetSteps
         /\ target[t].pc \in {"acquire", "waiting", "unregister", "drop"} => kind[t] = "http"
         /\ target[t].pc \in {"prepared", "wait", "release"} => kind[t] # "plain"
         /\ kind[t] = "http" /\ target[t].pc # "none" => target[t].key \in Keys
         /\ target[t].pc \in Unheld => target[t].revoke = "none"
         /\ target[t].pc \in Leaving => target[t].revoke # "none"
         /\ target[t].revoke # "none" => ~target[t].accepting
<1>1. target[t] \in Target /\ kind[t] \in {"http", "stdio", "plain"}
  BY DEF TargetsInv, TargetsTypeOK
<1>2. target[t].pc \in TargetSteps
  BY <1>1 DEF Target
<1>3. /\ kind[t] = "plain" => target[t].pc \in {"none", "held", "done"}
      /\ kind[t] = "stdio" =>
           target[t].pc \in {"none", "prepared", "failed", "held", "wait", "release", "done"}
      /\ kind[t] = "http" /\ target[t].pc # "none" => target[t].key \in Keys
      /\ target[t].pc \in Unheld => target[t].revoke = "none"
      /\ target[t].pc \in Leaving => target[t].revoke # "none"
      /\ target[t].revoke # "none" => ~target[t].accepting
  BY DEF TargetsInv, TargetsInOrder
<1> QED
  BY <1>1, <1>2, <1>3

\* Steps of a target that do nothing to the pool or to its plan.
LEMMA TargetStepsKeep ==
  ASSUME TargetsInv, NEW t \in Targets,
         \/ AcquirePlain(t) \/ AcquireRefused(t) \/ AcquireSucceeds(t) \/ AcquireFails(t)
         \/ RegisterStdio(t) /\ ~resolver.closing
         \/ Release(t) \/ Wait(t)
  PROVE  TargetsInv'
<1>1. UNCHANGED <<kind, plans, pinned, reads, serve, resolver>> /\ UNCHANGED poolVars
  BY DEF AcquirePlain, AcquireRefused, AcquireSucceeds, AcquireFails, RegisterStdio, Release, Wait
<1>2. /\ kind[t] \in {"http", "stdio", "plain"}
      /\ target[t].pc \in {"acquire", "waiting", "unregister", "drop"} => kind[t] = "http"
      /\ target[t].pc \in {"prepared", "wait", "release"} => kind[t] # "plain"
      /\ kind[t] = "http" /\ target[t].pc # "none" => target[t].key \in Keys
      /\ target[t].pc \in Unheld => target[t].revoke = "none"
      /\ target[t].pc \in Leaving => target[t].revoke # "none"
      /\ target[t].revoke # "none" => ~target[t].accepting
  BY KindsTell
<1> DEFINE Moved(u) ==
  \/ target[t].pc = "none" /\ u.pc = "held" /\ kind[t] = "plain"
  \/ target[t].pc = "acquire" /\ u.pc = "unregister"
  \/ target[t].pc = "waiting" /\ holder[target[t].lease].state = "active" /\ u.pc = "held"
  \/ target[t].pc = "waiting" /\ holder[target[t].lease].state = "closed" /\ u.pc = "unregister"
  \/ target[t].pc = "prepared" /\ kind[t] = "stdio" /\ ~resolver.closing /\ u.pc = "held"
  \/ /\ target[t].pc = "held" /\ target[t].revoke = "revoked"
     /\ u.pc = (IF kind[t] = "plain" THEN "done" ELSE "wait")
  \/ target[t].pc = "wait" /\ Serving(t) = {} /\ u.pc = "release"
<1>3. \E u \in Target : /\ target' = [target EXCEPT ![t] = u]
                        /\ u.key = target[t].key /\ u.lease = target[t].lease
                        /\ u.revoke = target[t].revoke
                        /\ u.accepting = target[t].accepting \/ u.revoke = "none"
                        /\ Moved(u)
  <2>1. ASSUME target' = [target EXCEPT ![t] = Ready(t)], target[t].revoke = "none",
               \A u \in Target : u.pc = "held" => Moved(u)
        PROVE  \E u \in Target : /\ target' = [target EXCEPT ![t] = u]
                                 /\ u.key = target[t].key /\ u.lease = target[t].lease
                                 /\ u.revoke = target[t].revoke /\ u.revoke = "none"
                                 /\ Moved(u)
    <3>1. /\ Ready(t) \in Target /\ Ready(t).pc = "held"
          /\ Ready(t).key = target[t].key /\ Ready(t).lease = target[t].lease
          /\ Ready(t).revoke = target[t].revoke
      BY ReadyOnes
    <3> QED
      BY <2>1, <3>1
  <2>2. ASSUME NEW pc \in TargetSteps, TargetGoes(t, pc), \A u \in Target : u.pc = pc => Moved(u)
        PROVE  \E u \in Target : /\ target' = [target EXCEPT ![t] = u]
                                 /\ u.key = target[t].key /\ u.lease = target[t].lease
                                 /\ u.revoke = target[t].revoke
                                 /\ u.accepting = target[t].accepting
                                 /\ Moved(u)
    <3>1. PICK u \in Target : /\ target' = [target EXCEPT ![t] = u] /\ u.pc = pc
                              /\ u.key = target[t].key /\ u.lease = target[t].lease
                              /\ u.revoke = target[t].revoke /\ u.accepting = target[t].accepting
      BY <2>2, GoesTo
    <3> QED
      BY <2>2, <3>1
  <2>3. CASE AcquireRefused(t)
    <3>1. "unregister" \in TargetSteps /\ TargetGoes(t, "unregister") /\ target[t].pc = "acquire"
      BY <2>3 DEF AcquireRefused, TargetAt, TargetSteps
    <3> QED
      BY <2>2, <3>1
  <2>4. CASE AcquireFails(t)
    <3>1. /\ "unregister" \in TargetSteps /\ TargetGoes(t, "unregister") /\ target[t].pc = "waiting"
          /\ holder[target[t].lease].state = "closed"
      BY <2>4 DEF AcquireFails, TargetAt, TargetSteps
    <3> QED
      BY <2>2, <3>1
  <2>5. CASE Release(t)
    <3> DEFINE pc == IF kind[t] = "plain" THEN "done" ELSE "wait"
    <3>1. /\ pc \in TargetSteps /\ TargetGoes(t, pc) /\ target[t].pc = "held"
          /\ target[t].revoke = "revoked"
      BY <2>5 DEF Release, TargetAt, TargetSteps
    <3>2. \A u \in Target : u.pc = pc => Moved(u)
      BY <3>1
    <3> HIDE DEF pc, Moved
    <3> QED
      BY <2>2, <3>1, <3>2
  <2>6. CASE Wait(t)
    <3>1. "release" \in TargetSteps /\ TargetGoes(t, "release") /\ target[t].pc = "wait" /\ Serving(t) = {}
      BY <2>6 DEF Wait, TargetAt, TargetSteps
    <3> QED
      BY <2>2, <3>1
  <2>7. CASE AcquirePlain(t)
    BY <1>2, <2>1, <2>7 DEF AcquirePlain, TargetAt, Unheld
  <2>8. CASE AcquireSucceeds(t)
    BY <1>2, <2>1, <2>8 DEF AcquireSucceeds, TargetAt, Unheld
  <2>9. CASE RegisterStdio(t) /\ ~resolver.closing
    BY <1>2, <2>1, <2>9 DEF RegisterStdio, TargetAt, Unheld
  <2> QED
    BY <2>3, <2>4, <2>5, <2>6, <2>7, <2>8, <2>9
<1>4. PICK u \in Target : /\ target' = [target EXCEPT ![t] = u]
                          /\ u.key = target[t].key /\ u.lease = target[t].lease
                          /\ u.revoke = target[t].revoke
                          /\ u.accepting = target[t].accepting \/ u.revoke = "none"
                          /\ Moved(u)
  BY <1>3
<1>5. TargetInOrder(t, u)
  BY <1>2, <1>4 DEF TargetInOrder, Unheld, Leaving
<1>6. TargetKeepsStreams(t, u)
  BY <1>2, <1>4 DEF TargetKeepsStreams
<1>7. PlanIsKept(t, u)
  BY <1>2, <1>4 DEF PlanIsKept, CountedSteps
<1>8. ShutdownKnows(t, u)
  BY <1>2, <1>4 DEF ShutdownKnows
<1>9. PoolInv' /\ LeasesShed({}) /\ NoneOpens /\ TargetHasLease(t, u) /\ TargetLeasesPass(t, u, {})
  BY <1>1, <1>2, <1>4, LeaseIsKept
<1> HIDE DEF Moved
<1> QED
  BY <1>1, <1>4, <1>5, <1>6, <1>7, <1>8, <1>9, TargetWalks

\* Steps of a target that acquire its lease or give it up.
LEMMA AcquireKeeps ==
  ASSUME TargetsInv, NEW t \in Targets, NEW l \in Leases, Acquire(t, l)
  PROVE  TargetsInv'
<1> DEFINE k == target[t].key
           u == [target[t] EXCEPT !.pc = "waiting", !.lease = l]
<1>1. /\ target[t].pc = "acquire" /\ AcquireBy(l, k)
      /\ target' = [target EXCEPT ![t].pc = "waiting", ![t].lease = l]
      /\ UNCHANGED <<kind, plans, pinned, reads, serve, resolver>>
  BY DEF Acquire, TargetAt
<1>2. target[t] \in Target /\ target \in [Targets -> Target]
  BY DEF TargetsInv, TargetsTypeOK
<1>3. kind[t] = "http" /\ k \in Keys /\ target[t].revoke = "none"
  BY <1>1, KindsTell DEF Unheld
<1>4. /\ PoolInv' /\ LeasesShed({l}) /\ NoneOpens
      /\ holder[l].state = "none" /\ holder'[l].key = k /\ holder'[l].state \in {"opening", "active"}
  BY <1>1, <1>3, JoinsShed DEF TargetsInv, PoolSheds, NoneOpens
<1>5. /\ u \in Target /\ u.pc = "waiting" /\ u.lease = l /\ u.key = k
      /\ u.revoke = target[t].revoke
  BY <1>2 DEF Target, TargetSteps
<1>6. target' = [target EXCEPT ![t] = u]
  BY <1>1, <1>2
<1> HIDE DEF u
<1>7. TargetInOrder(t, u)
  BY <1>3, <1>5 DEF TargetInOrder, Leaving
<1>8. TargetKeepsStreams(t, u) /\ PlanIsKept(t, u) /\ ShutdownKnows(t, u)
  BY <1>1, <1>3, <1>5 DEF TargetKeepsStreams, PlanIsKept, CountedSteps, ShutdownKnows
<1>9. TargetHasLease(t, u)
  BY <1>4, <1>5 DEF TargetHasLease
<1>10. TargetLeasesPass(t, u, {l})
  BY <1>1, <1>3, <1>4, <1>5 DEF TargetLeasesPass, TargetHas
<1> QED
  BY <1>1, <1>4, <1>5, <1>6, <1>7, <1>8, <1>9, <1>10, TargetWalks

LEMMA LeavingKeeps ==
  ASSUME TargetsInv, NEW t \in Targets,
         AcquireCancelled(t) \/ (ReleaseBackend(t) /\ kind[t] = "http")
  PROVE  TargetsInv'
<1>1. /\ UNCHANGED <<kind, plans, pinned, reads, serve, resolver>>
      /\ \/ target[t].pc = "waiting" /\ Leave(target[t].lease) /\ TargetGoes(t, "unregister")
         \/ /\ target[t].pc = "release" /\ TargetGoes(t, "drop") /\ kind[t] = "http"
            /\ \/ Leave(target[t].lease)
               \/ holder[target[t].lease].state # "active" /\ UNCHANGED poolVars
  BY DEF AcquireCancelled, ReleaseBackend, TargetAt
<1>2. /\ kind[t] = "http" /\ target[t].key \in Keys
      /\ target[t].pc = "waiting" => target[t].revoke = "none"
      /\ target[t].pc = "release" => target[t].revoke # "none" /\ ~target[t].accepting
  BY <1>1, KindsTell DEF Unheld, Leaving
<1>3. /\ target[t].lease \in Leases
      /\ target[t].pc = "release" => holder[target[t].lease].state \in {"active", "closed"}
  BY <1>1, <1>2 DEF TargetsInv, LeasesAreHeld
<1>4. PICK u \in Target :
        /\ target' = [target EXCEPT ![t] = u] /\ u.key = target[t].key /\ u.lease = target[t].lease
        /\ u.revoke = target[t].revoke /\ u.accepting = target[t].accepting
        /\ \/ target[t].pc = "waiting" /\ u.pc = "unregister"
           \/ target[t].pc = "release" /\ u.pc = "drop"
  <2>1. CASE target[t].pc = "waiting" /\ TargetGoes(t, "unregister")
    BY <2>1, GoesTo DEF TargetSteps
  <2>2. CASE target[t].pc = "release" /\ TargetGoes(t, "drop")
    BY <2>2, GoesTo DEF TargetSteps
  <2> QED
    BY <1>1, <2>1, <2>2
<1>5. /\ PoolInv' /\ LeasesShed({}) /\ NoneOpens
      /\ holder'[target[t].lease].state \notin {"opening", "active"}
  <2>1. CASE Leave(target[t].lease)
    <3>1. /\ PoolInv' /\ PoolSheds({}) /\ holder'[target[t].lease].state = "closed" /\ user' = user
      BY <1>3, <2>1, LeaveSheds DEF TargetsInv
    <3> QED
      BY <3>1 DEF PoolSheds, NoneOpens
  <2>2. CASE holder[target[t].lease].state = "closed" /\ UNCHANGED poolVars
    <3>1. /\ PoolInv' /\ PoolSheds({}) /\ holder' = holder
      BY <2>2, PoolStays DEF TargetsInv
    <3> QED
      BY <2>2, <3>1 DEF PoolSheds, NoneOpens
  <2> QED
    BY <1>1, <1>3, <2>1, <2>2
<1>6. TargetInOrder(t, u)
  BY <1>2, <1>4 DEF TargetInOrder, Unheld, Leaving
<1>7. TargetKeepsStreams(t, u) /\ PlanIsKept(t, u) /\ ShutdownKnows(t, u)
  BY <1>2, <1>4 DEF TargetKeepsStreams, PlanIsKept, CountedSteps, ShutdownKnows
<1>8. TargetHasLease(t, u)
  BY <1>4 DEF TargetHasLease
<1>9. TargetLeasesPass(t, u, {})
  BY <1>4, <1>5 DEF TargetLeasesPass, TargetHas
<1> QED
  BY <1>1, <1>4, <1>5, <1>6, <1>7, <1>8, <1>9, TargetWalks

\* A replacement becomes the lease of the service.
LEMMA SwapKeeps ==
  ASSUME TargetsInv, NEW s \in Connections, Swap(s)
  PROVE  TargetsInv'
<1> DEFINE t == serve[s].target
           u == [target[t] EXCEPT !.lease = serve[s].lease]
<1>1. CASE target' = target
  BY <1>1, WalkingKeeps
<1>2. CASE /\ ServeGoes(s, "open") /\ holder[target[t].lease].state # "active"
           /\ target' = [target EXCEPT ![t].lease = serve[s].lease]
  <2>1. /\ serve[s].pc = "waiting" /\ holder[serve[s].lease].state = "active"
        /\ UNCHANGED <<kind, plans, pinned, reads, resolver>> /\ UNCHANGED poolVars
    BY DEF Swap, ServeAt
  <2>2. /\ t \in Targets /\ kind[t] = "http" /\ target[t].pc \in {"held", "wait"}
        /\ holder[target[t].lease].state = "closed"
    BY <1>2, <2>1, StreamIsServed
  <2>3. /\ serve[s].lease \in Leases
    BY <2>1 DEF TargetsInv, LeasesAreHeld
  <2>4. target[t] \in Target /\ target \in [Targets -> Target]
    BY <2>2 DEF TargetsInv, TargetsTypeOK
  <2>5. /\ u \in Target /\ u.pc = target[t].pc /\ u.key = target[t].key
        /\ u.lease = serve[s].lease /\ u.revoke = target[t].revoke
        /\ u.accepting = target[t].accepting
    BY <2>3, <2>4 DEF Target
  <2>6. target' = [target EXCEPT ![t] = u]
    BY <1>2, <2>4
  <2>7. PICK r \in Call : /\ serve' = [serve EXCEPT ![s] = r]
                          /\ r.pc = "open" /\ r.target = t
    BY <1>2, CallGoes DEF ServeSteps
  <2> HIDE DEF u
  <2>8. \A p \in Targets : target'[p] = IF p = t THEN u ELSE target[p]
    BY <2>4, <2>6
  <2>9. \A p \in Connections : serve'[p] = IF p = s THEN r ELSE serve[p]
    BY <2>7 DEF TargetsInv, TargetsTypeOK
  <2>10. /\ PoolInv' /\ LeasesShed({}) /\ holder' = holder /\ user' = user
    BY <2>1, PoolStays DEF TargetsInv, PoolSheds
  <2>11. TargetsTypeOK'
    <3>1. target' \in [Targets -> Target] /\ serve' \in [Connections -> Call]
      BY <2>4, <2>5, <2>6, <2>7 DEF TargetsInv, TargetsTypeOK
    <3> QED
      BY <2>1, <3>1 DEF TargetsInv, TargetsTypeOK
  <2>12. TargetKeepsStreams(t, u) /\ PlanIsKept(t, u) /\ ShutdownKnows(t, u)
    BY <2>2, <2>5 DEF TargetKeepsStreams, PlanIsKept, ShutdownKnows
  <2>13. PlansAreCounted' /\ PinsAreOwned'
    BY <2>1, <2>2, <2>5, <2>6, <2>12, PlansStay
  <2>14. ShutdownHasAll'
    BY <2>1, <2>2, <2>5, <2>6, <2>12, ShutdownStays
  <2>15. ReadsAreCurrent'
    BY <2>1, <2>10, ReadsStay
  <2>16. TargetsInOrder'
    BY <2>1, <2>5, <2>8 DEF TargetsInv, TargetsInOrder
  <2>17. StreamsHoldTargets'
    BY <2>1, <2>2, <2>5, <2>7, <2>8, <2>9 DEF TargetsInv, StreamsHoldTargets
  <2>18. ConnectorsAreHeld'
    BY <2>1, <2>7, <2>9, <2>10 DEF TargetsInv, ConnectorsAreHeld
  <2>19. LeasesAreHeld'
    <3>1. \A p \in Targets : target'[p].pc = "waiting" =>
            /\ target'[p].lease \in Leases
            /\ holder[target'[p].lease].key = target'[p].key
            /\ holder[target'[p].lease].state # "none"
      BY <2>2, <2>5, <2>8 DEF TargetsInv, LeasesAreHeld
    <3>2. \A p \in Targets : kind[p] = "http" /\ target'[p].pc \in {"held", "wait", "release"} =>
            target'[p].lease \in Leases /\ holder[target'[p].lease].state \in {"active", "closed"}
      BY <2>1, <2>3, <2>5, <2>8 DEF TargetsInv, LeasesAreHeld
    <3>3. \A p \in Connections : serve'[p].pc = "waiting" =>
            /\ serve'[p].lease \in Leases
            /\ holder[serve'[p].lease].key = target'[serve'[p].target].key
            /\ holder[serve'[p].lease].state # "none"
      <4> SUFFICES ASSUME NEW p \in Connections, serve'[p].pc = "waiting"
                   PROVE  /\ serve'[p].lease \in Leases
                          /\ holder[serve'[p].lease].key = target'[serve'[p].target].key
                          /\ holder[serve'[p].lease].state # "none"
        OBVIOUS
      <4>1. serve'[p] = serve[p]
        BY <2>7, <2>9
      <4>2. serve[p].target \in Targets
        BY <4>1 DEF TargetsInv, StreamsHoldTargets
      <4>3. target'[serve[p].target].key = target[serve[p].target].key
        BY <2>5, <2>8, <4>2
      <4> QED
        BY <4>1, <4>3 DEF TargetsInv, LeasesAreHeld
    <3>4. \A p \in Connections : serve'[p].pc \in {"giveback", "yield"} =>
           serve'[p].lease \in Leases /\ holder[serve'[p].lease].state \in {"active", "closed"}
      BY <2>7, <2>9 DEF TargetsInv, LeasesAreHeld
    <3>5. ASSUME NEW l \in Leases, holder[l].state \in {"opening", "active"}
          PROVE  (\E p \in Targets : TargetHas(p, l)') \/ (\E p \in Connections : StreamHas(p, l)')
      <4>1. \/ \E p \in Targets : TargetHas(p, l)
            \/ \E p \in Connections : StreamHas(p, l)
        BY <3>5 DEF TargetsInv, LeasesAreHeld
      <4>2. ASSUME NEW p \in Targets, TargetHas(p, l) PROVE TargetHas(p, l)'
        <5>1. p # t
          BY <2>2, <3>5, <4>2 DEF TargetHas
        <5> QED
          BY <2>1, <2>8, <4>2, <5>1 DEF TargetHas
      <4>3. ASSUME NEW p \in Connections, StreamHas(p, l), p # s PROVE StreamHas(p, l)'
        BY <2>9, <4>3 DEF StreamHas
      <4>4. ASSUME StreamHas(s, l) PROVE \E p \in Targets : TargetHas(p, l)'
        <5>1. PICK p \in Targets : p = t
          BY <2>2
        <5>2. /\ target'[p].lease = l /\ target'[p].pc \in {"waiting", "held", "wait", "release"}
              /\ kind'[p] = "http"
          BY <2>1, <2>2, <2>5, <2>8, <4>4, <5>1 DEF StreamHas
        <5> QED
          BY <5>2 DEF TargetHas
      <4> QED
        BY <4>1, <4>2, <4>3, <4>4
    <3> QED
      BY <2>1, <2>10, <3>1, <3>2, <3>3, <3>4, <3>5 DEF LeasesAreHeld
  <2> QED
    BY <2>10, <2>11, <2>13, <2>14, <2>15, <2>16, <2>17, <2>18, <2>19 DEF TargetsInv
<1> QED
  BY <1>1, <1>2 DEF Swap

----------------------------------------
(* Steps of a target that change a plan.                                   *)

LEMMA CountedOnes ==
  ASSUME TargetsInv, NEW k \in Keys
  PROVE  /\ Counted(k) = {p \in Targets : /\ kind[p] = "http" /\ target[p].key = k
                                          /\ target[p].pc \in CountedSteps}
         /\ IsFiniteSet(Counted(k))
         /\ plans[k].refs \in Nat /\ plans[k].refs = Cardinality(Counted(k))
         /\ plans[k].refs = 0 <=> Counted(k) = {}
<1>1. Counted(k) = {p \in Targets : kind[p] = "http" /\ target[p].key = k /\ target[p].pc \in CountedSteps}
  BY DEF Counted, CountedSteps
<1>2. IsFiniteSet(Targets) /\ Counted(k) \subseteq Targets
  BY <1>1, TargetsAssumption
<1>3. IsFiniteSet(Counted(k))
  BY <1>2, FS_Subset
<1>4. plans[k].refs \in Nat
  BY DEF TargetsInv, TargetsTypeOK
<1>5. plans[k].refs = Cardinality(Counted(k))
  BY DEF TargetsInv, PlansAreCounted
<1> QED
  BY <1>1, <1>3, <1>4, <1>5, FS_EmptySet

\* A start has a waiting caller, and its plan is counted for the target of that
\* caller.
LEMMA StartsAreCounted ==
  ASSUME TargetsInv, NEW g \in Generation, phase[g] = "starting"
  PROVE  /\ owner[g] \in Keys
         /\ \E p \in Counted(owner[g]) : target[p].pc \in {"waiting", "held", "wait"}
<1>1. owner[g] \in Keys /\ LeasesOf(owner[g], "opening") # {}
  BY DEF TargetsInv, PoolInv, StartsAreAwaited
<1>2. PICK l \in Leases : holder[l].key = owner[g] /\ holder[l].state = "opening"
  BY <1>1 DEF LeasesOf
<1>3. \/ \E t \in Targets : TargetHas(t, l)
      \/ \E s \in Connections : StreamHas(s, l)
  BY <1>2 DEF TargetsInv, LeasesAreHeld
<1>4. ASSUME NEW t \in Targets, TargetHas(t, l)
      PROVE  t \in Counted(owner[g]) /\ target[t].pc = "waiting"
  <2>1. kind[t] = "http" /\ target[t].pc = "waiting" /\ holder[l].key = target[t].key
    BY <1>2, <1>4 DEF TargetHas, TargetsInv, LeasesAreHeld
  <2> QED
    BY <1>2, <2>1 DEF Counted
<1>5. ASSUME NEW s \in Connections, StreamHas(s, l)
      PROVE  /\ serve[s].target \in Counted(owner[g])
             /\ target[serve[s].target].pc \in {"held", "wait"}
  <2>1. serve[s].pc = "waiting" /\ holder[l].key = target[serve[s].target].key
    BY <1>2, <1>5 DEF StreamHas, TargetsInv, LeasesAreHeld
  <2>2. /\ serve[s].target \in Targets /\ kind[serve[s].target] = "http"
        /\ target[serve[s].target].pc \in {"held", "wait"}
    BY <2>1, StreamIsServed
  <2> QED
    BY <1>2, <2>1, <2>2 DEF Counted
<1> QED
  BY <1>1, <1>3, <1>4, <1>5

PlanRecord == [plan : Targets \cup {NoTarget}, refs : Nat]

ReadsAreKept ==
  \A g \in Generation : phase[g] = "starting" => plans'[owner[g]].plan = plans[owner[g]].plan

LEMMA PlanStep ==
  ASSUME TargetsInv, UNCHANGED poolVars, UNCHANGED <<kind, reads, serve, resolver>>,
         NEW t \in Targets, NEW u \in Target, target' = [target EXCEPT ![t] = u],
         u.lease = target[t].lease, u.pc # "waiting",
         kind[t] # "http" \/ (target[t].pc \notin {"waiting", "held", "wait", "release"}
                              /\ u.pc \notin {"held", "wait", "release"}),
         TargetInOrder(t, u), TargetKeepsStreams(t, u), ShutdownKnows(t, u),
         plans' \in [Keys -> PlanRecord], pinned' \subseteq Targets,
         PlansAreCounted', PinsAreOwned', ReadsAreKept
  PROVE  TargetsInv'
<1>1. /\ PoolInv' /\ PoolSheds({}) /\ holder' = holder /\ user' = user /\ phase' = phase
      /\ owner' = owner
  BY PoolStays DEF TargetsInv
<1>2. LeasesShed({}) /\ NoneOpens
  BY <1>1 DEF PoolSheds, NoneOpens
<1>3. TargetHasLease(t, u) /\ TargetLeasesPass(t, u, {})
  BY <1>1 DEF TargetHasLease, TargetLeasesPass, TargetHas
<1>4. /\ target' \in [Targets -> Target]
      /\ TargetsInOrder' /\ StreamsHoldTargets' /\ LeasesAreHeld' /\ ConnectorsAreHeld'
  BY <1>1, <1>2, <1>3, TargetMoves
<1>5. ShutdownHasAll'
  BY ShutdownStays
<1>6. ReadsAreCurrent'
  BY <1>1 DEF ReadsAreKept, TargetsInv, ReadsAreCurrent
<1>7. TargetsTypeOK'
  BY <1>4 DEF TargetsInv, TargetsTypeOK, PlanRecord
<1> QED
  BY <1>1, <1>4, <1>5, <1>6, <1>7 DEF TargetsInv

\* Mounts that are closed with no plan to give back.
LEMMA PinCloses ==
  ASSUME TargetsInv, UNCHANGED <<kind, plans>>, NEW t \in Targets, NEW u \in Target,
         target' = [target EXCEPT ![t] = u], u.key = target[t].key,
         u.pc \in {"failed", "done"}, ClosePlan(t),
         target[t].pc = "prepared" \/ kind[t] = "stdio"
  PROVE  PlansAreCounted' /\ PinsAreOwned'
<1>1. \A p \in Targets : target'[p] = IF p = t THEN u ELSE target[p]
  BY DEF TargetsInv, TargetsTypeOK
<1>2. ASSUME NEW k \in Keys PROVE Counted(k)' = Counted(k)
  <2>1. Counted(k) = {p \in Targets : kind[p] = "http" /\ target[p].key = k /\ target[p].pc \in CountedSteps}
    BY DEF Counted, CountedSteps
  <2>2. Counted(k)' = {p \in Targets : kind[p] = "http" /\ target'[p].key = k /\ target'[p].pc \in CountedSteps}
    BY DEF Counted, CountedSteps
  <2> QED
    BY <1>1, <2>1, <2>2 DEF CountedSteps
<1>3. PlansAreCounted'
  BY <1>2 DEF TargetsInv, PlansAreCounted
<1>4. PinsAreOwned'
  <2>0. pinned' = pinned \ {t} /\ pinned \subseteq Targets
    BY DEF ClosePlan, TargetsInv, TargetsTypeOK
  <2>1. ASSUME NEW k \in Keys, plans[k].refs > 0
        PROVE  /\ plans[k].plan \in pinned' /\ kind[plans[k].plan] = "http"
               /\ target'[plans[k].plan].key = k
               /\ target'[plans[k].plan].pc \notin {"none", "prepared"}
    <3>1. /\ plans[k].plan \in pinned /\ kind[plans[k].plan] = "http"
          /\ target[plans[k].plan].key = k
          /\ target[plans[k].plan].pc \notin {"none", "prepared"}
      BY <2>1 DEF TargetsInv, PinsAreOwned
    <3>2. plans[k].plan # t
      BY <3>1
    <3> QED
      BY <1>1, <2>0, <3>1, <3>2
  <2>2. ASSUME NEW p \in Targets, target'[p].pc = "prepared" PROVE p \in pinned'
    BY <1>1, <2>0, <2>2 DEF TargetsInv, PinsAreOwned
  <2>3. ASSUME NEW p \in pinned'
        PROVE  \/ target'[p].pc = "prepared"
               \/ kind[p] = "stdio" /\ target'[p].pc \in {"held", "wait", "release"}
               \/ kind[p] = "http" /\ PlanOf(target'[p].key, p)
    BY <1>1, <2>0 DEF TargetsInv, PinsAreOwned
  <2> QED
    BY <2>1, <2>2, <2>3 DEF PinsAreOwned, PlanOf
<1> QED
  BY <1>3, <1>4

LEMMA PrepareKeeps ==
  ASSUME TargetsInv, NEW t \in Targets, NEW k \in Keys, Prepare(t, k)
  PROVE  TargetsInv'
<1> DEFINE u == [target[t] EXCEPT !.pc = "prepared", !.key = k]
<1>0. target' = [target EXCEPT ![t].pc = "prepared", ![t].key = k]
  BY DEF Prepare
<1>1. /\ target[t].pc = "none" /\ kind[t] # "plain" /\ ~resolver.closing /\ pinned' = pinned \cup {t}
      /\ UNCHANGED <<kind, plans, reads, serve, resolver>> /\ UNCHANGED poolVars
  BY DEF Prepare, TargetAt
<1>2. target[t] \in Target /\ target \in [Targets -> Target]
  BY DEF TargetsInv, TargetsTypeOK
<1>3. /\ u \in Target /\ u.pc = "prepared" /\ u.key = k /\ u.lease = target[t].lease
      /\ u.revoke = target[t].revoke /\ u.accepting = target[t].accepting
  BY <1>2 DEF Target, TargetSteps
<1>4. target' = [target EXCEPT ![t] = u]
  BY <1>0, <1>2
<1> HIDE DEF u
<1>5. target[t].revoke = "none"
  BY <1>1, KindsTell DEF Unheld
<1>6. TargetInOrder(t, u) /\ TargetKeepsStreams(t, u) /\ ShutdownKnows(t, u)
  BY <1>1, <1>3, <1>5 DEF TargetInOrder, TargetKeepsStreams, ShutdownKnows, Leaving
<1>7. \A p \in Targets : target'[p] = IF p = t THEN u ELSE target[p]
  BY <1>2, <1>4
<1>8. PlansAreCounted'
  <2>1. ASSUME NEW j \in Keys PROVE Counted(j)' = Counted(j)
    <3>1. Counted(j) = {p \in Targets : kind[p] = "http" /\ target[p].key = j /\ target[p].pc \in CountedSteps}
      BY DEF Counted, CountedSteps
    <3>2. Counted(j)' = {p \in Targets : kind[p] = "http" /\ target'[p].key = j /\ target'[p].pc \in CountedSteps}
      BY <1>1 DEF Counted, CountedSteps
    <3>3. ASSUME NEW p \in Targets
          PROVE  (target'[p].key = j /\ target'[p].pc \in CountedSteps)
                 <=> (target[p].key = j /\ target[p].pc \in CountedSteps)
      BY <1>1, <1>3, <1>7 DEF CountedSteps
    <3> QED
      BY <3>1, <3>2, <3>3
  <2> QED
    BY <1>1, <2>1 DEF TargetsInv, PlansAreCounted
<1>9. PinsAreOwned'
  <2>0. pinned \subseteq Targets
    BY DEF TargetsInv, TargetsTypeOK
  <2>1. ASSUME NEW j \in Keys, plans[j].refs > 0
        PROVE  /\ plans[j].plan \in pinned' /\ kind[plans[j].plan] = "http"
               /\ target'[plans[j].plan].key = j
               /\ target'[plans[j].plan].pc \notin {"none", "prepared"}
    <3>1. /\ plans[j].plan \in pinned /\ kind[plans[j].plan] = "http"
          /\ target[plans[j].plan].key = j
          /\ target[plans[j].plan].pc \notin {"none", "prepared"}
      BY <2>1 DEF TargetsInv, PinsAreOwned
    <3> QED
      BY <1>1, <1>7, <2>0, <3>1
  <2>2. ASSUME NEW p \in Targets, target'[p].pc = "prepared" PROVE p \in pinned'
    BY <1>1, <1>7, <2>2 DEF TargetsInv, PinsAreOwned
  <2>3. ASSUME NEW p \in pinned'
        PROVE  \/ target'[p].pc = "prepared"
               \/ kind[p] = "stdio" /\ target'[p].pc \in {"held", "wait", "release"}
               \/ kind[p] = "http" /\ PlanOf(target'[p].key, p)
    <3>1. CASE p = t
      BY <1>3, <1>7, <3>1
    <3>2. CASE p # t
      <4>1. p \in pinned /\ target'[p] = target[p]
        BY <1>1, <1>7, <2>0, <3>2
      <4> QED
        BY <4>1 DEF TargetsInv, PinsAreOwned
    <3> QED
      BY <3>1, <3>2
  <2> QED
    BY <1>1, <2>1, <2>2, <2>3 DEF PinsAreOwned, PlanOf
<1>10. /\ plans' \in [Keys -> PlanRecord] /\ pinned' \subseteq Targets /\ ReadsAreKept
  BY <1>1 DEF TargetsInv, TargetsTypeOK, PlanRecord, ReadsAreKept
<1> QED
  BY <1>1, <1>3, <1>4, <1>6, <1>8, <1>9, <1>10, PlanStep

\* A registration that comes too late, and the release of a launch.
LEMMA ClosingKeeps ==
  ASSUME TargetsInv, NEW t \in Targets,
         \/ (RegisterStdio(t) \/ Register(t)) /\ resolver.closing
         \/ ReleaseBackend(t) /\ kind[t] = "stdio"
  PROVE  TargetsInv'
<1>1. /\ UNCHANGED <<kind, plans, reads, serve, resolver>> /\ UNCHANGED poolVars /\ ClosePlan(t)
      /\ \/ target[t].pc = "prepared" /\ TargetGoes(t, "failed")
         \/ target[t].pc = "release" /\ TargetGoes(t, "done") /\ kind[t] = "stdio"
  BY DEF RegisterStdio, Register, ReleaseBackend, TargetAt
<1>2. PICK u \in Target :
        /\ target' = [target EXCEPT ![t] = u] /\ u.key = target[t].key /\ u.lease = target[t].lease
        /\ u.revoke = target[t].revoke /\ u.accepting = target[t].accepting
        /\ \/ target[t].pc = "prepared" /\ u.pc = "failed"
           \/ target[t].pc = "release" /\ u.pc = "done" /\ kind[t] = "stdio"
  <2>1. CASE target[t].pc = "prepared" /\ TargetGoes(t, "failed")
    BY <2>1, GoesTo DEF TargetSteps
  <2>2. CASE target[t].pc = "release" /\ TargetGoes(t, "done") /\ kind[t] = "stdio"
    BY <2>2, GoesTo DEF TargetSteps
  <2> QED
    BY <1>1, <2>1, <2>2
<1>3. /\ kind[t] # "plain"
      /\ kind[t] = "http" => target[t].key \in Keys
      /\ target[t].pc = "prepared" => target[t].revoke = "none"
      /\ target[t].pc = "release" => target[t].revoke # "none"
      /\ target[t].revoke # "none" => ~target[t].accepting
  BY <1>2, KindsTell DEF Unheld, Leaving
<1>4. TargetInOrder(t, u) /\ TargetKeepsStreams(t, u) /\ ShutdownKnows(t, u)
  BY <1>2, <1>3 DEF TargetInOrder, TargetKeepsStreams, ShutdownKnows, Unheld, Leaving
<1>5. PlansAreCounted' /\ PinsAreOwned'
  BY <1>1, <1>2, PinCloses
<1>6. /\ plans' \in [Keys -> PlanRecord] /\ pinned' \subseteq Targets /\ ReadsAreKept
  BY <1>1 DEF TargetsInv, TargetsTypeOK, PlanRecord, ReadsAreKept, ClosePlan
<1>7. /\ u.pc # "waiting"
      /\ kind[t] # "http" \/ (target[t].pc \notin {"waiting", "held", "wait", "release"}
                              /\ u.pc \notin {"held", "wait", "release"})
  BY <1>2
<1> QED
  BY <1>1, <1>2, <1>4, <1>5, <1>6, <1>7, PlanStep

\* The first plan of a key becomes the entry's, a later one is closed.
LEMMA RegisterKeeps ==
  ASSUME TargetsInv, NEW t \in Targets, Register(t), ~resolver.closing
  PROVE  TargetsInv'
<1>0. PICK k \in Keys : k = target[t].key
  <2>1. kind[t] = "http" /\ target[t].pc = "prepared"
    BY DEF Register, TargetAt
  <2> QED
    BY <2>1, KindsTell
<1>1. /\ target[t].pc = "prepared" /\ kind[t] = "http" /\ TargetGoes(t, "acquire")
      /\ UNCHANGED <<kind, reads, serve, resolver>> /\ UNCHANGED poolVars
      /\ IF plans[k].refs = 0 THEN pinned' = pinned ELSE pinned' = pinned \ {t}
  BY <1>0 DEF Register, TargetAt, ClosePlan
<1>2. PICK u \in Target :
        /\ target' = [target EXCEPT ![t] = u] /\ u.key = target[t].key /\ u.lease = target[t].lease
        /\ u.revoke = target[t].revoke /\ u.accepting = target[t].accepting /\ u.pc = "acquire"
  BY <1>1, GoesTo DEF TargetSteps
<1>3. k = target[t].key /\ target[t].revoke = "none"
  BY <1>0, <1>1, KindsTell DEF Unheld
<1>4. TargetInOrder(t, u) /\ TargetKeepsStreams(t, u) /\ ShutdownKnows(t, u)
  BY <1>1, <1>2, <1>3 DEF TargetInOrder, TargetKeepsStreams, ShutdownKnows, Leaving
<1>5. \A p \in Targets : target'[p] = IF p = t THEN u ELSE target[p]
  BY <1>2 DEF TargetsInv, TargetsTypeOK
<1>6. /\ plans \in [Keys -> PlanRecord] /\ plans[k] \in PlanRecord /\ plans[k].refs \in Nat
      /\ pinned \subseteq Targets
  BY DEF TargetsInv, TargetsTypeOK, PlanRecord
<1>7. /\ plans' \in [Keys -> PlanRecord] /\ plans'[k].refs = plans[k].refs + 1
      /\ plans'[k].plan = IF plans[k].refs = 0 THEN t ELSE plans[k].plan
      /\ \A j \in Keys : j # k => plans'[j] = plans[j]
  <2> DEFINE r == IF plans[k].refs = 0 THEN [plan |-> t, refs |-> 1]
                  ELSE [plan |-> plans[k].plan, refs |-> plans[k].refs + 1]
  <2>0. plans' = [plans EXCEPT ![target[t].key] =
                     IF @.refs = 0 THEN [plan |-> t, refs |-> 1] ELSE [plan |-> @.plan, refs |-> @.refs + 1]]
    BY DEF Register
  <2>1. plans' = [plans EXCEPT ![k] = r]
    <3>1. CASE plans[k].refs = 0
      BY <1>0, <1>6, <2>0, <3>1
    <3>2. CASE plans[k].refs # 0
      BY <1>0, <1>6, <2>0, <3>2
    <3> QED
      BY <3>1, <3>2
  <2>2. plans[k].refs + 1 \in Nat
    BY <1>6
  <2>3. /\ r \in PlanRecord /\ r.refs = plans[k].refs + 1
        /\ r.plan = IF plans[k].refs = 0 THEN t ELSE plans[k].plan
    BY <1>6, <2>2 DEF PlanRecord
  <2> HIDE DEF r
  <2> QED
    BY <1>6, <2>1, <2>3
<1>9. PlansAreCounted'
  <2>1. ASSUME NEW j \in Keys
        PROVE  /\ j = k => Counted(j)' = Counted(j) \cup {t} /\ t \notin Counted(j)
               /\ j # k => Counted(j)' = Counted(j)
    <3>1. Counted(j) = {p \in Targets : kind[p] = "http" /\ target[p].key = j /\ target[p].pc \in CountedSteps}
      BY DEF Counted, CountedSteps
    <3>2. Counted(j)' = {p \in Targets : kind[p] = "http" /\ target'[p].key = j /\ target'[p].pc \in CountedSteps}
      BY <1>1 DEF Counted, CountedSteps
    <3>3. \A p \in Targets : p # t => target'[p] = target[p]
      BY <1>5
    <3>4. target'[t].key = k /\ target'[t].pc \in CountedSteps
      BY <1>2, <1>3, <1>5 DEF CountedSteps
    <3>5. target[t].pc \notin CountedSteps
      BY <1>1 DEF CountedSteps
    <3> QED
      BY <1>1, <3>1, <3>2, <3>3, <3>4, <3>5
  <2>2. IsFiniteSet(Counted(k)) /\ plans[k].refs = Cardinality(Counted(k))
    BY <1>3, CountedOnes
  <2>3. Cardinality(Counted(k) \cup {t}) = Cardinality(Counted(k)) + 1
    BY <1>3, <2>1, <2>2, FS_AddElement
  <2>4. ASSUME NEW j \in Keys PROVE plans'[j].refs = Cardinality(Counted(j)')
    <3>1. CASE j = k
      BY <1>7, <2>1, <2>2, <2>3, <3>1
    <3>2. CASE j # k
      BY <1>7, <2>1, <3>2 DEF TargetsInv, PlansAreCounted
    <3> QED
      BY <3>1, <3>2
  <2> QED
    BY <2>4 DEF PlansAreCounted
<1>10. PinsAreOwned'
  <2>0. /\ t \in pinned
        /\ \A j \in Keys : plans[j].refs > 0 =>
             /\ plans[j].plan \in pinned /\ plans[j].plan \in Targets /\ plans[j].plan # t
             /\ kind[plans[j].plan] = "http" /\ target[plans[j].plan].key = j
             /\ target[plans[j].plan].pc \notin {"none", "prepared"}
    BY <1>1, <1>6 DEF TargetsInv, PinsAreOwned
  <2>1. ASSUME NEW j \in Keys, plans'[j].refs > 0
        PROVE  /\ plans'[j].plan \in pinned' /\ kind[plans'[j].plan] = "http"
               /\ target'[plans'[j].plan].key = j
               /\ target'[plans'[j].plan].pc \notin {"none", "prepared"}
    <3>1. CASE j = k /\ plans[k].refs = 0
      BY <1>1, <1>2, <1>3, <1>5, <1>7, <2>0, <3>1
    <3>2. CASE j # k \/ plans[k].refs > 0
      <4>1. plans'[j].plan = plans[j].plan /\ plans[j].refs > 0
        BY <1>7, <2>1, <3>2
      <4>2. /\ plans[j].plan \in pinned /\ plans[j].plan \in Targets /\ plans[j].plan # t
            /\ kind[plans[j].plan] = "http" /\ target[plans[j].plan].key = j
            /\ target[plans[j].plan].pc \notin {"none", "prepared"}
        BY <2>0, <4>1
      <4>3. plans[j].plan \in pinned' /\ target'[plans[j].plan] = target[plans[j].plan]
        BY <1>1, <1>5, <4>2
      <4> QED
        BY <4>1, <4>2, <4>3
    <3> QED
      BY <1>6, <3>1, <3>2
  <2>2. ASSUME NEW p \in Targets, target'[p].pc = "prepared" PROVE p \in pinned'
    <3>1. p # t /\ target[p].pc = "prepared"
      BY <1>2, <1>5, <2>2
    <3>2. p \in pinned
      BY <3>1 DEF TargetsInv, PinsAreOwned
    <3> QED
      BY <1>1, <3>1, <3>2
  <2>3. ASSUME NEW p \in pinned'
        PROVE  \/ target'[p].pc = "prepared"
               \/ kind[p] = "stdio" /\ target'[p].pc \in {"held", "wait", "release"}
               \/ /\ kind[p] = "http" /\ target'[p].key \in Keys
                  /\ plans'[target'[p].key].refs > 0 /\ plans'[target'[p].key].plan = p
    <3>1. p \in pinned /\ p \in Targets
      BY <1>1, <1>6
    <3>2. CASE p = t
      BY <1>1, <1>2, <1>3, <1>5, <1>6, <1>7, <3>1, <3>2
    <3>3. CASE p # t
      <4>1. target'[p] = target[p]
        BY <1>5, <3>1, <3>3
      <4>2. \/ target[p].pc = "prepared"
            \/ kind[p] = "stdio" /\ target[p].pc \in {"held", "wait", "release"}
            \/ /\ kind[p] = "http" /\ target[p].key \in Keys
               /\ plans[target[p].key].refs > 0 /\ plans[target[p].key].plan = p
        BY <3>1 DEF TargetsInv, PinsAreOwned, PlanOf
      <4>3. ASSUME target[p].key \in Keys, plans[target[p].key].refs > 0,
                   plans[target[p].key].plan = p
            PROVE  plans'[target[p].key].refs > 0 /\ plans'[target[p].key].plan = p
        BY <1>6, <1>7, <4>3
      <4> QED
        BY <4>1, <4>2, <4>3
    <3> QED
      BY <3>2, <3>3
  <2> QED
    BY <1>1, <2>1, <2>2, <2>3 DEF PinsAreOwned, PlanOf
<1>11. ReadsAreKept
  <2> SUFFICES ASSUME NEW g \in Generation, phase[g] = "starting"
               PROVE  plans'[owner[g]].plan = plans[owner[g]].plan
    BY DEF ReadsAreKept
  <2>1. owner[g] \in Keys /\ Counted(owner[g]) # {}
    BY StartsAreCounted
  <2>2. plans[owner[g]].refs # 0
    BY <2>1, CountedOnes
  <2> QED
    BY <1>7, <2>1, <2>2
<1>12. pinned' \subseteq Targets
  BY <1>1, <1>6
<1> QED
  BY <1>1, <1>2, <1>4, <1>7, <1>9, <1>10, <1>11, <1>12, PlanStep

\* The last target of a key closes its plan, which no start needs any more.
LEMMA UnregisterKeeps ==
  ASSUME TargetsInv, NEW t \in Targets, AcquireUnwinds(t) \/ ReleasePlan(t)
  PROVE  TargetsInv'
<1>0. /\ \/ target[t].pc = "unregister" /\ TargetGoes(t, "failed")
         \/ target[t].pc = "drop" /\ TargetGoes(t, "done")
      /\ UNCHANGED <<kind, reads, serve, resolver>> /\ UNCHANGED poolVars
      /\ Unregister(t)
  BY DEF AcquireUnwinds, ReleasePlan, TargetAt
<1>1. /\ kind[t] = "http" /\ target[t].key \in Keys
      /\ target[t].pc = "unregister" => target[t].revoke = "none"
      /\ target[t].pc = "drop" => target[t].revoke # "none"
      /\ target[t].revoke # "none" => ~target[t].accepting
  BY <1>0, KindsTell DEF Unheld, Leaving
<1>2. PICK k \in Keys : k = target[t].key
  BY <1>1
<1>3. PICK u \in Target :
        /\ target' = [target EXCEPT ![t] = u] /\ u.key = target[t].key /\ u.lease = target[t].lease
        /\ u.revoke = target[t].revoke /\ u.accepting = target[t].accepting
        /\ \/ target[t].pc = "unregister" /\ u.pc = "failed"
           \/ target[t].pc = "drop" /\ u.pc = "done"
  <2>1. CASE target[t].pc = "unregister" /\ TargetGoes(t, "failed")
    BY <2>1, GoesTo DEF TargetSteps
  <2>2. CASE target[t].pc = "drop" /\ TargetGoes(t, "done")
    BY <2>2, GoesTo DEF TargetSteps
  <2> QED
    BY <1>0, <2>1, <2>2
<1>4. TargetInOrder(t, u) /\ TargetKeepsStreams(t, u) /\ ShutdownKnows(t, u)
  BY <1>1, <1>3 DEF TargetInOrder, TargetKeepsStreams, ShutdownKnows, Unheld, Leaving
<1>5. \A p \in Targets : target'[p] = IF p = t THEN u ELSE target[p]
  BY <1>3 DEF TargetsInv, TargetsTypeOK
<1>6. /\ plans \in [Keys -> PlanRecord] /\ plans[k] \in PlanRecord /\ plans[k].refs \in Nat
      /\ pinned \subseteq Targets
  BY DEF TargetsInv, TargetsTypeOK, PlanRecord
<1>7. /\ IsFiniteSet(Counted(k)) /\ plans[k].refs = Cardinality(Counted(k))
      /\ t \in Counted(k) /\ plans[k].refs # 0
  <2>1. t \in Counted(k)
    BY <1>1, <1>2, <1>3 DEF Counted
  <2> QED
    BY <2>1, CountedOnes
<1>8. /\ plans' \in [Keys -> PlanRecord] /\ plans'[k].refs = plans[k].refs - 1
      /\ \A j \in Keys : j # k => plans'[j] = plans[j]
      /\ \/ plans[k].refs > 1 /\ plans'[k].plan = plans[k].plan /\ pinned' = pinned
         \/ plans[k].refs = 1 /\ pinned' = pinned \ {plans[k].plan}
  <2>1. CASE plans[k].refs > 1
    <3> DEFINE r == [plans[k] EXCEPT !.refs = plans[k].refs - 1]
    <3>0. plans' = [plans EXCEPT ![target[t].key].refs = @ - 1] /\ pinned' = pinned
      BY <1>0, <1>2, <2>1 DEF Unregister
    <3>1. plans' = [plans EXCEPT ![k] = r]
      BY <1>2, <1>6, <3>0
    <3>2. plans[k].refs - 1 \in Nat
      BY <1>6, <2>1
    <3>3. r \in PlanRecord /\ r.refs = plans[k].refs - 1 /\ r.plan = plans[k].plan
      BY <1>6, <3>2 DEF PlanRecord
    <3> HIDE DEF r
    <3> QED
      BY <1>6, <2>1, <3>0, <3>1, <3>3
  <2>2. CASE ~(plans[k].refs > 1)
    <3>1. plans' = [plans EXCEPT ![k] = NoPlan] /\ pinned' = pinned \ {plans[k].plan}
      BY <1>0, <1>2, <2>2 DEF Unregister, ClosePlan
    <3>2. plans[k].refs = 1
      BY <1>6, <1>7, <2>2
    <3>3. NoPlan \in PlanRecord /\ NoPlan.refs = 0
      BY DEF NoPlan, PlanRecord
    <3> QED
      BY <1>6, <3>1, <3>2, <3>3
  <2> QED
    BY <2>1, <2>2
<1>9. PlansAreCounted'
  <2>1. ASSUME NEW j \in Keys
        PROVE  /\ j = k => Counted(j)' = Counted(j) \ {t}
               /\ j # k => Counted(j)' = Counted(j)
    <3>1. Counted(j) = {p \in Targets : kind[p] = "http" /\ target[p].key = j /\ target[p].pc \in CountedSteps}
      BY DEF Counted, CountedSteps
    <3>2. Counted(j)' = {p \in Targets : kind[p] = "http" /\ target'[p].key = j /\ target'[p].pc \in CountedSteps}
      BY <1>0 DEF Counted, CountedSteps
    <3>3. \A p \in Targets : p # t => target'[p] = target[p]
      BY <1>5
    <3>4. target'[t].pc \notin CountedSteps /\ target[t].key = k
      BY <1>2, <1>3, <1>5 DEF CountedSteps
    <3> QED
      BY <3>1, <3>2, <3>3, <3>4
  <2>2. Cardinality(Counted(k) \ {t}) = Cardinality(Counted(k)) - 1
    BY <1>7, FS_RemoveElement
  <2>3. ASSUME NEW j \in Keys PROVE plans'[j].refs = Cardinality(Counted(j)')
    <3>1. CASE j = k
      BY <1>7, <1>8, <2>1, <2>2, <3>1
    <3>2. CASE j # k
      BY <1>8, <2>1, <3>2 DEF TargetsInv, PlansAreCounted
    <3> QED
      BY <3>1, <3>2
  <2> QED
    BY <2>3 DEF PlansAreCounted
<1>10. PinsAreOwned'
  <2>0. \A j \in Keys : plans[j].refs > 0 =>
          /\ plans[j].plan \in pinned /\ plans[j].plan \in Targets
          /\ kind[plans[j].plan] = "http" /\ target[plans[j].plan].key = j
          /\ target[plans[j].plan].pc \notin {"none", "prepared"}
    BY <1>6 DEF TargetsInv, PinsAreOwned
  <2>1. ASSUME NEW j \in Keys, plans'[j].refs > 0
        PROVE  /\ plans'[j].plan \in pinned' /\ kind[plans'[j].plan] = "http"
               /\ target'[plans'[j].plan].key = j
               /\ target'[plans'[j].plan].pc \notin {"none", "prepared"}
    <3>1. plans'[j].plan = plans[j].plan /\ plans[j].refs > 0 /\ (j # k \/ plans[k].refs > 1)
      BY <1>6, <1>8, <2>1
    <3>2. /\ plans[j].plan \in pinned /\ plans[j].plan \in Targets
          /\ kind[plans[j].plan] = "http" /\ target[plans[j].plan].key = j
          /\ target[plans[j].plan].pc \notin {"none", "prepared"}
      BY <2>0, <3>1
    <3>3. plans[j].plan \in pinned'
      <4>1. CASE plans[k].refs > 1
        BY <1>6, <1>8, <3>2, <4>1
      <4>2. CASE plans[k].refs = 1 /\ j # k
        <5>1. target[plans[k].plan].key = k
          BY <2>0, <4>2
        <5>2. plans[j].plan # plans[k].plan
          BY <3>2, <4>2, <5>1
        <5> QED
          BY <1>8, <3>2, <4>2, <5>2
      <4> QED
        BY <1>8, <3>1, <4>1, <4>2
    <3>4. /\ target'[plans[j].plan].key = target[plans[j].plan].key
          /\ target'[plans[j].plan].pc \notin {"none", "prepared"}
      BY <1>3, <1>5, <3>2
    <3> QED
      BY <3>1, <3>2, <3>3, <3>4
  <2>2. ASSUME NEW p \in Targets, target'[p].pc = "prepared" PROVE p \in pinned'
    <3>1. target[p].pc = "prepared"
      BY <1>3, <1>5, <2>2
    <3>2. p \in pinned /\ plans[k].plan # p
      <4>1. p \in pinned
        BY <3>1 DEF TargetsInv, PinsAreOwned
      <4>2. plans[k].refs > 0
        BY <1>6, <1>7
      <4>3. target[plans[k].plan].pc # "prepared"
        BY <2>0, <4>2
      <4> QED
        BY <3>1, <4>1, <4>3
    <3> QED
      BY <1>8, <3>2
  <2>3. ASSUME NEW p \in pinned'
        PROVE  \/ target'[p].pc = "prepared"
               \/ kind[p] = "stdio" /\ target'[p].pc \in {"held", "wait", "release"}
               \/ /\ kind[p] = "http" /\ target'[p].key \in Keys
                  /\ plans'[target'[p].key].refs > 0 /\ plans'[target'[p].key].plan = p
    <3>1. p \in pinned /\ p \in Targets
      BY <1>6, <1>8
    <3>2. \/ target[p].pc = "prepared"
          \/ kind[p] = "stdio" /\ target[p].pc \in {"held", "wait", "release"}
          \/ /\ kind[p] = "http" /\ target[p].key \in Keys
             /\ plans[target[p].key].refs > 0 /\ plans[target[p].key].plan = p
      BY <3>1 DEF TargetsInv, PinsAreOwned, PlanOf
    <3>3. target'[p].key = target[p].key /\ (p # t => target'[p] = target[p])
      BY <1>3, <1>5, <3>1
    <3>4. ASSUME target[p].key \in Keys, plans[target[p].key].refs > 0,
                 plans[target[p].key].plan = p
          PROVE  plans'[target[p].key].refs > 0 /\ plans'[target[p].key].plan = p
      <4>1. CASE target[p].key # k
        BY <1>8, <3>4, <4>1
      <4>2. CASE target[p].key = k
        <5>1. plans[k].refs > 1 /\ plans'[k].plan = plans[k].plan
          BY <1>8, <3>4, <4>2
        <5> QED
          BY <1>6, <1>8, <3>4, <4>2, <5>1
      <4> QED
        BY <4>1, <4>2
    <3>5. CASE p = t
      BY <1>1, <1>3, <3>2, <3>3, <3>4, <3>5
    <3>6. CASE p # t
      BY <3>2, <3>3, <3>4, <3>6
    <3> QED
      BY <3>5, <3>6
  <2> QED
    BY <1>0, <2>1, <2>2, <2>3 DEF PinsAreOwned, PlanOf
<1>11. ReadsAreKept
  <2> SUFFICES ASSUME NEW g \in Generation, phase[g] = "starting"
               PROVE  plans'[owner[g]].plan = plans[owner[g]].plan
    BY DEF ReadsAreKept
  <2>1. PICK p \in Counted(owner[g]) : target[p].pc \in {"waiting", "held", "wait"}
    BY StartsAreCounted
  <2>2. owner[g] \in Keys
    BY StartsAreCounted
  <2>3. CASE owner[g] = k
    <3>1. p # t /\ p \in Counted(k) \ {t}
      BY <1>3, <2>1, <2>3
    <3>2. IsFiniteSet(Counted(k) \ {t}) /\ Cardinality(Counted(k) \ {t}) = Cardinality(Counted(k)) - 1
      BY <1>7, FS_RemoveElement
    <3>3. Cardinality(Counted(k) \ {t}) # 0
      BY <3>1, <3>2, FS_EmptySet
    <3>4. plans[k].refs # 1
      BY <1>7, <3>2, <3>3
    <3> QED
      BY <1>8, <2>3, <3>4
  <2>4. CASE owner[g] # k
    BY <1>8, <2>2, <2>4
  <2> QED
    BY <2>3, <2>4
<1>12. pinned' \subseteq Targets
  BY <1>6, <1>8
<1> QED
  BY <1>0, <1>1, <1>3, <1>4, <1>8, <1>9, <1>10, <1>11, <1>12, PlanStep

----------------------------------------
(* The invariant, and what it says.                                        *)

LEMMA TargetsStart == ASSUME TargetsInit PROVE TargetsInv
<1> USE DEF TargetsInit, PoolInit
<1>1. PoolInv
  <2>1. PoolTypeOK
    BY DEF PoolTypeOK, Phases, Holder, User, NoHolder, NoUser
  <2>2. StartsAreAwaited /\ OneOccupant
    BY DEF StartsAreAwaited, OneOccupant, Occupied
  <2> QED
    BY <2>1, <2>2 DEF PoolInv
<1>2. \A t \in Targets : target[t] = NoTargetYet
  OBVIOUS
<1>3. \A s \in Connections : serve[s] = NoServe
  OBVIOUS
<1>4. TargetsTypeOK
  <2>1. kind \in [Targets -> {"http", "stdio", "plain"}]
    BY TargetsAssumption DEF OfClass
  <2>2. target \in [Targets -> Target] /\ serve \in [Connections -> Call]
    BY DEF NoTargetYet, Target, TargetSteps, NoServe, Call, ServeSteps
  <2>3. plans \in [Keys -> [plan : Targets \cup {NoTarget}, refs : Nat]]
    BY DEF NoPlan
  <2> QED
    BY <2>1, <2>2, <2>3 DEF TargetsTypeOK, NewResolver
<1>5. TargetsInOrder
  BY <1>2 DEF TargetsInOrder, NoTargetYet, Leaving
<1>6. StreamsHoldTargets
  BY <1>3 DEF StreamsHoldTargets, NoServe
<1>7. LeasesAreHeld
  BY <1>2, <1>3 DEF LeasesAreHeld, NoTargetYet, NoServe, NoHolder
<1>8. ConnectorsAreHeld
  BY <1>3 DEF ConnectorsAreHeld, NoServe, NoUser
<1>9. PlansAreCounted
  <2>1. \A k \in Keys : Counted(k) = {} /\ plans[k].refs = 0
    BY <1>2 DEF Counted, NoTargetYet, NoPlan
  <2> QED
    BY <2>1, FS_EmptySet DEF PlansAreCounted
<1>10. PinsAreOwned
  BY <1>2 DEF PinsAreOwned, NoTargetYet, NoPlan
<1>11. ReadsAreCurrent /\ ShutdownHasAll
  BY DEF ReadsAreCurrent, ShutdownHasAll, NewResolver
<1> QED
  BY <1>1, <1>4, <1>5, <1>6, <1>7, <1>8, <1>9, <1>10, <1>11 DEF TargetsInv

LEMMA TargetsStep == ASSUME TargetsInv, [TargetsNext]_allVars PROVE TargetsInv'
<1>1. ASSUME NEW t \in Targets, NEW k \in Keys, Prepare(t, k) PROVE TargetsInv'
  BY <1>1, PrepareKeeps
<1>2. ASSUME NEW t \in Targets, AcquireStep(t) PROVE TargetsInv'
  <2>1. CASE RegisterStdio(t) \/ Register(t)
    <3>1. CASE resolver.closing
      BY <2>1, <3>1, ClosingKeeps
    <3>2. CASE ~resolver.closing /\ RegisterStdio(t)
      BY <3>2, TargetStepsKeep
    <3>3. CASE ~resolver.closing /\ Register(t)
      BY <3>3, RegisterKeeps
    <3> QED
      BY <2>1, <3>1, <3>2, <3>3
  <2>2. CASE AcquireRefused(t) \/ AcquireSucceeds(t) \/ AcquireFails(t)
    BY <2>2, TargetStepsKeep
  <2>3. ASSUME NEW l \in Leases, Acquire(t, l) PROVE TargetsInv'
    BY <2>3, AcquireKeeps
  <2>4. CASE AcquireUnwinds(t)
    BY <2>4, UnregisterKeeps
  <2> QED
    BY <1>2, <2>1, <2>2, <2>3, <2>4 DEF AcquireStep
<1>3. ASSUME NEW t \in Targets, AcquirePlain(t) \/ Release(t) PROVE TargetsInv'
  BY <1>3, TargetStepsKeep
<1>4. ASSUME NEW t \in Targets, AcquireCancelled(t) PROVE TargetsInv'
  BY <1>4, LeavingKeeps
<1>5. ASSUME NEW t \in Targets, Revoke(t) \/ RevokeStep(t) PROVE TargetsInv'
  <2>1. CASE Revoke(t) \/ RevokeCancels(t) \/ RevokeService(t) \/ RevokeReturns(t)
    BY <2>1, RevokingKeeps
  <2>2. ASSUME NEW c \in Connectors, RevokeConnector(t, c) PROVE TargetsInv'
    BY <2>2, RevokeConnectorKeeps
  <2> QED
    BY <1>5, <2>1, <2>2 DEF RevokeStep
<1>6. ASSUME NEW t \in Targets, ReleaseStep(t) PROVE TargetsInv'
  <2>1. CASE Wait(t)
    BY <2>1, TargetStepsKeep
  <2>2. CASE ReleaseBackend(t)
    <3>1. kind[t] # "plain" /\ kind[t] \in {"http", "stdio", "plain"}
      BY <2>2, KindsTell DEF ReleaseBackend, TargetAt
    <3>2. CASE kind[t] = "http"
      BY <2>2, <3>2, LeavingKeeps
    <3>3. CASE kind[t] = "stdio"
      BY <2>2, <3>3, ClosingKeeps
    <3> QED
      BY <3>1, <3>2, <3>3
  <2>3. CASE ReleasePlan(t)
    BY <2>3, UnregisterKeeps
  <2> QED
    BY <1>6, <2>1, <2>2, <2>3 DEF ReleaseStep
<1>7. ASSUME NEW s \in Connections, NEW t \in Streamed, ServeConnector(s, t) PROVE TargetsInv'
  <2>1. t \in Targets
    BY TargetsAssumption
  <2> QED
    BY <1>7, <2>1, ServeConnectorKeeps
<1>8. ASSUME NEW s \in Connections, ConnectionStep(s) PROVE TargetsInv'
  <2>1. CASE LookForLease(s) \/ OpenRetries(s)
    BY <2>1, WalkingKeeps
  <2>2. ASSUME NEW l \in Leases, Reacquire(s, l) PROVE TargetsInv'
    BY <2>2, ReacquireKeeps
  <2>3. CASE Swap(s)
    BY <2>3, SwapKeeps
  <2>4. CASE GiveBack(s)
    BY <2>4, GivingUpKeeps
  <2>5. ASSUME NEW c \in Connectors, OpenSucceeds(s, c) PROVE TargetsInv'
    BY <2>5, OpenSucceedsKeeps
  <2>6. CASE CloseConnection(s)
    BY <2>6, CloseConnectionKeeps
  <2> QED
    BY <1>8, <2>1, <2>2, <2>3, <2>4, <2>5, <2>6 DEF ConnectionStep
<1>9. ASSUME NEW s \in Connections, NEW retry \in BOOLEAN, ReacquireRefused(s, retry)
      PROVE  TargetsInv'
  BY <1>9, WalkingKeeps
<1>10. ASSUME NEW s \in Connections, ServingEnds(s) PROVE TargetsInv'
  BY <1>10, WalkingKeeps
<1>11. ASSUME NEW s \in Connections, ReacquireCancelled(s) PROVE TargetsInv'
  BY <1>11, GivingUpKeeps
<1>12. ASSUME NEW g \in Generation, StartStep(g) PROVE TargetsInv'
  <2>1. CASE StartReads(g) \/ StartLaunches(g)
    BY <2>1, StartsKeepTargets
  <2>2. CASE WaitReady(g)
    <3>1. PoolsOwn /\ UNCHANGED targetVars
      BY <2>2 DEF PoolsOwn, WaitReady
    <3> QED
      BY <3>1, PoolKeepsTargets
  <2> QED
    BY <1>12, <2>1, <2>2 DEF StartStep
<1>13. ASSUME NEW g \in Generation,
              \/ StartIsLost(g) \/ ProcessEnds(g) \/ ExitIsNoticed(g) \/ IdleExpires(g)
              \/ NextGeneration(g)
       PROVE  TargetsInv'
  <2>1. PoolsOwn /\ UNCHANGED targetVars
    BY <1>13 DEF PoolsOwn, StartIsLost, ProcessEnds, ExitIsNoticed, IdleExpires, NextGeneration
  <2> QED
    BY <2>1, PoolKeepsTargets
<1>14. ASSUME (\E k \in Keys : Refused(k)) \/ ShutdownPool PROVE TargetsInv'
  <2>1. PoolsOwn /\ UNCHANGED targetVars
    BY <1>14 DEF PoolsOwn, Refused, ShutdownPool
  <2> QED
    BY <2>1, PoolKeepsTargets
<1>15. CASE ShutdownBegins \/ ShutdownRevokes \/ ShutdownReturns
  BY <1>15, ShutdownKeepsTargets
<1>16. CASE UNCHANGED allVars
  <2>1. UNCHANGED poolVars /\ UNCHANGED <<kind, target, plans, pinned, reads, serve, resolver>>
    BY <1>16 DEF allVars, targetVars
  <2>2. PoolInv' /\ PoolSheds({})
    BY <2>1, PoolStays DEF TargetsInv
  <2>3. TargetsInOrder' /\ StreamsHoldTargets' /\ PlansAreCounted' /\ PinsAreOwned'
    BY <2>1, OwnersStay
  <2>4. LeasesAreHeld' /\ ConnectorsAreHeld' /\ ReadsAreCurrent'
    BY <2>1, <2>2, LeasesStay
  <2>5. TargetsTypeOK' /\ ShutdownHasAll'
    BY <2>1 DEF TargetsInv, TargetsTypeOK, ShutdownHasAll
  <2> QED
    BY <2>2, <2>3, <2>4, <2>5 DEF TargetsInv
<1> QED
  BY <1>1, <1>2, <1>3, <1>4, <1>5, <1>6, <1>7, <1>8, <1>9, <1>10, <1>11, <1>12, <1>13, <1>14,
    <1>15, <1>16 DEF TargetsNext

LEMMA TargetsOwn == ASSUME TargetsInv PROVE TargetsOwnTheirLaunch
<1>1. StartsHaveTheirPlan
  <2> SUFFICES ASSUME NEW g \in Generation, phase[g] = "starting"
               PROVE  /\ plans[owner[g]].refs > 0
                      /\ plans[owner[g]].plan \in pinned
                      /\ reads[g] # NoTarget => reads[g] \in pinned
    BY DEF StartsHaveTheirPlan
  <2>1. owner[g] \in Keys /\ Counted(owner[g]) # {}
    BY StartsAreCounted
  <2>2. plans[owner[g]].refs > 0
    BY <2>1, CountedOnes
  <2>3. plans[owner[g]].plan \in pinned
    BY <2>1, <2>2 DEF TargetsInv, PinsAreOwned
  <2> QED
    BY <2>2, <2>3 DEF TargetsInv, ReadsAreCurrent
<1>2. NothingIsLeft
  <2>1. \A k \in Keys : plans[k].refs = Cardinality(Counted(k))
    BY DEF TargetsInv, PlansAreCounted
  <2>2. ASSUME \A t \in Targets : target[t].pc \in {"none", "failed", "done"}
        PROVE  /\ pinned = {}
               /\ \A l \in Leases : holder[l].state \notin {"opening", "active"}
               /\ \A c \in Connectors : user[c].state # "open"
               /\ \A s \in Connections :
                    serve[s].pc \in {"none", "returned"} \/ kind[serve[s].target] = "plain"
    <3>1. \A s \in Connections :
            serve[s].pc \in {"none", "returned"} \/ kind[serve[s].target] = "plain"
      BY <2>2 DEF TargetsInv, StreamsHoldTargets
    <3>2. \A k \in Keys : Counted(k) = {}
      BY <2>2 DEF Counted
    <3>3. \A k \in Keys : plans[k].refs = 0
      BY <3>2, CountedOnes
    <3>4. pinned = {}
      <4>1. ASSUME NEW t \in pinned PROVE FALSE
        <5>1. t \in Targets
          BY DEF TargetsInv, TargetsTypeOK
        <5> QED
          BY <2>2, <3>3, <5>1 DEF TargetsInv, PinsAreOwned, PlanOf
      <4> QED
        BY <4>1
    <3>5. ASSUME NEW l \in Leases, holder[l].state \in {"opening", "active"} PROVE FALSE
      <4>1. \/ \E t \in Targets : TargetHas(t, l)
            \/ \E s \in Connections : StreamHas(s, l)
        BY <3>5 DEF TargetsInv, LeasesAreHeld
      <4>2. \A t \in Targets : ~TargetHas(t, l)
        BY <2>2 DEF TargetHas
      <4>3. ASSUME NEW s \in Connections, StreamHas(s, l) PROVE FALSE
        <5>1. serve[s].pc \in {"waiting", "giveback", "yield"}
          BY <4>3 DEF StreamHas
        <5>2. kind[serve[s].target] = "http"
          BY <5>1, StreamIsServed
        <5> QED
          BY <3>1, <5>1, <5>2
      <4> QED
        BY <4>1, <4>2, <4>3
    <3>6. ASSUME NEW c \in Connectors, user[c].state = "open" PROVE FALSE
      BY <3>1, <3>6 DEF TargetsInv, ConnectorsAreHeld
    <3> QED
      BY <3>1, <3>4, <3>5, <3>6
  <2> QED
    BY <2>1, <2>2 DEF NothingIsLeft
<1>3. ShutdownLeavesNoLaunch
  <2> SUFFICES ASSUME resolver.pc = "done", NEW t \in Targets, kind[t] = "stdio"
               PROVE  target[t].pc \in {"none", "prepared", "failed", "done"}
    BY DEF ShutdownLeavesNoLaunch
  <2>1. target[t].pc \in {"none", "prepared", "failed", "held", "wait", "release", "done"}
    BY DEF TargetsInv, TargetsInOrder
  <2>2. target[t].pc \in {"held", "wait", "release"} => t \in resolver.active
    BY DEF TargetsInv, ShutdownHasAll
  <2>3. t \in resolver.active => target[t].pc = "done"
    BY DEF TargetsInv, ShutdownHasAll
  <2> QED
    BY <2>1, <2>2, <2>3
<1> QED
  BY <1>1, <1>2, <1>3 DEF TargetsOwnTheirLaunch

\* The targets keep their plans counted, their leases in somebody's hands and
\* their mounts open for the starts that read them, for any number of targets,
\* streams, leases and generations.
THEOREM TargetsInvariant == TargetsSpec => []TargetsInv
<1>1. TargetsInit => TargetsInv
  BY TargetsStart
<1>2. TargetsInv /\ [TargetsNext]_allVars => TargetsInv'
  BY TargetsStep
<1> QED
  BY <1>1, <1>2, PTL DEF TargetsSpec

\* A target owns exactly its plan, its lease and its streams: whoever of the
\* callers that share a key gives up, is released or loses the race for a
\* replacement, no start lacks its plan and nothing is left behind.
THEOREM TargetsOwnLaunch == TargetsSpec => []TargetsOwnTheirLaunch
<1>1. TargetsInv => TargetsOwnTheirLaunch
  BY TargetsOwn
<1> QED
  BY <1>1, TargetsInvariant, PTL
=============================================================================
