---------------------------- MODULE StorageProofs ----------------------------
(***************************************************************************)
(* Proofs about the volumes and the OCI operations: recovery removes no    *)
(* stage that is being filled and publication shows no volume that is not  *)
(* whole; one preparation of a resource runs at a time, and its followers  *)
(* read every record once.                                                 *)
(***************************************************************************)
EXTENDS VolumeStore, OciOperations, SequenceTheorems, TLAPS

----------------------------------------
(* Volumes.                                                                *)

\* The steps of a command that works on one volume, and those that have a
\* directory open.
VolumeSteps ==
  {"open", "read", "lease", "holding", "publish", "stage", "locking", "seeding",
   "describing", "rename"}
OpenSteps ==
  {"sweeplock", "sweepcheck", "read", "lease", "holding", "locking", "seeding",
   "describing", "rename", "retaining", "removing"}

\* What process p is doing: it names a volume and has a directory open.
Named1(p) ==
  /\ proc[p].pc # "idle" /\ proc[p].cmd # "remove" => proc[p].vol \in Volumes
  /\ proc[p].pc \in VolumeSteps => proc[p].cmd # "remove"
  /\ proc[p].pc = "removing" => proc[p].vol \in Volumes
  /\ proc[p].pc \in OpenSteps => proc[p].obj \in Objects
  /\ proc[p].pc \in {"sweeplock", "sweepcheck"} => proc[p].obj \in proc[p].seen

\* The flocks it has: of the directory `volumes` while it reads the names in it
\* or gives one to a stage, and of the stage it fills or removes.
Locked(p) ==
  /\ proc[p].pc = "scan" => p \in parent.ex
  /\ proc[p].pc \in {"stage", "locking"} => p \in parent.sh
  /\ proc[p].pc = "sweepcheck" => p \in object[proc[p].obj].stageLock.ex
  /\ proc[p].pc \in {"seeding", "describing", "rename"} =>
        p \in object[proc[p].obj].stageLock.sh

\* The stage it fills: its name is temporary, it has what was put there, and
\* until it is locked no recovery has read its name.
Filling(p) ==
  /\ Publishing(p) => object[proc[p].obj].link = "stage"
  /\ proc[p].pc \in {"describing", "rename"} => object[proc[p].obj].data = "whole"
  /\ proc[p].pc = "rename" => object[proc[p].obj].meta = "whole"
  /\ proc[p].pc = "locking" => \A q \in Procs : proc[p].obj \notin proc[q].seen

\* A flock is shared or exclusive.
FlocksExclude ==
  /\ parent.ex # {} => parent.sh = {}
  /\ \A i \in Objects : object[i].stageLock.ex # {} => object[i].stageLock.sh = {}

\* No two publishers fill the same stage.
PublishersApart ==
  \A p, q \in Procs :
      Publishing(p) /\ Publishing(q) /\ proc[p].obj = proc[q].obj => p = q

VolumeInv ==
  /\ TypeOK
  /\ \A p \in Procs : Named1(p) /\ Locked(p) /\ Filling(p)
  /\ FlocksExclude
  /\ PublishersApart
  /\ PublishedVolumesAreComplete

\* One process moves: its new state is right, and no other process loses a
\* flock or finds its stage changed.
LEMMA VolumeStep ==
  ASSUME VolumeInv, TypeOK', NEW p \in Procs,
         \A q \in Procs : q # p => proc'[q] = proc[q],
         Named1(p)', Locked(p)', Filling(p)',
         \A q \in Procs : q # p =>
              /\ q \in parent.ex => q \in parent'.ex
              /\ q \in parent.sh => q \in parent'.sh
              /\ proc[q].pc \in OpenSteps =>
                    LET i == proc[q].obj IN
                    /\ q \in object[i].stageLock.ex => q \in object'[i].stageLock.ex
                    /\ q \in object[i].stageLock.sh => q \in object'[i].stageLock.sh
                    /\ Publishing(q) =>
                          /\ object'[i].link = object[i].link
                          /\ object'[i].data = object[i].data
                          /\ object'[i].meta = object[i].meta
                          /\ Publishing(p)' => i # proc'[p].obj
                    /\ proc[q].pc = "locking" => i \notin proc'[p].seen,
         FlocksExclude',
         PublishedVolumesAreComplete'
  PROVE  VolumeInv'
<1>1. ASSUME NEW q \in Procs, q # p
      PROVE  Named1(q)' /\ Locked(q)' /\ Filling(q)'
  <2>1. Named1(q) /\ Locked(q) /\ Filling(q) /\ proc'[q] = proc[q]
    BY <1>1 DEF VolumeInv
  <2>2. Named1(q)'
    BY <2>1 DEF Named1
  <2>3. Locked(q)'
    BY <1>1, <2>1 DEF Locked, OpenSteps
  <2>4. Filling(q)'
    <3>1. Publishing(q) => proc[q].pc \in OpenSteps
      BY DEF Publishing, OpenSteps
    <3>2. proc[q].pc = "locking" => \A r \in Procs : proc[q].obj \notin proc'[r].seen
      BY <1>1, <2>1, <3>1 DEF Filling, Publishing
    <3> QED BY <1>1, <2>1, <3>1, <3>2 DEF Filling, Publishing
  <2> QED BY <2>2, <2>3, <2>4
<1>2. PublishersApart'
  <2>1. \A q \in Procs : Publishing(q) => proc[q].pc \in OpenSteps
    BY DEF Publishing, OpenSteps
  <2> QED BY <2>1 DEF VolumeInv, PublishersApart, Publishing
<1> QED BY <1>1, <1>2 DEF VolumeInv

\* A step after which p neither publishes nor recovers, and that at most gives
\* flocks of p back.
LEMMA QuietStep ==
  ASSUME VolumeInv, NEW p \in Procs,
         proc' \in [Procs -> Proc], object' \in [Objects -> Object],
         crashes' \in 0 .. MaxCrashes,
         \A q \in Procs : q # p => proc'[q] = proc[q],
         proc'[p].pc \notin {"scan", "sweeplock", "sweepcheck", "stage", "locking",
                             "seeding", "describing", "rename"},
         proc'[p].seen \subseteq proc[p].seen,
         Named1(p)',
         parent' \in {parent, Unlock(parent, p)},
         \A i \in Objects :
              /\ object'[i].link = object[i].link
              /\ object'[i].meta = object[i].meta
              /\ object'[i].data = object[i].data
              /\ object'[i].stageLock \in {object[i].stageLock, Unlock(object[i].stageLock, p)}
  PROVE  VolumeInv'
<1>0. /\ FlocksExclude /\ PublishersApart /\ PublishedVolumesAreComplete
      /\ parent \in Lock /\ object \in [Objects -> Object] /\ TypeOK
      /\ \A q \in Procs : Filling(q) /\ Named1(q)
  BY DEF VolumeInv, TypeOK
<1>1. parent' \in Lock /\ parent'.ex \subseteq parent.ex /\ parent'.sh \subseteq parent.sh
  BY <1>0 DEF Lock, Unlock
<1>2. TypeOK'
  BY <1>0, <1>1 DEF TypeOK
<1>3. \A i \in Objects : /\ object'[i].stageLock.ex \subseteq object[i].stageLock.ex
                         /\ object'[i].stageLock.sh \subseteq object[i].stageLock.sh
  BY <1>0 DEF Lock, Unlock, Object
<1>4. FlocksExclude'
  BY <1>0, <1>1, <1>3 DEF FlocksExclude
<1>5. PublishedVolumesAreComplete'
  BY <1>0 DEF PublishedVolumesAreComplete
<1>6. ASSUME NEW q \in Procs, q # p
      PROVE  /\ q \in parent.ex => q \in parent'.ex
             /\ q \in parent.sh => q \in parent'.sh
             /\ \A i \in Objects :
                  /\ q \in object[i].stageLock.ex => q \in object'[i].stageLock.ex
                  /\ q \in object[i].stageLock.sh => q \in object'[i].stageLock.sh
  BY <1>0, <1>6 DEF Lock, Unlock, Object
<1>7. Locked(p)' /\ Filling(p)' /\ ~Publishing(p)'
  BY DEF Locked, Filling, Publishing
<1>8. \A q \in Procs : q # p /\ proc[q].pc = "locking" => proc[q].obj \notin proc'[p].seen
  BY <1>0 DEF Filling
<1>9. \A q \in Procs : proc[q].pc \in OpenSteps => proc[q].obj \in Objects
  BY <1>0 DEF Named1
<1> QED BY <1>2, <1>4, <1>5, <1>6, <1>7, <1>8, <1>9, VolumeStep

\* What a step that changes the fields of proc[p] leaves of the invariant's facts.
LEMMA VolumeFacts ==
  ASSUME VolumeInv, NEW p \in Procs
  PROVE  /\ TypeOK /\ proc \in [Procs -> Proc] /\ object \in [Objects -> Object]
         /\ parent \in Lock /\ crashes \in 0 .. MaxCrashes
         /\ Named1(p) /\ Locked(p) /\ Filling(p)
         /\ FlocksExclude /\ PublishersApart /\ PublishedVolumesAreComplete
         /\ \A i \in Objects : /\ Freed(i, p) \in Object
                               /\ Freed(i, p).link = object[i].link
                               /\ Freed(i, p).meta = object[i].meta
                               /\ Freed(i, p).data = object[i].data
                               /\ Freed(i, p).stageLock = Unlock(object[i].stageLock, p)
         /\ Idle \in Proc
<1>1. object \in [Objects -> Object]
  BY DEF VolumeInv, TypeOK
<1>2. \A l \in Lock : Unlock(l, p) \in Lock
  BY DEF Lock, Unlock
<1>3. \A i \in Objects : /\ Freed(i, p) \in Object
                         /\ Freed(i, p).link = object[i].link
                         /\ Freed(i, p).meta = object[i].meta
                         /\ Freed(i, p).data = object[i].data
                         /\ Freed(i, p).stageLock = Unlock(object[i].stageLock, p)
  <2> SUFFICES ASSUME NEW i \in Objects
               PROVE  /\ Freed(i, p) \in Object
                      /\ Freed(i, p).link = object[i].link
                      /\ Freed(i, p).meta = object[i].meta
                      /\ Freed(i, p).data = object[i].data
                      /\ Freed(i, p).stageLock = Unlock(object[i].stageLock, p)
    OBVIOUS
  <2>1. object[i] \in Object
    BY <1>1
  <2> HIDE DEF Lock, Unlock
  <2> QED BY <1>2, <2>1 DEF Freed, Object
<1>4. Idle \in Proc
  BY DEF Idle, Proc
<1> QED BY <1>1, <1>3, <1>4 DEF VolumeInv, TypeOK

\* The records of a process, with what an action sets.
Pcs == {"idle", "recover", "scan", "sweep", "sweeplock", "sweepcheck", "ready",
        "open", "read", "lease", "holding", "publish", "stage", "locking",
        "seeding", "describing", "rename", "retain", "retaining", "remove", "removing"}

LEMMA ProcRecords ==
  ASSUME NEW c \in Proc
  PROVE  /\ \A x \in Pcs : [c EXCEPT !.pc = x] \in Proc
         /\ \A x \in Pcs, m \in Commands : [c EXCEPT !.pc = x, !.cmd = m] \in Proc
         /\ \A x \in Pcs, m \in Commands, v \in Volumes :
              [c EXCEPT !.pc = x, !.cmd = m, !.vol = v] \in Proc
         /\ \A x \in Pcs, i \in Objects \cup {NoObject} : [c EXCEPT !.pc = x, !.obj = i] \in Proc
         /\ \A x \in Pcs, b \in SUBSET Volumes :
              [c EXCEPT !.pc = x, !.batch = b, !.todo = b] \in Proc
         /\ \A x \in Pcs : [c EXCEPT !.pc = x, !.obj = NoObject, !.again = TRUE] \in Proc
<1>1. \A x \in Pcs : [c EXCEPT !.pc = x] \in Proc
  BY DEF Proc, Pcs
<1>2. \A d \in Proc, m \in Commands : [d EXCEPT !.cmd = m] \in Proc
  BY DEF Proc
<1>3. \A d \in Proc, v \in Volumes : [d EXCEPT !.vol = v] \in Proc
  BY DEF Proc
<1>4. \A d \in Proc, i \in Objects \cup {NoObject} : [d EXCEPT !.obj = i] \in Proc
  BY DEF Proc
<1>5. \A d \in Proc, b \in SUBSET Volumes : [d EXCEPT !.batch = b, !.todo = b] \in Proc
  BY DEF Proc
<1>6. \A d \in Proc : [d EXCEPT !.obj = NoObject, !.again = TRUE] \in Proc
  BY DEF Proc
<1>7. \A x \in Pcs, m \in Commands : [c EXCEPT !.pc = x, !.cmd = m] \in Proc
  BY <1>1, <1>2
<1> QED BY <1>1, <1>2, <1>3, <1>4, <1>5, <1>6, <1>7

\* Process p goes on as c, and gives back flocks at most.
Rests(c, p) ==
  /\ c \in Proc
  /\ c.pc \notin {"scan", "sweeplock", "sweepcheck", "stage", "locking",
                  "seeding", "describing", "rename"}
  /\ c.seen \subseteq proc[p].seen
  /\ c.pc # "idle" /\ c.cmd # "remove" => c.vol \in Volumes
  /\ c.pc \in {"open", "read", "lease", "holding", "publish"} => c.cmd # "remove"
  /\ c.pc = "removing" => c.vol \in Volumes
  /\ c.pc \in {"read", "lease", "holding", "retaining", "removing"} => c.obj \in Objects

LEMMA QuietMove ==
  ASSUME VolumeInv, NEW p \in Procs, NEW c, Rests(c, p),
         proc' = [proc EXCEPT ![p] = c], object' \in [Objects -> Object],
         crashes' \in 0 .. MaxCrashes,
         parent' \in {parent, Unlock(parent, p)},
         \A i \in Objects :
              /\ object'[i].link = object[i].link
              /\ object'[i].meta = object[i].meta
              /\ object'[i].data = object[i].data
              /\ object'[i].stageLock \in {object[i].stageLock, Unlock(object[i].stageLock, p)}
  PROVE  VolumeInv'
<1>1. proc \in [Procs -> Proc]
  BY VolumeFacts
<1>2. /\ proc' \in [Procs -> Proc] /\ proc'[p] = c
      /\ \A q \in Procs : q # p => proc'[q] = proc[q]
  BY <1>1 DEF Rests
<1>3. Named1(p)'
  BY <1>2 DEF Named1, Rests, VolumeSteps, OpenSteps
<1>4. c.pc \notin {"scan", "sweeplock", "sweepcheck", "stage", "locking",
                  "seeding", "describing", "rename"} /\ c.seen \subseteq proc[p].seen
  BY DEF Rests
<1> QED BY <1>2, <1>3, <1>4, QuietStep

\* A command that returns.
LEMMA IdleRests == ASSUME NEW p \in Procs PROVE Rests(Idle, p)
  BY DEF Rests, Idle, Proc

LEMMA GoesRests ==
  ASSUME VolumeInv, NEW p \in Procs,
         NEW x \in {"recover", "ready", "open", "lease", "holding", "publish", "retain",
                    "remove", "sweep"},
         proc[p].pc # "idle",
         x \in {"open", "lease", "holding", "publish"} => proc[p].cmd # "remove",
         x \in {"lease", "holding"} => proc[p].obj \in Objects
  PROVE  Rests([proc[p] EXCEPT !.pc = x], p)
<1> DEFINE c == [proc[p] EXCEPT !.pc = x]
<1>1. proc[p] \in Proc /\ Named1(p)
  BY VolumeFacts
<1>2. c \in Proc
  BY <1>1, ProcRecords DEF Pcs
<1>3. c.pc = x /\ c.seen = proc[p].seen /\ c.cmd = proc[p].cmd /\ c.vol = proc[p].vol
      /\ c.obj = proc[p].obj
  BY <1>1 DEF Proc
<1> HIDE DEF c
<1>4. Rests(c, p)
  BY <1>1, <1>2, <1>3 DEF Rests, Named1
<1> QED BY <1>4 DEF c

\* The steps of p that only change what it is doing.
LEMMA NewStoreKeeps ==
  ASSUME VolumeInv, NEW p \in Procs, NewStore(p) PROVE VolumeInv'
<1>0. /\ proc[p] \in Proc /\ object \in [Objects -> Object]
      /\ Named1(p) /\ crashes \in 0 .. MaxCrashes
      /\ UNCHANGED <<object, parent, crashes>>
  BY VolumeFacts DEF NewStore
<1>1. \E c : proc' = [proc EXCEPT ![p] = c] /\ Rests(c, p)
  <2>1. ASSUME NEW m \in Commands \ {"remove"}, NEW v \in Volumes,
               proc' = [proc EXCEPT ![p].pc = "recover", ![p].cmd = m, ![p].vol = v]
        PROVE  \E c : proc' = [proc EXCEPT ![p] = c] /\ Rests(c, p)
    <3> DEFINE d == [proc[p] EXCEPT !.pc = "recover", !.cmd = m, !.vol = v]
    <3>1. proc' = [proc EXCEPT ![p] = d]
      BY <2>1
    <3>2. /\ d.pc = "recover" /\ d.seen = proc[p].seen /\ d.vol = v
      BY <1>0 DEF Proc
    <3>2p. d \in Proc
      BY <1>0, ProcRecords DEF Pcs
    <3> HIDE DEF d
    <3> QED BY <3>1, <3>2, <3>2p DEF Rests
  <2>2. CASE proc' = [proc EXCEPT ![p].pc = "recover", ![p].cmd = "remove"]
    <3> DEFINE d == [proc[p] EXCEPT !.pc = "recover", !.cmd = "remove"]
    <3>1. proc' = [proc EXCEPT ![p] = d]
      BY <2>2
    <3>2. /\ d.pc = "recover" /\ d.seen = proc[p].seen /\ d.cmd = "remove"
      BY <1>0 DEF Proc
    <3>2p. d \in Proc
      BY <1>0, ProcRecords DEF Pcs, Commands
    <3> HIDE DEF d
    <3> QED BY <3>1, <3>2, <3>2p DEF Rests
  <2> QED BY <2>1, <2>2 DEF NewStore
<1>2. PICK c : proc' = [proc EXCEPT ![p] = c] /\ Rests(c, p)
  BY <1>1
<1> QED BY <1>0, <1>2, QuietMove

LEMMA BeginKeeps ==
  ASSUME VolumeInv, NEW p \in Procs, Begin(p) PROVE VolumeInv'
<1>0. /\ proc[p] \in Proc /\ object \in [Objects -> Object] /\ proc[p].pc = "ready"
      /\ Named1(p) /\ crashes \in 0 .. MaxCrashes
      /\ UNCHANGED <<object, parent, crashes>>
  BY VolumeFacts DEF Begin
<1>1. CASE proc[p].cmd # "remove" /\ Goes(p, "open")
  <2>1. Rests([proc[p] EXCEPT !.pc = "open"], p)
    BY <1>0, <1>1, GoesRests
  <2> QED BY <1>0, <1>1, <2>1, QuietMove DEF Goes
<1>2. CASE Ends(p)
  BY <1>0, <1>2, IdleRests, QuietMove DEF Ends
<1>3. ASSUME NEW batch \in SUBSET Volumes, proc[p].cmd = "remove",
             proc' = [proc EXCEPT ![p].pc = "retain", ![p].batch = batch, ![p].todo = batch]
      PROVE  VolumeInv'
  <2> DEFINE d == [proc[p] EXCEPT !.pc = "retain", !.batch = batch, !.todo = batch]
  <2>1. proc' = [proc EXCEPT ![p] = d]
    BY <1>3
  <2>2. /\ d.pc = "retain" /\ d.seen = proc[p].seen /\ d.cmd = "remove"
    BY <1>0, <1>3 DEF Proc
  <2>2p. d \in Proc
    BY <1>0, <1>3, ProcRecords DEF Pcs
  <2> HIDE DEF d
  <2>3. Rests(d, p)
    BY <2>2, <2>2p DEF Rests
  <2> QED BY <1>0, <2>1, <2>3, QuietMove
<1> QED BY <1>1, <1>2, <1>3 DEF Begin

LEMMA OpenKeeps ==
  ASSUME VolumeInv, NEW p \in Procs, OpenObject(p) \/ OpenData(p) \/ LeaseCancelled(p)
  PROVE  VolumeInv'
<1>0. /\ proc[p] \in Proc /\ object \in [Objects -> Object]
      /\ Named1(p) /\ crashes \in 0 .. MaxCrashes
      /\ UNCHANGED <<object, parent, crashes>>
      /\ proc[p].pc \in {"open", "read", "lease"}
  BY VolumeFacts DEF OpenObject, OpenData, LeaseCancelled
<1>1. CASE Ends(p)
  BY <1>0, <1>1, IdleRests, QuietMove DEF Ends
<1>2. ASSUME NEW x \in {"publish", "lease"}, Goes(p, x),
             x = "lease" => proc[p].pc = "read"
      PROVE  VolumeInv'
  <2>1. Rests([proc[p] EXCEPT !.pc = x], p)
    BY <1>0, <1>2, GoesRests DEF Named1, VolumeSteps, OpenSteps
  <2> QED BY <1>0, <1>2, <2>1, QuietMove DEF Goes
<1>3. ASSUME NEW i \in Objects, proc[p].pc = "open",
             proc' = [proc EXCEPT ![p].pc = "read", ![p].obj = i]
      PROVE  VolumeInv'
  <2> DEFINE d == [proc[p] EXCEPT !.pc = "read", !.obj = i]
  <2>1. proc' = [proc EXCEPT ![p] = d]
    BY <1>3
  <2>2. /\ d.pc = "read" /\ d.seen = proc[p].seen /\ d.cmd = proc[p].cmd
        /\ d.vol = proc[p].vol /\ d.obj = i
    BY <1>0, <1>3 DEF Proc
  <2>2p. d \in Proc
    BY <1>0, <1>3, ProcRecords DEF Pcs
  <2> HIDE DEF d
  <2>3. Rests(d, p)
    BY <1>0, <1>3, <2>2, <2>2p DEF Rests, Named1, VolumeSteps
  <2> QED BY <1>0, <2>1, <2>3, QuietMove
<1>4. CASE OpenObject(p)
  BY <1>1, <1>2, <1>3, <1>4 DEF OpenObject, Named
<1>5. CASE OpenData(p) \/ LeaseCancelled(p)
  BY <1>1, <1>2, <1>5 DEF OpenData, LeaseCancelled
<1> QED BY <1>4, <1>5

\* No directory changes, and p gives back its flocks of a stage at most.
ObjectsStay(p) ==
  /\ object' \in [Objects -> Object]
  /\ \A i \in Objects :
      /\ object'[i].link = object[i].link
      /\ object'[i].meta = object[i].meta
      /\ object'[i].data = object[i].data
      /\ object'[i].stageLock \in {object[i].stageLock, Unlock(object[i].stageLock, p)}

LEMMA FreesLocks == ASSUME VolumeInv, NEW p \in Procs, AllFreed(p) PROVE ObjectsStay(p)
<1>1. \A i \in Objects : /\ Freed(i, p) \in Object
                         /\ Freed(i, p).link = object[i].link
                         /\ Freed(i, p).meta = object[i].meta
                         /\ Freed(i, p).data = object[i].data
                         /\ Freed(i, p).stageLock = Unlock(object[i].stageLock, p)
  BY VolumeFacts
<1>2. object' = [i \in Objects |-> Freed(i, p)]
  BY DEF AllFreed
<1> HIDE DEF Freed, Unlock
<1> QED BY <1>1, <1>2 DEF ObjectsStay

LEMMA LocksData ==
  ASSUME VolumeInv, NEW p \in Procs, NEW i \in Objects,
         \/ object' = [object EXCEPT ![i].dataLock = Shared(@, p)]
         \/ object' = [object EXCEPT ![i].dataLock = Exclusive(@, p)]
  PROVE  ObjectsStay(p)
<1>1. object \in [Objects -> Object] /\ object[i] \in Object
  BY VolumeFacts
<1>2. \A l \in Lock : Shared(l, p) \in Lock /\ Exclusive(l, p) \in Lock
  BY DEF Lock, Shared, Exclusive
<1>3. object[i].dataLock \in Lock
  BY <1>1 DEF Object
<1>4. PICK l \in Lock : object' = [object EXCEPT ![i].dataLock = l]
  BY <1>2, <1>3
<1> HIDE DEF Lock
<1>5. object' \in [Objects -> Object]
  BY <1>1, <1>4 DEF Object
<1> QED BY <1>1, <1>4, <1>5 DEF Object, ObjectsStay

\* The data of a volume is leased, or the lease refused.
LEMMA LeaseKeeps ==
  ASSUME VolumeInv, NEW p \in Procs, LeaseData(p) PROVE VolumeInv'
<1>0. /\ proc[p] \in Proc /\ object \in [Objects -> Object]
      /\ Named1(p) /\ crashes \in 0 .. MaxCrashes /\ proc[p].pc = "lease"
      /\ UNCHANGED <<parent, crashes>>
  BY VolumeFacts DEF LeaseData
<1>1. proc[p].obj \in Objects /\ proc[p].cmd # "remove"
  BY <1>0 DEF Named1, VolumeSteps, OpenSteps
<1>2. CASE /\ object' = [object EXCEPT ![proc[p].obj].dataLock = Shared(@, p)]
           /\ Goes(p, "holding")
  <2>1. ObjectsStay(p)
    BY <1>1, <1>2, LocksData
  <2>2. Rests([proc[p] EXCEPT !.pc = "holding"], p)
    BY <1>0, <1>1, GoesRests
  <2> QED BY <1>0, <1>2, <2>1, <2>2, QuietMove DEF Goes, ObjectsStay
<1>3. CASE Ends(p) /\ UNCHANGED object
  BY <1>0, <1>3, IdleRests, QuietMove DEF Ends
<1> QED BY <1>2, <1>3 DEF LeaseData

\* A command ends, or its process dies: all of its flocks are given back.
LEMMA EndsKeeps ==
  ASSUME VolumeInv, NEW p \in Procs,
         \/ RemovalReturns(p) /\ UNCHANGED <<parent, crashes>>
         \/ Crash(p)
         \/ StageFails(p)
  PROVE  VolumeInv'
<1>0. /\ object \in [Objects -> Object] /\ crashes \in 0 .. MaxCrashes
  BY VolumeFacts
<1>1. crashes' \in 0 .. MaxCrashes
  BY <1>0, VolumeStoreAssumption DEF RemovalReturns, Crash, StageFails
<1>2. parent' \in {parent, Unlock(parent, p)}
  BY DEF Crash, StageFails
<1>3. ObjectsStay(p)
  <2>1. CASE AllFreed(p)
    BY <2>1, FreesLocks
  <2>2. CASE UNCHANGED object
    BY <1>0, <2>2 DEF ObjectsStay
  <2> QED BY <2>1, <2>2 DEF RemovalReturns, Crash, StageFails
<1>4. proc' = [proc EXCEPT ![p] = Idle]
  BY DEF RemovalReturns, Crash, StageFails, Ends
<1> QED BY <1>1, <1>2, <1>3, <1>4, IdleRests, QuietMove DEF ObjectsStay

LEMMA CloseKeeps ==
  ASSUME VolumeInv, NEW p \in Procs, Close(p) PROVE VolumeInv'
<1>0. /\ proc[p] \in Proc /\ Named1(p) /\ crashes \in 0 .. MaxCrashes
      /\ UNCHANGED <<parent, crashes>> /\ proc[p].pc = "holding"
  BY VolumeFacts DEF Close
<1>1. ObjectsStay(p)
  BY FreesLocks DEF Close
<1>2. CASE Ends(p)
  BY <1>0, <1>1, <1>2, IdleRests, QuietMove DEF Ends, ObjectsStay
<1>3. CASE /\ proc[p].cmd = "create"
           /\ proc' = [proc EXCEPT ![p].pc = "open", ![p].obj = NoObject, ![p].again = TRUE]
  <2> DEFINE d == [proc[p] EXCEPT !.pc = "open", !.obj = NoObject, !.again = TRUE]
  <2>1. proc' = [proc EXCEPT ![p] = d]
    BY <1>3
  <2>2. /\ d.pc = "open" /\ d.seen = proc[p].seen /\ d.cmd = "create"
        /\ d.vol = proc[p].vol
    BY <1>0, <1>3 DEF Proc
  <2>3. d \in Proc
    BY <1>0, ProcRecords DEF Pcs
  <2> HIDE DEF d
  <2>4. Rests(d, p)
    BY <1>0, <1>3, <2>2, <2>3 DEF Rests, Named1
  <2> QED BY <1>0, <1>1, <2>1, <2>4, QuietMove DEF ObjectsStay
<1> QED BY <1>2, <1>3 DEF Close

\* A removal leases its volumes, and picks the next one.
LEMMA RetainKeeps ==
  ASSUME VolumeInv, NEW p \in Procs, RetainObject(p) \/ RetainData(p) \/ RemoveOpen(p)
  PROVE  VolumeInv'
<1>0. /\ proc[p] \in Proc /\ object \in [Objects -> Object] /\ Named1(p)
      /\ crashes \in 0 .. MaxCrashes /\ UNCHANGED <<parent, crashes>>
      /\ proc[p].pc \in {"retain", "retaining", "remove"}
  BY VolumeFacts DEF RetainObject, RetainData, RemoveOpen
<1>1. CASE RemovalReturns(p)
  BY <1>0, <1>1, EndsKeeps
<1>2. ASSUME NEW x \in {"retaining", "remove", "removing", "retain"},
             NEW i \in Objects \cup {NoObject}, NEW t \in SUBSET Volumes,
             NEW v \in Volumes \cup {proc[p].vol},
             x \in {"retaining", "removing"} => i \in Objects,
             x = "removing" => v \in Volumes,
             proc[p].cmd # "remove" => v \in Volumes,
             proc' = [proc EXCEPT ![p] =
                        [proc[p] EXCEPT !.pc = x, !.obj = i, !.todo = t, !.vol = v]],
             ObjectsStay(p)
      PROVE  VolumeInv'
  <2> DEFINE d == [proc[p] EXCEPT !.pc = x, !.obj = i, !.todo = t, !.vol = v]
  <2>2. /\ d.pc = x /\ d.seen = proc[p].seen /\ d.cmd = proc[p].cmd
        /\ d.vol = v /\ d.obj = i
    BY <1>0 DEF Proc
  <2>3. d \in Proc
    <3>1. [proc[p] EXCEPT !.pc = x, !.obj = i] \in Proc
      BY <1>0, ProcRecords DEF Pcs
    <3>2. v \in Volumes \cup {"none"}
      BY <1>0 DEF Proc
    <3>3. \A c \in Proc : [c EXCEPT !.todo = t, !.vol = v] \in Proc
      BY <3>2 DEF Proc
    <3> QED BY <3>1, <3>3
  <2> HIDE DEF d
  <2>4. Rests(d, p)
    BY <1>0, <1>2, <2>2, <2>3 DEF Rests, Named1
  <2>5. proc' = [proc EXCEPT ![p] = d]
    BY <1>2 DEF d
  <2> QED BY <1>0, <1>2, <2>4, <2>5, QuietMove DEF ObjectsStay
<1>3. ObjectsStay(p) \/ object' # object
  BY <1>0 DEF ObjectsStay
<1>4. proc[p].todo \subseteq Volumes /\ proc[p].batch \subseteq Volumes
  BY <1>0 DEF Proc
<1>5. CASE RetainObject(p)
  <2>1. CASE RemovalReturns(p)
    BY <1>1, <2>1
  <2>2. ASSUME NEW v \in proc[p].todo, NEW i \in Objects, UNCHANGED object,
               proc' = [proc EXCEPT ![p].pc = "retaining", ![p].obj = i, ![p].todo = @ \ {v}]
        PROVE  VolumeInv'
    <3>1. proc' = [proc EXCEPT ![p] = [proc[p] EXCEPT !.pc = "retaining", !.obj = i,
                                       !.todo = proc[p].todo \ {v}, !.vol = proc[p].vol]]
      BY <1>0, <2>2 DEF Proc
    <3>2. proc[p].todo \ {v} \in SUBSET Volumes
      BY <1>4
    <3>3. proc[p].cmd # "remove" => proc[p].vol \in Volumes
      BY <1>0 DEF Named1
    <3> QED BY <1>2, <1>3, <2>2, <3>1, <3>2, <3>3
  <2>3. ASSUME UNCHANGED object,
               proc' = [proc EXCEPT ![p].pc = "remove", ![p].todo = proc[p].batch,
                                    ![p].obj = NoObject]
        PROVE  VolumeInv'
    <3>1. proc' = [proc EXCEPT ![p] = [proc[p] EXCEPT !.pc = "remove", !.obj = NoObject,
                                       !.todo = proc[p].batch, !.vol = proc[p].vol]]
      BY <1>0, <2>3 DEF Proc
    <3>3. proc[p].cmd # "remove" => proc[p].vol \in Volumes
      BY <1>0 DEF Named1
    <3>4. ObjectsStay(p)
      BY <1>3, <2>3
    <3>5. /\ "remove" \in {"retaining", "remove", "removing", "retain"}
          /\ NoObject \in Objects \cup {NoObject} /\ proc[p].batch \in SUBSET Volumes
          /\ proc[p].vol \in Volumes \cup {proc[p].vol}
      BY <1>4
    <3> HIDE DEF ObjectsStay
    <3> QED BY <1>2, <3>1, <3>3, <3>4, <3>5
  <2> QED BY <1>5, <2>1, <2>2, <2>3 DEF RetainObject, Named
<1>6. CASE RetainData(p)
  <2>1. CASE RemovalReturns(p)
    BY <1>1, <2>1
  <2>2. CASE Goes(p, "retain")
    <3>1. proc[p].obj \in Objects
      BY <1>6, <1>0 DEF RetainData, Named1, OpenSteps
    <3>2. ObjectsStay(p)
      BY <1>0, <1>3, <1>6, <2>2, <3>1, LocksData, FreesLocks DEF RetainData, RemovalReturns
    <3>3. Rests([proc[p] EXCEPT !.pc = "retain"], p)
      BY <1>0, GoesRests
    <3> QED BY <1>0, <2>2, <3>2, <3>3, QuietMove DEF Goes, ObjectsStay
  <2> QED BY <1>6, <2>1, <2>2 DEF RetainData
<1>7. CASE RemoveOpen(p)
  <2>1. CASE RemovalReturns(p)
    BY <1>1, <2>1
  <2>2. ASSUME NEW v \in proc[p].todo, UNCHANGED object,
               proc' = IF Named(v) = {}
                       THEN [proc EXCEPT ![p].todo = @ \ {v}]
                       ELSE [proc EXCEPT ![p].pc = "removing", ![p].vol = v,
                               ![p].obj = CHOOSE i \in Named(v) : TRUE],
               proc[p].pc = "remove"
        PROVE  VolumeInv'
    <3>1. CASE Named(v) = {}
      <4>1. proc' = [proc EXCEPT ![p] = [proc[p] EXCEPT !.pc = "remove", !.obj = proc[p].obj,
                                       !.todo = proc[p].todo \ {v}, !.vol = proc[p].vol]]
        BY <1>0, <2>2, <3>1 DEF Proc
      <4>2. proc[p].todo \ {v} \in SUBSET Volumes /\ proc[p].obj \in Objects \cup {NoObject}
        BY <1>0, <1>4 DEF Proc
      <4>3. proc[p].cmd # "remove" => proc[p].vol \in Volumes
        BY <1>0 DEF Named1
      <4>4. ObjectsStay(p)
        BY <1>3, <2>2
      <4>5. /\ "remove" \in {"retaining", "remove", "removing", "retain"}
            /\ proc[p].vol \in Volumes \cup {proc[p].vol}
        OBVIOUS
      <4> QED BY <1>2, <4>1, <4>2, <4>3, <4>4, <4>5
    <3>2. CASE Named(v) # {}
      <4> DEFINE i == CHOOSE i \in Named(v) : TRUE
      <4>1. i \in Objects /\ v \in Volumes
        BY <1>4, <2>2, <3>2 DEF Named
      <4>2. proc' = [proc EXCEPT ![p] = [proc[p] EXCEPT !.pc = "removing", !.obj = i,
                                       !.todo = proc[p].todo, !.vol = v]]
        BY <1>0, <2>2, <3>2 DEF Proc
      <4> HIDE DEF i
      <4> QED BY <1>2, <1>3, <1>4, <2>2, <4>1, <4>2
    <3> QED BY <3>1, <3>2
  <2> QED BY <1>7, <2>1, <2>2 DEF RemoveOpen
<1> QED BY <1>5, <1>6, <1>7

\* NewStore reads the names of the directory under its exclusive flock.
LEMMA RecoveryReads ==
  ASSUME VolumeInv, NEW p \in Procs, LockRecoveryParent(p) \/ ScanTemporaryNames(p)
  PROVE  VolumeInv'
<1>0. /\ proc \in [Procs -> Proc] /\ proc[p] \in Proc /\ object \in [Objects -> Object]
      /\ TypeOK /\ Named1(p) /\ Locked(p) /\ FlocksExclude /\ PublishedVolumesAreComplete
      /\ crashes \in 0 .. MaxCrashes /\ parent \in Lock
      /\ UNCHANGED <<object, crashes>>
      /\ proc[p].pc \in {"recover", "scan"}
  BY VolumeFacts DEF LockRecoveryParent, ScanTemporaryNames
<1>1. CASE LockRecoveryParent(p) /\ Goes(p, "ready") /\ UNCHANGED parent
  <2>1. Rests([proc[p] EXCEPT !.pc = "ready"], p)
    BY <1>0, <1>1, GoesRests
  <2> QED BY <1>0, <1>1, <2>1, QuietMove DEF Goes
<1>2. CASE /\ proc[p].pc = "recover" /\ ExclusiveFree(parent)
           /\ parent' = Exclusive(parent, p) /\ Goes(p, "scan")
  <2> DEFINE d == [proc[p] EXCEPT !.pc = "scan"]
  <2>1. proc' = [proc EXCEPT ![p] = d]
    BY <1>2 DEF Goes
  <2>2. /\ d.pc = "scan" /\ d.seen = proc[p].seen /\ d.cmd = proc[p].cmd
        /\ d.vol = proc[p].vol
    BY <1>0 DEF Proc
  <2>3. d \in Proc
    BY <1>0, ProcRecords DEF Pcs
  <2> HIDE DEF d
  <2>4. parent' \in Lock /\ parent'.ex = {p} /\ parent'.sh = {} /\ parent.ex = {} /\ parent.sh = {}
    BY <1>2 DEF Exclusive, ExclusiveFree, Unlocked, Lock
  <2>5. /\ proc'[p] = d /\ \A q \in Procs : q # p => proc'[q] = proc[q]
        /\ proc' \in [Procs -> Proc]
    BY <1>0, <2>1, <2>3
  <2>6. TypeOK'
    BY <1>0, <2>4, <2>5 DEF TypeOK
  <2>7. Named1(p)' /\ Locked(p)' /\ Filling(p)' /\ ~Publishing(p)'
    BY <1>0, <1>2, <2>2, <2>4, <2>5 DEF Named1, Locked, Filling, Publishing, VolumeSteps,
      OpenSteps
  <2>8. FlocksExclude' /\ PublishedVolumesAreComplete'
    BY <1>0, <2>4 DEF FlocksExclude, PublishedVolumesAreComplete
  <2>9. \A q \in Procs : proc[q].pc # "locking"
    BY <2>4 DEF VolumeInv, Locked
  <2> QED BY <1>0, <2>4, <2>5, <2>6, <2>7, <2>8, <2>9, VolumeStep
<1>3. CASE ScanTemporaryNames(p)
  <2> DEFINE d == [proc[p] EXCEPT !.pc = "sweep", !.seen = TemporaryNames]
  <2>1. proc' = [proc EXCEPT ![p] = d] /\ parent' = Unlock(parent, p) /\ proc[p].pc = "scan"
    BY <1>3 DEF ScanTemporaryNames
  <2>2. /\ d.pc = "sweep" /\ d.cmd = proc[p].cmd /\ d.vol = proc[p].vol
    BY <1>0 DEF Proc
  <2>3. d \in Proc
    <3>1. [proc[p] EXCEPT !.pc = "sweep"] \in Proc
      BY <1>0, ProcRecords DEF Pcs
    <3>2. TemporaryNames \subseteq Objects
      BY DEF TemporaryNames, Stages
    <3>3. \A c \in Proc, n \in SUBSET Objects : [c EXCEPT !.seen = n] \in Proc
      BY DEF Proc
    <3> QED BY <3>1, <3>2, <3>3
  <2> HIDE DEF d
  <2>4. /\ parent' \in Lock /\ parent'.sh = parent.sh \ {p} /\ parent'.ex = parent.ex \ {p}
        /\ parent.sh = {}
    BY <1>0, <2>1 DEF Unlock, Lock, Locked, FlocksExclude
  <2>5. /\ proc'[p] = d /\ \A q \in Procs : q # p => proc'[q] = proc[q]
        /\ proc' \in [Procs -> Proc]
    BY <1>0, <2>1, <2>3
  <2>6. TypeOK'
    BY <1>0, <2>4, <2>5 DEF TypeOK
  <2>7. Named1(p)' /\ Locked(p)' /\ Filling(p)' /\ ~Publishing(p)'
    BY <1>0, <2>1, <2>2, <2>5 DEF Named1, Locked, Filling, Publishing, VolumeSteps, OpenSteps
  <2>8. FlocksExclude' /\ PublishedVolumesAreComplete'
    BY <1>0, <2>4 DEF FlocksExclude, PublishedVolumesAreComplete
  <2>9. \A q \in Procs : proc[q].pc # "locking"
    BY <2>4 DEF VolumeInv, Locked
  <2> QED BY <1>0, <2>4, <2>5, <2>6, <2>7, <2>8, <2>9, VolumeStep
<1> QED BY <1>1, <1>2, <1>3 DEF LockRecoveryParent

\* A step that changes neither a directory nor a flock of anyone.
LEMMA BareMove ==
  ASSUME VolumeInv, NEW p \in Procs, NEW c \in Proc,
         proc' = [proc EXCEPT ![p] = c], UNCHANGED <<object, crashes>>,
         parent' \in Lock, \A q \in Procs : q # p => /\ q \in parent.ex => q \in parent'.ex
                                                     /\ q \in parent.sh => q \in parent'.sh,
         parent'.ex # {} => parent'.sh = {},
         c.pc # "idle" /\ c.cmd # "remove" => c.vol \in Volumes,
         c.pc \in VolumeSteps => c.cmd # "remove",
         c.pc = "removing" => c.vol \in Volumes,
         c.pc \in OpenSteps => c.obj \in Objects,
         c.pc \in {"sweeplock", "sweepcheck"} => c.obj \in c.seen,
         c.pc \notin {"scan", "sweepcheck", "locking", "seeding", "describing", "rename"},
         c.pc = "stage" => p \in parent'.sh,
         c.seen \subseteq proc[p].seen
  PROVE  VolumeInv'
<1>0. /\ proc \in [Procs -> Proc] /\ object \in [Objects -> Object] /\ TypeOK
      /\ FlocksExclude /\ PublishedVolumesAreComplete
  BY VolumeFacts
<1>1. /\ proc'[p] = c /\ \A q \in Procs : q # p => proc'[q] = proc[q]
      /\ proc' \in [Procs -> Proc]
  BY <1>0
<1>2. TypeOK'
  BY <1>0, <1>1 DEF TypeOK
<1>3. Named1(p)' /\ Locked(p)' /\ Filling(p)' /\ ~Publishing(p)'
  BY <1>1 DEF Named1, Locked, Filling, Publishing
<1>4. FlocksExclude' /\ PublishedVolumesAreComplete'
  BY <1>0 DEF FlocksExclude, PublishedVolumesAreComplete
<1>5. \A q \in Procs : proc[q].pc = "locking" => proc[q].obj \notin proc'[p].seen
  BY <1>1 DEF VolumeInv, Filling
<1> QED BY <1>0, <1>1, <1>2, <1>3, <1>4, <1>5, VolumeStep

\* Recovery opens the next of the stages whose names it has read.
LEMMA CleanupOpens ==
  ASSUME VolumeInv, NEW p \in Procs, CleanupOpen(p) PROVE VolumeInv'
<1>0. /\ proc[p] \in Proc /\ object \in [Objects -> Object]
      /\ Named1(p) /\ crashes \in 0 .. MaxCrashes /\ proc[p].pc = "sweep"
      /\ UNCHANGED <<object, parent, crashes>> /\ parent \in Lock /\ FlocksExclude
  BY VolumeFacts DEF CleanupOpen
<1>1. CASE Goes(p, "ready")
  <2>1. Rests([proc[p] EXCEPT !.pc = "ready"], p)
    BY <1>0, GoesRests
  <2> QED BY <1>0, <1>1, <2>1, QuietMove DEF Goes
<1>2. ASSUME NEW i \in proc[p].seen,
             proc' = [proc EXCEPT ![p].pc = "sweeplock", ![p].obj = i]
      PROVE  VolumeInv'
  <2> DEFINE d == [proc[p] EXCEPT !.pc = "sweeplock", !.obj = i]
  <2>1. proc' = [proc EXCEPT ![p] = d]
    BY <1>2
  <2>2. /\ d.pc = "sweeplock" /\ d.seen = proc[p].seen /\ d.cmd = proc[p].cmd
        /\ d.vol = proc[p].vol /\ d.obj = i
    BY <1>0 DEF Proc
  <2>3. d \in Proc /\ i \in Objects
    <3>1. i \in Objects
      BY <1>0 DEF Proc
    <3> QED BY <1>0, <3>1, ProcRecords DEF Pcs
  <2> HIDE DEF d
  <2>4. parent.ex # {} => parent.sh = {}
    BY <1>0 DEF FlocksExclude
  <2> QED BY ZenonT(60), <1>0, <1>2, <2>1, <2>2, <2>3, <2>4, BareMove DEF Named1, VolumeSteps, OpenSteps
<1>3. ASSUME NEW i \in proc[p].seen, proc' = [proc EXCEPT ![p].seen = @ \ {i}]
      PROVE  VolumeInv'
  <2> DEFINE d == [proc[p] EXCEPT !.seen = @ \ {i}]
  <2>1. proc' = [proc EXCEPT ![p] = d]
    BY <1>3
  <2>2. /\ d.pc = "sweep" /\ d.seen \subseteq proc[p].seen /\ d.cmd = proc[p].cmd
        /\ d.vol = proc[p].vol
    BY <1>0 DEF Proc
  <2>3. d \in Proc
    BY <1>0 DEF Proc
  <2> HIDE DEF d
  <2>4. Rests(d, p)
    BY <1>0, <2>2, <2>3 DEF Rests, Named1
  <2> QED BY <1>0, <2>1, <2>4, QuietMove
<1> QED BY <1>1, <1>2, <1>3 DEF CleanupOpen

\* Publication takes the flock of the directory, which it shares with others.
LEMMA PublishBeginsKeeps ==
  ASSUME VolumeInv, NEW p \in Procs, PublishBegins(p) PROVE VolumeInv'
<1>0. /\ proc[p] \in Proc /\ Named1(p) /\ proc[p].pc = "publish"
      /\ parent \in Lock /\ SharedFree(parent) /\ parent' = Shared(parent, p)
      /\ UNCHANGED <<object, crashes>>
  BY VolumeFacts DEF PublishBegins
<1> DEFINE d == [proc[p] EXCEPT !.pc = "stage"]
<1>1. proc' = [proc EXCEPT ![p] = d]
  BY DEF PublishBegins, Goes
<1>2. /\ d.pc = "stage" /\ d.seen = proc[p].seen /\ d.cmd = proc[p].cmd
      /\ d.vol = proc[p].vol
  BY <1>0 DEF Proc
<1>3. d \in Proc
  BY <1>0, ProcRecords DEF Pcs
<1> HIDE DEF d
<1>4. /\ parent' \in Lock /\ parent'.sh = parent.sh \cup {p} /\ parent'.ex = {}
      /\ parent.ex = {}
  BY <1>0 DEF Shared, SharedFree, Lock
<1> QED BY <1>0, <1>1, <1>2, <1>3, <1>4, BareMove DEF Named1, VolumeSteps, OpenSteps

\* A directory that becomes n: flocks exclude each other, and a volume is complete.
Sound(n) ==
  /\ n \in Object
  /\ n.stageLock.ex # {} => n.stageLock.sh = {}
  /\ n.link \in Volumes => n.meta \in {"whole", "gone"} /\ n.data \in {"whole", "cut", "gone"}

\* No process but p loses a flock of directory i, nor is it the stage of one.
Undisturbed(i, n, p) ==
  \A q \in Procs : q # p =>
      /\ Publishing(q) => proc[q].obj # i
      /\ q \in object[i].stageLock.ex => q \in n.stageLock.ex
      /\ q \in object[i].stageLock.sh => q \in n.stageLock.sh

\* Process p goes on as c with directory i, which becomes n.
Pursues(c, i, n, p) ==
  /\ c \in Proc
  /\ c.seen \subseteq proc[p].seen
  /\ c.pc # "idle" /\ c.cmd # "remove" => c.vol \in Volumes
  /\ c.pc \in VolumeSteps => c.cmd # "remove"
  /\ c.pc = "removing" => c.vol \in Volumes
  /\ c.pc \in OpenSteps => c.obj \in Objects
  /\ c.pc \notin {"scan", "stage", "sweeplock"}
  /\ c.pc \in {"sweepcheck", "locking", "seeding", "describing", "rename"} => c.obj = i
  /\ c.pc = "sweepcheck" => i \in c.seen /\ p \in n.stageLock.ex
  /\ c.pc \in {"locking", "seeding", "describing", "rename"} => n.link = "stage"
  /\ c.pc \in {"seeding", "describing", "rename"} => p \in n.stageLock.sh
  /\ c.pc \in {"describing", "rename"} => n.data = "whole"
  /\ c.pc = "rename" => n.meta = "whole"
  /\ c.pc = "locking" => \A q \in Procs : i \notin proc[q].seen

\* A step of p that changes one directory, which no other process fills.
LEMMA ObjectMove ==
  ASSUME VolumeInv, NEW p \in Procs, NEW c, NEW i \in Objects, NEW n,
         proc' = [proc EXCEPT ![p] = c], object' = [object EXCEPT ![i] = n],
         UNCHANGED crashes, parent' \in {parent, Unlock(parent, p)},
         Sound(n), Undisturbed(i, n, p), Pursues(c, i, n, p),
         c.pc = "locking" => p \in parent'.sh
  PROVE  VolumeInv'
<1>0. /\ proc \in [Procs -> Proc] /\ object \in [Objects -> Object] /\ TypeOK
      /\ FlocksExclude /\ PublishedVolumesAreComplete /\ parent \in Lock
      /\ c \in Proc /\ n \in Object
  BY VolumeFacts DEF Sound, Pursues
<1>1. /\ proc'[p] = c /\ \A q \in Procs : q # p => proc'[q] = proc[q]
      /\ proc' \in [Procs -> Proc]
      /\ object' \in [Objects -> Object] /\ object'[i] = n
      /\ \A j \in Objects : j # i => object'[j] = object[j]
  BY <1>0
<1>2. /\ parent' \in Lock /\ parent'.ex \subseteq parent.ex /\ parent'.sh \subseteq parent.sh
      /\ \A q \in Procs : q # p => /\ q \in parent.ex => q \in parent'.ex
                                   /\ q \in parent.sh => q \in parent'.sh
  BY <1>0 DEF Lock, Unlock
<1>3. TypeOK'
  BY <1>0, <1>1, <1>2 DEF TypeOK
<1>4. Named1(p)' /\ Locked(p)' /\ Filling(p)'
  <2>1. Named1(p)'
    BY <1>1 DEF Named1, Pursues
  <2>2. Locked(p)'
    BY <1>1 DEF Locked, Pursues
  <2>3. Filling(p)'
    BY <1>1 DEF Filling, Publishing, Pursues
  <2> QED BY <2>1, <2>2, <2>3
<1>5. FlocksExclude' /\ PublishedVolumesAreComplete'
  BY <1>0, <1>1, <1>2 DEF FlocksExclude, PublishedVolumesAreComplete, Sound
<1>6. \A q \in Procs : q # p /\ proc[q].pc \in OpenSteps =>
          /\ q \in object[proc[q].obj].stageLock.ex => q \in object'[proc[q].obj].stageLock.ex
          /\ q \in object[proc[q].obj].stageLock.sh => q \in object'[proc[q].obj].stageLock.sh
          /\ Publishing(q) =>
                /\ object'[proc[q].obj] = object[proc[q].obj]
                /\ Publishing(p)' => proc[q].obj # proc'[p].obj
  <2>1. \A q \in Procs : proc[q].pc \in OpenSteps => proc[q].obj \in Objects
    BY DEF VolumeInv, Named1
  <2>2. Publishing(p)' => proc'[p].obj = i
    BY <1>1 DEF Publishing, Pursues
  <2> QED BY <1>1, <2>1, <2>2 DEF Undisturbed
<1>7. \A q \in Procs : proc[q].pc = "locking" => proc[q].obj \notin proc'[p].seen
  BY <1>1 DEF VolumeInv, Filling, Pursues
<1> QED BY <1>1, <1>2, <1>3, <1>4, <1>5, <1>6, <1>7, VolumeStep

\* A publisher and a recovery that checks a directory are not at the same one.
LEMMA SweptIsFree ==
  ASSUME VolumeInv, NEW p \in Procs, NEW q \in Procs, Publishing(q),
         \/ proc[p].pc = "sweepcheck"
         \/ proc[p].pc = "sweeplock" /\ Sweepable(proc[p].obj)
  PROVE  proc[q].obj # proc[p].obj
<1>1. /\ Named1(p) /\ Locked(p) /\ FlocksExclude /\ Locked(q) /\ Filling(q)
  BY DEF VolumeInv
<1>2. proc[p].obj \in Objects /\ proc[p].obj \in proc[p].seen
  BY <1>1 DEF Named1, OpenSteps
<1>3. CASE proc[q].pc = "locking"
  BY <1>1, <1>2, <1>3 DEF Filling
<1>4. CASE proc[q].pc \in {"seeding", "describing", "rename"}
  <2>1. q \in object[proc[q].obj].stageLock.sh
    BY <1>1, <1>4 DEF Locked
  <2>2. object[proc[p].obj].stageLock.sh = {}
    BY <1>1, <1>2 DEF Locked, FlocksExclude, Sweepable, ExclusiveFree, Unlocked
  <2> QED BY <2>1, <2>2
<1> QED BY <1>3, <1>4 DEF Publishing

\* A record of a directory with one field changed.
LEMMA ObjectFields ==
  ASSUME VolumeInv, NEW p \in Procs, NEW o \in Object
  PROVE  /\ \A l \in Lock : [o EXCEPT !.stageLock = l] \in Object
         /\ [o EXCEPT !.meta = "whole"] \in Object /\ [o EXCEPT !.meta = "gone"] \in Object
         /\ \A d \in {"none", "partial", "whole", "cut", "gone"} :
              [o EXCEPT !.data = d] \in Object
         /\ \A v \in Volumes \cup {"stage", "none"} : [o EXCEPT !.link = v] \in Object
         /\ [o EXCEPT !.link = "none", !.meta = "none", !.data = "none"] \in Object
         /\ NoFiles \in Object /\ [NoFiles EXCEPT !.link = "stage"] \in Object
<1>1. \A l \in Lock : [o EXCEPT !.stageLock = l] \in Object
  BY DEF Object
<1>2. [o EXCEPT !.meta = "whole"] \in Object /\ [o EXCEPT !.meta = "gone"] \in Object
  BY DEF Object
<1>3. \A c \in Object, d \in {"none", "partial", "whole", "cut", "gone"} :
          [c EXCEPT !.data = d] \in Object
  BY DEF Object
<1>4. \A c \in Object, v \in Volumes \cup {"stage", "none"} : [c EXCEPT !.link = v] \in Object
  BY DEF Object
<1>5. [o EXCEPT !.link = "none", !.meta = "none", !.data = "none"] \in Object
  BY DEF Object
<1>6. NoFiles \in Object
  BY DEF NoFiles, Object, Unlocked, Lock
<1> QED BY <1>1, <1>2, <1>3, <1>4, <1>5, <1>6

\* Recovery locks a stage, or leaves it to its publisher.
LEMMA PassesRests ==
  ASSUME VolumeInv, NEW p \in Procs, proc[p].pc \in {"sweeplock", "sweepcheck"}, Passes(p)
  PROVE  \E c \in Proc : /\ proc' = [proc EXCEPT ![p] = c] /\ Rests(c, p) /\ c.pc = "sweep"
<1>0. proc[p] \in Proc /\ Named1(p)
  BY VolumeFacts
<1> DEFINE d == [proc[p] EXCEPT !.pc = "sweep", !.seen = @ \ {proc[p].obj}, !.obj = NoObject]
<1>1. proc' = [proc EXCEPT ![p] = d]
  BY DEF Passes
<1>2. /\ d.pc = "sweep" /\ d.seen \subseteq proc[p].seen /\ d.cmd = proc[p].cmd
      /\ d.vol = proc[p].vol
  BY <1>0 DEF Proc
<1>3. d \in Proc
  <2>1. [proc[p] EXCEPT !.pc = "sweep"] \in Proc
    BY <1>0, ProcRecords DEF Pcs
  <2>2. \A c \in Proc : [c EXCEPT !.seen = @ \ {proc[p].obj}, !.obj = NoObject] \in Proc
    BY DEF Proc
  <2> QED BY ZenonT(60), <2>1, <2>2
<1> HIDE DEF d
<1>4. Rests(d, p)
  BY <1>0, <1>2, <1>3 DEF Rests, Named1
<1> QED BY <1>1, <1>2, <1>3, <1>4

LEMMA CleanupLocks ==
  ASSUME VolumeInv, NEW p \in Procs, CleanupLock(p) PROVE VolumeInv'
<1>0. /\ proc[p] \in Proc /\ object \in [Objects -> Object] /\ proc[p].obj \in Objects
      /\ Named1(p) /\ crashes \in 0 .. MaxCrashes /\ proc[p].pc = "sweeplock"
      /\ UNCHANGED <<parent, crashes>> /\ parent \in Lock /\ FlocksExclude
      /\ proc[p].obj \in proc[p].seen
  BY VolumeFacts DEF CleanupLock, Named1, OpenSteps
<1>1. CASE Passes(p) /\ UNCHANGED object
  <2>1. PICK c \in Proc : proc' = [proc EXCEPT ![p] = c] /\ Rests(c, p)
    BY <1>0, <1>1, PassesRests
  <2> QED BY <1>0, <1>1, <2>1, QuietMove
<1>2. CASE /\ Sweepable(proc[p].obj) /\ Goes(p, "sweepcheck")
           /\ object' = [object EXCEPT ![proc[p].obj].stageLock = Exclusive(@, p)]
  <2> DEFINE i == proc[p].obj
             d == [proc[p] EXCEPT !.pc = "sweepcheck"]
             n == [object[i] EXCEPT !.stageLock = Exclusive(@, p)]
  <2>1. proc' = [proc EXCEPT ![p] = d] /\ object' = [object EXCEPT ![i] = n]
    BY <1>2 DEF Goes
  <2>2. /\ d.pc = "sweepcheck" /\ d.seen = proc[p].seen /\ d.cmd = proc[p].cmd
        /\ d.vol = proc[p].vol /\ d.obj = i
    BY <1>0 DEF Proc
  <2>3. d \in Proc
    BY <1>0, ProcRecords DEF Pcs
  <2>4. object[i] \in Object /\ object[i].stageLock.ex = {} /\ object[i].stageLock.sh = {}
    BY <1>0, <1>2 DEF Sweepable, ExclusiveFree, Unlocked
  <2>5. /\ n.stageLock.ex = {p} /\ n.stageLock.sh = {} /\ n.link = object[i].link
        /\ n.meta = object[i].meta /\ n.data = object[i].data
    BY <2>4 DEF Exclusive, Object, Lock
  <2>6. n \in Object
    <3>1. Exclusive(object[i].stageLock, p) \in Lock
      BY <2>4 DEF Exclusive, Object, Lock
    <3> QED BY <2>4, <3>1, ObjectFields
  <2>7. Undisturbed(i, n, p)
    BY <1>0, <1>2, <2>4, SweptIsFree DEF Undisturbed
  <2>8. Sound(n)
    BY <1>0, <2>5, <2>6 DEF VolumeInv, PublishedVolumesAreComplete, Sound
  <2>9. Pursues(d, i, n, p)
    BY <1>0, <2>2, <2>3, <2>5 DEF Named1, VolumeSteps, OpenSteps, Pursues
  <2>10. i \in Objects
    BY <1>0
  <2> HIDE DEF d, n, i
  <2> QED BY <1>0, <2>1, <2>2, <2>7, <2>8, <2>9, <2>10, ObjectMove
<1> QED BY <1>1, <1>2 DEF CleanupLock

\* A process that neither publishes nor recovers goes on whatever became of i.
LEMMA RestsPursue ==
    ASSUME NEW c, NEW i, NEW n, NEW p, Rests(c, p) PROVE Pursues(c, i, n, p) /\ c.pc # "locking"
  BY DEF Rests, Pursues, VolumeSteps, OpenSteps

\* A directory whose flocks of p are given back, and that was removed or not.
LEMMA FreedIsSound ==
  ASSUME VolumeInv, NEW p \in Procs, NEW i \in Objects,
         \A q \in Procs : q # p /\ Publishing(q) => proc[q].obj # i
  PROVE  /\ Sound(Freed(i, p)) /\ Undisturbed(i, Freed(i, p), p)
         /\ Sound(Discarded(i, p)) /\ Undisturbed(i, Discarded(i, p), p)
<1> DEFINE f == Freed(i, p)
           d == Discarded(i, p)
<1>1. /\ f \in Object /\ f.link = object[i].link /\ f.meta = object[i].meta
      /\ f.data = object[i].data /\ f.stageLock = Unlock(object[i].stageLock, p)
      /\ object[i] \in Object /\ FlocksExclude /\ PublishedVolumesAreComplete
  BY VolumeFacts
<1>2. d = [f EXCEPT !.link = "none", !.meta = "none", !.data = "none"]
  BY DEF Discarded
<1>3. d \in Object
  BY <1>1, <1>2, ObjectFields
<1> HIDE DEF f
<1>4. d.link = "none" /\ d.stageLock = f.stageLock
  BY <1>1, <1>2 DEF Object
<1> HIDE DEF d
<1>5. /\ f.stageLock.ex = object[i].stageLock.ex \ {p}
      /\ f.stageLock.sh = object[i].stageLock.sh \ {p}
  BY <1>1 DEF Unlock
<1>6. Sound(f) /\ Undisturbed(i, f, p)
  BY <1>1, <1>5 DEF Sound, Undisturbed, FlocksExclude, PublishedVolumesAreComplete
<1>7. Sound(d) /\ Undisturbed(i, d, p)
  BY <1>3, <1>4, <1>5, <1>6, VolumeStoreAssumption DEF Sound, Undisturbed
<1> QED BY <1>6, <1>7 DEF f, d

\* Recovery removes the stage, or closes what was published meanwhile.
LEMMA CleanupKeeps ==
  ASSUME VolumeInv, NEW p \in Procs, CleanupTemporaryDirectory(p) PROVE VolumeInv'
<1> DEFINE i == proc[p].obj
           n == IF object[i].link = "stage" THEN Discarded(i, p) ELSE Freed(i, p)
<1>0. /\ object \in [Objects -> Object] /\ i \in Objects /\ proc[p].pc = "sweepcheck"
      /\ UNCHANGED <<parent, crashes>>
  BY VolumeFacts DEF CleanupTemporaryDirectory, Named1, OpenSteps
<1>1. PICK c \in Proc : proc' = [proc EXCEPT ![p] = c] /\ Rests(c, p)
  BY <1>0, PassesRests DEF CleanupTemporaryDirectory
<1>2. object' = [object EXCEPT ![i] = n]
  BY DEF CleanupTemporaryDirectory
<1>3. Sound(n) /\ Undisturbed(i, n, p)
  <2>1. \A q \in Procs : q # p /\ Publishing(q) => proc[q].obj # i
    BY <1>0, SweptIsFree
  <2> QED BY <1>0, <2>1, FreedIsSound
<1>4. Pursues(c, i, n, p) /\ c.pc # "locking"
  BY <1>1, RestsPursue
<1> HIDE DEF i, n
<1> QED BY <1>0, <1>1, <1>2, <1>3, <1>4, ObjectMove

\* No two publishers fill the same stage, so p changes its own.
LEMMA PublisherAlone ==
  ASSUME VolumeInv, NEW p \in Procs, Publishing(p)
  PROVE  /\ proc[p].obj \in Objects /\ object[proc[p].obj].link = "stage"
         /\ \A q \in Procs : q # p /\ Publishing(q) => proc[q].obj # proc[p].obj
<1>1. Named1(p) /\ Filling(p) /\ PublishersApart
  BY VolumeFacts
<1> QED BY <1>1 DEF Publishing, Named1, Filling, OpenSteps, PublishersApart

\* The stage is an inode that nobody has open or has read the name of.
LEMMA CreateStageKeeps ==
  ASSUME VolumeInv, NEW p \in Procs, CreateStage(p) PROVE VolumeInv'
<1>1. PICK i \in Objects :
        /\ Unreferenced(i)
        /\ object' = [object EXCEPT ![i] = [NoFiles EXCEPT !.link = "stage"]]
        /\ proc' = [proc EXCEPT ![p].pc = "locking", ![p].obj = i]
  BY DEF CreateStage
<1> DEFINE d == [proc[p] EXCEPT !.pc = "locking", !.obj = i]
           n == [NoFiles EXCEPT !.link = "stage"]
<1>0. /\ proc[p] \in Proc /\ object \in [Objects -> Object] /\ Named1(p) /\ Locked(p)
      /\ proc[p].pc = "stage" /\ UNCHANGED <<parent, crashes>>
  BY VolumeFacts DEF CreateStage
<1>2. proc' = [proc EXCEPT ![p] = d] /\ object' = [object EXCEPT ![i] = n]
  BY <1>1
<1>3. /\ d.pc = "locking" /\ d.seen = proc[p].seen /\ d.cmd = proc[p].cmd
      /\ d.vol = proc[p].vol /\ d.obj = i
  BY <1>0 DEF Proc
<1>4. d \in Proc
  BY <1>0, ProcRecords DEF Pcs
<1>5. Sound(n)
  <2>1. n \in Object
    BY <1>0, ObjectFields
  <2>2. n.link = "stage" /\ n.stageLock = Unlocked
    BY DEF NoFiles
  <2> QED BY <2>1, <2>2, VolumeStoreAssumption DEF Sound, Unlocked
<1>6. Undisturbed(i, n, p)
  BY <1>1 DEF Unreferenced, Undisturbed, Unlocked
<1>7. Pursues(d, i, n, p)
  <2>1. \A q \in Procs : i \notin proc[q].seen
    BY <1>1 DEF Unreferenced
  <2>2. n.link = "stage"
    BY DEF NoFiles
  <2> HIDE DEF d, n
  <2> QED BY <1>0, <1>3, <1>4, <2>1, <2>2 DEF Named1, VolumeSteps, OpenSteps, Pursues
<1>8. p \in parent'.sh
  BY <1>0 DEF Locked
<1> HIDE DEF d, n
<1> QED BY <1>0, <1>2, <1>3, <1>5, <1>6, <1>7, <1>8, ObjectMove

\* The stage's own flock, after which the directory's is given back.
LEMMA LockStageKeeps ==
  ASSUME VolumeInv, NEW p \in Procs, LockStage(p) PROVE VolumeInv'
<1> DEFINE i == proc[p].obj
           d == [proc[p] EXCEPT !.pc = "seeding"]
           n == [object[i] EXCEPT !.stageLock = Shared(@, p), !.data = "partial"]
<1>0. /\ proc[p] \in Proc /\ object \in [Objects -> Object] /\ Named1(p)
      /\ proc[p].pc = "locking" /\ UNCHANGED crashes /\ parent' = Unlock(parent, p)
      /\ i \in Objects /\ object[i].link = "stage" /\ SharedFree(object[i].stageLock)
      /\ \A q \in Procs : q # p /\ Publishing(q) => proc[q].obj # i
  BY VolumeFacts, PublisherAlone DEF LockStage, Publishing
<1>1. proc' = [proc EXCEPT ![p] = d] /\ object' = [object EXCEPT ![i] = n]
  BY DEF LockStage, Goes
<1>2. /\ d.pc = "seeding" /\ d.seen = proc[p].seen /\ d.cmd = proc[p].cmd
      /\ d.vol = proc[p].vol /\ d.obj = i
  BY <1>0 DEF Proc
<1>3. d \in Proc
  BY <1>0, ProcRecords DEF Pcs
<1>4. object[i] \in Object /\ object[i].stageLock \in Lock /\ object[i].stageLock.ex = {}
  BY <1>0 DEF SharedFree, Object
<1>5. /\ n.stageLock.ex = {} /\ n.stageLock.sh = object[i].stageLock.sh \cup {p}
      /\ n.link = "stage"
  BY <1>0, <1>4 DEF Shared, Object, Lock
<1>6. n \in Object
  <2> DEFINE m == [object[i] EXCEPT !.stageLock = Shared(@, p)]
  <2>1. Shared(object[i].stageLock, p) \in Lock
    BY <1>4 DEF Shared, Lock
  <2>2. m \in Object
    BY <1>4, <2>1, ObjectFields
  <2>3. [m EXCEPT !.data = "partial"] \in Object
    BY <2>2, ObjectFields
  <2> QED BY <2>3
<1> HIDE DEF d, n, i
<1>7. Sound(n) /\ Undisturbed(i, n, p)
  BY <1>0, <1>4, <1>5, <1>6, VolumeStoreAssumption DEF Sound, Undisturbed
<1>8. Pursues(d, i, n, p)
  BY <1>0, <1>2, <1>3, <1>5 DEF Named1, VolumeSteps, OpenSteps, Pursues
<1> QED BY <1>0, <1>1, <1>2, <1>7, <1>8, ObjectMove

\* The publisher fills its stage: the seed, then the metadata.
LEMMA SeedKeeps ==
  ASSUME VolumeInv, NEW p \in Procs, SeedDirectory(p) PROVE VolumeInv'
<1> DEFINE i == proc[p].obj
           d == [proc[p] EXCEPT !.pc = "describing"]
           n == [object[i] EXCEPT !.data = "whole"]
<1>0. /\ proc[p] \in Proc /\ object \in [Objects -> Object] /\ Named1(p) /\ Locked(p)
      /\ proc[p].pc = "seeding" /\ UNCHANGED <<parent, crashes>> /\ FlocksExclude
      /\ i \in Objects /\ object[i].link = "stage"
      /\ \A q \in Procs : q # p /\ Publishing(q) => proc[q].obj # i
  BY VolumeFacts, PublisherAlone DEF SeedDirectory, Publishing
<1>1. proc' = [proc EXCEPT ![p] = d] /\ object' = [object EXCEPT ![i] = n]
  BY DEF SeedDirectory, Goes
<1>2. /\ d.pc = "describing" /\ d.seen = proc[p].seen /\ d.cmd = proc[p].cmd
      /\ d.vol = proc[p].vol /\ d.obj = i
  BY <1>0 DEF Proc
<1>3. d \in Proc
  BY <1>0, ProcRecords DEF Pcs
<1>4. n \in Object
  BY <1>0, ObjectFields
<1>5. /\ n.stageLock = object[i].stageLock /\ n.link = "stage" /\ n.data = "whole"
      /\ p \in n.stageLock.sh
  BY <1>0 DEF Locked, Object
<1> HIDE DEF d, n, i
<1>6. Sound(n) /\ Undisturbed(i, n, p)
  BY <1>0, <1>4, <1>5, VolumeStoreAssumption DEF Sound, Undisturbed, FlocksExclude
<1>7. Pursues(d, i, n, p)
  BY <1>0, <1>2, <1>3, <1>5 DEF Named1, VolumeSteps, OpenSteps, Pursues
<1> QED BY <1>0, <1>1, <1>2, <1>6, <1>7, ObjectMove

LEMMA MetadataKeeps ==
  ASSUME VolumeInv, NEW p \in Procs, PublishMetadata(p) PROVE VolumeInv'
<1> DEFINE i == proc[p].obj
           d == [proc[p] EXCEPT !.pc = "rename"]
           n == [object[i] EXCEPT !.meta = "whole"]
<1>0. /\ proc[p] \in Proc /\ object \in [Objects -> Object] /\ Named1(p) /\ Locked(p)
      /\ proc[p].pc = "describing" /\ UNCHANGED <<parent, crashes>> /\ FlocksExclude
      /\ i \in Objects /\ object[i].link = "stage" /\ Filling(p)
      /\ \A q \in Procs : q # p /\ Publishing(q) => proc[q].obj # i
  BY VolumeFacts, PublisherAlone DEF PublishMetadata, Publishing
<1>1. proc' = [proc EXCEPT ![p] = d] /\ object' = [object EXCEPT ![i] = n]
  BY DEF PublishMetadata, Goes
<1>2. /\ d.pc = "rename" /\ d.seen = proc[p].seen /\ d.cmd = proc[p].cmd
      /\ d.vol = proc[p].vol /\ d.obj = i
  BY <1>0 DEF Proc
<1>3. d \in Proc
  BY <1>0, ProcRecords DEF Pcs
<1>4. n \in Object
  BY <1>0, ObjectFields
<1>5. /\ n.stageLock = object[i].stageLock /\ n.link = "stage" /\ n.data = "whole"
      /\ p \in n.stageLock.sh /\ n.meta = "whole"
  BY <1>0 DEF Locked, Filling, Object
<1> HIDE DEF d, n, i
<1>6. Sound(n) /\ Undisturbed(i, n, p)
  BY <1>0, <1>4, <1>5, VolumeStoreAssumption DEF Sound, Undisturbed, FlocksExclude
<1>7. Pursues(d, i, n, p)
  BY <1>0, <1>2, <1>3, <1>5 DEF Named1, VolumeSteps, OpenSteps, Pursues
<1> QED BY <1>0, <1>1, <1>2, <1>6, <1>7, ObjectMove

\* A seed that fails takes its stage along.
LEMMA PopulateFailsKeeps ==
  ASSUME VolumeInv, NEW p \in Procs, PopulateFails(p) PROVE VolumeInv'
<1> DEFINE i == proc[p].obj
           n == Discarded(i, p)
<1>0. /\ UNCHANGED <<parent, crashes>> /\ i \in Objects
      /\ \A q \in Procs : q # p /\ Publishing(q) => proc[q].obj # i
      /\ proc' = [proc EXCEPT ![p] = Idle] /\ object' = [object EXCEPT ![i] = n]
  BY PublisherAlone DEF PopulateFails, Publishing, Ends
<1>1. Sound(n) /\ Undisturbed(i, n, p)
  BY <1>0, FreedIsSound
<1>2. Pursues(Idle, i, n, p) /\ Idle.pc # "locking"
  BY IdleRests, RestsPursue
<1> HIDE DEF n, i
<1> QED BY <1>0, <1>1, <1>2, ObjectMove

\* The stage gets the volume's name with all that belongs in it, or none.
LEMMA RenameKeeps ==
  ASSUME VolumeInv, NEW p \in Procs, RenameNoReplace(p) PROVE VolumeInv'
<1> DEFINE i == proc[p].obj
           d == [proc[p] EXCEPT !.pc = "open", !.obj = NoObject, !.again = TRUE]
           f == Freed(i, p)
           n == IF Publishes(proc[p].vol) THEN [f EXCEPT !.link = proc[p].vol]
                ELSE Discarded(i, p)
<1>0. /\ proc[p] \in Proc /\ object \in [Objects -> Object] /\ Named1(p) /\ Filling(p)
      /\ proc[p].pc = "rename" /\ UNCHANGED <<parent, crashes>>
      /\ i \in Objects
      /\ \A q \in Procs : q # p /\ Publishing(q) => proc[q].obj # i
  BY VolumeFacts, PublisherAlone DEF RenameNoReplace, Publishing
<1>1. proc' = [proc EXCEPT ![p] = d] /\ object' = [object EXCEPT ![i] = n]
  BY DEF RenameNoReplace
<1>2. /\ d.pc = "open" /\ d.seen = proc[p].seen /\ d.cmd = proc[p].cmd /\ d.vol = proc[p].vol
  BY <1>0 DEF Proc
<1>3. d \in Proc
  BY <1>0, ProcRecords DEF Pcs
<1>4. proc[p].vol \in Volumes /\ proc[p].cmd # "remove"
  BY <1>0 DEF Named1, VolumeSteps
<1>5. Sound(n) /\ Undisturbed(i, n, p)
  <2>1. /\ Sound(f) /\ Undisturbed(i, f, p)
        /\ Sound(Discarded(i, p)) /\ Undisturbed(i, Discarded(i, p), p)
    BY <1>0, FreedIsSound
  <2>2. f.meta = "whole" /\ f.data = "whole" /\ f \in Object
    BY <1>0, VolumeFacts DEF Filling
  <2> DEFINE w == [f EXCEPT !.link = proc[p].vol]
  <2> HIDE DEF f
  <2>3. w \in Object
    BY <1>4, <2>2, ObjectFields
  <2>4. w.meta = "whole" /\ w.data = "whole" /\ w.stageLock = f.stageLock
    BY <2>2 DEF Object
  <2>5. n \in {w, Discarded(i, p)}
    OBVIOUS
  <2> HIDE DEF w
  <2>6. Sound(w) /\ Undisturbed(i, w, p)
    BY <2>1, <2>3, <2>4 DEF Sound, Undisturbed
  <2> HIDE DEF n
  <2> QED BY <2>1, <2>5, <2>6
<1> HIDE DEF d, n, i
<1>6. Rests(d, p)
  BY <1>2, <1>3, <1>4 DEF Rests
<1>7. Pursues(d, i, n, p) /\ d.pc # "locking"
  BY <1>6, RestsPursue
<1> QED BY <1>0, <1>1, <1>5, <1>7, ObjectMove

\* A removal changes only what has a volume's name, which no stage has.
LEMMA RemovedIsNoStage ==
  ASSUME VolumeInv, NEW p \in Procs, proc[p].pc = "removing",
         object[proc[p].obj].link = proc[p].vol
  PROVE  /\ proc[p].obj \in Objects /\ proc[p].vol \in Volumes
         /\ \A q \in Procs : Publishing(q) => proc[q].obj # proc[p].obj
<1>1. Named1(p) /\ \A q \in Procs : Filling(q)
  BY DEF VolumeInv
<1> QED BY <1>1, VolumeStoreAssumption DEF Named1, Filling, OpenSteps

LEMMA RemoveEntryKeeps ==
  ASSUME VolumeInv, NEW p \in Procs, RemoveEntry(p) PROVE VolumeInv'
<1> DEFINE i == proc[p].obj
           c == proc[p]
<1>0. /\ proc \in [Procs -> Proc] /\ proc[p] \in Proc /\ object \in [Objects -> Object]
      /\ Named1(p) /\ proc[p].pc = "removing" /\ UNCHANGED <<parent, proc, crashes>>
      /\ FlocksExclude /\ PublishedVolumesAreComplete
      /\ i \in Objects /\ object[i].link = proc[p].vol /\ proc[p].vol \in Volumes
      /\ \A q \in Procs : Publishing(q) => proc[q].obj # i
  BY VolumeFacts, RemovedIsNoStage DEF RemoveEntry
<1>1. proc' = [proc EXCEPT ![p] = c]
  BY <1>0
<1>2. Rests(c, p)
  BY <1>0 DEF Rests, Named1, OpenSteps
<1>3. PICK n \in Object :
        /\ object' = [object EXCEPT ![i] = n]
        /\ n.stageLock = object[i].stageLock
        /\ n.meta \in {object[i].meta, "gone"} /\ n.data \in {object[i].data, "cut", "gone"}
  <2>0. object[i] \in Object
    BY <1>0
  <2>1. CASE object' = [object EXCEPT ![i].meta = "gone"]
    <3> DEFINE n == [object[i] EXCEPT !.meta = "gone"]
    <3>1. n \in Object
      BY <1>0, ObjectFields
    <3>2. /\ n.stageLock = object[i].stageLock /\ n.meta = "gone"
          /\ n.data = object[i].data
      BY <2>0 DEF Object
    <3>3. object' = [object EXCEPT ![i] = n]
      BY <2>1
    <3> HIDE DEF n
    <3> QED BY <3>1, <3>2, <3>3
  <2>2. CASE object' = [object EXCEPT ![i].data = IF @ = "whole" THEN "cut" ELSE "gone"]
    <3> DEFINE x == IF object[i].data = "whole" THEN "cut" ELSE "gone"
               n == [object[i] EXCEPT !.data = x]
    <3>1. n \in Object
      BY <1>0, ObjectFields
    <3>2. /\ n.stageLock = object[i].stageLock /\ n.meta = object[i].meta
          /\ n.data \in {"cut", "gone"}
      BY <2>0 DEF Object
    <3>3. object' = [object EXCEPT ![i] = n]
      BY <2>2
    <3> HIDE DEF n
    <3> QED BY <3>1, <3>2, <3>3
  <2> QED BY <2>1, <2>2 DEF RemoveEntry
<1>4. Sound(n) /\ Undisturbed(i, n, p)
  BY <1>0, <1>3 DEF Sound, Undisturbed, FlocksExclude, PublishedVolumesAreComplete
<1>5. Pursues(c, i, n, p) /\ c.pc # "locking"
  BY <1>2, RestsPursue
<1> HIDE DEF c, i
<1> QED BY <1>0, <1>1, <1>3, <1>4, <1>5, ObjectMove

\* The name is given up, or another removal was faster.
LEMMA RemoveDirectoryKeeps ==
  ASSUME VolumeInv, NEW p \in Procs, RemoveDirectory(p) PROVE VolumeInv'
<1> DEFINE i == proc[p].obj
           d == [proc[p] EXCEPT !.pc = "remove", !.todo = @ \ {proc[p].vol}, !.obj = NoObject]
           n == [object[i] EXCEPT !.link = "none"]
<1>0. /\ proc[p] \in Proc /\ object \in [Objects -> Object] /\ FlocksExclude
      /\ Named1(p) /\ proc[p].pc = "removing" /\ UNCHANGED <<parent, crashes>>
      /\ crashes \in 0 .. MaxCrashes
  BY VolumeFacts DEF RemoveDirectory
<1>1. NextVolume(p) => proc' = [proc EXCEPT ![p] = d]
  BY DEF NextVolume
<1>2. Rests(d, p)
  <2>1. /\ d.pc = "remove" /\ d.seen = proc[p].seen /\ d.cmd = proc[p].cmd
        /\ d.vol = proc[p].vol
    BY <1>0 DEF Proc
  <2>2. d \in Proc
    <3>1. [proc[p] EXCEPT !.pc = "remove"] \in Proc
      BY <1>0, ProcRecords DEF Pcs
    <3>2. \A c \in Proc : [c EXCEPT !.todo = @ \ {proc[p].vol}, !.obj = NoObject] \in Proc
      BY DEF Proc
    <3> QED BY ZenonT(60), <3>1, <3>2
  <2> HIDE DEF d
  <2> QED BY <1>0, <2>1, <2>2 DEF Rests, Named1
<1>3. CASE /\ object[i].link = proc[p].vol
           /\ object' = [object EXCEPT ![i].link = "none"] /\ NextVolume(p)
  <2>1. /\ i \in Objects /\ \A q \in Procs : Publishing(q) => proc[q].obj # i
    BY <1>0, <1>3, RemovedIsNoStage
  <2>2. object' = [object EXCEPT ![i] = n]
    BY <1>3
  <2>3. n \in Object
    BY <1>0, <2>1, ObjectFields
  <2>4. n.link = "none" /\ n.stageLock = object[i].stageLock
    BY <1>0, <2>1 DEF Object
  <2> HIDE DEF i, n, d
  <2>5. Sound(n) /\ Undisturbed(i, n, p)
    BY <1>0, <2>1, <2>3, <2>4, VolumeStoreAssumption DEF Sound, Undisturbed, FlocksExclude
  <2>6. Pursues(d, i, n, p) /\ d.pc # "locking"
    BY <1>2, RestsPursue
  <2> QED BY <1>0, <1>1, <1>3, <2>1, <2>2, <2>5, <2>6, ObjectMove
<1>4. CASE NextVolume(p) /\ UNCHANGED object
  <2> HIDE DEF d
  <2> QED BY <1>0, <1>1, <1>2, <1>4, QuietMove
<1>5. CASE RemovalReturns(p)
  BY <1>0, <1>5, EndsKeeps
<1> QED BY <1>3, <1>4, <1>5 DEF RemoveDirectory

LEMMA InitVolumeInv == VolumeInit => VolumeInv
<1> SUFFICES ASSUME VolumeInit PROVE VolumeInv
  OBVIOUS
<1>1. TypeOK
  <2>1. NoFiles \in Object
    BY DEF NoFiles, Object, Unlocked, Lock
  <2>2. Idle \in Proc
    BY DEF Idle, Proc
  <2>3. Unlocked \in Lock /\ 0 \in 0 .. MaxCrashes
    BY VolumeStoreAssumption DEF Unlocked, Lock
  <2> QED BY <2>1, <2>2, <2>3 DEF VolumeInit, TypeOK
<1>2. \A p \in Procs : Named1(p) /\ Locked(p) /\ Filling(p) /\ ~Publishing(p)
  BY DEF VolumeInit, Idle, Named1, Locked, Filling, Publishing, VolumeSteps, OpenSteps
<1>3. FlocksExclude /\ PublishedVolumesAreComplete
  BY VolumeStoreAssumption DEF VolumeInit, NoFiles, Unlocked, FlocksExclude,
    PublishedVolumesAreComplete
<1> QED BY <1>1, <1>2, <1>3 DEF VolumeInv, PublishersApart

LEMMA NextVolumeInv == VolumeInv /\ [VolumeNext]_volumeVars => VolumeInv'
<1> SUFFICES ASSUME VolumeInv, [VolumeNext]_volumeVars PROVE VolumeInv'
  OBVIOUS
<1>1. CASE UNCHANGED volumeVars
  BY <1>1 DEF volumeVars, VolumeInv, TypeOK, Named1, Locked, Filling, FlocksExclude,
    PublishersApart, PublishedVolumesAreComplete, Publishing
<1>2. ASSUME NEW p \in Procs, NewStore(p) \/ Begin(p) \/ LeaseCancelled(p) \/ Close(p)
      PROVE  VolumeInv'
  BY <1>2, NewStoreKeeps, BeginKeeps, OpenKeeps, CloseKeeps
<1>3. ASSUME NEW p \in Procs, Recover(p) PROVE VolumeInv'
  BY <1>3, RecoveryReads, CleanupOpens, CleanupLocks, CleanupKeeps DEF Recover
<1>4. ASSUME NEW p \in Procs, Open(p) PROVE VolumeInv'
  BY <1>4, OpenKeeps, LeaseKeeps DEF Open
<1>5. ASSUME NEW p \in Procs, Publish(p) \/ PopulateFails(p) PROVE VolumeInv'
  BY <1>5, PublishBeginsKeeps, CreateStageKeeps, EndsKeeps, LockStageKeeps, SeedKeeps,
    MetadataKeeps, RenameKeeps, PopulateFailsKeeps DEF Publish
<1>6. ASSUME NEW p \in Procs, Remove(p) \/ RemoveStops(p) PROVE VolumeInv'
  BY <1>6, RetainKeeps, RemoveEntryKeeps, RemoveDirectoryKeeps, EndsKeeps DEF Remove, RemoveStops
<1>7. ASSUME NEW p \in Procs, Crash(p) PROVE VolumeInv'
  BY <1>7, EndsKeeps
<1> QED BY <1>1, <1>2, <1>3, <1>4, <1>5, <1>6, <1>7 DEF VolumeNext, Works

\* Whatever the processes do, in whatever order and wherever they die: the
\* flocks that each relies on are its own (publishVolume, NewStore, RemoveVolumes).
THEOREM VolumeInvariant == VolumeSpec => []VolumeInv
<1>1. VolumeInit => VolumeInv
  BY InitVolumeInv
<1>2. VolumeInv /\ [VolumeNext]_volumeVars => VolumeInv'
  BY NextVolumeInv
<1> QED BY <1>1, <1>2, PTL DEF VolumeSpec

\* A volume that has its name is whole unless a removal has begun to take it,
\* and recovery removes no stage that is being filled (PublishDirectory,
\* CleanupTemporaryDirectories).
THEOREM VolumePublicationIsSafe == VolumeSpec => []PublicationIsSafe
<1>1. VolumeInv => PublicationIsSafe
  BY DEF VolumeInv, PublicationIsSafe, RecoverySparesPublishers, Filling
<1> QED BY <1>1, VolumeInvariant, PTL

----------------------------------------
(* OCI operations.                                                         *)

Kinds == {"progress", "output", "complete", "failed"}
Operation ==
  [data : Seq(Kinds), terminal : BOOLEAN,
   pc : {"queued", "backend", "prepare", "done", "ended"},
   mark : Nat, reports : Nat, truncated : BOOLEAN]
Follower ==
  [pc : {"idle", "create", "attach", "follow", "ended"}, op : Nat, offset : Nat,
   ctx : BOOLEAN, seq : Nat,
   outcome : {"none", "refused", "cancelled", "complete", "failed", "gap"}]

OciTypeOK ==
  /\ closing \in BOOLEAN
  /\ store \in {"none", "open", "closed"}
  /\ creating \in Followers \cup {"none"}
  /\ active \in Nat
  /\ ops \in Seq(Operation)
  /\ follower \in [Followers -> Follower]

\* Stream f follows an operation there is, and its client has the number of the
\* record before the next one; one stream creates an operation.
InStep(f) ==
  /\ follower[f].pc \in {"attach", "follow"} => follower[f].op \in 1 .. Len(ops)
  /\ follower[f].pc = "follow" => follower[f].offset = follower[f].seq
  /\ follower[f].pc = "create" <=> creating = f
  /\ follower[f].outcome # "gap"

\* Operation i is the active one until its worker is done, and prepares in a
\* store that is open.
AtWork(i) ==
  /\ ops[i].pc # "ended" => active = i
  /\ ops[i].pc = "prepare" => store = "open"

OciInv ==
  /\ OciTypeOK
  /\ \A f \in Followers : InStep(f)
  /\ \A i \in 1 .. Len(ops) : AtWork(i)
  /\ creating # "none" => active = 0
  /\ active <= Len(ops)

\* What appendLocked makes of an operation: a record more, or none.
LEMMA Recorded ==
  ASSUME NEW o \in Operation, NEW kind \in Kinds
  PROVE  Record(o, kind) \in Operation /\ Record(o, kind).pc = o.pc
<1>1. o.data \in Seq(Kinds) /\ Len(o.data) \in Nat
  BY DEF Operation
<1>2. Append(o.data, kind) \in Seq(Kinds)
  BY <1>1
<1>3. ASSUME NEW d \in Seq(Kinds), NEW t \in BOOLEAN, NEW m \in Nat
      PROVE  /\ [o EXCEPT !.data = d, !.terminal = t, !.mark = m] \in Operation
             /\ [o EXCEPT !.data = d, !.terminal = t, !.mark = m].pc = o.pc
  BY DEF Operation
<1>4. \A t \in BOOLEAN : /\ [o EXCEPT !.truncated = t] \in Operation
                         /\ [o EXCEPT !.truncated = t].pc = o.pc
  BY DEF Operation
<1> DEFINE final == kind \in {"complete", "failed"}
           mark == IF kind = "progress" THEN Len(o.data) + 1 ELSE o.mark
           cut == o.truncated \/ kind = "output"
<1>5. mark \in Nat /\ final \in BOOLEAN /\ cut \in BOOLEAN
  <2>1. o.mark \in Nat
    BY DEF Operation
  <2> QED BY <1>1, <2>1
<1>6. Record(o, kind) \in {o, [o EXCEPT !.truncated = cut],
          [o EXCEPT !.data = Append(o.data, kind), !.terminal = final, !.mark = mark]}
  BY DEF Record
<1> DEFINE r == [o EXCEPT !.data = Append(o.data, kind), !.terminal = final, !.mark = mark]
<1> HIDE DEF final, mark, cut
<1>7. r \in Operation /\ r.pc = o.pc
  BY ZenonT(60), <1>2, <1>3, <1>5
<1> HIDE DEF r
<1>8. Record(o, kind) \in {o, [o EXCEPT !.truncated = cut], r}
  BY <1>6 DEF r
<1> QED BY <1>4, <1>5, <1>7, <1>8

\* Operation i becomes o, which is no further from its end than it was.
LEMMA WorkerMove ==
  ASSUME OciInv, NEW i \in 1 .. Len(ops), NEW o \in Operation,
         ops' = [ops EXCEPT ![i] = o], UNCHANGED <<closing, creating, follower>>,
         store' \in {"none", "open", "closed"}, active' \in Nat,
         \/ ops[i].pc # "ended" /\ active' = active
         \/ o.pc = "ended" /\ active' = IF active = i THEN 0 ELSE active,
         o.pc = "prepare" => store' = "open",
         store = "open" => store' = "open"
  PROVE  OciInv'
<1>0. OciTypeOK
  BY DEF OciInv
<1>1. /\ ops' \in Seq(Operation) /\ Len(ops') = Len(ops)
      /\ \A j \in 1 .. Len(ops) : ops'[j] = IF j = i THEN o ELSE ops[j]
  BY <1>0, ExceptSeq DEF OciTypeOK
<1>2. OciTypeOK'
  BY <1>0, <1>1 DEF OciTypeOK
<1>3. \A f \in Followers : InStep(f)'
  BY <1>1 DEF OciInv, InStep
<1>4. \A j \in 1 .. Len(ops') : AtWork(j)'
  BY <1>1 DEF OciInv, AtWork
<1>5. /\ creating' # "none" => active' = 0
      /\ active' <= Len(ops')
  BY <1>0, <1>1 DEF OciInv, OciTypeOK
<1> QED BY <1>2, <1>3, <1>4, <1>5 DEF OciInv

\* The worker of an operation.
LEMMA WorkerKeeps ==
  ASSUME OciInv, NEW i \in 1 .. MaxOps, WorkerStep(i) \/ Report(i)
  PROVE  OciInv'
<1>0. /\ OciTypeOK /\ DOMAIN ops = 1 .. Len(ops) /\ active \in Nat
      /\ store \in {"none", "open", "closed"}
      /\ \A j \in 1 .. Len(ops) : AtWork(j) /\ ops[j] \in Operation
  BY DEF OciInv, OciTypeOK
<1>1. i \in 1 .. Len(ops)
  BY <1>0 DEF WorkerStep, TakePermit, OpenBackend, Prepared, ProducerDone, Report, OpAt
<1> DEFINE w == ops[i]
<1>2. w \in Operation /\ (w.pc = "prepare" => store = "open")
  BY <1>0, <1>1 DEF AtWork
<1>3. ASSUME NEW u \in Operation
      PROVE  /\ \A x \in {"queued", "backend", "prepare", "done", "ended"} :
                  [u EXCEPT !.pc = x] \in Operation /\ [u EXCEPT !.pc = x].pc = x
             /\ [u EXCEPT !.reports = @ + 1] \in Operation
             /\ [u EXCEPT !.reports = @ + 1].pc = u.pc
  BY DEF Operation
<1>4. /\ \A kind \in Kinds : Record(w, kind) \in Operation /\ Record(w, kind).pc = w.pc
      /\ Record(Record(w, "output"), "failed") \in Operation
  BY <1>2, Recorded DEF Kinds
<1>5. CASE TakePermit(i)
  <2>1. PICK o \in Operation : ops' = [ops EXCEPT ![i] = o] /\ o.pc # "prepare"
    <3>1. CASE ops' = [ops EXCEPT ![i].pc = "backend"]
      <4>1. ops' = [ops EXCEPT ![i] = [w EXCEPT !.pc = "backend"]]
        BY <3>1
      <4> HIDE DEF w
      <4> QED BY ZenonT(60), <1>2, <1>3, <4>1
    <3>2. CASE ops' = [ops EXCEPT ![i] = [Record(ops[i], "failed") EXCEPT !.pc = "done"]]
      <4> HIDE DEF w
      <4>1. Record(w, "failed") \in Operation
        BY <1>4 DEF Kinds
      <4> QED BY <1>3, <3>2, <4>1 DEF w
    <3> QED BY <1>5, <3>1, <3>2 DEF TakePermit
  <2>2. ops[i].pc # "ended" /\ UNCHANGED <<closing, store, creating, active, follower>>
    BY <1>5 DEF TakePermit, OpAt
  <2> QED BY <1>0, <1>1, <2>1, <2>2, WorkerMove
<1>6. CASE OpenBackend(i)
  <2>0. ops[i].pc # "ended" /\ UNCHANGED <<closing, creating, active, follower>>
    BY <1>6 DEF OpenBackend, OpAt
  <2>1. CASE store' = "open" /\ ops' = [ops EXCEPT ![i].pc = "prepare"]
    <3>1. ops' = [ops EXCEPT ![i] = [w EXCEPT !.pc = "prepare"]]
      BY <2>1
    <3>2. [w EXCEPT !.pc = "prepare"] \in Operation
      BY <1>2, <1>3
    <3> QED BY <1>0, <1>1, <2>0, <2>1, <3>1, <3>2, WorkerMove
  <2>2. CASE /\ ops' = [ops EXCEPT ![i] = [Record(ops[i], "failed") EXCEPT !.pc = "done"]]
             /\ UNCHANGED store
    <3> DEFINE o == [Record(ops[i], "failed") EXCEPT !.pc = "done"]
    <3>1. o \in Operation /\ o.pc = "done"
      BY <1>3, <1>4 DEF Kinds
    <3> HIDE DEF o
    <3>2. ops' = [ops EXCEPT ![i] = o]
      BY <2>2 DEF o
    <3> QED BY <1>0, <1>1, <2>0, <2>2, <3>1, <3>2, WorkerMove
  <2> QED BY <1>6, <2>1, <2>2 DEF OpenBackend
<1>7. CASE Report(i)
  <2>1. PICK kind \in {"progress", "output"} :
          ops' = [ops EXCEPT ![i] = [Record(ops[i], kind) EXCEPT !.reports = @ + 1]]
    BY <1>7 DEF Report
  <2> DEFINE o == [Record(ops[i], kind) EXCEPT !.reports = @ + 1]
  <2>2. o \in Operation /\ o.pc = "prepare"
    <3>1. Record(w, kind) \in Operation /\ Record(w, kind).pc = w.pc /\ w.pc = "prepare"
      BY <1>4, <1>7 DEF Kinds, Report, OpAt
    <3> QED BY <1>3, <3>1
  <2> HIDE DEF o
  <2>3. ops' = [ops EXCEPT ![i] = o]
    BY <2>1 DEF o
  <2>4. ops[i].pc = "prepare" /\ UNCHANGED <<closing, store, creating, active, follower>>
    BY <1>7 DEF Report, OpAt
  <2> QED BY <1>0, <1>1, <1>2, <2>2, <2>3, <2>4, WorkerMove
<1>8. CASE Prepared(i)
  <2>1. PICK o \in Operation : ops' = [ops EXCEPT ![i] = o] /\ o.pc # "prepare"
    <3>1. CASE ops' = [ops EXCEPT ![i] = [Record(ops[i], "complete") EXCEPT !.pc = "done"]]
      <4>1. Record(w, "complete") \in Operation
        BY <1>4 DEF Kinds
      <4> QED BY <1>3, <3>1, <4>1
    <3>2. CASE ops' = [ops EXCEPT ![i] =
                  [Record(Record(ops[i], "output"), "failed") EXCEPT !.pc = "done"]]
      BY <1>3, <1>4, <3>2
    <3> QED BY <1>8, <3>1, <3>2 DEF Prepared
  <2>2. ops[i].pc # "ended" /\ UNCHANGED <<closing, store, creating, active, follower>>
    BY <1>8 DEF Prepared, OpAt
  <2> QED BY <1>0, <1>1, <2>1, <2>2, WorkerMove
<1>9. CASE ProducerDone(i)
  <2>1. ops' = [ops EXCEPT ![i] = [w EXCEPT !.pc = "ended"]]
    BY <1>9 DEF ProducerDone
  <2>2. [w EXCEPT !.pc = "ended"] \in Operation /\ [w EXCEPT !.pc = "ended"].pc = "ended"
    BY <1>2, <1>3
  <2>3. /\ UNCHANGED <<closing, store, creating, follower>>
        /\ active' = IF active = i THEN 0 ELSE active
    BY <1>9 DEF ProducerDone
  <2> DEFINE o == [w EXCEPT !.pc = "ended"]
  <2> HIDE DEF o
  <2>4. ops' = [ops EXCEPT ![i] = o] /\ o \in Operation /\ o.pc = "ended"
    BY <2>1, <2>2 DEF o
  <2>5. active' \in Nat
    BY <1>0, <2>3
  <2> QED BY <1>0, <1>1, <2>3, <2>4, <2>5, WorkerMove
<1> QED BY <1>5, <1>6, <1>7, <1>8, <1>9 DEF WorkerStep

\* Stream f goes on as c.
FollowsOn(f, c) ==
  /\ c \in Follower /\ c.outcome # "gap"
  /\ c.pc \in {"attach", "follow"} => c.op \in 1 .. Len(ops)
  /\ c.pc = "follow" => c.offset = c.seq

LEMMA FollowerMove ==
  ASSUME OciInv, NEW f \in Followers, NEW c, FollowsOn(f, c),
         follower' = [follower EXCEPT ![f] = c],
         UNCHANGED <<closing, store, active, ops>>,
         \/ UNCHANGED creating /\ (c.pc = "create" <=> follower[f].pc = "create")
         \/ creating = "none" /\ active = 0 /\ creating' = f /\ c.pc = "create"
  PROVE  OciInv'
<1>1. /\ \A g \in Followers : follower'[g] = IF g = f THEN c ELSE follower[g]
      /\ follower' \in [Followers -> Follower] /\ OciTypeOK
  BY DEF OciInv, OciTypeOK, FollowsOn
<1>2. OciTypeOK'
  BY <1>1 DEF OciTypeOK
<1>3. ASSUME NEW g \in Followers PROVE InStep(g)'
  <2>1. InStep(g)
    BY DEF OciInv
  <2>2. CASE g = f
    BY <1>1, <2>1, <2>2 DEF InStep, FollowsOn
  <2>3. CASE g # f
    BY <1>1, <2>1, <2>3, OciAssumption DEF InStep
  <2> QED BY <2>2, <2>3
<1>4. \A i \in 1 .. Len(ops') : AtWork(i)'
  BY DEF OciInv, AtWork
<1> QED BY <1>2, <1>3, <1>4 DEF OciInv

\* The streams of clients, which come and go as they like.
LEMMA StreamKeeps ==
  ASSUME OciInv, NEW f \in Followers,
         Join(f) \/ Attach(f) \/ Deliver(f) \/ FollowEnds(f) \/ CancelFollow(f)
  PROVE  OciInv'
<1> DEFINE c == follower[f]
<1>0. /\ follower \in [Followers -> Follower] /\ c \in Follower /\ InStep(f) /\ active \in Nat
      /\ ops \in Seq(Operation) /\ \A i \in 1 .. Len(ops) : AtWork(i) /\ ops[i] \in Operation
  BY SMTT(40) DEF OciInv, OciTypeOK
<1>1. UNCHANGED <<closing, store, active, ops>>
  BY DEF Join, Attach, Deliver, FollowEnds, CancelFollow
<1>2. CASE Join(f)
  <2>1. CASE /\ follower' = [follower EXCEPT ![f].pc = "ended", ![f].outcome = "refused"]
             /\ UNCHANGED creating
    <3> DEFINE d == [c EXCEPT !.pc = "ended", !.outcome = "refused"]
    <3>1. follower' = [follower EXCEPT ![f] = d]
      BY <2>1
    <3>2. d \in Follower /\ d.pc = "ended" /\ d.outcome = "refused"
      BY <1>0 DEF Follower
    <3>3. c.pc = "idle"
      BY <1>2 DEF Join, FollowerAt
    <3> HIDE DEF d
    <3> QED BY <1>1, <2>1, <3>1, <3>2, <3>3, FollowerMove DEF FollowsOn
  <2>2. CASE /\ follower' = [follower EXCEPT ![f].pc = "attach", ![f].op = active]
             /\ UNCHANGED creating /\ active # 0
    <3> DEFINE d == [c EXCEPT !.pc = "attach", !.op = active]
    <3>1. follower' = [follower EXCEPT ![f] = d]
      BY <2>2
    <3>2. d \in Follower /\ d.pc = "attach" /\ d.outcome = c.outcome /\ d.op = active
      BY <1>0 DEF Follower
    <3>3. c.pc = "idle" /\ c.outcome # "gap"
      BY <1>0, <1>2 DEF Join, FollowerAt, InStep
    <3>4. active \in 1 .. Len(ops)
      BY <1>0, <2>2 DEF OciInv
    <3> HIDE DEF d
    <3> QED BY <1>1, <2>2, <3>1, <3>2, <3>3, <3>4, FollowerMove DEF FollowsOn
  <2>3. CASE /\ active = 0 /\ creating = "none" /\ creating' = f
             /\ follower' = [follower EXCEPT ![f].pc = "create"]
    <3> DEFINE d == [c EXCEPT !.pc = "create"]
    <3>1. follower' = [follower EXCEPT ![f] = d]
      BY <2>3
    <3>2. d \in Follower /\ d.pc = "create" /\ d.outcome = c.outcome
      BY <1>0 DEF Follower
    <3>3. c.outcome # "gap"
      BY <1>0 DEF InStep
    <3> HIDE DEF d
    <3> QED BY <1>1, <2>3, <3>1, <3>2, <3>3, FollowerMove DEF FollowsOn
  <2> QED BY <1>2, <2>1, <2>2, <2>3 DEF Join
<1>3. CASE Attach(f)
  <2> DEFINE mark == ops[c.op].mark
             d == [c EXCEPT !.pc = "follow", !.offset = mark, !.seq = mark]
  <2>1. follower' = [follower EXCEPT ![f] = d] /\ UNCHANGED creating
    BY <1>3 DEF Attach
  <2>2. c.pc = "attach" /\ c.op \in 1 .. Len(ops) /\ c.outcome # "gap"
    BY <1>0, <1>3 DEF Attach, FollowerAt, InStep
  <2>3. mark \in Nat
    BY <1>0, <2>2 DEF Operation
  <2> HIDE DEF mark
  <2>4. /\ d \in Follower /\ d.pc = "follow" /\ d.offset = mark /\ d.seq = mark
        /\ d.outcome = c.outcome /\ d.op = c.op
    BY <1>0, <2>3 DEF Follower
  <2> HIDE DEF d
  <2> QED BY <1>1, <2>1, <2>2, <2>4, FollowerMove DEF FollowsOn
<1>4. CASE Deliver(f)
  <2> DEFINE next == c.offset + 1
             record == ops[c.op].data[next]
             out == IF record \in {"complete", "failed"} THEN record ELSE c.outcome
             d == [c EXCEPT !.offset = next, !.seq = next, !.outcome = out, !.pc = "follow"]
  <2>1. /\ c.pc = "follow" /\ c.op \in 1 .. Len(ops) /\ c.outcome # "gap"
        /\ c.offset = c.seq /\ c.offset \in Nat /\ next # 0
    BY <1>0, <1>4 DEF Deliver, FollowerAt, InStep, Follower
  <2>2. follower' = [follower EXCEPT ![f] = d] /\ UNCHANGED creating
    BY <1>4, <2>1 DEF Deliver
  <2>3. out \in {"complete", "failed", c.outcome} /\ next \in Nat
    BY <2>1
  <2> HIDE DEF out, next
  <2>4. /\ d \in Follower /\ d.pc = "follow" /\ d.offset = next /\ d.seq = next
        /\ d.outcome = out /\ d.op = c.op
    BY <1>0, <2>3 DEF Follower
  <2> HIDE DEF d
  <2> QED BY <1>1, <2>1, <2>2, <2>3, <2>4, FollowerMove DEF FollowsOn
<1>5. CASE FollowEnds(f)
  <2>1. PICK out \in {"cancelled", c.outcome} :
          follower' = [follower EXCEPT ![f] = [c EXCEPT !.pc = "ended", !.outcome = out]]
    <3>1. CASE follower' = [follower EXCEPT ![f].pc = "ended"]
      <4>1. [c EXCEPT !.pc = "ended"] = [c EXCEPT !.pc = "ended", !.outcome = c.outcome]
        BY <1>0 DEF Follower
      <4> QED BY <3>1, <4>1
    <3>2. CASE follower' = [follower EXCEPT ![f].pc = "ended", ![f].outcome =
                              IF @ = "none" THEN "cancelled" ELSE @]
      <4> DEFINE out == IF c.outcome = "none" THEN "cancelled" ELSE c.outcome
      <4>1. follower' = [follower EXCEPT ![f] = [c EXCEPT !.pc = "ended", !.outcome = out]]
        BY <3>2
      <4>2. out \in {"cancelled", c.outcome}
        OBVIOUS
      <4> HIDE DEF out
      <4> QED BY <4>1, <4>2
    <3> QED BY <1>5, <3>1, <3>2 DEF FollowEnds
  <2> DEFINE d == [c EXCEPT !.pc = "ended", !.outcome = out]
  <2>2. c.pc = "follow" /\ c.outcome # "gap" /\ UNCHANGED creating
    BY <1>0, <1>5 DEF FollowEnds, FollowerAt, InStep
  <2>3. d \in Follower /\ d.pc = "ended" /\ d.outcome = out
    BY <1>0 DEF Follower
  <2> HIDE DEF d
  <2>4. follower' = [follower EXCEPT ![f] = d]
    BY <2>1 DEF d
  <2> QED BY <1>1, <2>2, <2>3, <2>4, FollowerMove DEF FollowsOn
<1>6. CASE CancelFollow(f)
  <2> DEFINE d == [c EXCEPT !.ctx = FALSE]
  <2>1. follower' = [follower EXCEPT ![f] = d] /\ UNCHANGED creating
    BY <1>6 DEF CancelFollow
  <2>2. /\ d \in Follower /\ d.pc = c.pc /\ d.outcome = c.outcome /\ d.op = c.op
        /\ d.offset = c.offset /\ d.seq = c.seq
    BY <1>0 DEF Follower
  <2> HIDE DEF d
  <2> QED BY <1>0, <1>1, <2>1, <2>2, FollowerMove DEF FollowsOn, InStep
<1> QED BY <1>2, <1>3, <1>4, <1>5, <1>6

\* The log was created: the operation is the only one that is not at its end.
LEMMA CreatedKeeps ==
  ASSUME OciInv, NEW f \in Followers, Created(f) PROVE OciInv'
<1> DEFINE c == follower[f]
<1>0. /\ OciTypeOK /\ c \in Follower /\ ops \in Seq(Operation) /\ Len(ops) \in Nat
      /\ c.pc = "create" /\ creating = f /\ active = 0 /\ c.outcome # "gap"
      /\ \A g \in Followers : InStep(g)
      /\ \A i \in 1 .. Len(ops) : AtWork(i)
      /\ UNCHANGED <<closing, store>> /\ creating' = "none"
  BY OciAssumption DEF OciInv, OciTypeOK, Created, FollowerAt, InStep
<1>1. PICK d \in Follower :
        /\ follower' = [follower EXCEPT ![f] = d]
        /\ d.outcome # "gap"
        /\ \/ d.pc = "ended" /\ UNCHANGED <<active, ops>>
           \/ /\ d.pc = "attach" /\ d.op = Len(ops) + 1 /\ active' = Len(ops) + 1
              /\ ops' = Append(ops, NewOperation)
  <2>1. CASE /\ follower' = [follower EXCEPT ![f].pc = "ended", ![f].outcome = "refused"]
             /\ UNCHANGED <<active, ops>>
    <3> DEFINE d == [c EXCEPT !.pc = "ended", !.outcome = "refused"]
    <3>1. follower' = [follower EXCEPT ![f] = d]
      BY <2>1
    <3>2. d \in Follower /\ d.pc = "ended" /\ d.outcome = "refused"
      BY <1>0 DEF Follower
    <3> HIDE DEF d
    <3> QED BY <2>1, <3>1, <3>2
  <2>2. CASE /\ follower' = [follower EXCEPT ![f].pc = "attach", ![f].op = Len(ops) + 1]
             /\ ops' = Append(ops, NewOperation) /\ active' = Len(ops) + 1
    <3> DEFINE d == [c EXCEPT !.pc = "attach", !.op = Len(ops) + 1]
    <3>1. follower' = [follower EXCEPT ![f] = d]
      BY <2>2
    <3>2. /\ d \in Follower /\ d.pc = "attach" /\ d.op = Len(ops) + 1
          /\ d.outcome = c.outcome
      <4>1. \A x \in Nat : /\ [c EXCEPT !.pc = "attach", !.op = x] \in Follower
                           /\ [c EXCEPT !.pc = "attach", !.op = x].pc = "attach"
                           /\ [c EXCEPT !.pc = "attach", !.op = x].op = x
                           /\ [c EXCEPT !.pc = "attach", !.op = x].outcome = c.outcome
        BY <1>0 DEF Follower
      <4>2. Len(ops) + 1 \in Nat
        BY <1>0
      <4> QED BY <4>1, <4>2
    <3> HIDE DEF d
    <3> QED BY <1>0, <2>2, <3>1, <3>2
  <2> QED BY <2>1, <2>2 DEF Created
<1>2. NewOperation \in Operation /\ NewOperation.pc = "queued"
  BY DEF NewOperation, Operation
<1>3. /\ \A g \in Followers : follower'[g] = IF g = f THEN d ELSE follower[g]
      /\ follower' \in [Followers -> Follower]
  BY <1>0, <1>1 DEF OciTypeOK
<1>4. CASE d.pc = "ended" /\ UNCHANGED <<active, ops>>
  <2>1. OciTypeOK'
    BY <1>0, <1>3, <1>4 DEF OciTypeOK
  <2>2. \A g \in Followers : InStep(g)'
    BY <1>0, <1>1, <1>3, <1>4, OciAssumption DEF InStep
  <2>3. \A i \in 1 .. Len(ops') : AtWork(i)'
    BY <1>0, <1>4 DEF AtWork
  <2>4. active' <= Len(ops')
    BY <1>0, <1>4 DEF OciInv
  <2> QED BY <1>0, <2>1, <2>2, <2>3, <2>4 DEF OciInv
<1>5. CASE /\ d.pc = "attach" /\ d.op = Len(ops) + 1 /\ active' = Len(ops) + 1
           /\ ops' = Append(ops, NewOperation)
  <2> HIDE DEF c
  <2>1. /\ ops' \in Seq(Operation) /\ Len(ops') = Len(ops) + 1
        /\ \A i \in 1 .. Len(ops) : ops'[i] = ops[i]
        /\ ops'[Len(ops) + 1] = NewOperation
    BY <1>0, <1>2, <1>5
  <2>2. OciTypeOK'
    BY <1>0, <1>3, <1>5, <2>1 DEF OciTypeOK
  <2>3. \A g \in Followers : InStep(g)'
    BY <1>0, <1>1, <1>3, <1>5, <2>1, OciAssumption DEF InStep
  <2>4. \A i \in 1 .. Len(ops') : AtWork(i)'
    <3>1. \A i \in 1 .. Len(ops) : ops[i].pc = "ended"
      BY <1>0 DEF AtWork
    <3>2. \A i \in 1 .. Len(ops') : i \in 1 .. Len(ops) \/ i = Len(ops) + 1
      BY <1>0, <2>1
    <3> QED BY <1>0, <1>2, <1>5, <2>1, <3>1, <3>2 DEF AtWork
  <2>5. active' <= Len(ops')
    BY <1>0, <1>5, <2>1
  <2> QED BY <1>0, <2>2, <2>3, <2>4, <2>5 DEF OciInv
<1> QED BY <1>1, <1>4, <1>5

LEMMA NextOciInv == OciInv /\ [OciNext]_ociVars => OciInv'
<1> SUFFICES ASSUME OciInv, [OciNext]_ociVars PROVE OciInv'
  OBVIOUS
<1>1. CASE UNCHANGED ociVars
  BY <1>1 DEF ociVars, OciInv, OciTypeOK, InStep, AtWork
<1>2. ASSUME NEW f \in Followers, Join(f) \/ FollowerStep(f) \/ CancelFollow(f) PROVE OciInv'
  BY <1>2, StreamKeeps, CreatedKeeps DEF FollowerStep
<1>3. ASSUME NEW i \in 1 .. MaxOps, WorkerStep(i) \/ Report(i) PROVE OciInv'
  BY <1>3, WorkerKeeps
<1>4. CASE ShutdownOci
  BY <1>4 DEF ShutdownOci, OciInv, OciTypeOK, InStep, AtWork
<1>5. CASE CloseStore
  <2>1. \A i \in 1 .. Len(ops) : ops[i].pc = "ended"
    BY <1>5 DEF CloseStore, OciInv, OciTypeOK
  <2> QED BY <1>5, <2>1 DEF CloseStore, OciInv, OciTypeOK, InStep, AtWork
<1> QED BY <1>1, <1>2, <1>3, <1>4, <1>5 DEF OciNext

\* Streams and workers of one resource, however many operations follow each
\* other and whenever the service shuts down (Prepare, Attach, Shutdown).
THEOREM OciInvariant == OciSpec => []OciInv
<1>1. OciInit => OciInv
  <2> SUFFICES ASSUME OciInit PROVE OciInv
    OBVIOUS
  <2>1. ops \in Seq(Operation) /\ Len(ops) = 0
    BY DEF OciInit
  <2>2. NoFollower \in Follower
    BY DEF NoFollower, Follower
  <2>3. OciTypeOK
    BY <2>1, <2>2 DEF OciInit, OciTypeOK
  <2>4. \A f \in Followers : InStep(f)
    BY OciAssumption DEF OciInit, InStep, NoFollower
  <2> QED BY <2>1, <2>3, <2>4 DEF OciInit, OciInv, AtWork
<1>2. OciInv /\ [OciNext]_ociVars => OciInv'
  BY NextOciInv
<1> QED BY <1>1, <1>2, PTL DEF OciSpec

\* One preparation of the resource runs at a time, in a store that is open, and
\* each of its callers reads every record of it once (operation, followOperation).
THEOREM OperationsShared == OciSpec => []OperationsAreShared
<1>1. OciInv => OperationsAreShared
  BY DEF OciInv, OciTypeOK, OperationsAreShared, FollowersReadEachRecordOnce,
    PreparationsAreCoalesced, InStep, AtWork
<1> QED BY <1>1, OciInvariant, PTL
=============================================================================
