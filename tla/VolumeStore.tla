----------------------------- MODULE VolumeStore -----------------------------
(***************************************************************************)
(* The per-user volumes (internal/storage) that every toby process opens:  *)
(* first-use publication through a private stage, shared leases of running *)
(* launches, removal under an exclusive lease, and the recovery of stages  *)
(* that a process which died left behind.  The processes share nothing but *)
(* the directory `volumes` and the advisory flocks of its inodes, which    *)
(* the kernel drops when their holder dies.                                *)
(*                                                                         *)
(* A volume's object is a directory with metadata.json and _data.  It is   *)
(* modelled as an inode with the name it is linked under, so that a        *)
(* process may hold one that has lost its name.  I/O errors are modelled   *)
(* where they leave something behind: a failed seed and a removal that     *)
(* stops half way.                                                         *)
(***************************************************************************)
EXTENDS Naturals, FiniteSets

CONSTANTS
    Volumes,      \* canonical volume identities
    Procs,        \* toby processes; each performs one command at a time
    Objects,      \* inodes of volume objects, used again once nobody has them
    NoObject,     \* a process that has opened no object
    MaxCrashes    \* bound on the processes that die in the middle of a command

ASSUME VolumeStoreAssumption ==
  /\ NoObject \notin Objects
  /\ {"stage", "none"} \cap Volumes = {}
  /\ MaxCrashes \in Nat

VARIABLES
    object,    \* Objects -> the directory's name, contents and flocks
    parent,    \* flock of the directory `volumes`
    proc,      \* Procs -> what the process is doing
    crashes    \* processes that died so far

volumeVars == <<object, parent, proc, crashes>>

Lock == [sh : SUBSET Procs, ex : SUBSET Procs]
Unlocked == [sh |-> {}, ex |-> {}]

\* link is the name: a volume, a temporary name ("stage") or none.  Publication
\* fills metadata.json and _data; only a removal cuts them.
Object ==
  [link : Volumes \cup {"stage", "none"}, meta : {"none", "whole", "gone"},
   data : {"none", "partial", "whole", "cut", "gone"},
   stageLock : Lock, dataLock : Lock]
NoFiles ==
  [link |-> "none", meta |-> "none", data |-> "none",
   stageLock |-> Unlocked, dataLock |-> Unlocked]

Commands == {"launch", "create", "inspect", "remove"}

Proc ==
  [pc : {"idle", "recover", "scan", "sweep", "sweeplock", "sweepcheck", "ready",
         "open", "read", "lease", "holding", "publish", "stage", "locking",
         "seeding", "describing", "rename", "retain", "retaining", "remove",
         "removing"},
   cmd : Commands \cup {"none"}, vol : Volumes \cup {"none"},
   obj : Objects \cup {NoObject}, again : BOOLEAN, seen : SUBSET Objects,
   batch : SUBSET Volumes, todo : SUBSET Volumes]
Idle ==
  [pc |-> "idle", cmd |-> "none", vol |-> "none", obj |-> NoObject, again |-> FALSE,
   seen |-> {}, batch |-> {}, todo |-> {}]

TypeOK ==
  /\ object \in [Objects -> Object]
  /\ parent \in Lock
  /\ proc \in [Procs -> Proc]
  /\ crashes \in 0 .. MaxCrashes

VolumeInit ==
  /\ object = [i \in Objects |-> NoFiles]
  /\ parent = Unlocked
  /\ proc = [p \in Procs |-> Idle]
  /\ crashes = 0

----------------------------------------
(***************************************************************************)
(* Flocks, names and the ways a command goes on.                           *)
(***************************************************************************)
SharedFree(l) == l.ex = {}
ExclusiveFree(l) == l = Unlocked
Shared(l, p) == [l EXCEPT !.sh = @ \cup {p}]
Exclusive(l, p) == [l EXCEPT !.ex = @ \cup {p}]
Unlock(l, p) == [sh |-> l.sh \ {p}, ex |-> l.ex \ {p}]

Named(v) == {i \in Objects : object[i].link = v}
Stages == {i \in Objects : object[i].link = "stage"}

\* An inode without a name that no process has open is free again.
Unreferenced(i) ==
  /\ object[i].link = "none"
  /\ \A p \in Procs : i # proc[p].obj /\ i \notin proc[p].seen
  /\ object[i].stageLock = Unlocked
  /\ object[i].dataLock = Unlocked

Goes(p, pc) == proc' = [proc EXCEPT ![p].pc = pc]
Ends(p) == proc' = [proc EXCEPT ![p] = Idle]

\* Every flock of p is released: by the deferred closes, or by the kernel.
Freed(i, p) ==
  [object[i] EXCEPT !.stageLock = Unlock(@, p), !.dataLock = Unlock(@, p)]
AllFreed(p) == object' = [i \in Objects |-> Freed(i, p)]

\* RemoveAll of a stage, which no process can open as a volume.
Discarded(i, p) ==
  [Freed(i, p) EXCEPT !.link = "none", !.meta = "none", !.data = "none"]
----------------------------------------
(***************************************************************************)
(* NewStore, which every command begins with: stages whose publisher is    *)
(* gone are removed.  The directory's flock is taken without waiting, and  *)
(* held while its names are read.                                          *)
(***************************************************************************)
NewStore(p) ==
  /\ proc[p].pc = "idle"
  /\ \/ \E cmd \in Commands \ {"remove"}, v \in Volumes :
          proc' = [proc EXCEPT ![p].pc = "recover", ![p].cmd = cmd, ![p].vol = v]
     \/ proc' = [proc EXCEPT ![p].pc = "recover", ![p].cmd = "remove"]
  /\ UNCHANGED <<object, parent, crashes>>

LockRecoveryParent(p) ==
  /\ proc[p].pc = "recover"
  /\ \/ /\ ExclusiveFree(parent)
        /\ parent' = Exclusive(parent, p)
        /\ Goes(p, "scan")
     \/ /\ ~ExclusiveFree(parent)
        /\ Goes(p, "ready")
        /\ UNCHANGED parent
  /\ UNCHANGED <<object, crashes>>

TemporaryNames == Stages

ScanTemporaryNames(p) ==
  /\ proc[p].pc = "scan"
  /\ parent' = Unlock(parent, p)
  /\ proc' = [proc EXCEPT ![p].pc = "sweep", ![p].seen = TemporaryNames]
  /\ UNCHANGED <<object, crashes>>

Passes(p) ==
  proc' = [proc EXCEPT ![p].pc = "sweep", ![p].seen = @ \ {proc[p].obj},
                       ![p].obj = NoObject]

CleanupOpen(p) ==
  /\ proc[p].pc = "sweep"
  /\ \/ \E i \in proc[p].seen :
          proc' = IF object[i].link = "stage"
                  THEN [proc EXCEPT ![p].pc = "sweeplock", ![p].obj = i]
                  ELSE [proc EXCEPT ![p].seen = @ \ {i}]
     \/ /\ proc[p].seen = {}
        /\ Goes(p, "ready")
  /\ UNCHANGED <<object, parent, crashes>>

Sweepable(i) == ExclusiveFree(object[i].stageLock)

CleanupLock(p) ==
  /\ proc[p].pc = "sweeplock"
  /\ LET i == proc[p].obj IN
     \/ /\ Sweepable(i)
        /\ object' = [object EXCEPT ![i].stageLock = Exclusive(@, p)]
        /\ Goes(p, "sweepcheck")
     \/ /\ ~Sweepable(i)
        /\ Passes(p)
        /\ UNCHANGED object
  /\ UNCHANGED <<parent, crashes>>

\* The directory may have been published under its volume's name meanwhile.
CleanupTemporaryDirectory(p) ==
  /\ proc[p].pc = "sweepcheck"
  /\ LET i == proc[p].obj IN
     object' = [object EXCEPT ![i] =
                  IF @.link = "stage" THEN Discarded(i, p) ELSE Freed(i, p)]
  /\ Passes(p)
  /\ UNCHANGED <<parent, crashes>>
----------------------------------------
(***************************************************************************)
(* ResolveHome, resolveManaged, CreateVolume and inspectVolume open the    *)
(* volume by its name, validate it and take a shared lease of its _data.   *)
(***************************************************************************)
Begin(p) ==
  /\ proc[p].pc = "ready"
  /\ \/ /\ proc[p].cmd # "remove"
        /\ Goes(p, "open")
     \/ /\ proc[p].cmd = "remove"
        /\ \E batch \in SUBSET {v \in Volumes : Named(v) # {}} : batch # {} /\
             proc' = [proc EXCEPT ![p].pc = "retain", ![p].batch = batch,
                                  ![p].todo = batch]
     \/ /\ proc[p].cmd = "remove"
        /\ \A v \in Volumes : Named(v) = {}
        /\ Ends(p)
  /\ UNCHANGED <<object, parent, crashes>>

\* A volume that is missing is published, unless p has just done so.
OpenObject(p) ==
  /\ proc[p].pc = "open"
  /\ \/ \E i \in Named(proc[p].vol) :
          proc' = [proc EXCEPT ![p].pc = "read", ![p].obj = i]
     \/ /\ Named(proc[p].vol) = {}
        /\ IF proc[p].again \/ proc[p].cmd = "inspect" THEN Ends(p)
           ELSE Goes(p, "publish")
  /\ UNCHANGED <<object, parent, crashes>>

\* Metadata and _data are read through the opened object.
OpenData(p) ==
  /\ proc[p].pc = "read"
  /\ LET i == proc[p].obj
         valid == object[i].meta = "whole" /\ object[i].data # "gone" IN
     IF valid THEN Goes(p, "lease") ELSE Ends(p)
  /\ UNCHANGED <<object, parent, crashes>>

MayLease(l) == SharedFree(l)

\* openVolume tries again while a removal has the lease; inspectVolume, which
\* also ends CreateVolume, fails.
Inspects(p) == proc[p].cmd = "inspect" \/ (proc[p].cmd = "create" /\ proc[p].again)

LeaseData(p) ==
  /\ proc[p].pc = "lease"
  /\ LET i == proc[p].obj IN
     \/ /\ MayLease(object[i].dataLock)
        /\ object' = [object EXCEPT ![i].dataLock = Shared(@, p)]
        /\ Goes(p, "holding")
     \/ /\ ~MayLease(object[i].dataLock)
        /\ Inspects(p)
        /\ Ends(p)
        /\ UNCHANGED object
  /\ UNCHANGED <<parent, crashes>>

LeaseCancelled(p) ==
  /\ proc[p].pc = "lease"
  /\ ~Inspects(p)
  /\ ~MayLease(object[proc[p].obj].dataLock)
  /\ Ends(p)
  /\ UNCHANGED <<object, parent, crashes>>

Close(p) ==
  /\ proc[p].pc = "holding"
  /\ AllFreed(p)
  /\ IF proc[p].cmd = "create" /\ ~proc[p].again
     THEN proc' = [proc EXCEPT ![p].pc = "open", ![p].obj = NoObject, ![p].again = TRUE]
     ELSE Ends(p)
  /\ UNCHANGED <<parent, crashes>>
----------------------------------------
(***************************************************************************)
(* PublishDirectory: the directory's flock is shared from before the stage *)
(* has a name until the stage has a flock of its own, which lasts until    *)
(* the publication has returned.                                           *)
(***************************************************************************)
PublishBegins(p) ==
  /\ proc[p].pc = "publish"
  /\ SharedFree(parent)
  /\ parent' = Shared(parent, p)
  /\ Goes(p, "stage")
  /\ UNCHANGED <<object, crashes>>

\* Mutant: the parent is given up before the stage is locked.
CreateStageReleasing(p) ==
  /\ proc[p].pc = "stage"
  /\ parent' = Unlock(parent, p)
  /\ \E i \in {i \in Objects : Unreferenced(i)} :
       /\ object' = [object EXCEPT ![i] = [NoFiles EXCEPT !.link = "stage"]]
       /\ proc' = [proc EXCEPT ![p].pc = "locking", ![p].obj = i]
  /\ UNCHANGED crashes

CreateStage(p) ==
  /\ proc[p].pc = "stage"
  /\ \E i \in {i \in Objects : Unreferenced(i)} :
       /\ object' = [object EXCEPT ![i] = [NoFiles EXCEPT !.link = "stage"]]
       /\ proc' = [proc EXCEPT ![p].pc = "locking", ![p].obj = i]
  /\ UNCHANGED <<parent, crashes>>

\* No directory can be created.
StageFails(p) ==
  /\ proc[p].pc = "stage"
  /\ \A i \in Objects : ~Unreferenced(i)
  /\ parent' = Unlock(parent, p)
  /\ Ends(p)
  /\ UNCHANGED <<object, crashes>>

LockStage(p) ==
  /\ proc[p].pc = "locking"
  /\ LET i == proc[p].obj IN
     /\ SharedFree(object[i].stageLock)
     /\ object' = [object EXCEPT ![i].stageLock = Shared(@, p), ![i].data = "partial"]
  /\ parent' = Unlock(parent, p)
  /\ Goes(p, "seeding")
  /\ UNCHANGED crashes

SeedDirectory(p) ==
  /\ proc[p].pc = "seeding"
  /\ object' = [object EXCEPT ![proc[p].obj].data = "whole"]
  /\ Goes(p, "describing")
  /\ UNCHANGED <<parent, crashes>>

\* The seed exceeds a limit, its source is unsupported, or the launch was
\* cancelled: the stage is removed.
PopulateFails(p) ==
  /\ proc[p].pc \in {"seeding", "describing", "rename"}
  /\ object' = [object EXCEPT ![proc[p].obj] = Discarded(proc[p].obj, p)]
  /\ Ends(p)
  /\ UNCHANGED <<parent, crashes>>

PublishMetadata(p) ==
  /\ proc[p].pc = "describing"
  /\ object' = [object EXCEPT ![proc[p].obj].meta = "whole"]
  /\ Goes(p, "rename")
  /\ UNCHANGED <<parent, crashes>>

\* Without replacement: a publisher that lost opens the winner's volume.
Publishes(v) == Named(v) = {}

RenameNoReplace(p) ==
  /\ proc[p].pc = "rename"
  /\ LET i == proc[p].obj IN
     object' = [object EXCEPT ![i] =
                  IF Publishes(proc[p].vol)
                  THEN [Freed(i, p) EXCEPT !.link = proc[p].vol]
                  ELSE Discarded(i, p)]
  /\ proc' = [proc EXCEPT ![p].pc = "open", ![p].obj = NoObject, ![p].again = TRUE]
  /\ UNCHANGED <<parent, crashes>>
----------------------------------------
(***************************************************************************)
(* RemoveVolumes: every selected volume is opened and leased exclusively,  *)
(* without waiting, before the first is removed.                           *)
(***************************************************************************)
RemovalReturns(p) == AllFreed(p) /\ Ends(p)

RetainObject(p) ==
  /\ proc[p].pc = "retain"
  /\ \/ \E v \in proc[p].todo :
          \/ \E i \in Named(v) :
               /\ proc' = [proc EXCEPT ![p].pc = "retaining", ![p].obj = i,
                                       ![p].todo = @ \ {v}]
               /\ UNCHANGED object
          \/ /\ Named(v) = {}
             /\ RemovalReturns(p)
     \/ /\ proc[p].todo = {}
        /\ proc' = [proc EXCEPT ![p].pc = "remove", ![p].todo = proc[p].batch,
                                ![p].obj = NoObject]
        /\ UNCHANGED object
  /\ UNCHANGED <<parent, crashes>>

\* A volume without _data has nothing to lease; one in use is refused.
RetainData(p) ==
  /\ proc[p].pc = "retaining"
  /\ LET i == proc[p].obj IN
     \/ /\ object[i].data = "gone"
        /\ Goes(p, "retain")
        /\ UNCHANGED object
     \/ /\ object[i].data # "gone"
        /\ ExclusiveFree(object[i].dataLock)
        /\ object' = [object EXCEPT ![i].dataLock = Exclusive(@, p)]
        /\ Goes(p, "retain")
     \/ /\ object[i].data # "gone"
        /\ ~ExclusiveFree(object[i].dataLock)
        /\ RemovalReturns(p)
  /\ UNCHANGED <<parent, crashes>>

\* The directory is removed by its name, which another may have taken.
RemoveOpen(p) ==
  /\ proc[p].pc = "remove"
  /\ \/ \E v \in proc[p].todo :
          /\ proc' = IF Named(v) = {}
                     THEN [proc EXCEPT ![p].todo = @ \ {v}]
                     ELSE [proc EXCEPT ![p].pc = "removing", ![p].vol = v,
                             ![p].obj = CHOOSE i \in Named(v) : TRUE]
          /\ UNCHANGED object
     \/ /\ proc[p].todo = {}
        /\ RemovalReturns(p)
  /\ UNCHANGED <<parent, crashes>>

\* Its entries go in the order the directory lists them, _data step by step.
RemoveEntry(p) ==
  /\ proc[p].pc = "removing"
  /\ LET i == proc[p].obj IN
     /\ object[i].link = proc[p].vol
     /\ \/ /\ object[i].meta = "whole"
           /\ object' = [object EXCEPT ![i].meta = "gone"]
        \/ /\ object[i].data # "gone"
           /\ object' = [object EXCEPT ![i].data = IF @ = "whole" THEN "cut" ELSE "gone"]
  /\ UNCHANGED <<parent, proc, crashes>>

NextVolume(p) ==
  proc' = [proc EXCEPT ![p].pc = "remove", ![p].todo = @ \ {proc[p].vol},
                       ![p].obj = NoObject]

RemoveDirectory(p) ==
  /\ proc[p].pc = "removing"
  /\ LET i == proc[p].obj IN
     \/ /\ object[i].link = proc[p].vol
        /\ object[i].meta = "gone" /\ object[i].data = "gone"
        /\ object' = [object EXCEPT ![i].link = "none"]
        /\ NextVolume(p)
     \* Another removal was faster; the name may have been taken again.
     \/ /\ object[i].link # proc[p].vol
        /\ \/ /\ Named(proc[p].vol) = {}
              /\ NextVolume(p)
              /\ UNCHANGED object
           \/ /\ Named(proc[p].vol) # {}
              /\ RemovalReturns(p)
  /\ UNCHANGED <<parent, crashes>>

\* The removal meets an error, or its context ends between two volumes.
RemoveStops(p) ==
  /\ proc[p].pc \in {"remove", "removing"}
  /\ RemovalReturns(p)
  /\ UNCHANGED <<parent, crashes>>
----------------------------------------
(***************************************************************************)
(* A process that dies leaves its files behind and none of its flocks.     *)
(***************************************************************************)
Crash(p) ==
  /\ proc[p].pc # "idle"
  /\ crashes < MaxCrashes
  /\ crashes' = crashes + 1
  /\ parent' = Unlock(parent, p)
  /\ AllFreed(p)
  /\ Ends(p)

Recover(p) ==
  \/ LockRecoveryParent(p) \/ ScanTemporaryNames(p)
  \/ CleanupOpen(p) \/ CleanupLock(p) \/ CleanupTemporaryDirectory(p)

Open(p) == OpenObject(p) \/ OpenData(p) \/ LeaseData(p)

Publish(p) ==
  \/ PublishBegins(p) \/ CreateStage(p) \/ StageFails(p) \/ LockStage(p)
  \/ SeedDirectory(p) \/ PublishMetadata(p) \/ RenameNoReplace(p)

Remove(p) ==
  \/ RetainObject(p) \/ RetainData(p) \/ RemoveOpen(p)
  \/ RemoveEntry(p) \/ RemoveDirectory(p)

\* What a process does without anyone's help; a launch ends when its user does.
Works(p) == Recover(p) \/ Begin(p) \/ Open(p) \/ Publish(p) \/ Remove(p)

VolumeNext ==
  \E p \in Procs :
      \/ NewStore(p)
      \/ Works(p)
      \/ LeaseCancelled(p) \/ Close(p) \/ PopulateFails(p) \/ RemoveStops(p)
      \/ Crash(p)

VolumeSpec == VolumeInit /\ [][VolumeNext]_volumeVars

----------------------------------------
(***************************************************************************)
(* Properties.                                                             *)
(***************************************************************************)

\* A volume that can be opened by its name has had its metadata and its whole
\* seed, whoever failed, lost a race or died while publishing it; only a removal
\* takes them away (publishVolume, PublishDirectory).
PublishedVolumesAreComplete ==
  \A i \in Objects : object[i].link \in Volumes =>
      /\ object[i].meta \in {"whole", "gone"}
      /\ object[i].data \in {"whole", "cut", "gone"}

Publishing(p) == proc[p].pc \in {"locking", "seeding", "describing", "rename"}

\* Recovery never removes the stage of a publisher that is still at work: the
\* flocks of the directory and of the stage overlap (CleanupTemporaryDirectories,
\* PublishDirectory).
RecoverySparesPublishers ==
  \A p \in Procs : Publishing(p) => object[proc[p].obj].link = "stage"

\* Creating, seeding and recovering stores next to each other neither loses a
\* stage that is being filled nor shows one that is not (NewStore, publishVolume).
PublicationIsSafe == PublishedVolumesAreComplete /\ RecoverySparesPublishers

\* A volume with an active lease is refused rather than unlinked: no step takes
\* anything from a whole volume while a launch has its lease (RemoveVolumes).
Leased(i) == \E p \in Procs : proc[p].pc = "holding" /\ proc[p].obj = i
Whole(o) == o.link \in Volumes /\ o.meta = "whole" /\ o.data = "whole"

LeasedVolumesStay ==
  [][\A i \in Objects : Leased(i) /\ Whole(object[i]) => Whole(object'[i])]_volumeVars
=============================================================================
