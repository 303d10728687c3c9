---------------------------- MODULE ImageStore ------------------------------
(***************************************************************************)
(* The per-user image store (internal/oci): references are small files     *)
(* that name an object, an object is a directory with an unpacked root.    *)
(* Toby processes prepare images, lease them to sandboxes and remove them  *)
(* under one exclusive lock per reference and one shared or exclusive lock *)
(* per object.  Locks are advisory file locks: a crash releases them and   *)
(* keeps the files.  Registries, builders and archives only decide which   *)
(* object a reference resolves to.                                         *)
(***************************************************************************)
EXTENDS Naturals, FiniteSets

CONSTANTS
    ImageUsers,    \* processes that prepare and lease images
    Removers,      \* processes that remove images
    References,
    Objects,
    MaxCrashes     \* how many processes crash

NoImage == "none"

ASSUME ImageStoreAssumption ==
  /\ MaxCrashes \in Nat
  /\ IsFiniteSet(References)
  /\ ImageUsers \cap Removers = {}
  /\ NoImage \notin ImageUsers \cup Removers \cup References \cup Objects

Policies == {"ifMissing", "always", "never"}

VARIABLES
    refs,      \* the object each reference file names
    objects,   \* absent, complete, removing (being unlinked), scarred (an
               \* interrupted removal left a root that opens) or gutted (it
               \* left a directory that does not)
    refLock,   \* holder of each reference lock
    exclusive, \* holder of each object's exclusive lock
    shared,    \* holders of each object's shared lock
    user,      \* per user: the preparation in progress
    remover,   \* per remover: the removal in progress
    crashes

imageVars == <<refs, objects, refLock, exclusive, shared, user, remover, crashes>>

IdleUser == [pc |-> "idle", ref |-> NoImage, policy |-> "ifMissing", object |-> NoImage]

IdleRemover == [pc |-> "idle", kind |-> "reference", id |-> NoImage, force |-> FALSE,
                refs |-> {}, object |-> NoImage, busyOK |-> FALSE,
                locked |-> FALSE, left |-> 0]

ImageInit ==
  /\ refs = [r \in References |-> NoImage]
  /\ objects = [o \in Objects |-> "absent"]
  /\ refLock = [r \in References |-> NoImage]
  /\ exclusive = [o \in Objects |-> NoImage]
  /\ shared = [o \in Objects |-> {}]
  /\ user = [p \in ImageUsers |-> IdleUser]
  /\ remover = [p \in Removers |-> IdleRemover]
  /\ crashes = 0

\* safefs.Lock without waiting; lockContext retries it until its context ends.
CanLock(o) == exclusive[o] = NoImage /\ shared[o] = {}
CanShare(o) == exclusive[o] = NoImage

\* openObject: an object is found when its metadata and its root can be read.
Opens(o) == objects[o] \in {"complete", "scarred", "removing"}

UserAt(p, pc) == user[p].pc = pc
UserGoto(p, pc) == user' = [user EXCEPT ![p].pc = pc]

\* The deferred release of everything a preparation still holds.
Abandon(p) ==
  /\ user' = [user EXCEPT ![p] = IdleUser]
  /\ refLock' = [r \in References |-> IF refLock[r] = p THEN NoImage ELSE refLock[r]]
  /\ exclusive' = [o \in Objects |-> IF exclusive[o] = p THEN NoImage ELSE exclusive[o]]
  /\ shared' = [o \in Objects |-> shared[o] \ {p}]

----------------------------------------
(* Prepare                                                                 *)

\* The reference is locked for the whole preparation.
Prepare(p) ==
  /\ UserAt(p, "idle")
  /\ \E r \in References, policy \in Policies :
      /\ refLock[r] = NoImage
      /\ refLock' = [refLock EXCEPT ![r] = p]
      /\ user' = [user EXCEPT ![p] = [pc |-> IF policy = "always" THEN "materialize" ELSE "cached",
                                      ref |-> r, policy |-> policy, object |-> NoImage]]
  /\ UNCHANGED <<refs, objects, exclusive, shared, remover, crashes>>

\* openCached: the object the reference names is leased, if it is there ...
OpenCached(p) ==
  /\ UserAt(p, "cached")
  /\ LET o == refs[user[p].ref]
     IN  /\ o # NoImage /\ CanShare(o) /\ Opens(o)
         /\ shared' = [shared EXCEPT ![o] = @ \cup {p}]
         /\ user' = [user EXCEPT ![p].pc = "held", ![p].object = o]
         /\ refLock' = [refLock EXCEPT ![user[p].ref] = NoImage]
  /\ UNCHANGED <<refs, objects, exclusive, remover, crashes>>

\* ... and otherwise the policy decides.
CacheMissed(p) ==
  /\ UserAt(p, "cached")
  /\ LET o == refs[user[p].ref] IN o # NoImage => CanShare(o) /\ ~Opens(o)
  /\ IF user[p].policy = "never"
     THEN Abandon(p)
     ELSE UserGoto(p, "materialize") /\ UNCHANGED <<refLock, exclusive, shared>>
  /\ UNCHANGED <<refs, objects, remover, crashes>>

\* materializeAndPrepare: a pull, an archive or a build gives a layout in a
\* temporary directory, whose manifest names the object to lock.
Materialize(p) ==
  /\ UserAt(p, "materialize")
  /\ \E o \in Objects : user' = [user EXCEPT ![p].pc = "lock", ![p].object = o]
  /\ UNCHANGED <<refs, objects, refLock, exclusive, shared, remover, crashes>>

LockObject(p) ==
  /\ UserAt(p, "lock")
  /\ CanLock(user[p].object)
  /\ exclusive' = [exclusive EXCEPT ![user[p].object] = p]
  /\ UserGoto(p, IF Opens(user[p].object) THEN "reference" ELSE "publish")
  /\ UNCHANGED <<refs, objects, refLock, shared, remover, crashes>>

\* The root is extracted and the temporary directory renamed into place, which
\* fails on the directory an interrupted removal left.
PublishObject(p) ==
  /\ UserAt(p, "publish")
  /\ IF objects[user[p].object] = "absent"
     THEN /\ objects' = [objects EXCEPT ![user[p].object] = "complete"]
          /\ UserGoto(p, "reference")
          /\ UNCHANGED <<refLock, exclusive, shared>>
     ELSE Abandon(p) /\ UNCHANGED objects
  /\ UNCHANGED <<refs, remover, crashes>>

\* Mutant: the object's lock is released before the reference is published.
PublishReferenceUnlocked(p) ==
  \/ /\ UserAt(p, "reference") /\ exclusive[user[p].object] = p
     /\ exclusive' = [exclusive EXCEPT ![user[p].object] = NoImage]
     /\ UNCHANGED <<refs, objects, refLock, shared, user, remover, crashes>>
  \/ /\ UserAt(p, "reference") /\ exclusive[user[p].object] # p
     /\ refs' = [refs EXCEPT ![user[p].ref] = user[p].object]
     /\ UserGoto(p, "retain")
     /\ UNCHANGED <<objects, refLock, exclusive, shared, remover, crashes>>

\* The reference is published under both locks, then the object's goes.
PublishReference(p) ==
  /\ UserAt(p, "reference")
  /\ refs' = [refs EXCEPT ![user[p].ref] = user[p].object]
  /\ exclusive' = [exclusive EXCEPT ![user[p].object] = NoImage]
  /\ UserGoto(p, "retain")
  /\ UNCHANGED <<objects, refLock, shared, remover, crashes>>

\* retainPreparedObject: the lease that is returned is taken anew; an object
\* that is gone by then is an error.
RetainPrepared(p) ==
  /\ UserAt(p, "retain")
  /\ LET o == user[p].object
     IN  /\ CanShare(o)
         /\ IF Opens(o)
            THEN /\ shared' = [shared EXCEPT ![o] = @ \cup {p}]
                 /\ UserGoto(p, "held")
                 /\ refLock' = [refLock EXCEPT ![user[p].ref] = NoImage]
                 /\ UNCHANGED exclusive
            ELSE Abandon(p)
  /\ UNCHANGED <<refs, objects, remover, crashes>>

\* Any step may fail or its context end: what is held is released.
PrepareFails(p) ==
  /\ user[p].pc \in {"materialize", "lock", "publish", "reference", "retain"}
  /\ Abandon(p)
  /\ UNCHANGED <<refs, objects, remover, crashes>>

\* Prepared.Close: the sandbox is done with the image.
ReleaseImage(p) ==
  /\ UserAt(p, "held")
  /\ Abandon(p)
  /\ UNCHANGED <<refs, objects, remover, crashes>>

----------------------------------------
(* RemoveImages                                                            *)

Naming(o) == {r \in References : refs[r] = o}

RemoverEnds(p) ==
  /\ remover' = [remover EXCEPT ![p] = IdleRemover]
  /\ refLock' = [r \in References |-> IF refLock[r] = p THEN NoImage ELSE refLock[r]]
  /\ exclusive' = [o \in Objects |-> IF exclusive[o] = p THEN NoImage ELSE exclusive[o]]

\* The catalog is read and the selection resolved to the references to remove:
\* the one selected, or with force all that name the selected object.
RemoveImages(p) ==
  /\ remover[p].pc = "idle"
  /\ \E force \in BOOLEAN :
      \/ \E r \in References :
          /\ refs[r] # NoImage
          /\ remover' = [remover EXCEPT ![p] = [IdleRemover EXCEPT
                !.pc = "lock", !.id = r, !.force = force, !.refs = {r}]]
      \/ \E o \in Objects :
          /\ objects[o] # "absent"
          /\ remover' = [remover EXCEPT ![p] = [IdleRemover EXCEPT
                !.pc = "lock", !.kind = "object", !.id = o, !.force = force,
                !.refs = IF force THEN Naming(o) ELSE {}]]
  /\ UNCHANGED <<refs, objects, refLock, exclusive, shared, user, crashes>>

\* retainReferenceRemovals: all of the reference locks or none.
RetainReferences(p) ==
  /\ remover[p].pc = "lock"
  /\ IF \A r \in remover[p].refs : refLock[r] = NoImage
     THEN /\ refLock' = [r \in References |->
                            IF r \in remover[p].refs THEN p ELSE refLock[r]]
          /\ remover' = [remover EXCEPT ![p].pc = "candidates"]
          /\ UNCHANGED exclusive
     ELSE RemoverEnds(p)
  /\ UNCHANGED <<refs, objects, shared, user, crashes>>

\* The second catalog, read under those locks, gives the object to remove:
\* none when another reference names it, an error when the selection is gone
\* or an object that is still named is removed without force.
Candidates(p) ==
  /\ remover[p].pc = "candidates"
  /\ LET rm == remover[p]
         o == IF rm.kind = "object" THEN rm.id ELSE refs[rm.id]
         gone == IF rm.kind = "object" THEN objects[o] = "absent" ELSE o = NoImage
         named == rm.kind = "object" /\ Naming(o) # {}
         free == rm.kind = "object" \/ Naming(o) \subseteq rm.refs
     IN  IF gone \/ (named /\ ~rm.force)
         THEN RemoverEnds(p)
         ELSE /\ remover' = [remover EXCEPT ![p].pc = "object",
                    ![p].object = IF free THEN o ELSE NoImage,
                    ![p].busyOK = rm.force /\ (rm.kind = "object" => named)]
              /\ UNCHANGED <<refLock, exclusive>>
  /\ UNCHANGED <<refs, objects, shared, user, crashes>>

\* retainObjectRemovals: a busy object is an error, or with force left behind.
RetainObject(p) ==
  /\ remover[p].pc = "object"
  /\ LET o == remover[p].object
     IN  \/ /\ o # NoImage /\ CanLock(o)
            /\ exclusive' = [exclusive EXCEPT ![o] = p]
            /\ remover' = [remover EXCEPT ![p].pc = "count", ![p].locked = TRUE]
            /\ UNCHANGED refLock
         \/ /\ o # NoImage => ~CanLock(o) /\ remover[p].busyOK
            /\ remover' = [remover EXCEPT ![p].pc = "count"]
            /\ UNCHANGED <<refLock, exclusive>>
         \/ /\ o # NoImage /\ ~CanLock(o) /\ ~remover[p].busyOK
            /\ RemoverEnds(p)
  /\ UNCHANGED <<refs, objects, shared, user, crashes>>

\* referenceObjectCounts: the references that will remain, read only now.
CountReferences(p) ==
  /\ remover[p].pc = "count"
  /\ remover' = [remover EXCEPT ![p].pc = "unlink",
        ![p].left = IF remover[p].object = NoImage THEN 0
                    ELSE Cardinality(Naming(remover[p].object) \ remover[p].refs)]
  /\ UNCHANGED <<refs, objects, refLock, exclusive, shared, user, crashes>>

\* The reference files are unlinked one by one; a failure ends the removal.
UnlinkReference(p) ==
  /\ remover[p].pc = "unlink"
  /\ \E r \in remover[p].refs :
      /\ refs[r] # NoImage
      /\ refs' = [refs EXCEPT ![r] = NoImage]
  /\ UNCHANGED <<objects, refLock, exclusive, shared, user, remover, crashes>>

UnlinkFails(p) ==
  /\ remover[p].pc = "unlink"
  /\ RemoverEnds(p)
  /\ UNCHANGED <<refs, objects, shared, user, crashes>>

\* Then the object's tree, if it is locked and no reference remains.
RemoveObject(p) ==
  /\ remover[p].pc = "unlink"
  /\ \A r \in remover[p].refs : refs[r] = NoImage
  /\ IF remover[p].locked /\ remover[p].left = 0
     THEN /\ objects' = [objects EXCEPT ![remover[p].object] = "removing"]
          /\ remover' = [remover EXCEPT ![p].pc = "removing"]
          /\ UNCHANGED <<refLock, exclusive>>
     ELSE RemoverEnds(p) /\ UNCHANGED objects
  /\ UNCHANGED <<refs, shared, user, crashes>>

\* RemoveAll takes the tree away entry by entry, in no particular order: when
\* it fails, what is left may or may not still open as an object.
ObjectRemoved(p) ==
  /\ remover[p].pc = "removing"
  /\ \E left \in {"absent", "scarred", "gutted"} :
        objects' = [objects EXCEPT ![remover[p].object] = left]
  /\ RemoverEnds(p)
  /\ UNCHANGED <<refs, shared, user, crashes>>

\* A process crashes: its locks are released, its files stay.
CrashUser(p) ==
  /\ crashes < MaxCrashes /\ user[p].pc # "idle"
  /\ crashes' = crashes + 1
  /\ Abandon(p)
  /\ UNCHANGED <<refs, objects, remover>>

CrashRemover(p) ==
  /\ crashes < MaxCrashes /\ remover[p].pc # "idle"
  /\ crashes' = crashes + 1
  /\ IF remover[p].pc = "removing"
     THEN \E left \in {"scarred", "gutted"} :
             objects' = [objects EXCEPT ![remover[p].object] = left]
     ELSE UNCHANGED objects
  /\ RemoverEnds(p)
  /\ UNCHANGED <<refs, shared, user>>

ImageNext ==
  \/ \E p \in ImageUsers :
      \/ Prepare(p) \/ OpenCached(p) \/ CacheMissed(p) \/ Materialize(p)
      \/ LockObject(p) \/ PublishObject(p) \/ PublishReference(p)
      \/ RetainPrepared(p) \/ PrepareFails(p) \/ ReleaseImage(p) \/ CrashUser(p)
  \/ \E p \in Removers :
      \/ RemoveImages(p) \/ RetainReferences(p) \/ Candidates(p) \/ RetainObject(p)
      \/ CountReferences(p) \/ UnlinkReference(p) \/ UnlinkFails(p)
      \/ RemoveObject(p) \/ ObjectRemoved(p) \/ CrashRemover(p)

ImageSpec == ImageInit /\ [][ImageNext]_imageVars

----------------------------------------
(* Properties                                                              *)

\* An image that a sandbox holds is not removed under it, whoever removes its
\* references, and with whatever force.
HeldImagesStay ==
  \A p \in ImageUsers :
      user[p].pc = "held" => objects[user[p].object] \in {"complete", "scarred"}

\* Prepare gives the exclusive lock of the object back before it takes the
\* lease it returns; no removal that gets in between finds the object
\* unreferenced, so the object a preparation has published is always there.
PublishedObjectIsThere ==
  \A p \in ImageUsers :
      user[p].pc = "retain" => objects[user[p].object] \in {"complete", "scarred"}

\* A reference never names an object that was removed: removals take the
\* references first, count the rest under the object's lock, and a preparation
\* publishes its reference under that lock.
ReferencesResolve ==
  \A r \in References :
      refs[r] # NoImage => objects[refs[r]] \in {"complete", "scarred"}

\* No removal takes an object that a sandbox holds, a preparation is about to
\* return or a reference names (Prepare, RemoveImages).
ImagesAreSound == HeldImagesStay /\ PublishedObjectIsThere /\ ReferencesResolve
=============================================================================
