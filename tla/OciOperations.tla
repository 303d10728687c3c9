--------------------------- MODULE OciOperations ----------------------------
(***************************************************************************)
(* OCI preparations of the agent (internal/oci/resourcehandler) and the    *)
(* clients that follow them (internal/oci/prepareclient).  Streams of one  *)
(* resource share the operation in progress; an operation appends numbered *)
(* records to a bounded log; a follower gets a snapshot of the progress    *)
(* and then every record after it, until the terminal one.  A client       *)
(* refuses a record whose number is not the next.                          *)
(***************************************************************************)
EXTENDS Naturals, Sequences, FiniteSets

CONSTANTS
    Followers,    \* streams, and the clients at their other end
    MaxLog,       \* records that fit in the log beside the terminal one
    MaxReports,   \* reports and outputs of one preparation
    MaxOps        \* operations of the resource, one after the other

ASSUME OciAssumption ==
  /\ "none" \notin Followers
  /\ MaxLog \in Nat /\ MaxReports \in Nat /\ MaxOps \in Nat \ {0}

VARIABLES
    closing,    \* Shutdown began; the lifetime context is cancelled
    store,      \* the image backend: none, open or closed
    creating,   \* the stream that creates the operation, or none
    active,     \* the operation in progress, 0 for none
    ops,        \* the operations so far
    follower    \* per stream: what it and its client are doing

ociVars == <<closing, store, creating, active, ops, follower>>

NoFollower == [pc |-> "idle", op |-> 0, offset |-> 0, ctx |-> TRUE,
               seq |-> 0, outcome |-> "none"]

\* newOperation: data is the log, mark the number of the last progress record,
\* after which a snapshot continues.  The file beside it is a copy that is
\* closed with the last user and that nobody here reads.
NewOperation == [data |-> <<>>, terminal |-> FALSE, pc |-> "queued",
                 mark |-> 0, reports |-> 0, truncated |-> FALSE]

OciInit ==
  /\ closing = FALSE
  /\ store = "none"
  /\ creating = "none"
  /\ active = 0
  /\ ops = <<>>
  /\ follower = [f \in Followers |-> NoFollower]

FollowerAt(f, pc) == follower[f].pc = pc

----------------------------------------
(* Open, operation and Follow                                              *)

\* operation: a service that shuts down refuses, a running operation is
\* joined, and otherwise one stream creates the log of a new one.
Join(f) ==
  /\ FollowerAt(f, "idle")
  /\ \/ /\ closing
        /\ follower' = [follower EXCEPT ![f].pc = "ended", ![f].outcome = "refused"]
        /\ UNCHANGED creating
     \/ /\ ~closing /\ active # 0
        /\ follower' = [follower EXCEPT ![f].pc = "attach", ![f].op = active]
        /\ UNCHANGED creating
     \/ /\ ~closing /\ active = 0 /\ creating = "none" /\ Len(ops) < MaxOps
        /\ creating' = f
        /\ follower' = [follower EXCEPT ![f].pc = "create"]
  /\ UNCHANGED <<closing, store, active, ops>>

\* The log was created, or could not be and the operation does without; a
\* Shutdown that came in between discards it.
Created(f) ==
  /\ FollowerAt(f, "create")
  /\ creating' = "none"
  /\ IF closing
     THEN /\ follower' = [follower EXCEPT ![f].pc = "ended", ![f].outcome = "refused"]
          /\ UNCHANGED <<active, ops>>
     ELSE /\ ops' = Append(ops, NewOperation)
          /\ active' = Len(ops) + 1
          /\ follower' = [follower EXCEPT ![f].pc = "attach", ![f].op = Len(ops) + 1]
  /\ UNCHANGED <<closing, store>>

\* Mutant: the snapshot resumes before the progress it shows.
AttachBehind(f) ==
  /\ FollowerAt(f, "attach")
  /\ LET mark == ops[follower[f].op].mark
     IN  follower' = [follower EXCEPT ![f].pc = "follow",
            ![f].offset = IF mark = 0 THEN 0 ELSE mark - 1, ![f].seq = mark]
  /\ UNCHANGED <<closing, store, creating, active, ops>>

\* attachment: accepted, and the last logged progress if there is one.
Attach(f) ==
  /\ FollowerAt(f, "attach")
  /\ LET mark == ops[follower[f].op].mark
     IN  follower' = [follower EXCEPT ![f].pc = "follow", ![f].offset = mark, ![f].seq = mark]
  /\ UNCHANGED <<closing, store, creating, active, ops>>

\* followOperation writes one record and the client checks its number.
Deliver(f) ==
  /\ FollowerAt(f, "follow")
  /\ LET op == ops[follower[f].op]
         next == follower[f].offset + 1
         number == next                       \* records are numbered from 1
     IN  /\ follower[f].offset < Len(op.data)
         /\ follower' = [follower EXCEPT ![f].offset = next, ![f].seq = number,
               ![f].outcome = IF number # follower[f].seq + 1 THEN "gap"
                              ELSE IF op.data[next] \in {"complete", "failed"} THEN op.data[next]
                              ELSE @,
               ![f].pc = IF number # follower[f].seq + 1 THEN "ended" ELSE "follow"]
  /\ UNCHANGED <<closing, store, creating, active, ops>>

\* The log was read to its end and is terminal, or the stream's context ends.
FollowEnds(f) ==
  /\ FollowerAt(f, "follow")
  /\ \/ /\ follower[f].offset = Len(ops[follower[f].op].data)
        /\ ops[follower[f].op].terminal
        /\ follower' = [follower EXCEPT ![f].pc = "ended"]
     \/ /\ ~follower[f].ctx
        /\ follower' = [follower EXCEPT ![f].pc = "ended", ![f].outcome =
              IF @ = "none" THEN "cancelled" ELSE @]
  /\ UNCHANGED <<closing, store, creating, active, ops>>

CancelFollow(f) ==
  /\ follower[f].ctx /\ follower[f].pc \in {"attach", "follow"}
  /\ follower' = [follower EXCEPT ![f].ctx = FALSE]
  /\ UNCHANGED <<closing, store, creating, active, ops>>

----------------------------------------
(* prepare: the worker of an operation                                     *)

\* Mutant: the terminal record is dropped like any other when the log is full.
RecordWithinLimit(op, kind) ==
  IF op.terminal THEN op
  ELSE IF Len(op.data) < MaxLog
  THEN [op EXCEPT !.data = Append(@, kind), !.terminal = kind \in {"complete", "failed"},
                  !.mark = IF kind = "progress" THEN Len(op.data) + 1 ELSE @]
  ELSE op

\* appendLocked: a terminal record always fits; any other only within the
\* limit, and a full log drops all further output.
Record(op, kind) ==
  LET final == kind \in {"complete", "failed"}
      fits == Len(op.data) < MaxLog
  IN  IF op.terminal THEN op
      ELSE IF final \/ fits
      THEN [op EXCEPT !.data = Append(@, kind), !.terminal = final,
                      !.mark = IF kind = "progress" THEN Len(op.data) + 1 ELSE @]
      ELSE [op EXCEPT !.truncated = @ \/ kind = "output"]

OpAt(i, pc) == i \in DOMAIN ops /\ ops[i].pc = pc

\* A permit is taken, or the service shuts down first.
TakePermit(i) ==
  /\ OpAt(i, "queued")
  /\ \/ ops' = [ops EXCEPT ![i].pc = "backend"]
     \/ closing /\ ops' = [ops EXCEPT ![i] = [Record(ops[i], "failed") EXCEPT !.pc = "done"]]
  /\ UNCHANGED <<closing, store, creating, active, follower>>

\* imageBackend: opened once, refused when the service shuts down.
OpenBackend(i) ==
  /\ OpAt(i, "backend")
  /\ \/ /\ store = "open" \/ (store = "none" /\ ~closing)
        /\ store' = "open"
        /\ ops' = [ops EXCEPT ![i].pc = "prepare"]
     \/ /\ store = "none"
        /\ ops' = [ops EXCEPT ![i] = [Record(ops[i], "failed") EXCEPT !.pc = "done"]]
        /\ UNCHANGED store
  /\ UNCHANGED <<closing, creating, active, follower>>

\* The store reports progress and output while it prepares.
Report(i) ==
  /\ OpAt(i, "prepare") /\ ops[i].reports < MaxReports
  /\ \E kind \in {"progress", "output"} :
      /\ ~(kind = "output" /\ ops[i].truncated)
      /\ ops' = [ops EXCEPT ![i] = [Record(ops[i], kind) EXCEPT !.reports = @ + 1]]
  /\ UNCHANGED <<closing, store, creating, active, follower>>

\* It succeeds and the lease is closed, or it fails, its message an output.
Prepared(i) ==
  /\ OpAt(i, "prepare")
  /\ \/ ops' = [ops EXCEPT ![i] = [Record(ops[i], "complete") EXCEPT !.pc = "done"]]
     \/ ops' = [ops EXCEPT ![i] = [Record(Record(ops[i], "output"), "failed") EXCEPT !.pc = "done"]]
  /\ UNCHANGED <<closing, store, creating, active, follower>>

\* The deferred end: the operation is no longer the active one.
ProducerDone(i) ==
  /\ OpAt(i, "done")
  /\ active' = IF active = i THEN 0 ELSE active
  /\ ops' = [ops EXCEPT ![i] = [@ EXCEPT !.pc = "ended"]]
  /\ UNCHANGED <<closing, store, creating, follower>>

\* Shutdown: no new operation, and the store is closed after the workers.
ShutdownOci ==
  /\ ~closing
  /\ closing' = TRUE
  /\ UNCHANGED <<store, creating, active, ops, follower>>

CloseStore ==
  /\ closing /\ store = "open"
  /\ \A i \in DOMAIN ops : ops[i].pc = "ended"
  /\ store' = "closed"
  /\ UNCHANGED <<closing, creating, active, ops, follower>>

FollowerStep(f) == Created(f) \/ Attach(f) \/ Deliver(f) \/ FollowEnds(f)
WorkerStep(i) == TakePermit(i) \/ OpenBackend(i) \/ Prepared(i) \/ ProducerDone(i)

OciNext ==
  \/ \E f \in Followers : Join(f) \/ FollowerStep(f) \/ CancelFollow(f)
  \/ \E i \in 1 .. MaxOps : WorkerStep(i) \/ Report(i)
  \/ ShutdownOci \/ CloseStore

OciSpec == OciInit /\ [][OciNext]_ociVars

\* Goroutines are scheduled; a preparation ends by itself or by its context.
OciFairness ==
  /\ \A f \in Followers : WF_ociVars(FollowerStep(f))
  /\ \A i \in 1 .. MaxOps : WF_ociVars(WorkerStep(i))

----------------------------------------
(* Properties                                                              *)

\* Whenever a client joins, the snapshot and the records after it have
\* consecutive numbers: it neither misses a record nor gets one twice, also
\* when the log is full or a later operation of the resource is running.
FollowersReadEachRecordOnce ==
  \A f \in Followers : follower[f].outcome # "gap"

\* At most one preparation of the resource runs at a time, and the store it
\* uses is not closed under it.
PreparationsAreCoalesced ==
  /\ \A i, j \in DOMAIN ops : {ops[i].pc, ops[j].pc} \subseteq {"backend", "prepare"} => i = j
  /\ \A i \in DOMAIN ops : ops[i].pc = "prepare" => store = "open"

\* The callers of a resource share one preparation and each of them sees the
\* whole of it (Prepare, Attach).
OperationsAreShared == FollowersReadEachRecordOnce /\ PreparationsAreCoalesced

\* A follower that is not cancelled learns how the preparation ended, however
\* full the log is and whenever the service shuts down.
FollowersLearnTheOutcome ==
  \A f \in Followers :
      FollowerAt(f, "attach") ~> (~follower[f].ctx \/ follower[f].outcome \in {"complete", "failed"})
=============================================================================
