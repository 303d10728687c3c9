---------------------------- MODULE CaddyProcess ----------------------------
(***************************************************************************)
(* The Caddy process behind the models gateway                             *)
(* (internal/providergateway/caddy): the pool that opens the runtime once, *)
(* the factory that starts the process in its run directories, and the     *)
(* instance whose loads, dials, stop and exit share those directories.     *)
(* The registry's worker that stops an instance is agent/resource/stop.go. *)
(***************************************************************************)
EXTENDS Naturals, Sequences

CONSTANT Dialers        \* connections that dial the data socket

VARIABLES pool,    \* the runtime, what it holds open, its flight and the shutdown
          start,   \* factory.Start
          inst,    \* the process, its directories and the instance's wait
          stop,    \* the registry's stop worker, inside Instance.Stop or Kill
          load,    \* the gateway's Load
          dial     \* Dialers -> DialData

caddyVars == <<pool, start, inst, stop, load, dial>>

\* openRuntime opens them in this order and closes them in the reverse one.
Parts == <<"executor", "images", "storage", "image", "auth">>

NewPool == [runtime |-> FALSE, held |-> 0, flight |-> FALSE, closing |-> FALSE, shutdown |-> "no"]
NoInstance == [proc |-> "none", dirs |-> "none", wait |-> "none", gaveUp |-> FALSE]

CaddyInit ==
  /\ pool = NewPool
  /\ start = "none"
  /\ inst = NoInstance
  /\ stop = "none" /\ load = "none"
  /\ dial = [d \in Dialers |-> "none"]

InstanceDone == inst.wait = "done"
Readers == {d \in Dialers : dial[d] = "dialing"}

----------------------------------------
(* The pool: Acquire, openRuntime.                                         *)

OpenRuntime ==
  /\ ~pool.runtime /\ ~pool.flight /\ ~pool.closing
  /\ pool' = [pool EXCEPT !.flight = TRUE, !.held = 0]
  /\ UNCHANGED <<start, inst, stop, load, dial>>

\* The next part opens; the first that does not closes the ones before it.
\* A finished runtime is kept although the pool is closing, for the shutdown
\* that waits for this flight.
OpenPart ==
  /\ pool.flight
  /\ \/ pool.held < Len(Parts) /\ pool' = [pool EXCEPT !.held = @ + 1]
     \/ pool.held < Len(Parts) /\ pool' = [pool EXCEPT !.held = 0, !.flight = FALSE]
     \/ pool.held = Len(Parts) /\ pool' = [pool EXCEPT !.runtime = TRUE, !.flight = FALSE]
  /\ UNCHANGED <<start, inst, stop, load, dial>>

----------------------------------------
(* factory.Start, called by the registry's start worker.                   *)

CreateDirectories ==
  /\ start = "none" /\ pool.runtime /\ ~pool.closing
  /\ \/ start' = "assembling" /\ inst' = [inst EXCEPT !.dirs = "open"]
     \/ start' = "failed" /\ UNCHANGED inst
  /\ UNCHANGED <<pool, stop, load, dial>>

\* hostconfig, the capabilities, the invocation and the bootstrap file; then
\* StartBackground.  Until an instance owns them a failure closes the
\* directories.
Launch ==
  /\ start = "assembling"
  /\ \/ start' = "launched" /\ inst' = [inst EXCEPT !.proc = "running"]
     \/ start' = "failed" /\ inst' = [inst EXCEPT !.dirs = "closed"]
  /\ UNCHANGED <<pool, stop, load, dial>>

\* newInstance takes the directories over and starts its wait.  If it fails
\* the process is killed for a second and the directories are closed anyhow.
NewInstance ==
  /\ start = "launched"
  /\ \/ start' = "probing" /\ inst' = [inst EXCEPT !.wait = "waiting"]
     \/ /\ start' = "failed"
        /\ \/ inst' = [inst EXCEPT !.proc = "exited", !.dirs = "closed"]
           \/ inst.proc = "running" /\ inst' = [inst EXCEPT !.gaveUp = TRUE, !.dirs = "closed"]
  /\ UNCHANGED <<pool, stop, load, dial>>

\* waitReady polls the socket and the administration interface until the
\* probe succeeds, the readiness limit passes or the process is gone.
WaitReady ==
  /\ start = "probing"
  /\ \/ inst.proc = "running" /\ start' = "ready"
     \/ start' = "unready"
  /\ UNCHANGED <<pool, inst, stop, load, dial>>

----------------------------------------
(* The instance.                                                           *)

ProcessExits ==
  /\ inst.proc = "running"
  /\ inst' = [inst EXCEPT !.proc = "exited"]
  /\ UNCHANGED <<pool, start, stop, load, dial>>

\* wait: the administration client is closed, the lock asked for, which keeps
\* new readers out, and with it the runtime and the directories closed.
InstanceWait ==
  /\ \/ inst.wait = "waiting" /\ inst.proc = "exited" /\ inst' = [inst EXCEPT !.wait = "closing"]
     \/ inst.wait = "closing" /\ inst' = [inst EXCEPT !.wait = "locking"]
     \/ /\ inst.wait = "locking" /\ Readers = {} /\ load # "verifying"
        /\ inst' = [inst EXCEPT !.wait = "done", !.dirs = "closed"]
  /\ UNCHANGED <<pool, start, stop, load, dial>>

DialData(d) ==
  /\ dial[d] = "none" /\ start = "ready" /\ ~InstanceDone
  /\ dial' = [dial EXCEPT ![d] = "locking"]
  /\ UNCHANGED <<pool, start, inst, stop, load>>

\* The read lock, then the descriptor that may be gone by then, then the dial,
\* which its context bounds.
DialStep(d) ==
  /\ \/ /\ dial[d] = "locking" /\ inst.wait # "locking"
        /\ dial' = [dial EXCEPT ![d] = IF InstanceDone THEN "failed" ELSE "dialing"]
     \/ dial[d] = "dialing" /\ dial' = [dial EXCEPT ![d] = "ended"]
  /\ UNCHANGED <<pool, start, inst, stop, load>>

LoadBegins ==
  /\ load = "none" /\ start = "ready"
  /\ load' = "locking"
  /\ UNCHANGED <<pool, start, inst, stop, dial>>

\* The operations mutex is taken.
Operating == load \in {"requesting", "locked", "verifying"} \/ stop \in {"asking", "signalling", "waiting"}

\* The request to load is answered, refused, too large or late.
LoadRequest == load = "requesting" /\ load' \in {"locked", "failed"}

\* Load under the operations mutex: the request, which its timeout bounds, and
\* the check of both sockets.
LoadStep ==
  /\ \/ load = "locking" /\ ~Operating /\ load' = IF InstanceDone THEN "failed" ELSE "requesting"
     \/ LoadRequest
     \/ load = "locked" /\ inst.wait # "locking" /\ load' = IF InstanceDone THEN "failed" ELSE "verifying"
     \/ load = "verifying" /\ load' \in {"loaded", "failed"}
  /\ UNCHANGED <<pool, start, inst, stop, dial>>

----------------------------------------
(* The registry's stopInstance over Stop and Kill.                         *)

\* It stops an instance that did not become ready, that is idle, or that is
\* left when the pool shuts down.
StopBegins ==
  /\ stop = "none" /\ (start = "unready" \/ start = "ready")
  /\ stop' = IF InstanceDone THEN "reaped" ELSE "locking"
  /\ UNCHANGED <<pool, start, inst, load, dial>>

\* The request to stop: the process may exit although the answer is lost.
StopRequest ==
  /\ stop = "asking"
  /\ \/ InstanceDone /\ stop' = "reaped" /\ UNCHANGED inst
     \/ inst.proc = "running" /\ inst' = [inst EXCEPT !.proc = "exited"] /\ stop' = "waiting"
     \/ stop' \in {"waiting", "signalling"} /\ UNCHANGED inst

\* Stop asks over the administration interface and signals the process when
\* that fails; it returns with the process gone or the grace period over.
StopStep ==
  /\ \/ stop = "locking" /\ ~Operating /\ stop' = "asking" /\ UNCHANGED inst
     \/ StopRequest
     \/ /\ stop = "signalling"
        /\ \/ inst.proc = "running" /\ inst' = [inst EXCEPT !.proc = "exited"]
           \/ UNCHANGED inst
        /\ stop' = "waiting"
     \/ stop = "waiting" /\ InstanceDone /\ stop' = "reaped" /\ UNCHANGED inst
     \/ stop = "killing" /\ InstanceDone /\ stop' = "reaped" /\ UNCHANGED inst
  /\ UNCHANGED <<pool, start, load, dial>>

\* The grace period is over: Kill, which does not wait for the operations.
InstanceKill ==
  /\ stop = "waiting" /\ ~InstanceDone
  /\ stop' = "killing"
  /\ inst' = [inst EXCEPT !.proc = "exited"]
  /\ UNCHANGED <<pool, start, load, dial>>

----------------------------------------
(* Pool.Shutdown.                                                          *)

PoolShutdown ==
  /\ pool.shutdown = "no"
  /\ pool' = [pool EXCEPT !.closing = TRUE, !.shutdown = "joining"]
  /\ UNCHANGED <<start, inst, stop, load, dial>>

\* Mutant: the shutdown does not wait for the runtime that is being opened.
FinishEarly ==
  /\ pool.shutdown = "joining"
  /\ pool' = [pool EXCEPT !.runtime = FALSE, !.held = IF pool.runtime THEN 0 ELSE @, !.shutdown = "done"]
  /\ UNCHANGED <<start, inst, stop, load, dial>>

\* finishShutdown joins the flight; nativeRuntime.Close shuts the registry
\* down, which joins its workers, and closes the parts.
FinishShutdown ==
  /\ pool.shutdown = "joining" /\ ~pool.flight
  /\ start \in {"none", "failed"} \/ stop = "reaped"
  /\ pool' = [pool EXCEPT !.runtime = FALSE, !.held = 0, !.shutdown = "done"]
  /\ UNCHANGED <<start, inst, stop, load, dial>>

----------------------------------------
StartStep == Launch \/ NewInstance \/ WaitReady
StopFair == StopBegins /\ (start = "unready" \/ pool.closing)

CaddyNext ==
  \/ OpenRuntime \/ OpenPart \/ CreateDirectories \/ StartStep \/ ProcessExits \/ InstanceWait
  \/ LoadBegins \/ LoadStep \/ StopBegins \/ StopStep \/ InstanceKill \/ PoolShutdown \/ FinishShutdown
  \/ \E d \in Dialers : DialData(d) \/ DialStep(d)

\* The workers run, requests and dials end at their timeouts, and a killed
\* process exits.
CaddyFairness ==
  /\ WF_caddyVars(OpenPart) /\ WF_caddyVars(StartStep) /\ WF_caddyVars(InstanceWait) /\ WF_caddyVars(LoadStep)
  /\ WF_caddyVars(StopFair) /\ WF_caddyVars(StopStep) /\ WF_caddyVars(InstanceKill) /\ WF_caddyVars(FinishShutdown)
  /\ \A d \in Dialers : WF_caddyVars(DialStep(d))

CaddySpec == CaddyInit /\ [][CaddyNext]_caddyVars /\ CaddyFairness

----------------------------------------
(* Properties.                                                             *)

\* The run directories with the sockets and the overlay stay until the process
\* has exited and nothing dials through them; only a process that survived the
\* second a failed start gives it loses them earlier.
DirectoriesOutliveTheProcess ==
  inst.dirs = "closed" =>
    /\ inst.proc # "running" \/ inst.gaveUp
    /\ Readers = {} /\ load # "verifying"

\* Shutdown ends from every state - while the runtime opens, the process
\* starts, hangs in a load or has died - and leaves no part open and no
\* instance behind.
CaddyIsReaped ==
  pool.shutdown = "joining" ~>
    pool.shutdown = "done" /\ pool.held = 0 /\ (inst.wait = "none" \/ InstanceDone)

\* Caddy, its sockets and its directories go together and in that order
\* (newInstance, instance.wait, Pool.Shutdown).
CaddyIsContained == []DirectoriesOutliveTheProcess /\ CaddyIsReaped
=============================================================================
