--------------------------- MODULE Multiprocessor ---------------------------
(***************************************************************************)
(* One iteration of a daemon with subprocesses (multiprocessor.py): each   *)
(* task runs in a process of its own, at most MaxProcesses at a time, and  *)
(* its output, the response among it, is read from a pipe once the process *)
(* has ended.  The deployer, waiter, updater and workers checker use it.   *)
(***************************************************************************)
EXTENDS Naturals, FiniteSets

CONSTANTS
  Tasks,         \* the keys of the processes
  Outputs,       \* how much a task may print, in pieces
  PipeCapacity,  \* how much a pipe holds
  MaxProcesses   \* max_parallel_processes

ASSUME PoolAssumption ==
  /\ IsFiniteSet(Tasks)
  /\ Outputs \subseteq Nat /\ PipeCapacity \in Nat
  /\ MaxProcesses \in Nat \ {0, 1}

VARIABLES
  poolPhase,  \* where in the iteration the daemon is
  process,    \* processes, each by its state
  unwritten,  \* what each has still to print
  piped,      \* what its pipe holds
  completed,  \* _async_processes_completed
  errored,    \* _async_processes_errored
  responses,  \* how often each task's response was handled
  output      \* history: what each task prints in all

poolVars == <<poolPhase, process, unwritten, piped, completed, errored, responses, output>>

PoolTypeOK ==
  /\ poolPhase \in {"idle", "process", "slot", "finalize", "done", "raised", "dead"}
  /\ process \in [Tasks -> {"none", "running", "succeeded", "failed"}]
  /\ unwritten \in [Tasks -> Nat] /\ piped \in [Tasks -> 0 .. PipeCapacity]
  /\ output \in [Tasks -> Nat]
  /\ completed \subseteq Tasks /\ errored \subseteq Tasks
  /\ responses \in [Tasks -> Nat]

PoolInit ==
  /\ poolPhase = "idle"
  /\ process = [t \in Tasks |-> "none"]
  /\ output = [t \in Tasks |-> 0]
  /\ unwritten = [t \in Tasks |-> 0]
  /\ piped = [t \in Tasks |-> 0]
  /\ completed = {} /\ errored = {}
  /\ responses = [t \in Tasks |-> 0]

Started == {t \in Tasks : process[t] # "none"}
Running == {t \in Tasks : process[t] = "running"}

\* The daemon takes an ended process for active until it polls it again.
Active == Started \ completed

\* process: _run_async, and then wait_for_available_process_slot.
StartTask(t) ==
  /\ poolPhase = "process"
  /\ process[t] = "none"
  /\ process' = [process EXCEPT ![t] = "running"]
  /\ poolPhase' = "slot"
  /\ UNCHANGED <<unwritten, piped, completed, errored, responses, output>>

\* HasSlot with two mistakes: the ended processes count,
\* and one more than max_parallel_processes.
HasSlotAtFirst == Cardinality(Started) < MaxProcesses

HasOneMoreSlot == Cardinality(Active) <= MaxProcesses

HasSlot == Cardinality(Active) < MaxProcesses

SlotAvailable ==
  /\ poolPhase = "slot"
  /\ HasSlot
  /\ poolPhase' = "process"
  /\ UNCHANGED <<process, unwritten, piped, completed, errored, responses, output>>

Finalize ==
  /\ poolPhase = "process"
  /\ Started = Tasks
  /\ poolPhase' = "finalize"
  /\ UNCHANGED <<process, unwritten, piped, completed, errored, responses, output>>

\* An ended process the daemon has not seen end, with a mistake and without.
IsEnded(t) == process[t] \in {"succeeded", "failed"}

IsNew(t) == IsEnded(t) /\ t \notin completed

\* get_active_processes comes to a process that has ended: its output is read
\* and the response in it handled.
PollEnded(t) ==
  /\ poolPhase \in {"slot", "finalize"}
  /\ IsNew(t)
  /\ completed' = completed \union {t}
  /\ piped' = [piped EXCEPT ![t] = 0]
  /\ IF process[t] = "succeeded"
     THEN responses' = [responses EXCEPT ![t] = @ + 1] /\ UNCHANGED errored
     ELSE errored' = errored \union {t} /\ UNCHANGED responses
  /\ UNCHANGED <<poolPhase, process, unwritten, output>>

\* finalize raises if a process errored, which ends the daemon.
AllEnded ==
  /\ poolPhase = "finalize"
  /\ Active = {}
  /\ poolPhase' = IF errored = {} THEN "done" ELSE "raised"
  /\ UNCHANGED <<process, unwritten, piped, completed, errored, responses, output>>

\* The daemon comes to its first or next iteration, or is restarted.
NextIteration ==
  /\ poolPhase \in {"idle", "done", "raised", "dead"}
  /\ poolPhase' = "process"
  /\ process' = [t \in Tasks |-> "none"]
  /\ output' \in [Tasks -> Outputs]
  /\ unwritten' = output'
  /\ piped' = [t \in Tasks |-> 0]
  /\ completed' = {} /\ errored' = {}
  /\ responses' = [t \in Tasks |-> 0]

\* A response that cannot be read or handled, or the death of the pod: the
\* processes end with the daemon.
PoolDies ==
  /\ poolPhase \in {"slot", "process", "finalize"}
  /\ poolPhase' = "dead"
  /\ UNCHANGED <<process, unwritten, piped, completed, errored, responses, output>>

PoolDaemon ==
  \/ SlotAvailable \/ Finalize \/ AllEnded \/ NextIteration
  \/ \E t \in Tasks : StartTask(t) \/ PollEnded(t)

\* The subprocess: a write to a full pipe waits.
WriteOutput(t) ==
  /\ poolPhase # "dead" /\ process[t] = "running"
  /\ unwritten[t] > 0
  /\ piped[t] < PipeCapacity
  /\ unwritten' = [unwritten EXCEPT ![t] = @ - 1]
  /\ piped' = [piped EXCEPT ![t] = @ + 1]
  /\ UNCHANGED <<poolPhase, process, completed, errored, responses, output>>

EndProcess(t) ==
  /\ poolPhase # "dead" /\ process[t] = "running"
  /\ unwritten[t] = 0
  /\ \E result \in {"succeeded", "failed"} : process' = [process EXCEPT ![t] = result]
  /\ UNCHANGED <<poolPhase, unwritten, piped, completed, errored, responses, output>>

ProcessStep(t) == WriteOutput(t) \/ EndProcess(t)

PoolNext == PoolDaemon \/ PoolDies \/ \E t \in Tasks : ProcessStep(t)

PoolSpec == PoolInit /\ [][PoolNext]_poolVars

-----------------------------------------------------------------------------
(* Properties *)

\* No more than max_parallel_processes run at a time, though a process is
\* started before a slot is waited for.
PoolBounded == Cardinality(Running) <= MaxProcesses

\* When an iteration ends, every task was run, the response of each that
\* succeeded was handled once, and the daemon raises if and only if one failed.
PoolResult ==
  poolPhase \in {"done", "raised"} =>
    /\ \A t \in Tasks : process[t] \in {"succeeded", "failed"}
    /\ \A t \in Tasks : responses[t] = IF process[t] = "succeeded" THEN 1 ELSE 0
    /\ poolPhase = "raised" <=> \E t \in Tasks : process[t] = "failed"

CanStep(t) == process[t] = "running" /\ (unwritten[t] = 0 \/ piped[t] < PipeCapacity)

\* The daemon does not wait for a slot or for the end of its processes while
\* these wait for it, unless one prints more than a pipe holds.
PoolNotStuck ==
  LET isAwaited == \E t \in Tasks : IsNew(t) \/ CanStep(t) \/ output[t] > PipeCapacity
  IN  /\ poolPhase = "slot" => HasSlot \/ isAwaited
      /\ poolPhase = "finalize" => Active = {} \/ isAwaited

\* Every iteration ends, unless a task prints more than a pipe holds: nobody
\* reads the pipe before the process ends.
PoolEnds ==
  poolPhase = "process" ~>
    poolPhase \in {"done", "raised", "dead"} \/ \E t \in Tasks : output[t] > PipeCapacity
=============================================================================
