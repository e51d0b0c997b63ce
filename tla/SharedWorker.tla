---------------------------- MODULE SharedWorker ----------------------------
(***************************************************************************)
(* assignment1/sharedMemory/shm_ipc.c: a controller creates a segment of   *)
(* shared memory and asks a forked worker for calculations, taking turns   *)
(* with it over two semaphores in the segment.                             *)
(*                                                                         *)
(* A calculation is known by its number; Requests + 1 is op_quit.  The     *)
(* name may still lead to the segment of an earlier run.                   *)
(***************************************************************************)
EXTENDS Naturals

CONSTANT Requests      \* how many calculations (20)

ASSUME SharedWorkerAssumption == Requests \in Nat

VARIABLES
    shareName,                                \* what the name leads to: "none", "old" or "new"
    controller, worker,                       \* where the two processes are
    controller_semaphore, worker_semaphore,
    operation, result                         \* in the new segment

segmentVars == <<controller_semaphore, worker_semaphore, operation, result>>
workerVars  == <<shareName, controller, worker, segmentVars>>

Quit == Requests + 1

WorkerInit ==
    /\ shareName = "none"
    /\ controller = "off" /\ worker = "off"
    /\ controller_semaphore = 0 /\ worker_semaphore = 0
    /\ operation = 0 /\ result = 0

Controller(here, there) == controller = here /\ controller' = there
Worker(here, there)     == worker = here /\ worker' = there

\* main: fork.
Fork(leftover) ==
    /\ Controller("off", "unlinking") /\ Worker("off", "asleep")
    /\ shareName' = leftover
    /\ UNCHANGED segmentVars

ForkFails == Controller("off", "over") /\ UNCHANGED <<shareName, worker, segmentVars>>

-----------------------------------------------------------------------------
(* The controller.                                                         *)

CreateUnlinks ==
    /\ Controller("unlinking", "opening")
    /\ shareName' = "none"
    /\ UNCHANGED <<worker, segmentVars>>

CreateOpens ==
    /\ \/ Controller("opening", "sizing") /\ shareName' = "new"
       \/ Controller("opening", "failed") /\ UNCHANGED shareName
    /\ UNCHANGED <<worker, segmentVars>>

\* Or it fails, or the mapping does, and the name stays behind.
CreateSizes ==
    /\ Controller("sizing", "initialising") \/ Controller("sizing", "failed")
    /\ UNCHANGED <<shareName, worker, segmentVars>>

CreateInitialises ==
    /\ Controller("initialising", "asking")
    /\ controller_semaphore' = 0 /\ worker_semaphore' = 0
    /\ UNCHANGED <<shareName, worker, operation, result>>

\* request_work, up to its wait.
Ask ==
    /\ Controller("asking", "awaiting")
    /\ operation' = operation + 1
    /\ controller_semaphore' = controller_semaphore + 1
    /\ UNCHANGED <<shareName, worker, worker_semaphore, result>>

Answered ==
    /\ Controller("awaiting", "reading")
    /\ worker_semaphore > 0 /\ worker_semaphore' = worker_semaphore - 1
    /\ UNCHANGED <<shareName, worker, controller_semaphore, operation, result>>

ReadResult ==
    /\ Controller("reading", IF operation = Quit THEN "destroying" ELSE "asking")
    /\ UNCHANGED <<shareName, worker, segmentVars>>

Destroy_Keeps ==
    /\ Controller("destroying", "over")
    /\ UNCHANGED <<shareName, worker, segmentVars>>

\* The worker's own mapping outlives the name.
Destroy ==
    /\ Controller("destroying", "over")
    /\ shareName' = "none"
    /\ UNCHANGED <<worker, segmentVars>>

-----------------------------------------------------------------------------
(* The worker.                                                             *)

Unready == shareName = "new" /\ controller \in {"sizing", "initialising", "failed"}

\* What it does with a segment of an earlier run nobody will ever see.  One that has no
\* size yet kills it when it is touched, and to wait on a semaphore that is about to be
\* initialised may miss the post.
GetShared ==
    /\ \/ shareName = "none" /\ Worker("asleep", "over")
       \/ (shareName = "old" \/ Unready) /\ Worker("asleep", "stranded")
       \/ shareName = "new" /\ Worker("asleep", "waiting")
    /\ UNCHANGED <<shareName, controller, segmentVars>>

\* do_work.
WaitForWork ==
    /\ Worker("waiting", "computing")
    /\ controller_semaphore > 0 /\ controller_semaphore' = controller_semaphore - 1
    /\ UNCHANGED <<shareName, controller, worker_semaphore, operation, result>>

\* An answer posted with the old result still there.
Compute_PostsFirst ==
    /\ Worker("computing", "posting")
    /\ worker_semaphore' = worker_semaphore + 1
    /\ UNCHANGED <<shareName, controller, controller_semaphore, operation, result>>

Compute ==
    /\ Worker("computing", "posting")
    /\ result' = IF operation = Quit THEN result ELSE operation
    /\ UNCHANGED <<shareName, controller, controller_semaphore, worker_semaphore, operation>>

PostAnswer ==
    /\ Worker("posting", IF operation = Quit THEN "unmapping" ELSE "waiting")
    /\ worker_semaphore' = worker_semaphore + 1
    /\ UNCHANGED <<shareName, controller, controller_semaphore, operation, result>>

Unmap == Worker("unmapping", "over") /\ UNCHANGED <<shareName, controller, segmentVars>>

-----------------------------------------------------------------------------
ControllerStep ==
    \/ CreateUnlinks \/ CreateOpens \/ CreateSizes \/ CreateInitialises
    \/ Ask \/ Answered \/ ReadResult \/ Destroy

WorkerStep == GetShared \/ WaitForWork \/ Compute \/ PostAnswer \/ Unmap

WorkerNext == ForkFails \/ ControllerStep \/ WorkerStep \/ \E leftover \in {"none", "old"} : Fork(leftover)

WorkerFairness == WF_workerVars(ControllerStep) /\ WF_workerVars(WorkerStep)

WorkerSpec == WorkerInit /\ [][WorkerNext]_workerVars /\ WorkerFairness

-----------------------------------------------------------------------------
\* Each result the controller reads is that of the calculation it asked for
\* (shm_ipc.c:148-154, 223-249).
ResultsMatch == controller = "reading" /\ operation # Quit => result = operation

\* If the second the worker sleeps is long enough (shm_ipc.c:325), everything is
\* calculated, both processes end and the name is gone, in whatever order they leave
\* the segment (shm_ipc.c:249-257, 289-292).
WorkGetsDone ==
    (controller = "asking" /\ worker = "asleep") ~>
        (operation = Quit /\ controller = "over" /\ worker = "over" /\ shareName = "none")
=============================================================================
