---------------------------- MODULE BackendTasks ----------------------------
(***************************************************************************)
(* The backend's long tasks and the threads they run on: the screen's main *)
(* thread, the one worker that serves operations on the collection, the    *)
(* media sync thread, and the monitor that tells the screen when that      *)
(* thread has ended.  They share the collection behind a mutex, the handle *)
(* that aborts the media sync, and one progress state with its abort flag. *)
(* Source: src/rslib/src/backend/sync.rs, backend/collection.rs,           *)
(* progress.rs, src/qt/aqt/mediasync.py, taskman.py, main.py               *)
(*                                                                         *)
(* The mutexes of the handle, the task and the progress state are held for *)
(* a few statements each and never while waiting, so those are one step;   *)
(* the collection's mutex is held for whole operations and is explicit.    *)
(***************************************************************************)
EXTENDS Naturals, Sequences, FiniteSets

CONSTANTS
  Threads,    \* identities of media sync threads; one is free again when joined
  None,       \* no thread
  MaxQueue    \* bound: operations waiting for the worker

ASSUME NoneAssumption == None \notin Threads

VARIABLES
  col,      \* the collection: open, taken by a full sync, or closed
  opened,   \* whether the screen has a collection (mw.col)
  queue,    \* operations waiting for the worker
  pc,       \* where the main thread and the worker are
  slot,     \* media_sync_abort: the thread whose handle is registered
  task,     \* media_sync_task: the thread whose join handle is kept
  thread,   \* what each media sync thread is doing
  want,     \* want_abort
  syncing,  \* MediaSyncer._syncing
  polling,  \* whether the monitor is asking for the status
  closures, \* calls waiting for the main thread
  asked,    \* history: whose progress handler has lived through a request to abort
  awaited   \* history: threads running when a wait for the media sync began

media == <<slot, task, thread>>
screen == <<syncing, polling, closures>>
vars == <<col, opened, queue, pc, media, want, screen, asked, awaited>>

Jobs == {"start", "op", "sync", "full"}
Main == "main"
Worker == "worker"
Actors == {Main, Worker}

(* Mutant: a full sync locks the collection before it waits.               *)
MutantLockHeld == pc[Worker] \notin {"free", "start", "starting", "op", "sync"}

Running(t) == thread[t] \in {"waiting", "syncing"}
RunningThreads == {t \in Threads : Running(t)}
LockHeld == pc[Worker] \in {"working", "syncing", "replacing"}

(* The holders of a progress handler: the worker during an operation that  *)
(* reports progress, and media sync threads.                               *)
Holders == {Worker : x \in {pc[Worker]} \cap {"working", "syncing", "replacing"}}
             \cup {t \in Threads : thread[t] = "syncing"}

Goto(a, place) == pc' = [pc EXCEPT ![a] = place]

(* Types; and a collection taken by a full sync is being replaced: however *)
(* the sync ends it is put back ("ensure re-opened regardless of outcome", *)
(* sync.rs:434).                                                           *)
TypeOK ==
  /\ col \in {"open", "taken", "closed"} /\ {opened, want, syncing, polling} \subseteq BOOLEAN
  /\ queue \in Seq(Jobs) /\ closures \in Seq({"track", "left"})
  /\ pc \in [Actors -> Jobs \cup {"free", "checking", "sleeping", "locking",
                                  "working", "syncing", "replacing", "starting"}]
  /\ pc[Main] \in {"free", "checking", "sleeping", "locking"}
  /\ {slot, task} \subseteq Threads \cup {None}
  /\ thread \in [Threads -> {"unborn", "waiting", "syncing", "ending", "cleared", "finished"}]
  /\ asked \subseteq Threads \cup {Worker}
  /\ awaited \in [Actors -> SUBSET Threads]
  /\ col = "taken" <=> pc[Worker] = "replacing"

Init ==
  /\ col = "open" /\ opened = TRUE /\ queue = <<>> /\ closures = <<>>
  /\ pc = [a \in Actors |-> "free"]
  /\ slot = None /\ task = None /\ thread = [t \in Threads |-> "unborn"]
  /\ want = FALSE /\ syncing = FALSE /\ polling = FALSE
  /\ asked = {} /\ awaited = [a \in Actors |-> {}]

(* want_abort is set: the next update of any handler is interrupted.       *)
WantAbort == want' = TRUE /\ asked' = asked \cup Holders

(* Mutant: a handler keeps an earlier wish.                                *)
MutantNewHandler(holder) == UNCHANGED want /\ asked' = asked \ {holder}

(* ThrottlingProgressHandler::new forgets an earlier wish to abort.        *)
NewHandler(holder) == want' = FALSE /\ asked' = asked \ {holder}

Active == task # None /\ thread[task] # "finished"

(* sync_media_in_background: nothing happens while the last thread has not *)
(* returned; otherwise its handle is dropped (which would leave a running  *)
(* thread on its own) and a new thread started.                            *)
Spawn(t) ==
  /\ thread[t] = "unborn"
  /\ thread' = [u \in Threads |-> IF u = t THEN "waiting"
                                  ELSE IF u = task /\ ~Active THEN "unborn" ELSE thread[u]]
  /\ task' = t /\ slot' = t
  /\ awaited' = [a \in Actors |-> awaited[a] \ {t}]

(* Mutant: the running thread is not asked for.                            *)
MutantSyncMediaInBackground == \E t \in Threads : Spawn(t)

SyncMediaInBackground ==
  \/ Active /\ UNCHANGED <<media, awaited>>
  \/ ~Active /\ \E t \in Threads : Spawn(t)

-----------------------------------------------------------------------------
(* The media sync thread: sync_media_blocking.                             *)

(* The collection is locked only to make the progress handler; without an  *)
(* open collection the sync fails.                                         *)
BeginMedia(t) ==
  /\ thread[t] = "waiting" /\ ~LockHeld
  /\ \/ /\ col = "open" /\ thread' = [thread EXCEPT ![t] = "syncing"]
        /\ NewHandler(t)
     \/ /\ col # "open" /\ thread' = [thread EXCEPT ![t] = "ending"]
        /\ UNCHANGED <<want, asked>>
  /\ UNCHANGED <<col, opened, queue, pc, slot, task, screen, awaited>>

(* It is done, it has failed (a request that stalls times out), or its     *)
(* abort handle has been used.                                             *)
EndMedia(t) ==
  /\ thread[t] = "syncing"
  /\ thread' = [thread EXCEPT ![t] = "ending"]
  /\ UNCHANGED <<col, opened, queue, pc, slot, task, want, screen, asked, awaited>>

(* A progress update takes the wish to abort.                              *)
InterruptMedia(t) ==
  /\ thread[t] = "syncing" /\ want
  /\ want' = FALSE /\ thread' = [thread EXCEPT ![t] = "ending"]
  /\ UNCHANGED <<col, opened, queue, pc, slot, task, screen, asked, awaited>>

(* The guard empties the slot, whatever is in it, and then the thread      *)
(* returns.                                                                *)
ClearHandle(t) ==
  /\ thread[t] = "ending"
  /\ slot' = None /\ thread' = [thread EXCEPT ![t] = "cleared"]
  /\ UNCHANGED <<col, opened, queue, pc, task, want, screen, asked, awaited>>

Return(t) ==
  /\ thread[t] = "cleared"
  /\ thread' = [thread EXCEPT ![t] = "finished"]
  /\ UNCHANGED <<col, opened, queue, pc, slot, task, want, screen, asked, awaited>>

-----------------------------------------------------------------------------
(* Waiting for the media sync: abort_media_sync_and_wait, called by a      *)
(* thread that holds no lock.                                              *)
AbortAndWait(a) ==
  /\ Goto(a, "checking")
  /\ awaited' = [awaited EXCEPT ![a] = RunningThreads]
  /\ IF slot = None THEN UNCHANGED <<want, asked>> ELSE WantAbort

Sleep(a) ==
  /\ pc[a] = "checking" /\ slot # None
  /\ Goto(a, "sleeping")
  /\ UNCHANGED <<col, opened, queue, media, want, screen, asked, awaited>>

(* Mutant: aborting is taken for having ended.                             *)
MutantStopWaiting(a) ==
  /\ pc[a] = "checking"
  /\ Goto(a, "locking")
  /\ UNCHANGED <<col, opened, queue, media, want, screen, asked, awaited>>

(* The wish is repeated after every sleep, even if the sync has ended.     *)
Wake(a) ==
  /\ pc[a] = "sleeping"
  /\ Goto(a, "checking") /\ WantAbort
  /\ UNCHANGED <<col, opened, queue, media, screen, awaited>>

StopWaiting(a) ==
  /\ pc[a] = "checking" /\ slot = None
  /\ Goto(a, "locking")
  /\ UNCHANGED <<col, opened, queue, media, want, screen, asked, awaited>>

-----------------------------------------------------------------------------
(* The worker takes operations in order.                                   *)

(* The operation is given mw.col as it is now.                             *)
TakeJob ==
  /\ pc[Worker] = "free" /\ queue # <<>>
  /\ queue' = Tail(queue)
  /\ IF opened THEN Goto(Worker, Head(queue)) ELSE UNCHANGED pc
  /\ UNCHANGED <<col, opened, media, want, screen, asked, awaited>>

(* sync_media, and the end of a collection sync, which has let go of the   *)
(* collection by then; the screen is told when the latter is done.         *)
StartMedia ==
  /\ pc[Worker] \in {"start", "starting"}
  /\ SyncMediaInBackground
  /\ Goto(Worker, "free")
  /\ closures' = IF pc[Worker] = "starting" THEN Append(closures, "track") ELSE closures
  /\ UNCHANGED <<col, opened, queue, want, syncing, polling, asked>>

(* An operation or a collection sync locks the collection and makes a      *)
(* progress handler; without an open collection it fails.                  *)
BeginWork ==
  /\ pc[Worker] \in {"op", "sync"}
  /\ \/ col = "open" /\ NewHandler(Worker)
        /\ Goto(Worker, IF pc[Worker] = "op" THEN "working" ELSE "syncing")
     \/ col # "open" /\ Goto(Worker, "free") /\ UNCHANGED <<want, asked>>
  /\ UNCHANGED <<col, opened, queue, media, screen, awaited>>

(* It ends, well or badly; a collection sync that ended well goes on to    *)
(* the media, unless a full sync is required.                              *)
EndWork ==
  /\ \/ pc[Worker] \in {"working", "syncing"} /\ Goto(Worker, "free")
     \/ pc[Worker] = "syncing" /\ Goto(Worker, "starting")
  /\ UNCHANGED <<col, opened, queue, media, want, screen, asked, awaited>>

InterruptWork ==
  /\ pc[Worker] \in {"working", "syncing"} /\ want
  /\ want' = FALSE /\ Goto(Worker, "free")
  /\ UNCHANGED <<col, opened, queue, media, screen, asked, awaited>>

(* full_sync_inner stops the media sync before it locks the collection.    *)
BeginFull ==
  /\ pc[Worker] = "full" /\ AbortAndWait(Worker)
  /\ UNCHANGED <<col, opened, queue, media, screen>>

TakeCollection ==
  /\ pc[Worker] = "locking"
  /\ \/ /\ col = "open" /\ col' = "taken"
        /\ Goto(Worker, "replacing") /\ NewHandler(Worker)
     \/ /\ col # "open" /\ Goto(Worker, "free")
        /\ UNCHANGED <<col, want, asked>>
  /\ UNCHANGED <<opened, queue, media, screen, awaited>>

(* The collection is put back whatever came of the transfer, then the      *)
(* media sync is started if it went well; if it cannot be opened again     *)
(* there is none.  The screen follows the media sync even after a failed   *)
(* download.                                                               *)
EndFull ==
  /\ pc[Worker] = "replacing" /\ Goto(Worker, "free")
  /\ \/ /\ col' = "open" /\ SyncMediaInBackground /\ closures' = Append(closures, "track")
     \/ /\ col' \in {"open", "closed"} /\ closures' \in {closures, Append(closures, "track")}
        /\ UNCHANGED <<media, awaited>>
  /\ UNCHANGED <<opened, queue, want, syncing, polling, asked>>

InterruptFull ==
  /\ pc[Worker] = "replacing" /\ want
  /\ want' = FALSE /\ Goto(Worker, "free") /\ col' = "open"
  /\ closures' \in {closures, Append(closures, "track")}
  /\ UNCHANGED <<opened, queue, media, syncing, polling, asked, awaited>>

-----------------------------------------------------------------------------
(* The main thread, when it is not waiting.  Calls left for it run before  *)
(* it queues anything or closes.                                           *)
Free == pc[Main] = "free"

(* Syncs show a progress window that lets the user start nothing else.     *)
Modal == \/ pc[Worker] \in {"sync", "full", "checking", "sleeping", "locking",
                            "syncing", "replacing", "starting"}
         \/ \E i \in 1..Len(queue) : queue[i] \in {"sync", "full"}

Ask(job) ==
  /\ Free /\ opened /\ closures = <<>> /\ Len(queue) < MaxQueue
  /\ job \in {"sync", "full"} => ~Modal
  /\ queue' = Append(queue, job)

AskWorker(job) ==
  /\ job # "start" /\ Ask(job)
  /\ UNCHANGED <<col, opened, pc, media, want, screen, asked, awaited>>

(* MediaSyncer.start, from a timer that waits for the last sync to end:    *)
(* the monitor starts while the request is still queued.                   *)
AskMedia ==
  /\ ~syncing /\ Ask("start")
  /\ syncing' = TRUE /\ polling' = TRUE
  /\ UNCHANGED <<col, opened, pc, media, want, closures, asked, awaited>>

(* The progress window's cancel button during an operation.                *)
CancelWork ==
  /\ Free /\ pc[Worker] = "working" /\ WantAbort
  /\ UNCHANGED <<col, opened, queue, pc, media, screen, awaited>>

(* MediaSyncer.abort; the handle's effect is EndMedia's.                   *)
AbortMedia ==
  /\ Free /\ opened /\ syncing /\ WantAbort
  /\ UNCHANGED <<col, opened, queue, pc, media, screen, awaited>>

RunClosure ==
  /\ Free /\ closures # <<>> /\ closures' = Tail(closures)
  /\ \/ /\ Head(closures) = "left" /\ syncing' = FALSE /\ UNCHANGED polling
     \/ /\ Head(closures) = "track" /\ ~syncing /\ syncing' = TRUE /\ polling' = TRUE
     \/ /\ Head(closures) = "track" /\ syncing /\ UNCHANGED <<syncing, polling>>
  /\ UNCHANGED <<col, opened, queue, pc, media, want, asked, awaited>>

(* unloadCollection goes on when the screen shows no media sync.           *)
BeginClose ==
  /\ Free /\ opened /\ closures = <<>> /\ ~syncing /\ ~Modal
  /\ AbortAndWait(Main)
  /\ UNCHANGED <<col, opened, queue, media, screen>>

CloseCollection ==
  /\ pc[Main] = "locking" /\ ~LockHeld
  /\ col' = "closed" /\ opened' = FALSE /\ Goto(Main, "free")
  /\ UNCHANGED <<queue, media, want, screen, asked, awaited>>

OpenCollection ==
  /\ Free /\ ~opened /\ ~LockHeld
  /\ col' = "open" /\ opened' = TRUE
  /\ UNCHANGED <<queue, pc, media, want, screen, asked, awaited>>

-----------------------------------------------------------------------------
(* The monitor: get_media_sync_status, which joins a thread that has       *)
(* returned.  It stops when no sync is active or mw.col is gone.           *)
Poll ==
  /\ polling
  /\ \/ opened /\ task = None /\ UNCHANGED media
     \/ /\ opened /\ ~Active /\ task # None
        /\ task' = None /\ thread' = [thread EXCEPT ![task] = "unborn"] /\ UNCHANGED slot
     \/ ~opened /\ UNCHANGED media
  /\ polling' = FALSE /\ closures' = Append(closures, "left")
  /\ UNCHANGED <<col, opened, queue, pc, want, syncing, asked, awaited>>

-----------------------------------------------------------------------------
MediaThread(t) == \/ BeginMedia(t) \/ EndMedia(t) \/ InterruptMedia(t)
                  \/ ClearHandle(t) \/ Return(t)

Wait(a) == Sleep(a) \/ Wake(a) \/ StopWaiting(a)

Work == \/ TakeJob \/ StartMedia \/ BeginWork \/ EndWork \/ InterruptWork
        \/ BeginFull \/ TakeCollection \/ EndFull \/ InterruptFull

Screen == \/ \E job \in Jobs : AskWorker(job)
          \/ AskMedia \/ CancelWork \/ AbortMedia \/ RunClosure
          \/ BeginClose \/ CloseCollection \/ OpenCollection

Next == \/ \E t \in Threads : MediaThread(t)
        \/ \E a \in Actors : Wait(a)
        \/ Work \/ Screen \/ Poll

(* Every thread goes on: requests that stall time out, operations end, a   *)
(* sleep ends.  Nothing is assumed of what users ask for.                  *)
Fairness == /\ \A t \in Threads : WF_vars(MediaThread(t))
            /\ \A a \in Actors : WF_vars(Wait(a))
            /\ WF_vars(Work) /\ WF_vars(Poll)
            /\ WF_vars(RunClosure) /\ WF_vars(CloseCollection)

Spec == Init /\ [][Next]_vars /\ Fairness

-----------------------------------------------------------------------------
(* At most one media sync thread runs, and while it does its handle is the *)
(* registered one, so that an abort reaches it (the check of is_finished   *)
(* in sync_media_in_background; the guard empties the slot blindly).       *)
AbortReaches ==
  \A t \in Threads : Running(t) => slot = t

(* abort_media_sync_and_wait: "Won't return until aborted" (sync.rs:270).  *)
(* Whoever waited takes the collection only when every thread that ran     *)
(* when the wait began has ended; threads started since may still run.     *)
WaitedForAreOver ==
  \A a \in Actors : pc[a] \in {"locking", "replacing"} =>
    \A t \in awaited[a] : ~Running(t)

(* A leftover wish to abort, such as the one the last sleep of a wait      *)
(* sets, never stops a task that began after it (progress.rs:46).          *)
WishesAreFresh == want => Holders \subseteq asked

(* A wait for the media sync returns: nobody who waits holds the           *)
(* collection that the thread waited for needs.                            *)
WaitsEnd == \A a \in Actors : pc[a] = "checking" ~> pc[a] \in {"replacing", "free"}

=============================================================================
