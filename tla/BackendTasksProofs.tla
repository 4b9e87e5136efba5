------------------------- MODULE BackendTasksProofs -------------------------
(***************************************************************************)
(* For every set of threads: an abort reaches the media sync that runs,    *)
(* a wait for it keeps its promise, and no leftover wish to abort stops a  *)
(* later task.                                                             *)
(*                                                                         *)
(* The invariant adds that the only thread there is is the one whose join  *)
(* handle is kept, and that its abort handle stays registered until its    *)
(* guard runs.                                                             *)
(***************************************************************************)
EXTENDS BackendTasks, TLAPS

Owned ==
  \A t \in Threads :
    /\ thread[t] # "unborn" => task = t
    /\ thread[t] \in {"waiting", "syncing", "ending"} => slot = t

(* Calls left for the main thread stay a sequence of calls.                *)
LEMMA ClosuresTyped ==
  ASSUME NEW s \in Seq({"track", "left"})
  PROVE  /\ Append(s, "track") \in Seq({"track", "left"})
         /\ Append(s, "left") \in Seq({"track", "left"})
         /\ s # <<>> => Tail(s) \in Seq({"track", "left"})
OBVIOUS

(* What BeginFull and BeginClose share.                                    *)
LEMMA WaitTypes ==
  ASSUME TypeOK, NEW a \in Actors, pc[a] # "replacing", AbortAndWait(a)
  PROVE  /\ pc' = [pc EXCEPT ![a] = "checking"] /\ pc' \in [Actors -> {"checking"} \cup {pc[b] : b \in Actors}]
         /\ awaited' \in [Actors -> SUBSET Threads]
         /\ want' \in BOOLEAN /\ asked' \subseteq Threads \cup {Worker}
<1>1. pc' = [pc EXCEPT ![a] = "checking"] /\ pc' \in [Actors -> {"checking"} \cup {pc[b] : b \in Actors}]
  BY DEF TypeOK, AbortAndWait, Goto
<1>2. RunningThreads \subseteq Threads /\ Holders \subseteq Threads \cup {Worker}
  BY DEF RunningThreads, Holders
<1>3. awaited' \in [Actors -> SUBSET Threads]
  BY <1>2 DEF TypeOK, AbortAndWait
<1>4. asked \subseteq Threads \cup {Worker} /\ want \in BOOLEAN
  BY DEF TypeOK
<1>5. want' \in BOOLEAN /\ asked' \subseteq Threads \cup {Worker}
  BY <1>2, <1>4 DEF AbortAndWait, WantAbort
<1> QED
  BY <1>1, <1>3, <1>5

(* A new thread has the kept handles.                                      *)
LEMMA SpawnTypes ==
  ASSUME TypeOK, SyncMediaInBackground
  PROVE  /\ slot' \in Threads \cup {None} /\ task' \in Threads \cup {None}
         /\ thread' \in [Threads -> {"unborn", "waiting", "syncing", "ending", "cleared", "finished"}]
         /\ awaited' \in [Actors -> SUBSET Threads]
<1>1. CASE UNCHANGED <<media, awaited>>
  BY <1>1 DEF media, TypeOK
<1>2. CASE \E t \in Threads : Spawn(t)
  <2>1. PICK t \in Threads : Spawn(t)
    BY <1>2
  <2> QED
    BY <2>1 DEF Spawn, TypeOK
<1> QED
  BY <1>1, <1>2 DEF SyncMediaInBackground

(* The types and the taken collection: a step of any thread keeps them.    *)
LEMMA TypesStep ==
  ASSUME TypeOK, [Next]_vars
  PROVE  TypeOK'
<1> USE NoneAssumption
<1>1. ASSUME NEW t \in Threads, BeginMedia(t) PROVE TypeOK'
  BY <1>1 DEF BeginMedia, TypeOK, Actors, Main, Worker, Jobs, screen, LockHeld,
       NewHandler
<1>2. ASSUME NEW t \in Threads, EndMedia(t) PROVE TypeOK'
  BY <1>2 DEF EndMedia, TypeOK, Actors, Main, Worker, Jobs, screen
<1>3. ASSUME NEW t \in Threads, InterruptMedia(t) PROVE TypeOK'
  BY <1>3 DEF InterruptMedia, TypeOK, Actors, Main, Worker, Jobs, screen
<1>4. ASSUME NEW t \in Threads, ClearHandle(t) PROVE TypeOK'
  BY <1>4 DEF ClearHandle, TypeOK, Actors, Main, Worker, Jobs, screen
<1>5. ASSUME NEW t \in Threads, Return(t) PROVE TypeOK'
  BY <1>5 DEF Return, TypeOK, Actors, Main, Worker, Jobs, screen
<1>6. ASSUME NEW a \in Actors, Sleep(a) PROVE TypeOK'
  BY <1>6 DEF Sleep, TypeOK, Actors, Main, Worker, Jobs, media, screen, Goto
<1>7. ASSUME NEW a \in Actors, Wake(a) PROVE TypeOK'
  BY <1>7 DEF Wake, TypeOK, Actors, Main, Worker, Jobs, media, screen, Holders,
       Goto, WantAbort
<1>8. ASSUME NEW a \in Actors, StopWaiting(a) PROVE TypeOK'
  BY <1>8 DEF StopWaiting, TypeOK, Actors, Main, Worker, Jobs, media, screen,
       Goto
<1>9. ASSUME TakeJob PROVE TypeOK'
  BY <1>9 DEF TakeJob, TypeOK, Actors, Main, Worker, Jobs, media, screen, Goto
<1>10. ASSUME StartMedia PROVE TypeOK'
  BY <1>10 DEF StartMedia, TypeOK, Actors, Main, Worker, Jobs, media, Active,
       Goto, SyncMediaInBackground, Spawn
<1>11. ASSUME BeginWork PROVE TypeOK'
  BY <1>11 DEF BeginWork, TypeOK, Actors, Main, Worker, Jobs, media, screen,
       Goto, NewHandler
<1>12. ASSUME EndWork PROVE TypeOK'
  BY <1>12 DEF EndWork, TypeOK, Actors, Main, Worker, Jobs, media, screen, Goto
<1>13. ASSUME InterruptWork PROVE TypeOK'
  BY <1>13 DEF InterruptWork, TypeOK, Actors, Main, Worker, Jobs, media,
       screen, Goto
<1>14. ASSUME BeginFull PROVE TypeOK'
  BY <1>14, WaitTypes DEF BeginFull, TypeOK, Actors, Main, Worker, Jobs, media,
       screen
<1>15. ASSUME TakeCollection PROVE TypeOK'
  BY <1>15 DEF TakeCollection, TypeOK, Actors, Main, Worker, Jobs, media,
       screen, Goto, NewHandler
<1>16. ASSUME EndFull PROVE TypeOK'
  <2>1. slot' \in Threads \cup {None} /\ task' \in Threads \cup {None}
        /\ thread' \in [Threads -> {"unborn", "waiting", "syncing", "ending", "cleared", "finished"}]
        /\ awaited' \in [Actors -> SUBSET Threads]
    BY <1>16, SpawnTypes DEF EndFull, TypeOK, media
  <2>2. closures' \in Seq({"track", "left"})
    BY <1>16, ClosuresTyped DEF EndFull, TypeOK
  <2>3. col' \in {"open", "closed"} /\ pc' = [pc EXCEPT ![Worker] = "free"]
    BY <1>16 DEF EndFull, Goto
  <2> QED
    BY <1>16, <2>1, <2>2, <2>3 DEF EndFull, TypeOK, Actors, Main, Worker
<1>17. ASSUME InterruptFull PROVE TypeOK'
  BY <1>17, ClosuresTyped DEF InterruptFull, TypeOK, Actors, Main, Worker,
       Jobs, media, Goto
<1>18. ASSUME NEW job \in Jobs, AskWorker(job) PROVE TypeOK'
  BY <1>18 DEF AskWorker, TypeOK, Actors, Main, Worker, Jobs, media, screen,
       Ask
<1>19. ASSUME AskMedia PROVE TypeOK'
  BY <1>19 DEF AskMedia, TypeOK, Actors, Main, Worker, Jobs, media, Ask
<1>20. ASSUME CancelWork PROVE TypeOK'
  BY <1>20 DEF CancelWork, TypeOK, Actors, Main, Worker, Jobs, media, screen,
       Holders, WantAbort
<1>21. ASSUME AbortMedia PROVE TypeOK'
  BY <1>21 DEF AbortMedia, TypeOK, Actors, Main, Worker, Jobs, media, screen,
       Holders, WantAbort
<1>22. ASSUME RunClosure PROVE TypeOK'
  BY <1>22, ClosuresTyped DEF RunClosure, TypeOK, Actors, Main, Worker, Jobs,
       media
<1>23. ASSUME BeginClose PROVE TypeOK'
  BY <1>23, WaitTypes DEF BeginClose, TypeOK, Actors, Main, Worker, Jobs,
       media, screen, Free
<1>24. ASSUME CloseCollection PROVE TypeOK'
  BY <1>24 DEF CloseCollection, TypeOK, Actors, Main, Worker, Jobs, media,
       screen, LockHeld, Goto
<1>25. ASSUME OpenCollection PROVE TypeOK'
  BY <1>25 DEF OpenCollection, TypeOK, Actors, Main, Worker, Jobs, media,
       screen, LockHeld
<1>26. ASSUME Poll PROVE TypeOK'
  BY <1>26, ClosuresTyped DEF Poll, TypeOK, Actors, Main, Worker, Jobs, media,
       Active
<1>27. ASSUME UNCHANGED vars PROVE TypeOK'
  BY <1>27 DEF vars, media, screen, TypeOK, Actors, Main, Worker, Jobs, media,
       screen
<1> QED
  BY <1>1, <1>2, <1>3, <1>4, <1>5, <1>6, <1>7, <1>8, <1>9, <1>10, <1>11, <1>12,
       <1>13, <1>14, <1>15, <1>16, <1>17, <1>18, <1>19, <1>20, <1>21, <1>22,
       <1>23, <1>24, <1>25, <1>26, <1>27 DEF Next, MediaThread, Wait, Work,
       Screen

(* The one thread keeps its handles: only its own guard empties the slot,  *)
(* and none is started until it has returned.                              *)
LEMMA OwnedStep ==
  ASSUME TypeOK, Owned, [Next]_vars
  PROVE  Owned'
<1> USE NoneAssumption
<1>1. ASSUME NEW t \in Threads, BeginMedia(t) PROVE Owned'
  BY <1>1 DEF BeginMedia, Owned, TypeOK
<1>2. ASSUME NEW t \in Threads, EndMedia(t) PROVE Owned'
  BY <1>2 DEF EndMedia, Owned, TypeOK
<1>3. ASSUME NEW t \in Threads, InterruptMedia(t) PROVE Owned'
  BY <1>3 DEF InterruptMedia, Owned, TypeOK
<1>4. ASSUME NEW t \in Threads, ClearHandle(t) PROVE Owned'
  BY <1>4 DEF ClearHandle, Owned, TypeOK
<1>5. ASSUME NEW t \in Threads, Return(t) PROVE Owned'
  BY <1>5 DEF Return, Owned, TypeOK
<1>6. ASSUME NEW a \in Actors, Sleep(a) PROVE Owned'
  BY <1>6 DEF Sleep, Owned, TypeOK, media
<1>7. ASSUME NEW a \in Actors, Wake(a) PROVE Owned'
  BY <1>7 DEF Wake, Owned, TypeOK, media
<1>8. ASSUME NEW a \in Actors, StopWaiting(a) PROVE Owned'
  BY <1>8 DEF StopWaiting, Owned, TypeOK, media
<1>9. ASSUME TakeJob PROVE Owned'
  BY <1>9 DEF TakeJob, Owned, TypeOK, media
<1>10. ASSUME StartMedia PROVE Owned'
  BY <1>10 DEF StartMedia, Owned, TypeOK, media, SyncMediaInBackground, Spawn,
       Active
<1>11. ASSUME BeginWork PROVE Owned'
  BY <1>11 DEF BeginWork, Owned, TypeOK, media
<1>12. ASSUME EndWork PROVE Owned'
  BY <1>12 DEF EndWork, Owned, TypeOK, media
<1>13. ASSUME InterruptWork PROVE Owned'
  BY <1>13 DEF InterruptWork, Owned, TypeOK, media
<1>14. ASSUME BeginFull PROVE Owned'
  BY <1>14 DEF BeginFull, Owned, TypeOK, media
<1>15. ASSUME TakeCollection PROVE Owned'
  BY <1>15 DEF TakeCollection, Owned, TypeOK, media
<1>16. ASSUME EndFull PROVE Owned'
  BY <1>16 DEF EndFull, Owned, TypeOK, media, SyncMediaInBackground, Spawn,
       Active
<1>17. ASSUME InterruptFull PROVE Owned'
  BY <1>17 DEF InterruptFull, Owned, TypeOK, media
<1>18. ASSUME NEW job \in Jobs, AskWorker(job) PROVE Owned'
  BY <1>18 DEF AskWorker, Owned, TypeOK, media
<1>19. ASSUME AskMedia PROVE Owned'
  BY <1>19 DEF AskMedia, Owned, TypeOK, media
<1>20. ASSUME CancelWork PROVE Owned'
  BY <1>20 DEF CancelWork, Owned, TypeOK, media
<1>21. ASSUME AbortMedia PROVE Owned'
  BY <1>21 DEF AbortMedia, Owned, TypeOK, media
<1>22. ASSUME RunClosure PROVE Owned'
  BY <1>22 DEF RunClosure, Owned, TypeOK, media
<1>23. ASSUME BeginClose PROVE Owned'
  BY <1>23 DEF BeginClose, Owned, TypeOK, media
<1>24. ASSUME CloseCollection PROVE Owned'
  BY <1>24 DEF CloseCollection, Owned, TypeOK, media
<1>25. ASSUME OpenCollection PROVE Owned'
  BY <1>25 DEF OpenCollection, Owned, TypeOK, media
<1>26. ASSUME Poll PROVE Owned'
  BY <1>26 DEF Poll, Owned, TypeOK, media, Active
<1>27. ASSUME UNCHANGED vars PROVE Owned'
  BY <1>27 DEF vars, media, screen, Owned, TypeOK, media
<1> QED
  BY <1>1, <1>2, <1>3, <1>4, <1>5, <1>6, <1>7, <1>8, <1>9, <1>10, <1>11, <1>12,
       <1>13, <1>14, <1>15, <1>16, <1>17, <1>18, <1>19, <1>20, <1>21, <1>22,
       <1>23, <1>24, <1>25, <1>26, <1>27 DEF Next, MediaThread, Wait, Work,
       Screen

(* A task that makes its handler forgets earlier wishes; whoever wishes    *)
(* means every handler there is.                                           *)
LEMMA WishesStep ==
  ASSUME TypeOK, WishesAreFresh, [Next]_vars
  PROVE  WishesAreFresh'
<1>1. ASSUME NEW t \in Threads, BeginMedia(t) PROVE WishesAreFresh'
  BY <1>1 DEF BeginMedia, WishesAreFresh, Holders, TypeOK, NewHandler, Actors,
       Main, Worker, Jobs, LockHeld
<1>2. ASSUME NEW t \in Threads, EndMedia(t) PROVE WishesAreFresh'
  BY <1>2 DEF EndMedia, WishesAreFresh, Holders, TypeOK, Actors, Main, Worker,
       Jobs
<1>3. ASSUME NEW t \in Threads, InterruptMedia(t) PROVE WishesAreFresh'
  BY <1>3 DEF InterruptMedia, WishesAreFresh, Holders, TypeOK, Actors, Main,
       Worker, Jobs
<1>4. ASSUME NEW t \in Threads, ClearHandle(t) PROVE WishesAreFresh'
  BY <1>4 DEF ClearHandle, WishesAreFresh, Holders, TypeOK, Actors, Main,
       Worker, Jobs
<1>5. ASSUME NEW t \in Threads, Return(t) PROVE WishesAreFresh'
  BY <1>5 DEF Return, WishesAreFresh, Holders, TypeOK, Actors, Main, Worker,
       Jobs
<1>6. ASSUME NEW a \in Actors, Sleep(a) PROVE WishesAreFresh'
  BY <1>6 DEF Sleep, WishesAreFresh, Holders, TypeOK, media, Goto, Actors,
       Main, Worker, Jobs
<1>7. ASSUME NEW a \in Actors, Wake(a) PROVE WishesAreFresh'
  BY <1>7 DEF Wake, WishesAreFresh, Holders, TypeOK, media, Goto, WantAbort,
       Actors, Main, Worker, Jobs
<1>8. ASSUME NEW a \in Actors, StopWaiting(a) PROVE WishesAreFresh'
  BY <1>8 DEF StopWaiting, WishesAreFresh, Holders, TypeOK, media, Goto,
       Actors, Main, Worker, Jobs
<1>9. ASSUME TakeJob PROVE WishesAreFresh'
  BY <1>9 DEF TakeJob, WishesAreFresh, Holders, TypeOK, media, Goto, Actors,
       Main, Worker, Jobs
<1>10. ASSUME StartMedia PROVE WishesAreFresh'
  BY <1>10 DEF StartMedia, WishesAreFresh, Holders, TypeOK, media, Goto,
       Actors, Main, Worker, Jobs, SyncMediaInBackground, Spawn, Active
<1>11. ASSUME BeginWork PROVE WishesAreFresh'
  BY <1>11 DEF BeginWork, WishesAreFresh, Holders, TypeOK, media, Goto,
       NewHandler, Actors, Main, Worker, Jobs
<1>12. ASSUME EndWork PROVE WishesAreFresh'
  BY <1>12 DEF EndWork, WishesAreFresh, Holders, TypeOK, media, Goto, Actors,
       Main, Worker, Jobs
<1>13. ASSUME InterruptWork PROVE WishesAreFresh'
  BY <1>13 DEF InterruptWork, WishesAreFresh, Holders, TypeOK, media, Goto,
       Actors, Main, Worker, Jobs
<1>14. ASSUME BeginFull PROVE WishesAreFresh'
  BY <1>14 DEF BeginFull, WishesAreFresh, Holders, TypeOK, media, Goto,
       WantAbort, Actors, Main, Worker, Jobs, AbortAndWait
<1>15. ASSUME TakeCollection PROVE WishesAreFresh'
  BY <1>15 DEF TakeCollection, WishesAreFresh, Holders, TypeOK, media, Goto,
       NewHandler, Actors, Main, Worker, Jobs
<1>16. ASSUME EndFull PROVE WishesAreFresh'
  BY <1>16 DEF EndFull, WishesAreFresh, Holders, TypeOK, media, Goto, Actors,
       Main, Worker, Jobs, SyncMediaInBackground, Spawn, Active
<1>17. ASSUME InterruptFull PROVE WishesAreFresh'
  BY <1>17 DEF InterruptFull, WishesAreFresh, Holders, TypeOK, media, Goto,
       Actors, Main, Worker, Jobs
<1>18. ASSUME NEW job \in Jobs, AskWorker(job) PROVE WishesAreFresh'
  BY <1>18 DEF AskWorker, WishesAreFresh, Holders, TypeOK, media, Actors, Main,
       Worker, Jobs, Ask
<1>19. ASSUME AskMedia PROVE WishesAreFresh'
  BY <1>19 DEF AskMedia, WishesAreFresh, Holders, TypeOK, media, Actors, Main,
       Worker, Jobs, Ask
<1>20. ASSUME CancelWork PROVE WishesAreFresh'
  BY <1>20 DEF CancelWork, WishesAreFresh, Holders, TypeOK, media, WantAbort,
       Actors, Main, Worker, Jobs
<1>21. ASSUME AbortMedia PROVE WishesAreFresh'
  BY <1>21 DEF AbortMedia, WishesAreFresh, Holders, TypeOK, media, WantAbort,
       Actors, Main, Worker, Jobs
<1>22. ASSUME RunClosure PROVE WishesAreFresh'
  BY <1>22 DEF RunClosure, WishesAreFresh, Holders, TypeOK, media, Actors,
       Main, Worker, Jobs
<1>23. ASSUME BeginClose PROVE WishesAreFresh'
  BY <1>23 DEF BeginClose, WishesAreFresh, Holders, TypeOK, media, Goto,
       WantAbort, Actors, Main, Worker, Jobs, AbortAndWait
<1>24. ASSUME CloseCollection PROVE WishesAreFresh'
  BY <1>24 DEF CloseCollection, WishesAreFresh, Holders, TypeOK, media, Goto,
       Actors, Main, Worker, Jobs
<1>25. ASSUME OpenCollection PROVE WishesAreFresh'
  BY <1>25 DEF OpenCollection, WishesAreFresh, Holders, TypeOK, media, Actors,
       Main, Worker, Jobs
<1>26. ASSUME Poll PROVE WishesAreFresh'
  BY <1>26 DEF Poll, WishesAreFresh, Holders, TypeOK, media, Actors, Main,
       Worker, Jobs, Active
<1>27. ASSUME UNCHANGED vars PROVE WishesAreFresh'
  BY <1>27 DEF vars, media, screen, WishesAreFresh, Holders, TypeOK, media,
       Actors, Main, Worker, Jobs
<1> QED
  BY <1>1, <1>2, <1>3, <1>4, <1>5, <1>6, <1>7, <1>8, <1>9, <1>10, <1>11, <1>12,
       <1>13, <1>14, <1>15, <1>16, <1>17, <1>18, <1>19, <1>20, <1>21, <1>22,
       <1>23, <1>24, <1>25, <1>26, <1>27 DEF Next, MediaThread, Wait, Work,
       Screen

(* A wait ends with an empty slot, so with no thread running; a thread     *)
(* that is started later was not waited for.                               *)
LEMMA WaitedStep ==
  ASSUME TypeOK, Owned, WaitedForAreOver, [Next]_vars
  PROVE  WaitedForAreOver'
<1> USE NoneAssumption
<1>1. ASSUME NEW t \in Threads, BeginMedia(t) PROVE WaitedForAreOver'
  BY <1>1 DEF BeginMedia, WaitedForAreOver, Running, TypeOK, Actors, Main,
       Worker, Jobs
<1>2. ASSUME NEW t \in Threads, EndMedia(t) PROVE WaitedForAreOver'
  BY <1>2 DEF EndMedia, WaitedForAreOver, Running, TypeOK, Actors, Main,
       Worker, Jobs
<1>3. ASSUME NEW t \in Threads, InterruptMedia(t) PROVE WaitedForAreOver'
  BY <1>3 DEF InterruptMedia, WaitedForAreOver, Running, TypeOK, Actors, Main,
       Worker, Jobs
<1>4. ASSUME NEW t \in Threads, ClearHandle(t) PROVE WaitedForAreOver'
  BY <1>4 DEF ClearHandle, WaitedForAreOver, Running, TypeOK, Actors, Main,
       Worker, Jobs
<1>5. ASSUME NEW t \in Threads, Return(t) PROVE WaitedForAreOver'
  BY <1>5 DEF Return, WaitedForAreOver, Running, TypeOK, Actors, Main, Worker,
       Jobs
<1>6. ASSUME NEW a \in Actors, Sleep(a) PROVE WaitedForAreOver'
  BY <1>6 DEF Sleep, WaitedForAreOver, Running, TypeOK, media, Goto, Actors,
       Main, Worker, Jobs
<1>7. ASSUME NEW a \in Actors, Wake(a) PROVE WaitedForAreOver'
  BY <1>7 DEF Wake, WaitedForAreOver, Running, TypeOK, media, Goto, Actors,
       Main, Worker, Jobs
<1>8. ASSUME NEW a \in Actors, StopWaiting(a) PROVE WaitedForAreOver'
  BY <1>8 DEF StopWaiting, WaitedForAreOver, Running, TypeOK, media, Goto,
       Actors, Main, Worker, Jobs, Owned
<1>9. ASSUME TakeJob PROVE WaitedForAreOver'
  BY <1>9 DEF TakeJob, WaitedForAreOver, Running, TypeOK, media, Goto, Actors,
       Main, Worker, Jobs
<1>10. ASSUME StartMedia PROVE WaitedForAreOver'
  BY <1>10 DEF StartMedia, WaitedForAreOver, Running, TypeOK, media, Goto,
       Actors, Main, Worker, Jobs, SyncMediaInBackground, Spawn, Active
<1>11. ASSUME BeginWork PROVE WaitedForAreOver'
  BY <1>11 DEF BeginWork, WaitedForAreOver, Running, TypeOK, media, Goto,
       Actors, Main, Worker, Jobs
<1>12. ASSUME EndWork PROVE WaitedForAreOver'
  BY <1>12 DEF EndWork, WaitedForAreOver, Running, TypeOK, media, Goto, Actors,
       Main, Worker, Jobs
<1>13. ASSUME InterruptWork PROVE WaitedForAreOver'
  BY <1>13 DEF InterruptWork, WaitedForAreOver, Running, TypeOK, media, Goto,
       Actors, Main, Worker, Jobs
<1>14. ASSUME BeginFull PROVE WaitedForAreOver'
  BY <1>14 DEF BeginFull, WaitedForAreOver, Running, TypeOK, media, Goto,
       Actors, Main, Worker, Jobs, AbortAndWait
<1>15. ASSUME TakeCollection PROVE WaitedForAreOver'
  BY <1>15 DEF TakeCollection, WaitedForAreOver, Running, TypeOK, media, Goto,
       Actors, Main, Worker, Jobs
<1>16. ASSUME EndFull PROVE WaitedForAreOver'
  BY <1>16 DEF EndFull, WaitedForAreOver, Running, TypeOK, media, Goto, Actors,
       Main, Worker, Jobs, SyncMediaInBackground, Spawn, Active
<1>17. ASSUME InterruptFull PROVE WaitedForAreOver'
  BY <1>17 DEF InterruptFull, WaitedForAreOver, Running, TypeOK, media, Goto,
       Actors, Main, Worker, Jobs
<1>18. ASSUME NEW job \in Jobs, AskWorker(job) PROVE WaitedForAreOver'
  BY <1>18 DEF AskWorker, WaitedForAreOver, Running, TypeOK, media, Actors,
       Main, Worker, Jobs
<1>19. ASSUME AskMedia PROVE WaitedForAreOver'
  BY <1>19 DEF AskMedia, WaitedForAreOver, Running, TypeOK, media, Actors,
       Main, Worker, Jobs
<1>20. ASSUME CancelWork PROVE WaitedForAreOver'
  BY <1>20 DEF CancelWork, WaitedForAreOver, Running, TypeOK, media, Actors,
       Main, Worker, Jobs
<1>21. ASSUME AbortMedia PROVE WaitedForAreOver'
  BY <1>21 DEF AbortMedia, WaitedForAreOver, Running, TypeOK, media, Actors,
       Main, Worker, Jobs
<1>22. ASSUME RunClosure PROVE WaitedForAreOver'
  BY <1>22 DEF RunClosure, WaitedForAreOver, Running, TypeOK, media, Actors,
       Main, Worker, Jobs
<1>23. ASSUME BeginClose PROVE WaitedForAreOver'
  BY <1>23 DEF BeginClose, WaitedForAreOver, Running, TypeOK, media, Goto,
       Actors, Main, Worker, Jobs, AbortAndWait
<1>24. ASSUME CloseCollection PROVE WaitedForAreOver'
  BY <1>24 DEF CloseCollection, WaitedForAreOver, Running, TypeOK, media, Goto,
       Actors, Main, Worker, Jobs
<1>25. ASSUME OpenCollection PROVE WaitedForAreOver'
  BY <1>25 DEF OpenCollection, WaitedForAreOver, Running, TypeOK, media,
       Actors, Main, Worker, Jobs
<1>26. ASSUME Poll PROVE WaitedForAreOver'
  BY <1>26 DEF Poll, WaitedForAreOver, Running, TypeOK, media, Actors, Main,
       Worker, Jobs, Active
<1>27. ASSUME UNCHANGED vars PROVE WaitedForAreOver'
  BY <1>27 DEF vars, media, screen, WaitedForAreOver, Running, TypeOK, media,
       Actors, Main, Worker, Jobs
<1> QED
  BY <1>1, <1>2, <1>3, <1>4, <1>5, <1>6, <1>7, <1>8, <1>9, <1>10, <1>11, <1>12,
       <1>13, <1>14, <1>15, <1>16, <1>17, <1>18, <1>19, <1>20, <1>21, <1>22,
       <1>23, <1>24, <1>25, <1>26, <1>27 DEF Next, MediaThread, Wait, Work,
       Screen

Inv == TypeOK /\ Owned /\ WishesAreFresh /\ WaitedForAreOver

LEMMA InvHolds == Spec => []Inv
<1>1. Init => Inv
  <2> SUFFICES ASSUME Init PROVE Inv
    OBVIOUS
  <2>1. TypeOK
    <3>1. queue \in Seq(Jobs) /\ closures \in Seq({"track", "left"})
      BY DEF Init
    <3>2. /\ awaited \in [Actors -> SUBSET Threads] /\ asked \subseteq Threads \cup {Worker}
          /\ thread \in [Threads -> {"unborn", "waiting", "syncing", "ending", "cleared", "finished"}]
      BY DEF Init
    <3>3. pc = [a \in Actors |-> "free"] /\ pc[Main] = "free" /\ pc[Worker] = "free"
      BY DEF Init, Actors, Main, Worker
    <3> QED
      BY <3>1, <3>2, <3>3 DEF Init, TypeOK
  <2>2. Owned /\ WishesAreFresh /\ WaitedForAreOver
    BY DEF Init, Owned, WishesAreFresh, WaitedForAreOver, Actors
  <2> QED
    BY <2>1, <2>2 DEF Inv
<1>2. Inv /\ [Next]_vars => Inv'
  BY TypesStep, OwnedStep, WishesStep, WaitedStep DEF Inv
<1> QED
  BY <1>1, <1>2, PTL DEF Spec

(* Every variable keeps its type, and a taken collection is put back.      *)
THEOREM Types == Spec => []TypeOK
<1>1. Inv => TypeOK
  BY DEF Inv
<1> QED
  BY <1>1, InvHolds, PTL

(* A media sync that runs is the one whose abort handle is registered.     *)
THEOREM AbortsReach == Spec => []AbortReaches
<1>1. Inv => AbortReaches
  BY DEF Inv, Owned, AbortReaches, Running
<1> QED
  BY <1>1, InvHolds, PTL

(* Whoever waited for the media sync finds no thread of then still running.*)
THEOREM WaitsAreKept == Spec => []WaitedForAreOver
<1>1. Inv => WaitedForAreOver
  BY DEF Inv
<1> QED
  BY <1>1, InvHolds, PTL

(* No task is stopped by a wish older than itself.                         *)
THEOREM NoStaleWish == Spec => []WishesAreFresh
<1>1. Inv => WishesAreFresh
  BY DEF Inv
<1> QED
  BY <1>1, InvHolds, PTL
=============================================================================
