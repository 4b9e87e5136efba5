--------------------------- MODULE CollectionSync ---------------------------
(***************************************************************************)
(* The incremental ("normal") sync of a collection between the devices of  *)
(* one user and the sync server, and the full upload and download that     *)
(* replace it when the two sides no longer share a schema stamp.           *)
(* Source: src/rslib/src/sync/collection and src/rslib/src/sync/http_server*)
(*                                                                         *)
(* A device runs the session step by step inside one exclusive database    *)
(* transaction.  The server runs one request at a time, keeps the session  *)
(* in memory between requests, and works on an open savepoint that only    *)
(* `finish` commits.  Requests of different devices interleave freely.     *)
(*                                                                         *)
(* Cards stands for the objects that travel in chunks (cards and notes),   *)
(* Decks for those sent in one message (decks, presets, notetypes).  An    *)
(* object's content is the stamp of its last edit.                         *)
(***************************************************************************)
EXTENDS Integers, FiniteSets

CONSTANTS
  Clients,        \* the user's devices
  First,          \* the device the account was first uploaded from
  Second,         \* a device that downloaded it
  Cards, Decks,   \* object ids
  Shared,         \* the objects in that first upload
  ChunkSize,      \* CHUNK_SIZE
  TicksPerSecond, \* clock ticks per second: objects carry seconds
  MaxClock,       \* bound: no edit and no new sync from this tick on
  Ops,            \* the local operations this instance allows
  Events          \* the faults and rare events this instance allows

Objects == Cards \cup Decks

AllEvents ==
  { "fail",          \* a request or response is lost, a step errors, or the
                     \* device stops in the middle of a session
    "server_crash",  \* the server process restarts
    "finish_lost",   \* the response to `finish` never reaches the device
    "finish_crash",  \* the server stops inside `finish`, after its commit
    "full_lost",     \* the response to an upload or a download is lost
    "overtake",      \* a device changes the server between the `meta` and
                     \* the `start` of another
    "reimport" }     \* an import re-adds a deleted object under its old id
AllOps == {"create", "edit", "answer", "delete", "config", "schema"}

ASSUME ObjectsAssumption == Cards \cap Decks = {} /\ Shared \subseteq Objects
ASSUME FiniteAssumption == IsFiniteSet(Objects)
ASSUME ClientsAssumption == First \in Clients /\ Second \in Clients \ {First}
ASSUME ChunkSizeAssumption == ChunkSize \in Nat \ {0}
ASSUME TicksAssumption == TicksPerSecond \in Nat \ {0}
ASSUME MaxClockAssumption == MaxClock \in Nat
ASSUME EventsAssumption == Events \subseteq AllEvents /\ Ops \subseteq AllOps
ASSUME NobodyAssumption == "nobody" \notin Clients

VARIABLES
  clock,  \* the last millisecond stamp handed out; every stamp is fresh
  srv,    \* the server's committed collection
  work,   \* the server's collection as its open savepoint sees it
  sess,   \* the server's in-memory session
  col,    \* col[c]: the committed collection of device c
  wcol,   \* wcol[c]: the same inside the sync transaction
  pc,     \* pc[c]: the next request device c will send
  st      \* st[c]: what device c remembers of its sync attempt

vars == <<clock, srv, work, sess, col, wcol, pc, st>>
server == <<srv, work, sess>>
client == <<col, wcol, pc, st>>

-----------------------------------------------------------------------------
(* Collections.                                                            *)

Pending == -1    \* the usn of a local change not yet sent
NoGrave == -2    \* the object has no row in the graves table

Absent == [ver |-> 0, usn |-> 0]
Present(k, o) == k.obj[o].ver # 0
Secs(ver) == ver \div TicksPerSecond

(* Usn.is_pending_sync and pending_object_clause: a device asks for -1,    *)
(* the server for everything since the device's last sync.                 *)
IsPendingAfter(usn, since) ==      \* mutant: > for >=
  IF since = Pending THEN usn = Pending ELSE usn > since
IsPending(usn, since) == IF since = Pending THEN usn = Pending ELSE usn >= since

PendingGraves(k, since) == {o \in Objects : IsPending(k.grave[o], since)}
PendingObjects(k, S, since) ==
  {o \in S : Present(k, o) /\ IsPending(k.obj[o].usn, since)}
PendingReviews(k, since) == {r \in k.log : IsPending(r.usn, since)}
ReviewIds(k) == {r.id : r \in k.log}

HasPending(k) == \/ PendingGraves(k, Pending) # {}
                 \/ PendingObjects(k, Objects, Pending) # {}
                 \/ PendingReviews(k, Pending) # {}

(* What the user sees of a collection; usns and graves are bookkeeping.    *)
Content(k) == [obj  |-> [o \in Objects |-> k.obj[o].ver],
               log  |-> ReviewIds(k),
               conf |-> k.conf]

(* add.sql is INSERT OR IGNORE: a grave that exists keeps its usn.         *)
AddGraves(grave, gone, usn) ==
  [o \in Objects |-> IF o \in gone /\ grave[o] = NoGrave THEN usn ELSE grave[o]]

ApplyGraves(k, gone, usn) ==
  [k EXCEPT !.obj   = [o \in Objects |-> IF o \in gone THEN Absent ELSE @[o]],
            !.grave = AddGraves(@, gone, usn)]

(* update_pending_grave_usns *)
MarkGraves(k, usn) ==
  [k EXCEPT !.grave = [o \in Objects |-> IF @[o] = Pending THEN usn ELSE @[o]]]

(* maybe_update_object_usns: what is about to be sent stops being pending. *)
MarkObjects(k, objs, reviews, usn) ==
  [k EXCEPT !.obj = [o \in Objects |-> IF o \in objs THEN [@[o] EXCEPT !.usn = usn]
                                       ELSE @[o]],
            !.log = (@ \ reviews) \cup {[r EXCEPT !.usn = usn] : r \in reviews}]

(* Objects on the wire: the rows of S in k.                                *)
Rows(k, S) == [o \in S |-> k.obj[o]]

(* merge_decks, merge_notetypes, merge_deck_config: not older wins.        *)
MergeUnchunkedInverted(k, rows) ==  \* mutant: the older side wins
  [k EXCEPT !.obj = [o \in Objects |->
     IF o \in DOMAIN rows /\ (\/ ~Present(k, o)
                              \/ Secs(@[o].ver) > Secs(rows[o].ver))
     THEN rows[o] ELSE @[o]]]
MergeUnchunked(k, rows) ==
  [k EXCEPT !.obj = [o \in Objects |->
     IF o \in DOMAIN rows /\ (\/ ~Present(k, o)
                              \/ Secs(@[o].ver) <= Secs(rows[o].ver))
     THEN rows[o] ELSE @[o]]]

(* apply_chunk: a locally changed object is replaced only by a newer one,  *)
(* and a review log entry never replaces one with the same id.             *)
MergeChunkReplacingLog(k, rows, reviews, since) ==  \* mutant: pending reviews are dropped
  [k EXCEPT !.obj = [o \in Objects |->
              IF o \in DOMAIN rows /\ (\/ ~Present(k, o)
                                       \/ ~IsPending(@[o].usn, since)
                                       \/ Secs(@[o].ver) < Secs(rows[o].ver))
              THEN rows[o] ELSE @[o]],
            !.log = {r \in @ : ~IsPending(r.usn, since)} \cup reviews]
MergeChunk(k, rows, reviews, since) ==
  [k EXCEPT !.obj = [o \in Objects |->
              IF o \in DOMAIN rows /\ (\/ ~Present(k, o)
                                       \/ ~IsPending(@[o].usn, since)
                                       \/ Secs(@[o].ver) < Secs(rows[o].ver))
              THEN rows[o] ELSE @[o]],
            !.log = @ \cup {r \in reviews : r.id \notin ReviewIds(k)}]

Conf(k, conf) == [k EXCEPT !.conf = conf]

-----------------------------------------------------------------------------
(* Sessions.                                                               *)

Nobody == "nobody"
NoIds == [objs |-> {}, log |-> {}]
NoSession == [owner |-> Nobody, usn |-> 0, cusn |-> 0, newer |-> FALSE,
              chunking |-> FALSE, ids |-> NoIds]
NoState == [susn |-> 0, cusn |-> 0, newer |-> FALSE, graves |-> {}, remote |-> {},
            ids |-> NoIds, may |-> {}]

Owns(c) == sess.owner = c
InSession(c) == pc[c] \in {"graves", "changes", "pull", "push", "sanity", "finish"}

(* get_chunk pops reviews, notes and cards in turn until the limit is      *)
(* reached, so it may overshoot by two; a chunk below the limit is the     *)
(* last.                                                                   *)
Chunks(ids) ==
  {t \in [objs : SUBSET ids.objs, log : SUBSET ids.log] :
     LET n == Cardinality(t.objs) + Cardinality(t.log)
     IN n <= ChunkSize + 2 /\ (t = ids \/ n >= ChunkSize)}
IsLastEarly(t) == Cardinality(t.objs) + Cardinality(t.log) <= ChunkSize  \* mutant: limit >= 0
IsNeverLast(t) == FALSE                                                 \* mutant: done is never set
IsLast(t) == Cardinality(t.objs) + Cardinality(t.log) < ChunkSize
Rest(ids, t) == [objs |-> ids.objs \ t.objs, log |-> ids.log \ t.log]

ChunkableIds(k, since) == [objs |-> PendingObjects(k, Cards, since),
                           log  |-> PendingReviews(k, since)]

(* Graves.take_chunk: exactly the limit, or all that is left.              *)
GraveChunks(gone) ==
  {t \in SUBSET gone : /\ Cardinality(t) <= ChunkSize
                       /\ t = gone \/ Cardinality(t) = ChunkSize}

-----------------------------------------------------------------------------
(* The account starts out uploaded by First and downloaded by Second.      *)

Uploaded == [obj |-> [o \in Objects |-> IF o \in Shared THEN [ver |-> 1, usn |-> 0] ELSE Absent],
             grave |-> [o \in Objects |-> NoGrave], log |-> {}, conf |-> 1,
             usn |-> 1, mod |-> 1, scm |-> 1, ls |-> 1]
Downloaded == [Uploaded EXCEPT !.usn = 2, !.mod = 2, !.ls = 2]
Fresh == [obj |-> [o \in Objects |-> Absent], grave |-> [o \in Objects |-> NoGrave],
          log |-> {}, conf |-> 0, usn |-> 0, mod |-> 0, scm |-> 0, ls |-> 0]

Init ==
  /\ clock = 2
  /\ srv = [Downloaded EXCEPT !.ls = 1]
  /\ work = srv
  /\ sess = NoSession
  /\ col = [c \in Clients |-> CASE c = First -> Uploaded
                                [] c = Second -> Downloaded
                                [] OTHER -> Fresh]
  /\ wcol = col
  /\ pc = [c \in Clients |-> "idle"]
  /\ st = [c \in Clients |-> NoState]

-----------------------------------------------------------------------------
(* Local operations.  The backend holds the collection lock while a sync   *)
(* runs, so they happen only between attempts.                             *)

Now == clock + 1

(* Every local operation ends in set_modified and leaves usn -1 behind.    *)
CommitUnstamped(c, k) ==            \* mutant: no set_modified
  /\ clock < MaxClock
  /\ clock' = Now
  /\ col' = [col EXCEPT ![c] = k]
  /\ wcol' = [wcol EXCEPT ![c] = col'[c]]
  /\ UNCHANGED <<server, pc, st>>
Commit(c, k) ==
  /\ clock < MaxClock
  /\ clock' = Now
  /\ col' = [col EXCEPT ![c] = [k EXCEPT !.mod = Now]]
  /\ wcol' = [wcol EXCEPT ![c] = col'[c]]
  /\ UNCHANGED <<server, pc, st>>

Touch(k, o) == [k EXCEPT !.obj[o] = [ver |-> Now, usn |-> Pending]]

Known(k, o) == Present(k, o) \/ k.grave[o] # NoGrave

(* A new id is a fresh timestamp; only an import brings its ids along.     *)
Create(c, o) ==
  /\ "create" \in Ops /\ pc[c] = "idle"
  /\ ~Present(col[c], o)
  /\ \/ "reimport" \in Events
     \/ \A k \in {srv, work} \cup {col[d] : d \in Clients} : ~Known(k, o)
  /\ Commit(c, Touch(col[c], o))

Edit(c, o) ==
  /\ "edit" \in Ops /\ pc[c] = "idle"
  /\ Present(col[c], o)
  /\ Commit(c, Touch(col[c], o))

Answer(c, o) ==
  /\ "answer" \in Ops /\ pc[c] = "idle"
  /\ Present(col[c], o)
  /\ Commit(c, [Touch(col[c], o) EXCEPT !.log = @ \cup {[id |-> Now, usn |-> Pending]}])

Delete(c, o) ==
  /\ "delete" \in Ops /\ pc[c] = "idle"
  /\ Present(col[c], o)
  /\ Commit(c, ApplyGraves(col[c], {o}, Pending))

SetConfig(c) ==
  /\ "config" \in Ops /\ pc[c] = "idle"
  /\ Commit(c, Conf(col[c], Now))

ChangeSchema(c) ==
  /\ "schema" \in Ops /\ pc[c] = "idle"
  /\ Commit(c, [col[c] EXCEPT !.scm = Now])

-----------------------------------------------------------------------------
(* One sync attempt of device c.  Each action is one request, the server's *)
(* handler, and what the device does with the response.                    *)

(* Without "overtake", nobody changes the server while another device is   *)
(* between its `meta` and its `start`.                                     *)
Undisturbed(c) ==
  "overtake" \in Events \/ \A d \in Clients \ {c} : pc[d] # "met"

SessionStays == UNCHANGED <<sess, work>>  \* mutant: sync_state is not cleared
NoActiveSession == sess' = NoSession /\ work' = srv'

CommitInstead(c) ==                 \* mutant: the transaction is committed
  /\ pc' = [pc EXCEPT ![c] = "idle"]
  /\ st' = [st EXCEPT ![c] = NoState]
  /\ UNCHANGED wcol
  /\ col' = [col EXCEPT ![c] = wcol[c]]
RollBack(c) ==
  /\ pc' = [pc EXCEPT ![c] = "idle"]
  /\ st' = [st EXCEPT ![c] = NoState]
  /\ wcol' = [wcol EXCEPT ![c] = col[c]]
  /\ UNCHANGED col

(* After a failure the device sends `abort`, which ends whatever session is *)
(* active, its own or not.  It arrives or it does not.                     *)
GiveUp(c) ==
  /\ RollBack(c)
  /\ UNCHANGED <<clock, srv>>
  /\ NoActiveSession \/ UNCHANGED <<sess, work>>

Goto(c, stage) == pc' = [pc EXCEPT ![c] = stage]

Meta(c) ==
  /\ pc[c] = "idle"
  /\ clock < MaxClock
  /\ UNCHANGED srv
  /\ NoActiveSession
  /\ \/ /\ srv.mod = col[c].mod
        /\ UNCHANGED <<clock, client>>
     \/ /\ srv.mod # col[c].mod
        /\ srv.scm # col[c].scm
        /\ Goto(c, "full")
        /\ LET empty(k) == \A o \in Cards : ~Present(k, o)
           IN st' = [st EXCEPT ![c] = [NoState EXCEPT !.may =
                 (IF empty(col[c]) /\ ~empty(srv) THEN {} ELSE {"upload"}) \cup
                 (IF empty(srv) /\ ~empty(col[c]) THEN {} ELSE {"download"})]]
        /\ UNCHANGED <<clock, col, wcol>>
     \/ /\ srv.mod # col[c].mod
        /\ srv.scm = col[c].scm
        /\ Goto(c, "met")
        /\ st' = [st EXCEPT ![c] = [NoState EXCEPT !.susn = srv.usn, !.cusn = col[c].usn,
                                                  !.newer = col[c].mod > srv.mod]]
        /\ UNCHANGED <<clock, col, wcol>>

(* server_start, and the part of start_and_process_deletions before the    *)
(* graves are sent.  An active session is replaced.                        *)
Start(c) ==
  /\ pc[c] = "met"
  /\ work' = srv
  /\ st' = [st EXCEPT ![c].graves = PendingGraves(col[c], Pending),
                      ![c].remote = PendingGraves(srv, st[c].cusn)]
  /\ sess' = [NoSession EXCEPT !.owner = c, !.usn = srv.usn, !.cusn = st[c].cusn,
                               !.newer = st[c].newer]
  /\ wcol' = [wcol EXCEPT ![c] = MarkGraves(@, st[c].susn)]
  /\ Goto(c, "graves")
  /\ UNCHANGED <<clock, srv, col>>

SendGraves(c) ==
  /\ pc[c] = "graves" /\ Owns(c)
  /\ st[c].graves # {}
  /\ \E t \in GraveChunks(st[c].graves) :
       /\ work' = ApplyGraves(work, t, sess.usn)
       /\ st' = [st EXCEPT ![c].graves = @ \ t]
  /\ UNCHANGED <<clock, srv, sess, col, wcol, pc>>

ApplyRemoteGraves(c) ==
  /\ pc[c] = "graves"
  /\ st[c].graves = {}
  /\ wcol' = [wcol EXCEPT ![c] = ApplyGraves(@, st[c].remote, st[c].susn)]
  /\ Goto(c, "changes")
  /\ UNCHANGED <<clock, server, col, st>>

(* The server collects its own changes before it merges the device's.      *)
SendChanges(c) ==
  /\ pc[c] = "changes" /\ Owns(c)
  /\ LET mine == PendingObjects(wcol[c], Decks, Pending)
         sent == MarkObjects(wcol[c], mine, {}, st[c].susn)
         theirs == PendingObjects(work, Decks, sess.cusn)
         there == MergeUnchunked(work, Rows(sent, mine))
         here == MergeUnchunked(sent, Rows(work, theirs))
     IN /\ work' = IF st[c].newer THEN Conf(there, sent.conf) ELSE there
        /\ wcol' = [wcol EXCEPT ![c] = IF sess.newer THEN here ELSE Conf(here, work.conf)]
  /\ Goto(c, "pull")
  /\ UNCHANGED <<clock, srv, sess, col, st>>

PullChunk(c) ==
  /\ pc[c] = "pull" /\ Owns(c)
  /\ LET ids == IF sess.chunking THEN sess.ids ELSE ChunkableIds(work, sess.cusn)
     IN \E t \in Chunks(ids) :
          /\ sess' = [sess EXCEPT !.chunking = TRUE, !.ids = Rest(ids, t)]
          /\ wcol' = [wcol EXCEPT ![c] = MergeChunk(@, Rows(work, t.objs), t.log, Pending)]
          /\ IF IsLast(t)
             THEN /\ Goto(c, "push")
                  /\ st' = [st EXCEPT ![c].ids = ChunkableIds(wcol'[c], Pending)]
             ELSE UNCHANGED <<pc, st>>
  /\ UNCHANGED <<clock, srv, work, col>>

PushChunk(c) ==
  /\ pc[c] = "push" /\ Owns(c)
  /\ \E t \in Chunks(st[c].ids) :
       LET sent == MarkObjects(wcol[c], t.objs, t.log, st[c].susn)
           reviews == {[r EXCEPT !.usn = st[c].susn] : r \in t.log}
       IN /\ wcol' = [wcol EXCEPT ![c] = sent]
          /\ work' = MergeChunk(work, Rows(sent, t.objs), reviews, sess.cusn)
          /\ st' = [st EXCEPT ![c].ids = Rest(@, t)]
          /\ pc' = IF IsLast(t) THEN [pc EXCEPT ![c] = "sanity"] ELSE pc
  /\ UNCHANGED <<clock, srv, sess, col>>

Counts(k) == [cards |-> Cardinality({o \in Cards : Present(k, o)}),
              decks |-> Cardinality({o \in Decks : Present(k, o)}),
              log   |-> Cardinality(k.log)]
Sane(c) == ~HasPending(work) /\ Counts(wcol[c]) = Counts(work)

SanityCheck(c) ==
  /\ pc[c] = "sanity" /\ Owns(c)
  /\ ~HasPending(wcol[c])
  /\ Sane(c)
  /\ Goto(c, "finish")
  /\ UNCHANGED <<clock, server, col, wcol, st>>

(* The server rolls back at once but keeps the session; the device rolls   *)
(* back and changes its schema stamp, which forces a full sync.            *)
SanityFailed(c) ==
  /\ pc[c] = "sanity" /\ Owns(c)
  /\ ~HasPending(wcol[c])
  /\ ~Sane(c)
  /\ clock' = Now
  /\ col' = [col EXCEPT ![c].scm = Now]
  /\ pc' = [pc EXCEPT ![c] = "idle"]
  /\ st' = [st EXCEPT ![c] = NoState]
  /\ wcol' = [wcol EXCEPT ![c] = col'[c]]
  /\ work' = srv
  /\ sess' \in {sess, NoSession}
  /\ UNCHANGED srv

(* server_finish up to its commit, and then its last statement, which is   *)
(* outside the transaction.                                                *)
Committed(k) == [k EXCEPT !.usn = @ + 1, !.ls = Now]
Stamped(k) == [k EXCEPT !.mod = Now]

Finish(c) ==
  /\ pc[c] = "finish" /\ Owns(c) /\ Undisturbed(c)
  /\ clock' = Now
  /\ srv' = Stamped(Committed(work))
  /\ NoActiveSession
  /\ col' = [col EXCEPT ![c] = [wcol[c] EXCEPT !.usn = st[c].susn + 1, !.mod = Now, !.ls = Now]]
  /\ wcol' = [wcol EXCEPT ![c] = col'[c]]
  /\ pc' = [pc EXCEPT ![c] = "idle"]
  /\ st' = [st EXCEPT ![c] = NoState]

FinishLost(c) ==
  /\ "finish_lost" \in Events
  /\ pc[c] = "finish" /\ Owns(c) /\ Undisturbed(c)
  /\ clock' = Now
  /\ srv' = Stamped(Committed(work))
  /\ NoActiveSession
  /\ RollBack(c)

FinishCrash(c) ==
  /\ "finish_crash" \in Events
  /\ pc[c] = "finish" /\ Owns(c) /\ Undisturbed(c)
  /\ clock' = Now
  /\ srv' = Committed(work)
  /\ NoActiveSession
  /\ RollBack(c)

(* The session is gone or belongs to another device: HTTP 409.             *)
Conflict(c) ==
  /\ InSession(c) /\ ~Owns(c)
  /\ GiveUp(c)

Fail(c) ==
  /\ "fail" \in Events
  /\ pc[c] # "idle"
  /\ GiveUp(c)

ServerCrash ==
  /\ "server_crash" \in Events
  /\ sess # NoSession
  /\ UNCHANGED <<clock, srv, client>>
  /\ NoActiveSession

-----------------------------------------------------------------------------
(* Full sync, in the direction the user chooses.                           *)

ForUpload(k) ==
  [k EXCEPT !.obj = [o \in Objects |-> IF o \in Decks \/ @[o].usn = Pending
                                       THEN [@[o] EXCEPT !.usn = 0] ELSE @[o]],
            !.grave = [o \in Objects |-> NoGrave],
            !.log = {IF r.usn = Pending THEN [r EXCEPT !.usn = 0] ELSE r : r \in @},
            !.usn = @ + 1, !.scm = Now, !.ls = Now, !.mod = Now]

ChooseUpload(c) ==
  /\ pc[c] = "full" /\ "upload" \in st[c].may
  /\ clock' = Now
  /\ col' = [col EXCEPT ![c] = ForUpload(@)]
  /\ wcol' = [wcol EXCEPT ![c] = col'[c]]
  /\ Goto(c, "uploading")
  /\ UNCHANGED <<server, st>>

(* A lost response leaves the same state: the device changes nothing more. *)
Upload(c) ==
  /\ pc[c] = "uploading" /\ Undisturbed(c)
  /\ srv' = col[c]
  /\ NoActiveSession
  /\ Goto(c, "idle")
  /\ st' = [st EXCEPT ![c] = NoState]
  /\ UNCHANGED <<clock, col, wcol>>

ServeDownload(c) ==
  /\ pc[c] = "full" /\ "download" \in st[c].may /\ Undisturbed(c)
  /\ clock' = Now
  /\ srv' = [srv EXCEPT !.usn = @ + 1, !.mod = Now]
  /\ NoActiveSession
  /\ pc' = [pc EXCEPT ![c] = "idle"]
  /\ st' = [st EXCEPT ![c] = NoState]

Download(c) ==
  /\ ServeDownload(c)
  /\ col' = [col EXCEPT ![c] = [srv' EXCEPT !.ls = srv'.mod]]
  /\ wcol' = [wcol EXCEPT ![c] = col'[c]]

DownloadLost(c) ==
  /\ "full_lost" \in Events
  /\ ServeDownload(c)
  /\ UNCHANGED <<col, wcol>>

CancelFull(c) ==
  /\ pc[c] = "full"
  /\ pc' = [pc EXCEPT ![c] = "idle"]
  /\ st' = [st EXCEPT ![c] = NoState]
  /\ UNCHANGED <<clock, server, col, wcol>>

-----------------------------------------------------------------------------
Local(c) ==
  \/ \E o \in Objects : Create(c, o) \/ Edit(c, o) \/ Delete(c, o)
  \/ \E o \in Cards : Answer(c, o)
  \/ SetConfig(c)
  \/ ChangeSchema(c)

(* The steps of an attempt that has begun, and what can go wrong in one.   *)
Proceed(c) ==
  \/ Start(c) \/ SendGraves(c) \/ ApplyRemoteGraves(c) \/ SendChanges(c)
  \/ PullChunk(c) \/ PushChunk(c) \/ SanityCheck(c) \/ SanityFailed(c)
  \/ Finish(c) \/ Conflict(c)
  \/ ChooseUpload(c) \/ Upload(c) \/ Download(c) \/ CancelFull(c)
Fault(c) == FinishLost(c) \/ FinishCrash(c) \/ DownloadLost(c) \/ Fail(c)

Next == ServerCrash \/ \E c \in Clients : Local(c) \/ Meta(c) \/ Proceed(c) \/ Fault(c)

(* A started attempt goes on: the device sends its next request, and the   *)
(* server answers it.  The user's edits, the decision to sync, and faults  *)
(* have no fairness.                                                       *)
Fairness == \A c \in Clients : WF_vars(Proceed(c))

Spec == Init /\ [][Next]_vars /\ Fairness

-----------------------------------------------------------------------------
(* Properties.                                                             *)

Usns(own) == IF own = "device" THEN Nat \cup {Pending} ELSE Nat
Collection(own) ==
  [obj   : [Objects -> [ver : Nat, usn : Usns(own)]],
   grave : [Objects -> Usns(own) \cup {NoGrave}],
   log   : SUBSET [id : Nat, usn : Usns(own)],
   conf : Nat, usn : Nat, mod : Nat, scm : Nat, ls : Nat]
Ids == [objs : SUBSET Cards, log : SUBSET [id : Nat, usn : Nat \cup {Pending}]]
Session == [owner : Clients \cup {Nobody}, usn : Nat, cusn : Nat, newer : BOOLEAN,
            chunking : BOOLEAN, ids : Ids]
State == [susn : Nat, cusn : Nat, newer : BOOLEAN, graves : SUBSET Objects,
          remote : SUBSET Objects, ids : Ids, may : SUBSET {"upload", "download"}]
Stages == {"idle", "met", "graves", "changes", "pull", "push", "sanity", "finish",
           "full", "uploading"}

(* Every variable holds a value the program can hold; in particular the    *)
(* pending usn -1 never enters the server's collection, committed or not.  *)
TypeOK ==
  /\ clock \in Nat
  /\ srv \in Collection("server") /\ work \in Collection("server")
  /\ sess \in Session
  /\ col \in [Clients -> Collection("device")]
  /\ wcol \in [Clients -> Collection("device")]
  /\ pc \in [Clients -> Stages]
  /\ st \in [Clients -> State]

(* "Your collection is up to date": whenever a device would be told that   *)
(* there are no changes (equal modification stamps in `meta`), it has the  *)
(* server's cards, decks, review log and options, whatever interleaving of *)
(* edits, sessions, failures and full syncs came before.                   *)
Converged ==
  \A c \in Clients :
    pc[c] = "idle" /\ col[c].mod = srv.mod => Content(col[c]) = Content(srv)

(* The part of Converged that the manual promises for normal syncs: edits  *)
(* and reviews of two devices are both preserved, and a card ends up as it *)
(* was last answered (docs-site/manual/syncing.mdx, "Conflicts").          *)
EditsMerged ==
  \A c \in Clients : pc[c] = "idle" /\ col[c].mod = srv.mod =>
    /\ Content(col[c]).obj = Content(srv).obj
    /\ ReviewIds(col[c]) = ReviewIds(srv)

(* The usn bookkeeping misses nothing: each object in which a device       *)
(* differs from the server is marked pending on the device, or carries a   *)
(* server usn that the device's next `start` asks for.                     *)
WillBeSent(k, o) == k.obj[o].usn = Pending \/ k.grave[o] = Pending
WillBeFetched(k, o) == IF Present(srv, o) THEN srv.obj[o].usn >= k.usn
                                        ELSE srv.grave[o] >= k.usn
NothingMissed ==
  \A c \in Clients : col[c].scm = srv.scm =>
    /\ \A o \in Objects : \/ col[c].obj[o].ver = srv.obj[o].ver
                          \/ WillBeSent(col[c], o)
                          \/ WillBeFetched(col[c], o)
    /\ \A r \in srv.log : r.id \in ReviewIds(col[c]) \/ r.usn >= col[c].usn
    /\ \A r \in col[c].log : r.id \in ReviewIds(srv) \/ r.usn = Pending

(* An open session is built on the server's latest commit, so committing   *)
(* it cannot undo what another device committed: the session keeps every   *)
(* review and, unless the schema changed under it, loses or ages an object *)
(* only when somebody deleted that object.                                 *)
SessionOnLatest ==
  \A c \in Clients : Owns(c) =>
    /\ sess.usn = srv.usn
    /\ ReviewIds(srv) \subseteq ReviewIds(work)
    /\ col[c].scm = srv.scm => \A o \in Objects : Present(srv, o) =>
         \/ Present(work, o) /\ Secs(work.obj[o].ver) >= Secs(srv.obj[o].ver)
         \/ work.grave[o] # NoGrave

(* The sanity check is a safety net, not part of the protocol: a session   *)
(* that got that far agrees with the server's counts and has nothing left  *)
(* to send, so no user is forced into a one-way sync.                      *)
SanityHolds ==
  \A c \in Clients : pc[c] = "sanity" /\ Owns(c) => ~HasPending(wcol[c]) /\ Sane(c)

(* sync_status_offline *)
OfflineStatus(k) ==
  CASE k.ls = 0 -> "no_changes"
    [] k.ls # 0 /\ k.scm > k.ls -> "full_sync"
    [] k.ls # 0 /\ k.scm <= k.ls /\ k.mod > k.ls -> "normal_sync"
    [] OTHER -> "no_changes"

(* A device with unsent changes says so without asking the server, also    *)
(* after sessions that failed half-way or whose outcome it never learned.  *)
OfflineStatusSound ==
  \A c \in Clients : pc[c] = "idle" /\ col[c].ls # 0 /\ HasPending(col[c])
                     => OfflineStatus(col[c]) # "no_changes"

(* What a device had changed is on the server when its session commits:    *)
(* each edited object in that state or a more recent one unless someone    *)
(* deleted it, each deletion, and each review.  It also holds when the     *)
(* device never learns of the commit.                                      *)
CommitKeepsLocalWork ==
  [][\A c \in Clients :
       pc[c] = "finish" /\ pc'[c] = "idle" /\ srv' # srv /\ col[c].scm = srv.scm =>
         /\ \A o \in PendingObjects(col[c], Objects, Pending) :
              \/ Secs(srv'.obj[o].ver) >= Secs(col[c].obj[o].ver)
              \/ srv'.grave[o] # NoGrave
         /\ \A o \in PendingGraves(col[c], Pending) :
              Present(srv', o) => Present(col[c], o)
         /\ ReviewIds(col[c]) \subseteq ReviewIds(srv')]_vars

(* Short of a full sync, which the user chooses, no step of anyone makes a *)
(* collection forget an answer: the review log only grows.                 *)
KeepsReviews ==
  /\ srv'.scm = srv.scm => ReviewIds(srv) \subseteq ReviewIds(srv')
  /\ \A c \in Clients :
       col'[c].scm = col[c].scm => ReviewIds(col[c]) \subseteq ReviewIds(col'[c])
ReviewsKept == [][KeepsReviews]_vars

(* Every sync attempt comes to an end.                                     *)
AttemptsEnd == \A c \in Clients : pc[c] # "idle" ~> pc[c] = "idle"
=============================================================================
