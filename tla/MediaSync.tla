------------------------------ MODULE MediaSync ------------------------------
(***************************************************************************)
(* Media sync: every device keeps a folder of files and a database that    *)
(* remembers what was last seen in it; the server keeps a folder, a table  *)
(* of files stamped with usns, and a count.  Devices scan, fetch what      *)
(* changed since their usn, upload what is marked, and compare counts.     *)
(* Source: src/rslib/src/sync/media, src/rslib/src/media,                  *)
(* src/rslib/src/sync/http_server/media_manager                            *)
(*                                                                         *)
(* A file's content stands for its checksum too.  The folder's             *)
(* modification time is kept as whether it equals the time stored in the   *)
(* database (unscanned: it does not).  Server calls hold the user's lock,  *)
(* so each is one action; a call whose answer is lost leaves its effect    *)
(* and ends the sync.                                                      *)
(***************************************************************************)
EXTENDS Integers, FiniteSets

CONSTANTS
  Devices,
  Files,        \* file names, all of them normalized
  Contents,     \* what a file may hold
  None,         \* no file, or no checksum
  ZipLimit,     \* MAX_MEDIA_FILES_IN_ZIP
  ChunkLimit,   \* records in one answer to media_changes
  EditsInSync,  \* whether users touch a folder while its device syncs
  Faults,       \* bound: interrupted syncs and rolled back uploads
  MaxEdits      \* bound: changes users make

ASSUME NoneAssumption == None \notin Contents
ASSUME FilesAssumption == IsFiniteSet(Files)
ASSUME LimitAssumption == {ZipLimit, ChunkLimit} \subseteq Nat \ {0}
ASSUME BoundsAssumption == {Faults, MaxEdits} \subseteq Nat

VARIABLES
  store,     \* the server's media table
  blobs,     \* the files in the server's media folder
  meta,      \* the server's last_usn and total_nonempty_files
  folder,    \* the files in each device's media folder
  rows,      \* each device's media table
  usn,       \* each device's last_sync_usn
  unscanned, \* whether the folder's time differs from the stored one
  sync,      \* the sync each device is running
  faults, edits,
  deleted,   \* history: files some user has removed
  slipped    \* history: files whose change a device's marks have passed over

vars == <<store, blobs, meta, folder, rows, usn, unscanned, sync, faults, edits, deleted, slipped>>
server == <<store, blobs, meta>>
local == <<folder, rows, usn, unscanned>>
history == <<edits, deleted, slipped>>

Sums == Contents \cup {None}
NoRow == [known |-> FALSE, sum |-> None, dirty |-> FALSE]
MediaEntry == [known : {TRUE}, sum : Sums, dirty : BOOLEAN] \cup {NoRow}
Entry(sum, dirty) == [known |-> TRUE, sum |-> sum, dirty |-> dirty]
Cleaned(row) == IF row.dirty THEN Entry(row.sum, FALSE) ELSE row

(* The sync of a device: where it is, the usn of its copy of the metadata, *)
(* the files left to download with the usns that order them (0: none), the *)
(* files to delete, what it got, the marked files the server has by now    *)
(* with the content it has of them, and the usn an upload was answered     *)
(* with.                                                                   *)
Nothing == [f \in Files |-> None]
Idle == [pc |-> "idle", last_usn |-> 0, acted |-> FALSE, download |-> [f \in Files |-> 0],
         delete |-> {}, got |-> Nothing, marked |-> {}, agreed |-> Nothing, reply |-> 0]

Pending(d) == {f \in Files : rows[d][f].dirty}
Nonempty == {f \in Files : store[f].sum # None}

Init ==
  /\ store = [f \in Files |-> [sum |-> None, usn |-> 0]]
  /\ blobs = [f \in Files |-> None]
  /\ meta = [last_usn |-> 0, files |-> 0]
  /\ folder = [d \in Devices |-> [f \in Files |-> None]]
  /\ rows = [d \in Devices |-> [f \in Files |-> NoRow]]
  /\ usn = [d \in Devices |-> 0]
  /\ unscanned = [d \in Devices |-> TRUE]
  /\ sync = [d \in Devices |-> Idle]
  /\ faults = 0
  /\ edits = 0
  /\ deleted = {}
  /\ slipped = [d \in Devices |-> {}]

-----------------------------------------------------------------------------
(* The user and the folder *)

Edit(d) ==
  /\ edits < MaxEdits
  /\ EditsInSync \/ sync[d].pc = "idle"
  /\ edits' = edits + 1
  /\ UNCHANGED <<server, usn, sync, faults, slipped>>

(* A file put into, replaced in or removed from the folder by another      *)
(* program.  The folder's time moves, except that a file may be written    *)
(* over in place; nothing else knows.                                      *)
ChangeOutside(d, f, c) ==
  /\ Edit(d)
  /\ folder[d][f] # c
  /\ folder' = [folder EXCEPT ![d][f] = c]
  /\ \/ unscanned' = [unscanned EXCEPT ![d] = TRUE]
     \/ folder[d][f] # None /\ c # None /\ UNCHANGED unscanned
  /\ deleted' = IF c = None THEN deleted \cup {f} ELSE deleted
  /\ UNCHANGED rows

(* A file added through the collection.  A name in use by another content  *)
(* is not reused: the file gets a name of its own.                         *)
AddFile(d, f, c) ==
  /\ Edit(d)
  /\ folder[d][f] \in {None, c}
  /\ folder' = [folder EXCEPT ![d][f] = c]
  /\ rows' = IF rows[d][f].sum = c THEN rows ELSE [rows EXCEPT ![d][f] = Entry(c, TRUE)]
  /\ UNCHANGED <<unscanned, deleted>>

(* media::files::remove_files stops at the first file that is not there;   *)
(* the sync's list is in the order of the server's usns.                   *)
Removable(d, gone) ==
  {f \in gone : \A g \in gone : store[g].usn <= store[f].usn => folder[d][g] # None}

(* Mutant: the removal is not marked for upload. *)
MarkRemovedClean(d, gone) ==
  [f \in Files |-> IF f \in gone /\ rows[d][f].known THEN Entry(None, FALSE) ELSE rows[d][f]]

MarkRemoved(d, gone) ==
  [f \in Files |-> IF f \in gone /\ rows[d][f].known THEN Entry(None, TRUE) ELSE rows[d][f]]

RemoveFiles(d, gone) ==
  /\ folder' = [folder EXCEPT ![d] = [f \in Files |-> IF f \in Removable(d, gone) THEN None ELSE @[f]]]
  /\ rows' = [rows EXCEPT ![d] = MarkRemoved(d, gone)]

TrashFile(d, f) ==
  /\ Edit(d)
  /\ folder[d][f] # None
  /\ RemoveFiles(d, {f})
  /\ deleted' = deleted \cup {f}
  /\ UNCHANGED unscanned

-----------------------------------------------------------------------------
(* The scan *)

(* Only rows that differ from the folder change; they become marked.       *)
Scanned(d) ==
  [f \in Files |-> IF rows[d][f].sum # folder[d][f] THEN Entry(folder[d][f], TRUE) ELSE rows[d][f]]

RegisterChanges(d) ==
  /\ rows' = IF unscanned[d] THEN [rows EXCEPT ![d] = Scanned(d)] ELSE rows
  /\ unscanned' = [unscanned EXCEPT ![d] = FALSE]

(* The media check, an import or an export scans between syncs or beside   *)
(* one.                                                                    *)
Scan(d) ==
  /\ unscanned[d]
  /\ EditsInSync \/ sync[d].pc = "idle"
  /\ RegisterChanges(d)
  /\ UNCHANGED <<server, folder, usn, sync, faults, history>>

-----------------------------------------------------------------------------
(* Sync: begin *)

Goto(d, pc) == sync' = [sync EXCEPT ![d].pc = pc]

(* Fetch if the server's usn is not the one of the copied metadata.        *)
AfterBegin(d, client_usn) ==
  IF client_usn # meta.last_usn
  THEN [Idle EXCEPT !.pc = "fetch", !.last_usn = client_usn, !.acted = TRUE]
  ELSE [Idle EXCEPT !.pc = "send", !.last_usn = client_usn]

(* The server's usn comes from the meta of a collection sync just done ... *)
StartGiven(d) ==
  /\ sync[d].pc = "idle"
  /\ RegisterChanges(d)
  /\ sync' = [sync EXCEPT ![d] = AfterBegin(d, usn[d])]
  /\ UNCHANGED <<server, folder, usn, faults, history>>

(* ... or from a request of its own, after the scan.                       *)
Start(d) ==
  /\ sync[d].pc = "idle"
  /\ RegisterChanges(d)
  /\ sync' = [sync EXCEPT ![d] = [Idle EXCEPT !.pc = "begin", !.last_usn = usn[d]]]
  /\ UNCHANGED <<server, folder, usn, faults, history>>

Begin(d) ==
  /\ sync[d].pc = "begin"
  /\ sync' = [sync EXCEPT ![d] = AfterBegin(d, sync[d].last_usn)]
  /\ UNCHANGED <<server, local, faults, history>>

-----------------------------------------------------------------------------
(* Sync: fetch *)

(* The records above the usn in the order of their index, cut to a chunk.  *)
Changed(after) == {f \in Files : store[f].usn > after}
MediaChangesChunk(after) ==
  {f \in Changed(after) :
     Cardinality({g \in Changed(after) : store[g].usn <= store[f].usn}) <= ChunkLimit}

(* Mutant: the server's deletion wins over a local addition. *)
RequiredChangeDeleting(l, remote) ==
  CASE l.sum = None /\ remote = None -> IF l.known THEN "delete" ELSE "none"
    [] l.sum = None /\ remote # None -> "download"
    [] l.sum # None /\ remote = None -> "delete"
    [] l.sum = remote /\ remote # None -> IF l.dirty THEN "remove_pending" ELSE "none"
    [] OTHER -> "download"

RequiredChange(l, remote) ==
  CASE l.sum = None /\ remote = None -> IF l.known THEN "delete" ELSE "none"
    [] l.sum = None /\ remote # None -> "download"
    [] l.sum # None /\ remote = None -> IF l.dirty THEN "none" ELSE "delete"
    [] l.sum = remote /\ remote # None -> IF l.dirty THEN "remove_pending" ELSE "none"
    [] OTHER -> "download"

(* The answer to media_changes: decide, and remove the deleted files.      *)
FetchChanges(d, last) ==
  LET batch == MediaChangesChunk(sync[d].last_usn)
      Required(what) == {f \in batch : RequiredChange(rows[d][f], store[f].sum) = what}
  IN
  /\ sync[d].pc = "fetch"
  /\ last \in batch
  /\ \A f \in batch : store[f].usn <= store[last].usn
  /\ RemoveFiles(d, Required("delete"))
  /\ sync' = [sync EXCEPT ![d] =
       [@ EXCEPT !.pc = "download",
                 !.last_usn = store[last].usn,
                 !.download = [f \in Files |-> IF f \in Required("download") THEN store[f].usn ELSE 0],
                 !.delete = Required("delete"),
                 !.marked = Required("remove_pending"),
                 !.agreed = [f \in Files |-> store[f].sum]]]
  /\ UNCHANGED <<server, usn, unscanned, faults, history>>

FetchDone(d) ==
  /\ sync[d].pc = "fetch"
  /\ Changed(sync[d].last_usn) = {}
  /\ Goto(d, "send")
  /\ UNCHANGED <<server, local, faults, history>>

End(d) == sync' = [sync EXCEPT ![d] = Idle]

(* A zip holds the first of the files asked for, as many as its size       *)
(* allows.  They are written into the folder, over what is there.          *)
Wanted(d) == {f \in Files : sync[d].download[f] # 0}
Before(d, f) == {g \in Wanted(d) : sync[d].download[g] < sync[d].download[f]}

DownloadFiles(d, files) ==
  /\ sync[d].pc = "download"
  /\ \A f \in files : Before(d, f) \subseteq files
  /\ \A f \in files : store[f].sum # None /\ blobs[f] # None
  /\ folder' = [folder EXCEPT ![d] = [f \in Files |-> IF f \in files THEN blobs[f] ELSE @[f]]]
  /\ unscanned' = [unscanned EXCEPT ![d] = @ \/ \E f \in files : folder[d][f] = None]
  /\ sync' = [sync EXCEPT
       ![d].download = [f \in Files |-> IF f \in files THEN 0 ELSE @[f]],
       ![d].got = [f \in Files |-> IF f \in files THEN blobs[f] ELSE @[f]]]
  /\ UNCHANGED <<server, rows, usn, faults, history>>

(* Mutant: the count keeps the forgotten file. *)
ForgetMissingFileCounted(f) ==
  /\ store' = [store EXCEPT ![f] = [sum |-> None, usn |-> 0]]
  /\ UNCHANGED meta

ForgetMissingFile(f) ==
  /\ store' = [store EXCEPT ![f] = [sum |-> None, usn |-> 0]]
  /\ meta' = [meta EXCEPT !.files = IF @ > 0 THEN @ - 1 ELSE 0]

(* A file deleted since the answer, or one whose data is missing, is a     *)
(* conflict that ends the sync; missing data takes its row along.          *)
DownloadConflict(d, f) ==
  /\ sync[d].pc = "download"
  /\ Cardinality(Before(d, f)) < ZipLimit
  /\ \A g \in Before(d, f) : store[g].sum # None /\ blobs[g] # None
  /\ \/ store[f].sum = None /\ UNCHANGED <<store, meta>>
     \/ store[f].sum # None /\ blobs[f] = None /\ ForgetMissingFile(f)
  /\ End(d)
  /\ UNCHANGED <<blobs, local, faults, history>>

Recorded(d, s) ==
  [f \in Files |-> IF s.got[f] # None THEN Entry(s.got[f], FALSE)
                   ELSE IF f \in s.delete THEN NoRow
                   ELSE IF f \in s.marked THEN Cleaned(rows[d][f])
                   ELSE rows[d][f]]

(* Marks about to be cleared though the row has changed since.             *)
ClearedUnsent(d) ==
  {f \in sync[d].marked : rows[d][f].dirty /\ rows[d][f].sum # sync[d].agreed[f]}

(* The batch goes into the database with its usn and the folder's present  *)
(* time.                                                                   *)
RecordBatch(d) ==
  LET s == sync[d] IN
  /\ s.pc = "download"
  /\ Wanted(d) = {}
  /\ rows' = [rows EXCEPT ![d] = Recorded(d, s)]
  /\ usn' = [usn EXCEPT ![d] = s.last_usn]
  /\ unscanned' = [unscanned EXCEPT ![d] = FALSE]
  /\ sync' = [sync EXCEPT ![d] = [Idle EXCEPT !.pc = "fetch", !.last_usn = s.last_usn, !.acted = TRUE]]
  /\ slipped' = [slipped EXCEPT ![d] = @ \cup ClearedUnsent(d)]
  /\ UNCHANGED <<server, folder, faults, edits, deleted>>

-----------------------------------------------------------------------------
(* Sync: send *)

(* What the zip says of a pending file: the folder's content, or a removal *)
(* if the row says so or the file is gone by now.                          *)
ZipData(d) == [f \in Files |-> IF rows[d][f].sum # None THEN folder[d][f] ELSE None]

(* The files of the zip whose registration changes the table.              *)
Effective(data, batch) == {f \in batch : data[f] # store[f].sum}

(* Their order in the zip, which is that of an unordered query.            *)
Orders(set) ==
  {o \in [set -> 1 .. Cardinality(set)] : \A f, g \in set : o[f] = o[g] => f = g}

(* Mutant: the whole upload takes one usn. *)
RegisteredAsOne(data, order) ==
  [f \in Files |->
     IF f \in DOMAIN order THEN [sum |-> data[f], usn |-> meta.last_usn + 1] ELSE store[f]]

RegisteredChanges(data, order) ==
  [f \in Files |->
     IF f \in DOMAIN order THEN [sum |-> data[f], usn |-> meta.last_usn + order[f]] ELSE store[f]]

WrittenFiles(data, done) ==
  [f \in Files |-> IF f \in done THEN data[f] ELSE blobs[f]]

CountAfter(data, batch) ==
  meta.files + Cardinality({f \in batch : data[f] # None /\ store[f].sum = None})
             - Cardinality({f \in batch : data[f] = None /\ store[f].sum # None})

(* The batch is read from the database and the folder, sent, and           *)
(* registered in one transaction of the server.  The answer is on its way. *)
UploadChanges(d, batch) ==
  LET data == ZipData(d)
      changed == Effective(data, batch)
      last == meta.last_usn + Cardinality(changed)
  IN
  /\ sync[d].pc = "send"
  /\ \E order \in Orders(changed) : store' = RegisteredChanges(data, order)
  /\ blobs' = WrittenFiles(data, changed)
  /\ meta' = [last_usn |-> last, files |-> CountAfter(data, batch)]
  /\ sync' = [sync EXCEPT ![d] = [@ EXCEPT !.pc = "sent", !.marked = batch, !.agreed = data, !.reply = last]]
  /\ UNCHANGED <<local, faults, history>>

(* The server fails in the middle of the transaction: the rows roll back,  *)
(* the files already written stay, the sync ends with an error.            *)
UploadRolledBack(d, batch, written) ==
  LET data == ZipData(d) IN
  /\ sync[d].pc = "send"
  /\ faults < Faults
  /\ faults' = faults + 1
  /\ written # {} /\ written \subseteq Effective(data, batch)
  /\ blobs' = WrittenFiles(data, written)
  /\ End(d)
  /\ UNCHANGED <<store, meta, local, history>>

(* A pending file that cannot be read loses its row, and the batch is      *)
(* built anew.                                                             *)
DropUnreadable(d, f) ==
  /\ sync[d].pc = "send"
  /\ faults < Faults
  /\ faults' = faults + 1
  /\ rows[d][f].dirty /\ rows[d][f].sum # None /\ folder[d][f] # None
  /\ rows' = [rows EXCEPT ![d][f] = NoRow]
  /\ slipped' = [slipped EXCEPT ![d] = @ \cup {f}]
  /\ UNCHANGED <<server, folder, usn, unscanned, sync, edits, deleted>>

(* Only if the batch explains every usn the server has handed out.         *)
UsnAfterUpload(d) ==
  IF usn[d] + Cardinality(sync[d].marked) = sync[d].reply THEN sync[d].reply ELSE usn[d]

(* The changes of others that a move of the usn to n leaves unfetched.     *)
PassedOver(d, n) ==
  {f \in Files : /\ usn[d] < store[f].usn /\ store[f].usn <= n
                 /\ ~ (f \in sync[d].marked /\ store[f].sum = sync[d].agreed[f])}

RecordUpload(d) ==
  LET sent == sync[d].marked IN
  /\ sync[d].pc = "sent"
  /\ rows' = [rows EXCEPT ![d] = [f \in Files |-> IF f \in sent THEN Cleaned(@[f]) ELSE @[f]]]
  /\ usn' = [usn EXCEPT ![d] = UsnAfterUpload(d)]
  /\ slipped' = [slipped EXCEPT ![d] = @ \cup PassedOver(d, UsnAfterUpload(d)) \cup ClearedUnsent(d)]
  /\ sync' = [sync EXCEPT ![d] = [Idle EXCEPT !.pc = "send", !.acted = TRUE]]
  /\ UNCHANGED <<server, folder, unscanned, faults, edits, deleted>>

-----------------------------------------------------------------------------
(* Sync: finish *)

Known(d) == {f \in Files : rows[d][f].sum # None}

Finished(d) == ~ sync[d].acted \/ Cardinality(Known(d)) = meta.files

Finish(d) ==
  /\ sync[d].pc = "send"
  /\ Pending(d) = {}
  /\ Finished(d)
  /\ End(d)
  /\ UNCHANGED <<server, local, faults, history>>

(* The counts differ: everything the device remembers is dropped.          *)
ForceResync(d) ==
  /\ sync[d].pc = "send"
  /\ Pending(d) = {}
  /\ ~ Finished(d)
  /\ rows' = [rows EXCEPT ![d] = [f \in Files |-> NoRow]]
  /\ usn' = [usn EXCEPT ![d] = 0]
  /\ unscanned' = [unscanned EXCEPT ![d] = TRUE]
  /\ slipped' = [slipped EXCEPT ![d] = {}]
  /\ End(d)
  /\ UNCHANGED <<server, folder, faults, edits, deleted>>

(* A lost connection, an abort, a crash of the client: a transaction of    *)
(* its database is whole or absent, the folder stays as it is.             *)
Interrupt(d) ==
  /\ sync[d].pc # "idle"
  /\ faults < Faults
  /\ faults' = faults + 1
  /\ End(d)
  /\ UNCHANGED <<server, local, history>>

-----------------------------------------------------------------------------
Batches(d) == {b \in SUBSET Pending(d) : b # {} /\ Cardinality(b) <= ZipLimit}
Zips(d) == {z \in SUBSET Wanted(d) : z # {} /\ Cardinality(z) <= ZipLimit}

SyncStep(d) ==
  \/ Begin(d)
  \/ \E last \in Files : FetchChanges(d, last)
  \/ FetchDone(d)
  \/ \E z \in Zips(d) : DownloadFiles(d, z)
  \/ \E f \in Wanted(d) : DownloadConflict(d, f)
  \/ RecordBatch(d)
  \/ \E b \in Batches(d) : UploadChanges(d, b)
  \/ RecordUpload(d)
  \/ Finish(d)
  \/ ForceResync(d)

UserStep(d) ==
  \E f \in Files :
    \/ \E c \in Sums : ChangeOutside(d, f, c)
    \/ \E c \in Contents : AddFile(d, f, c)
    \/ TrashFile(d, f)

Next ==
  \E d \in Devices :
    \/ UserStep(d)
    \/ Scan(d)
    \/ StartGiven(d)
    \/ Start(d)
    \/ SyncStep(d)
    \/ \E b \in Batches(d) : \E w \in SUBSET b : UploadRolledBack(d, b, w)
    \/ \E f \in Files : DropUnreadable(d, f)
    \/ Interrupt(d)

(* A sync under way is a task of the runtime: it is polled until it ends.  *)
Spec == Init /\ [][Next]_vars /\ \A d \in Devices : WF_vars(SyncStep(d))

-----------------------------------------------------------------------------
(* Properties *)

Sync ==
  [pc : {"idle", "begin", "fetch", "download", "send", "sent"}, last_usn : Nat, acted : BOOLEAN,
   download : [Files -> Nat], delete : SUBSET Files, got : [Files -> Sums],
   marked : SUBSET Files, agreed : [Files -> Sums], reply : Nat]

TypeOK ==
  /\ store \in [Files -> [sum : Sums, usn : Nat]]
  /\ blobs \in [Files -> Sums]
  /\ meta \in [last_usn : Nat, files : Nat]
  /\ folder \in [Devices -> [Files -> Sums]]
  /\ rows \in [Devices -> [Files -> MediaEntry]]
  /\ usn \in [Devices -> Nat]
  /\ unscanned \in [Devices -> BOOLEAN]
  /\ sync \in [Devices -> Sync]
  /\ edits \in Nat
  /\ deleted \subseteq Files
  /\ slipped \in [Devices -> SUBSET Files]

(* No two files share a usn: the fetch loop continues after the usn of the *)
(* last record it was given, so a second file with it would be skipped     *)
(* (changes.sql, syncer.rs:136).                                           *)
UsnsDistinct ==
  /\ \A f \in Files : store[f].usn <= meta.last_usn
  /\ \A f, g \in Files : f # g /\ store[f].usn = store[g].usn => store[f].usn = 0

(* The count the sanity check relies on is the number of rows with data,   *)
(* through additions, removals and forgotten files: nothing recomputes it. *)
CountHolds == meta.files = Cardinality(Nonempty)

(* What a device holds as clean, of a change its usn says it has fetched,  *)
(* is what the server has: unless the server's own folder differs from its *)
(* table, or the change is one of the named slips (RecordUpload).          *)
CleanIsServers ==
  \A d \in Devices, f \in Files :
    /\ ~ rows[d][f].dirty
    /\ 0 < store[f].usn /\ store[f].usn <= usn[d]
    /\ f \notin slipped[d]
    /\ blobs[f] = store[f].sum
    => rows[d][f].sum = store[f].sum

(* Syncing never takes a file away that no user removed, not from a folder *)
(* and not from the server, whatever is interrupted or rolled back; and it *)
(* never removes a file whose addition still waits to be uploaded.         *)
OnlyUsersDelete ==
  [][\A f \in Files :
       /\ blobs[f] # None /\ blobs'[f] = None => f \in deleted'
       /\ \A d \in Devices :
            folder[d][f] # None /\ folder'[d][f] = None =>
              \/ edits' # edits
              \/ f \in deleted /\ ~ (rows[d][f].dirty /\ rows[d][f].sum # None)]_vars

=============================================================================
