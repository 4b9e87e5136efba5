--------------------------- MODULE MediaSyncProofs ---------------------------
(***************************************************************************)
(* Proofs about MediaSync: its types, the server's usns and count, that    *)
(* syncing removes only what a user removed, and that what is clean is the *)
(* server's.                                                               *)
(*                                                                         *)
(* The count is the delicate one: nothing recomputes it, so every upload,  *)
(* rollback and forgotten file must leave it the cardinality of the rows   *)
(* with data.  For the removals the strengthening is DeletionsKnown: every *)
(* trace of a missing file, in a row, in the table or in a sync under way, *)
(* goes back to a user.  For what is clean it is CleanInv: what a batch or *)
(* an upload under way holds is already the server's, or newer there.      *)
(***************************************************************************)
EXTENDS MediaSync, FiniteSetTheorems, TLAPS

DeletionsKnown ==
  /\ \A f \in Files : store[f].usn > 0 /\ store[f].sum = None => f \in deleted
  /\ \A d \in Devices, f \in Files :
       /\ rows[d][f].known /\ rows[d][f].sum = None => f \in deleted
       /\ rows[d][f].sum # None /\ folder[d][f] = None => f \in deleted
       /\ sync[d].got[f] # None /\ folder[d][f] = None => f \in deleted
       /\ f \in sync[d].delete => f \in deleted

Inv == TypeOK /\ UsnsDistinct /\ CountHolds /\ DeletionsKnown

-----------------------------------------------------------------------------
(* The types *)

LEMMA Entries ==
  /\ NoRow \in MediaEntry
  /\ \A c \in Sums, b \in BOOLEAN : Entry(c, b) \in MediaEntry
  /\ \A r \in MediaEntry : /\ r.sum \in Sums /\ r.dirty \in BOOLEAN /\ r.known \in BOOLEAN
                           /\ Cleaned(r) \in MediaEntry
                           /\ r.dirty => r.known
                           /\ r.sum # None => r.known
<1>1. NoRow \in MediaEntry /\ \A c \in Sums, b \in BOOLEAN : Entry(c, b) \in MediaEntry
  BY DEF MediaEntry, Entry, NoRow
<1>2. ASSUME NEW r \in MediaEntry
      PROVE  /\ r.sum \in Sums /\ r.dirty \in BOOLEAN /\ r.known \in BOOLEAN
             /\ Cleaned(r) \in MediaEntry
             /\ r.dirty => r.known
             /\ r.sum # None => r.known
  <2>1. CASE r = NoRow
    BY <2>1, <1>1 DEF NoRow, Sums, Cleaned
  <2>2. CASE r \in [known : {TRUE}, sum : Sums, dirty : BOOLEAN]
    BY <1>1, <2>2 DEF Cleaned
  <2> QED
    BY <2>1, <2>2 DEF MediaEntry
<1> QED
  BY <1>1, <1>2

LEMMA IdleSync == Idle \in Sync
BY DEF Idle, Sync, Nothing, Sums

(* Writing a batch of files moves the server's count by the files added    *)
(* less the files removed.                                                 *)
LEMMA CountMoves ==
  ASSUME NEW S \in SUBSET Files, NEW A \in SUBSET Files, NEW R \in SUBSET S, A \cap S = {}
  PROVE  /\ Cardinality((S \ R) \cup A) = Cardinality(S) + Cardinality(A) - Cardinality(R)
         /\ Cardinality((S \ R) \cup A) \in Nat
<1>1. IsFiniteSet(S) /\ IsFiniteSet(A) /\ IsFiniteSet(R) /\ IsFiniteSet(S \ R)
  BY FilesAssumption, FS_Subset
<1>2. Cardinality(S \ R) = Cardinality(S) - Cardinality(S \cap R)
  BY <1>1, FS_Difference
<1>3. S \cap R = R /\ (S \ R) \cap A = {}
  OBVIOUS
<1>4. Cardinality((S \ R) \cup A) = Cardinality(S \ R) + Cardinality(A) - Cardinality((S \ R) \cap A)
  BY <1>1, FS_Union
<1>5. IsFiniteSet((S \ R) \cup A) /\ Cardinality({}) = 0
  BY <1>1, FS_Union, FS_EmptySet
<1>6. /\ Cardinality(S) \in Nat /\ Cardinality(A) \in Nat /\ Cardinality(R) \in Nat
      /\ Cardinality((S \ R) \cup A) \in Nat
  BY <1>1, <1>5, FS_CardinalityType
<1>7. Cardinality((S \ R) \cap A) = 0 /\ Cardinality(S \cap R) = Cardinality(R)
  BY <1>3, <1>5
<1> QED
  BY <1>2, <1>4, <1>6, <1>7

LEMMA FilesFinite ==
  ASSUME NEW S \in SUBSET Files
  PROVE  IsFiniteSet(S) /\ Cardinality(S) \in Nat
BY FilesAssumption, FS_Subset, FS_CardinalityType

LEMMA InitInv == Init => Inv
<1> SUFFICES ASSUME Init PROVE Inv
  OBVIOUS
<1>1. TypeOK
  BY Entries, IdleSync DEF Init, TypeOK, Sums
<1>2. UsnsDistinct /\ DeletionsKnown
  BY DEF Init, UsnsDistinct, DeletionsKnown, Idle, Nothing, NoRow
<1>3. Nonempty = {}
  BY DEF Init, Nonempty
<1>4. CountHolds
  BY <1>3, FS_EmptySet DEF CountHolds, Init
<1> QED
  BY <1>1, <1>2, <1>4 DEF Inv

(* A user's step and a scan. *)
LEMMA UserTypes ==
  ASSUME TypeOK, NEW d \in Devices, UserStep(d)
  PROVE  TypeOK'
<1>1. PICK f \in Files : \/ \E c \in Sums : ChangeOutside(d, f, c)
                         \/ \E c \in Contents : AddFile(d, f, c)
                         \/ TrashFile(d, f)
  BY DEF UserStep
<1>0. edits' \in Nat
  <2>1. edits' = edits + 1
    BY <1>1 DEF ChangeOutside, AddFile, TrashFile, Edit
  <2>2. edits \in Nat
    BY DEF TypeOK
  <2> QED
    BY <2>1, <2>2
<1>2. ASSUME NEW c \in Sums, ChangeOutside(d, f, c) PROVE TypeOK'
  BY <1>0, <1>2 DEF ChangeOutside, Edit, TypeOK, server
<1>3. ASSUME NEW c \in Contents, AddFile(d, f, c) PROVE TypeOK'
  <2>1. c \in Sums /\ Entry(c, TRUE) \in MediaEntry
    BY Entries DEF Sums
  <2>2. /\ folder' = [folder EXCEPT ![d][f] = c]
        /\ rows' = IF rows[d][f].sum = c THEN rows ELSE [rows EXCEPT ![d][f] = Entry(c, TRUE)]
        /\ UNCHANGED <<server, usn, sync, faults, slipped, unscanned, deleted>>
    BY <1>3 DEF AddFile, Edit
  <2>3. rows' \in [Devices -> [Files -> MediaEntry]]
    BY <2>1, <2>2 DEF TypeOK
  <2> QED
    BY <1>0, <2>1, <2>2, <2>3 DEF TypeOK, server
<1>4. ASSUME TrashFile(d, f) PROVE TypeOK'
  <2>1. MarkRemoved(d, {f}) \in [Files -> MediaEntry]
    <3>1. None \in Sums /\ TRUE \in BOOLEAN /\ rows[d] \in [Files -> MediaEntry]
      BY DEF Sums, TypeOK
    <3> QED
      BY <3>1, Entries DEF MarkRemoved
  <2> QED
    BY <1>0, <1>4, <2>1 DEF TrashFile, RemoveFiles, Edit, TypeOK, server, Sums
<1> QED
  BY <1>1, <1>2, <1>3, <1>4

LEMMA ScanTypes ==
  ASSUME TypeOK, NEW d \in Devices, RegisterChanges(d)
  PROVE  /\ rows' \in [Devices -> [Files -> MediaEntry]]
         /\ unscanned' \in [Devices -> BOOLEAN]
<1>1. Scanned(d) \in [Files -> MediaEntry]
  <2>1. TRUE \in BOOLEAN /\ rows[d] \in [Files -> MediaEntry] /\ folder[d] \in [Files -> Sums]
    BY DEF TypeOK
  <2> QED
    BY <2>1, Entries DEF Scanned
<1>2. rows \in [Devices -> [Files -> MediaEntry]] /\ unscanned \in [Devices -> BOOLEAN]
  BY DEF TypeOK
<1>3. rows' \in [Devices -> [Files -> MediaEntry]]
  <2> HIDE DEF MediaEntry
  <2> QED
    BY <1>1, <1>2 DEF RegisterChanges
<1> QED
  BY <1>2, <1>3 DEF RegisterChanges

LEMMA BeginTypes ==
  ASSUME NEW n \in Nat
  PROVE  \A d : AfterBegin(d, n) \in Sync
BY IdleSync DEF AfterBegin, Sync, Idle, Nothing

(* What an upload does to the server. *)
LEMMA UploadServer ==
  ASSUME TypeOK, UsnsDistinct, CountHolds, NEW d \in Devices, NEW batch \in Batches(d),
         UploadChanges(d, batch)
  PROVE  /\ store' \in [Files -> [sum : Sums, usn : Nat]]
         /\ blobs' \in [Files -> Sums]
         /\ meta' \in [last_usn : Nat, files : Nat]
         /\ sync' \in [Devices -> Sync]
         /\ UsnsDistinct' /\ CountHolds'
<1> DEFINE data == ZipData(d)
           changed == Effective(data, batch)
           added == {f \in batch : data[f] # None /\ store[f].sum = None}
           removed == {f \in batch : data[f] = None /\ store[f].sum # None}
<1>1. batch \in SUBSET Files /\ data \in [Files -> Sums] /\ changed \in SUBSET Files
  BY DEF Batches, Pending, ZipData, TypeOK, Sums, Effective
<1>2. Cardinality(changed) \in Nat
  BY <1>1, FilesFinite
<1>3. PICK order \in Orders(changed) : store' = RegisteredChanges(data, order)
  BY DEF UploadChanges
<1>4. /\ DOMAIN order = changed
      /\ \A f \in changed : order[f] \in Nat /\ 1 <= order[f] /\ order[f] <= Cardinality(changed)
      /\ \A f, g \in changed : order[f] = order[g] => f = g
  BY <1>2 DEF Orders
<1>5. \A f \in Files : store'[f] = IF f \in changed
                                   THEN [sum |-> data[f], usn |-> meta.last_usn + order[f]]
                                   ELSE store[f]
  BY <1>3, <1>4 DEF RegisteredChanges
<1>5a. \A f \in changed : store'[f].sum = data[f] /\ store'[f].usn = meta.last_usn + order[f]
  <2> HIDE DEF changed, data
  <2> SUFFICES ASSUME NEW f \in changed
               PROVE  store'[f].sum = data[f] /\ store'[f].usn = meta.last_usn + order[f]
    OBVIOUS
  <2>1. store'[f] = [sum |-> data[f], usn |-> meta.last_usn + order[f]]
    BY <1>1, <1>5
  <2> QED
    BY <2>1
<1>5b. \A f \in Files : f \notin changed => store'[f] = store[f]
  BY <1>5
<1>6. store' \in [Files -> [sum : Sums, usn : Nat]]
  <2>1. meta.last_usn \in Nat /\ store \in [Files -> [sum : Sums, usn : Nat]]
    BY DEF TypeOK
  <2>2. \A f \in changed : [sum |-> data[f], usn |-> meta.last_usn + order[f]] \in [sum : Sums, usn : Nat]
    BY <1>1, <1>4, <2>1
  <2>3. store' = [f \in Files |-> IF f \in changed
                                   THEN [sum |-> data[f], usn |-> meta.last_usn + order[f]]
                                   ELSE store[f]]
    BY <1>3, <1>4 DEF RegisteredChanges
  <2> QED
    BY <2>1, <2>2, <2>3
<1>7. blobs' \in [Files -> Sums]
  BY <1>1 DEF UploadChanges, WrittenFiles, TypeOK
<1>8. Nonempty' = (Nonempty \ removed) \cup added
  <2>1. \A f \in changed : f \in batch /\ data[f] # store[f].sum
    BY DEF Effective
  <2>2. \A f \in batch : f \notin changed => data[f] = store[f].sum
    BY DEF Effective
  <2> HIDE DEF data, changed
  <2>3. \A f \in Files : store'[f].sum = IF f \in batch THEN data[f] ELSE store[f].sum
    BY <1>5a, <1>5b, <2>1, <2>2
  <2> QED
    BY <1>1, <2>3 DEF Nonempty
<1>9. meta' = [last_usn |-> meta.last_usn + Cardinality(changed),
               files |-> meta.files + Cardinality(added) - Cardinality(removed)]
  BY DEF UploadChanges, CountAfter
<1>10. added \cap Nonempty = {} /\ removed \in SUBSET Nonempty /\ added \in SUBSET Files
       /\ Nonempty \in SUBSET Files
  BY <1>1 DEF Nonempty
<1>11. CountHolds' /\ meta'.files \in Nat
  <2> HIDE DEF data, changed, added, removed
  <2>1. Cardinality(Nonempty') = Cardinality(Nonempty) + Cardinality(added) - Cardinality(removed)
        /\ Cardinality(Nonempty') \in Nat
    BY <1>8, <1>10, CountMoves
  <2>2. meta'.files = Cardinality(Nonempty')
    BY <1>9, <2>1 DEF CountHolds
  <2> QED
    BY <2>1, <2>2 DEF CountHolds
<1>12. meta' \in [last_usn : Nat, files : Nat]
  <2> HIDE DEF data, changed, added, removed
  <2> QED
    BY <1>2, <1>9, <1>11 DEF TypeOK
<1>13. UsnsDistinct'
  <2> HIDE DEF data, changed, added, removed
  <2>1. meta.last_usn \in Nat /\ \A f \in Files : store[f].usn \in Nat
    BY DEF TypeOK
  <2>2. \A f \in Files : store'[f].usn = IF f \in changed THEN meta.last_usn + order[f] ELSE store[f].usn
    BY <1>5a, <1>5b
  <2>3. meta'.last_usn = meta.last_usn + Cardinality(changed)
    BY <1>9
  <2>4. \A f \in Files : store'[f].usn <= meta'.last_usn
    BY <1>2, <1>4, <2>1, <2>2, <2>3 DEF UsnsDistinct
  <2>5. ASSUME NEW f \in Files, NEW g \in Files, f # g, store'[f].usn = store'[g].usn
        PROVE  store'[f].usn = 0
    BY <1>4, <2>1, <2>2, <2>5 DEF UsnsDistinct
  <2> QED
    BY <2>4, <2>5 DEF UsnsDistinct
<1>14. sync' \in [Devices -> Sync]
  <2>1. sync[d] \in Sync /\ meta.last_usn + Cardinality(changed) \in Nat
    BY <1>2 DEF TypeOK
  <2>2. [sync[d] EXCEPT !.pc = "sent", !.marked = batch, !.agreed = data,
                        !.reply = meta.last_usn + Cardinality(changed)] \in Sync
    <3> HIDE DEF data, changed
    <3> QED
      BY <1>1, <2>1 DEF Sync
  <2> QED
    BY <2>2 DEF UploadChanges, TypeOK
<1> QED
  BY <1>6, <1>7, <1>11, <1>12, <1>13, <1>14

(* What a download that finds no data does to the server. *)
LEMMA ForgetServer ==
  ASSUME TypeOK, UsnsDistinct, CountHolds, NEW f \in Files, store[f].sum # None, ForgetMissingFile(f)
  PROVE  /\ store' \in [Files -> [sum : Sums, usn : Nat]]
         /\ meta' \in [last_usn : Nat, files : Nat]
         /\ UsnsDistinct' /\ CountHolds'
<1>1. store' \in [Files -> [sum : Sums, usn : Nat]]
  BY DEF ForgetMissingFile, TypeOK, Sums
<1>2. Nonempty' = (Nonempty \ {f}) \cup {} /\ {f} \in SUBSET Nonempty /\ Nonempty \in SUBSET Files
  BY DEF ForgetMissingFile, Nonempty, TypeOK
<1>3. Cardinality(Nonempty') = Cardinality(Nonempty) + Cardinality({}) - Cardinality({f})
      /\ Cardinality(Nonempty') \in Nat
  BY <1>2, CountMoves
<1>4. Cardinality({}) = 0 /\ Cardinality({f}) = 1 /\ Cardinality(Nonempty) \in Nat
  BY <1>2, FS_EmptySet, FS_Singleton, FilesFinite
<1>5. meta' = [meta EXCEPT !.files = Cardinality(Nonempty')]
  BY <1>3, <1>4 DEF ForgetMissingFile, CountHolds
<1>6. meta' \in [last_usn : Nat, files : Nat] /\ CountHolds'
  BY <1>3, <1>5 DEF TypeOK, CountHolds
<1>7. UsnsDistinct'
  BY <1>5 DEF UsnsDistinct, ForgetMissingFile, TypeOK
<1> QED
  BY <1>1, <1>6, <1>7

LEMMA SameServer ==
  ASSUME UsnsDistinct, CountHolds, UNCHANGED <<store, meta>>
  PROVE  UsnsDistinct' /\ CountHolds'
BY DEF UsnsDistinct, CountHolds, Nonempty

LEMMA FetchTypes ==
  ASSUME TypeOK, NEW d \in Devices, NEW last \in Files, FetchChanges(d, last)
  PROVE  TypeOK'
<1> DEFINE batch == MediaChangesChunk(sync[d].last_usn)
           Required(what) == {f \in batch : RequiredChange(rows[d][f], store[f].sum) = what}
<1>1. \A what : Required(what) \in SUBSET Files
  BY DEF MediaChangesChunk, Changed
<1>2. MarkRemoved(d, Required("delete")) \in [Files -> MediaEntry]
  <2>1. None \in Sums /\ TRUE \in BOOLEAN /\ rows[d] \in [Files -> MediaEntry]
    BY DEF Sums, TypeOK
  <2> QED
    BY <2>1, Entries DEF MarkRemoved
<1>3. /\ [f \in Files |-> IF f \in Required("download") THEN store[f].usn ELSE 0] \in [Files -> Nat]
      /\ [f \in Files |-> store[f].sum] \in [Files -> Sums]
      /\ store[last].usn \in Nat
  BY DEF TypeOK
<1>4. sync' \in [Devices -> Sync]
  <2>1. sync[d] \in Sync
    BY DEF TypeOK
  <2>2. sync' = [sync EXCEPT ![d] =
                  [@ EXCEPT !.pc = "download",
                            !.last_usn = store[last].usn,
                            !.download = [f \in Files |-> IF f \in Required("download") THEN store[f].usn ELSE 0],
                            !.delete = Required("delete"),
                            !.marked = Required("remove_pending"),
                            !.agreed = [f \in Files |-> store[f].sum]]]
    BY DEF FetchChanges
  <2> HIDE DEF Required
  <2>3. Required("delete") \in SUBSET Files /\ Required("remove_pending") \in SUBSET Files
    BY <1>1
  <2>4. [sync[d] EXCEPT !.pc = "download",
                        !.last_usn = store[last].usn,
                        !.download = [f \in Files |-> IF f \in Required("download") THEN store[f].usn ELSE 0],
                        !.delete = Required("delete"),
                        !.marked = Required("remove_pending"),
                        !.agreed = [f \in Files |-> store[f].sum]] \in Sync
    BY <1>3, <2>1, <2>3 DEF Sync
  <2> QED
    BY <2>2, <2>4 DEF TypeOK
<1>5. RemoveFiles(d, Required("delete"))
  BY DEF FetchChanges
<1>6. folder' \in [Devices -> [Files -> Sums]]
  <2> HIDE DEF Required
  <2> QED
    BY <1>5 DEF RemoveFiles, TypeOK, Sums
<1>7. rows' \in [Devices -> [Files -> MediaEntry]]
  <2> HIDE DEF Required
  <2> QED
    BY <1>2, <1>5 DEF RemoveFiles, TypeOK
<1> QED
  BY <1>4, <1>6, <1>7 DEF FetchChanges, TypeOK, server, history

LEMMA DownloadTypes ==
  ASSUME TypeOK, NEW d \in Devices, NEW files \in Zips(d), DownloadFiles(d, files)
  PROVE  TypeOK'
<1>1. folder' \in [Devices -> [Files -> Sums]] /\ unscanned' \in [Devices -> BOOLEAN]
  BY DEF DownloadFiles, TypeOK
<1>2. sync' \in [Devices -> Sync]
  <2>1. sync[d] \in Sync
    BY DEF TypeOK
  <2>2. /\ [f \in Files |-> IF f \in files THEN 0 ELSE sync[d].download[f]] \in [Files -> Nat]
        /\ [f \in Files |-> IF f \in files THEN blobs[f] ELSE sync[d].got[f]] \in [Files -> Sums]
    BY <2>1 DEF TypeOK, Sync
  <2>3. [sync[d] EXCEPT !.download = [f \in Files |-> IF f \in files THEN 0 ELSE sync[d].download[f]],
                        !.got = [f \in Files |-> IF f \in files THEN blobs[f] ELSE sync[d].got[f]]] \in Sync
    BY <2>1, <2>2 DEF Sync
  <2>4. sync' = [sync EXCEPT
          ![d].download = [f \in Files |-> IF f \in files THEN 0 ELSE sync[d].download[f]],
          ![d].got = [f \in Files |-> IF f \in files THEN blobs[f] ELSE sync[d].got[f]]]
    BY DEF DownloadFiles
  <2>5. sync \in [Devices -> Sync]
    BY DEF TypeOK
  <2> HIDE DEF Sync
  <2> QED
    BY <2>3, <2>4, <2>5
<1> QED
  BY <1>1, <1>2 DEF DownloadFiles, TypeOK, server, history

LEMMA RecordTypes ==
  ASSUME TypeOK, NEW d \in Devices
  PROVE  /\ RecordBatch(d) => TypeOK'
         /\ RecordUpload(d) => TypeOK'
<1>1. sync[d] \in Sync /\ rows[d] \in [Files -> MediaEntry] /\ FALSE \in BOOLEAN /\ NoRow \in MediaEntry
  BY Entries DEF TypeOK
<1>2. ASSUME RecordBatch(d) PROVE TypeOK'
  <2>1. Recorded(d, sync[d]) \in [Files -> MediaEntry]
    BY <1>1, Entries DEF Recorded, Sync
  <2>2. [Idle EXCEPT !.pc = "fetch", !.last_usn = sync[d].last_usn, !.acted = TRUE] \in Sync
    BY <1>1, IdleSync DEF Sync
  <2>3. ClearedUnsent(d) \in SUBSET Files
    BY <1>1 DEF ClearedUnsent, Sync
  <2>4. sync[d].last_usn \in Nat
    BY <1>1 DEF Sync
  <2>5. /\ rows' = [rows EXCEPT ![d] = Recorded(d, sync[d])]
        /\ sync' = [sync EXCEPT ![d] = [Idle EXCEPT !.pc = "fetch", !.last_usn = sync[d].last_usn, !.acted = TRUE]]
        /\ usn' = [usn EXCEPT ![d] = sync[d].last_usn]
        /\ slipped' = [slipped EXCEPT ![d] = @ \cup ClearedUnsent(d)]
        /\ unscanned' = [unscanned EXCEPT ![d] = FALSE]
        /\ UNCHANGED <<server, folder, faults, edits, deleted>>
    BY <1>2 DEF RecordBatch
  <2> QED
    BY <2>1, <2>2, <2>3, <2>4, <2>5 DEF TypeOK, server
<1>3. ASSUME RecordUpload(d) PROVE TypeOK'
  <2> DEFINE cleaned == [f \in Files |-> IF f \in sync[d].marked THEN Cleaned(rows[d][f]) ELSE rows[d][f]]
  <2>1. cleaned \in [Files -> MediaEntry]
    BY <1>1, Entries
  <2>2. [Idle EXCEPT !.pc = "send", !.acted = TRUE] \in Sync
    BY IdleSync DEF Sync
  <2>3. ClearedUnsent(d) \in SUBSET Files /\ PassedOver(d, UsnAfterUpload(d)) \in SUBSET Files
    BY <1>1 DEF ClearedUnsent, PassedOver, Sync
  <2>4. UsnAfterUpload(d) \in Nat
    BY <1>1 DEF UsnAfterUpload, Sync, TypeOK
  <2>5. /\ rows' = [rows EXCEPT ![d] = cleaned]
        /\ sync' = [sync EXCEPT ![d] = [Idle EXCEPT !.pc = "send", !.acted = TRUE]]
        /\ usn' = [usn EXCEPT ![d] = UsnAfterUpload(d)]
        /\ slipped' = [slipped EXCEPT ![d] = @ \cup PassedOver(d, UsnAfterUpload(d)) \cup ClearedUnsent(d)]
        /\ UNCHANGED <<server, folder, unscanned, faults, edits, deleted>>
    BY <1>3 DEF RecordUpload
  <2> HIDE DEF cleaned
  <2> QED
    BY <2>1, <2>2, <2>3, <2>4, <2>5 DEF TypeOK, server
<1> QED
  BY <1>2, <1>3

-----------------------------------------------------------------------------
(* A step keeps the types, the distinct usns and the count. *)
LEMMA Kept ==
  ASSUME TypeOK, UsnsDistinct, CountHolds, Next
  PROVE  TypeOK' /\ UsnsDistinct' /\ CountHolds'
<1>1. PICK d \in Devices :
        \/ UserStep(d) \/ Scan(d) \/ StartGiven(d) \/ Start(d) \/ SyncStep(d)
        \/ \E b \in Batches(d) : \E w \in SUBSET b : UploadRolledBack(d, b, w)
        \/ \E f \in Files : DropUnreadable(d, f)
        \/ Interrupt(d)
  BY DEF Next
<1>2. CASE UserStep(d)
  BY <1>2, UserTypes, SameServer DEF UserStep, ChangeOutside, AddFile, TrashFile, Edit, server
<1>3. CASE Scan(d)
  <2>1. TypeOK'
    BY <1>3, ScanTypes DEF Scan, TypeOK, server, history
  <2> QED
    BY <1>3, <2>1, SameServer DEF Scan, server
<1>4. CASE StartGiven(d)
  <2>1. AfterBegin(d, usn[d]) \in Sync
    BY BeginTypes DEF TypeOK
  <2>2. TypeOK'
    BY <1>4, <2>1, ScanTypes DEF StartGiven, TypeOK, server, history
  <2> QED
    BY <1>4, <2>2, SameServer DEF StartGiven, server
<1>5. CASE Start(d)
  <2>1. [Idle EXCEPT !.pc = "begin", !.last_usn = usn[d]] \in Sync
    BY IdleSync DEF Sync, TypeOK
  <2>2. TypeOK'
    BY <1>5, <2>1, ScanTypes DEF Start, TypeOK, server, history
  <2> QED
    BY <1>5, <2>2, SameServer DEF Start, server
<1>6. CASE SyncStep(d)
  <2>1. CASE Begin(d)
    <3>1. AfterBegin(d, sync[d].last_usn) \in Sync
      BY BeginTypes DEF TypeOK, Sync
    <3> QED
      BY <2>1, <3>1, SameServer DEF Begin, TypeOK, server, local, history
  <2>2. ASSUME NEW last \in Files, FetchChanges(d, last) PROVE TypeOK' /\ UsnsDistinct' /\ CountHolds'
    BY <2>2, FetchTypes, SameServer DEF FetchChanges, server
  <2>3. CASE FetchDone(d)
    <3>1. [sync[d] EXCEPT !.pc = "send"] \in Sync
      <4>1. sync[d] \in Sync
        BY DEF TypeOK
      <4> QED
        BY <4>1 DEF Sync
    <3> QED
      BY <2>3, <3>1, SameServer DEF FetchDone, Goto, TypeOK, server, local, history
  <2>4. ASSUME NEW z \in Zips(d), DownloadFiles(d, z) PROVE TypeOK' /\ UsnsDistinct' /\ CountHolds'
    BY <2>4, DownloadTypes, SameServer DEF DownloadFiles, server
  <2>5. ASSUME NEW f \in Wanted(d), DownloadConflict(d, f) PROVE TypeOK' /\ UsnsDistinct' /\ CountHolds'
    <3>1. f \in Files
      BY DEF Wanted
    <3>2. UsnsDistinct' /\ CountHolds' /\ store' \in [Files -> [sum : Sums, usn : Nat]]
          /\ meta' \in [last_usn : Nat, files : Nat]
      BY <2>5, <3>1, ForgetServer, SameServer DEF DownloadConflict, TypeOK
    <3> QED
      BY <2>5, <3>2, IdleSync DEF DownloadConflict, End, TypeOK, local, history
  <2>6. CASE RecordBatch(d)
    BY <2>6, RecordTypes, SameServer DEF RecordBatch, server
  <2>7. ASSUME NEW b \in Batches(d), UploadChanges(d, b) PROVE TypeOK' /\ UsnsDistinct' /\ CountHolds'
    <3>1. UNCHANGED <<local, faults, history>>
      BY <2>7 DEF UploadChanges
    <3> QED
      BY <2>7, <3>1, UploadServer DEF TypeOK, local, history
  <2>8. CASE RecordUpload(d)
    BY <2>8, RecordTypes, SameServer DEF RecordUpload, server
  <2>9. CASE Finish(d)
    BY <2>9, IdleSync, SameServer DEF Finish, End, TypeOK, server, local, history
  <2>10. CASE ForceResync(d)
    <3>1. [f \in Files |-> NoRow] \in [Files -> MediaEntry]
      BY Entries
    <3> QED
      BY <2>10, <3>1, IdleSync, SameServer DEF ForceResync, End, TypeOK, server
  <2> QED
    BY <1>6, <2>1, <2>2, <2>3, <2>4, <2>5, <2>6, <2>7, <2>8, <2>9, <2>10 DEF SyncStep
<1>7. ASSUME NEW b \in Batches(d), NEW w \in SUBSET b, UploadRolledBack(d, b, w)
      PROVE  TypeOK' /\ UsnsDistinct' /\ CountHolds'
  <2>1. blobs' \in [Files -> Sums]
    BY <1>7 DEF UploadRolledBack, WrittenFiles, ZipData, TypeOK, Sums
  <2> QED
    BY <1>7, <2>1, IdleSync, SameServer DEF UploadRolledBack, End, TypeOK, local, history
<1>8. ASSUME NEW f \in Files, DropUnreadable(d, f) PROVE TypeOK' /\ UsnsDistinct' /\ CountHolds'
  BY <1>8, Entries, SameServer DEF DropUnreadable, TypeOK, server
<1>9. CASE Interrupt(d)
  BY <1>9, IdleSync, SameServer DEF Interrupt, End, TypeOK, server, local, history
<1> QED
  BY <1>1, <1>2, <1>3, <1>4, <1>5, <1>6, <1>7, <1>8, <1>9

-----------------------------------------------------------------------------
(* Removals *)

(* What a device says about a file it uploads: gone, only if a user        *)
(* removed it.                                                             *)
LEMMA UploadedRemovals ==
  ASSUME Inv, NEW d \in Devices, NEW b \in Batches(d), NEW f \in b, ZipData(d)[f] = None
  PROVE  f \in deleted
<1>1. f \in Files /\ rows[d][f].dirty /\ rows[d][f] \in MediaEntry
  BY DEF Batches, Pending, Inv, TypeOK
<1>2. rows[d][f].known
  BY <1>1, Entries
<1>3. rows[d][f].sum = None \/ folder[d][f] = None
  BY <1>1 DEF ZipData
<1> QED
  BY <1>1, <1>2, <1>3 DEF Inv, DeletionsKnown

(* A file the sync decides to delete: a user removed it, and the device    *)
(* has no addition of it to upload.                                        *)
LEMMA FetchedRemovals ==
  ASSUME Inv, NEW d \in Devices, NEW f \in MediaChangesChunk(sync[d].last_usn),
         RequiredChange(rows[d][f], store[f].sum) = "delete"
  PROVE  f \in deleted /\ ~ (rows[d][f].dirty /\ rows[d][f].sum # None)
<1>1. f \in Files /\ store[f].usn > sync[d].last_usn /\ sync[d].last_usn \in Nat /\ store[f].usn \in Nat
  BY DEF MediaChangesChunk, Changed, Inv, TypeOK, Sync
<1>2. \/ rows[d][f].sum = None /\ rows[d][f].known
      \/ rows[d][f].sum # None /\ store[f].sum = None /\ ~ rows[d][f].dirty
  BY DEF RequiredChange
<1>3. store[f].usn > 0
  BY <1>1
<1> QED
  BY <1>1, <1>2, <1>3 DEF Inv, DeletionsKnown

(* The traces a sync under way holds of a device's files: kept, or dropped. *)
SyncKeeps(e) ==
  /\ \A f \in Files : sync'[e].got[f] # None => sync[e].got[f] # None
  /\ sync'[e].delete \subseteq sync[e].delete

LEMMA SyncMoves ==
  ASSUME TypeOK, NEW d \in Devices, NEW v, sync' = [sync EXCEPT ![d] = v],
         \/ v.got = sync[d].got /\ v.delete = sync[d].delete
         \/ v.got = Nothing /\ v.delete = {}
  PROVE  \A e \in Devices : SyncKeeps(e)
<1>1. \A e \in Devices : sync'[e] = IF e = d THEN v ELSE sync[e]
  BY DEF TypeOK
<1>2. \A f \in Files : Nothing[f] = None
  BY DEF Nothing
<1> QED
  BY <1>1, <1>2 DEF SyncKeeps

LEMMA RowShapes ==
  /\ \A c : Entry(c, TRUE).sum = c /\ Entry(c, TRUE).known
  /\ \A c : Entry(c, FALSE).sum = c /\ Entry(c, FALSE).known
  /\ NoRow.sum = None /\ ~ NoRow.known
  /\ \A r \in MediaEntry : Cleaned(r).sum = r.sum /\ (Cleaned(r).known => r.known)
<1>1. /\ \A c : Entry(c, TRUE).sum = c /\ Entry(c, TRUE).known
      /\ \A c : Entry(c, FALSE).sum = c /\ Entry(c, FALSE).known
      /\ NoRow.sum = None /\ ~ NoRow.known
  BY DEF Entry, NoRow
<1>2. ASSUME NEW r \in MediaEntry PROVE Cleaned(r).sum = r.sum /\ (Cleaned(r).known => r.known)
  BY <1>1, Entries DEF Cleaned
<1> QED
  BY <1>1, <1>2

LEMMA IdleKeeps ==
  /\ Idle.got = Nothing /\ Idle.delete = {}
  /\ \A p, l : /\ [Idle EXCEPT !.pc = p, !.last_usn = l].got = Nothing
               /\ [Idle EXCEPT !.pc = p, !.last_usn = l].delete = {}
               /\ [Idle EXCEPT !.pc = p, !.last_usn = l, !.acted = TRUE].got = Nothing
               /\ [Idle EXCEPT !.pc = p, !.last_usn = l, !.acted = TRUE].delete = {}
               /\ [Idle EXCEPT !.pc = p, !.acted = TRUE].got = Nothing
               /\ [Idle EXCEPT !.pc = p, !.acted = TRUE].delete = {}
BY DEF Idle

LEMMA DeletionsKept ==
  ASSUME Inv, Next
  PROVE  DeletionsKnown'
<1> USE DEF Inv
<1>0. /\ rows \in [Devices -> [Files -> MediaEntry]] /\ folder \in [Devices -> [Files -> Sums]]
      /\ sync \in [Devices -> Sync] /\ store \in [Files -> [sum : Sums, usn : Nat]]
  BY DEF TypeOK
<1>1. PICK d \in Devices :
        \/ UserStep(d) \/ Scan(d) \/ StartGiven(d) \/ Start(d) \/ SyncStep(d)
        \/ \E b \in Batches(d) : \E w \in SUBSET b : UploadRolledBack(d, b, w)
        \/ \E f \in Files : DropUnreadable(d, f)
        \/ Interrupt(d)
  BY DEF Next
<1>2. Idle.got = Nothing /\ Idle.delete = {} /\ \A f \in Files : Nothing[f] = None
  BY DEF Idle, Nothing
<1>3. CASE UserStep(d)
  <2>1. PICK f \in Files : \/ \E c \in Sums : ChangeOutside(d, f, c)
                           \/ \E c \in Contents : AddFile(d, f, c)
                           \/ TrashFile(d, f)
    BY <1>3 DEF UserStep
  <2>2. ASSUME NEW c \in Sums, ChangeOutside(d, f, c) PROVE DeletionsKnown'
    BY <1>0, <2>2 DEF ChangeOutside, Edit, DeletionsKnown, server
  <2>3. ASSUME NEW c \in Contents, AddFile(d, f, c) PROVE DeletionsKnown'
    <3>1. c # None
      BY NoneAssumption
    <3> QED
      BY <1>0, <2>3, <3>1 DEF AddFile, Edit, DeletionsKnown, server, Entry
  <2>4. CASE TrashFile(d, f)
    BY <1>0, <2>4 DEF TrashFile, RemoveFiles, Removable, MarkRemoved, Edit, DeletionsKnown, server, Entry
  <2> QED
    BY <2>1, <2>2, <2>3, <2>4
<1>4. ASSUME RegisterChanges(d), UNCHANGED <<store, folder, deleted>>,
             \A e \in Devices : SyncKeeps(e)
      PROVE  DeletionsKnown'
  <2>1. \A e \in Devices, f \in Files :
          \/ rows'[e][f] = rows[e][f]
          \/ rows'[e][f] = Entry(folder[e][f], TRUE) /\ rows[e][f].sum # folder[e][f]
    BY <1>0, <1>4 DEF RegisterChanges, Scanned
  <2>2. \A e \in Devices, f \in Files :
          /\ rows'[e][f].known /\ rows'[e][f].sum = None => f \in deleted
          /\ rows'[e][f].sum # None /\ folder[e][f] = None => f \in deleted
    <3> SUFFICES ASSUME NEW e \in Devices, NEW f \in Files
                 PROVE  /\ rows'[e][f].known /\ rows'[e][f].sum = None => f \in deleted
                        /\ rows'[e][f].sum # None /\ folder[e][f] = None => f \in deleted
      OBVIOUS
    <3>1. /\ rows[e][f].known /\ rows[e][f].sum = None => f \in deleted
          /\ rows[e][f].sum # None /\ folder[e][f] = None => f \in deleted
      BY DEF DeletionsKnown
    <3>2. CASE rows'[e][f] = rows[e][f]
      BY <3>1, <3>2
    <3>3. CASE rows'[e][f] = Entry(folder[e][f], TRUE) /\ rows[e][f].sum # folder[e][f]
      <4>1. rows'[e][f].sum = folder[e][f]
        BY <3>3 DEF Entry
      <4> QED
        BY <3>1, <3>3, <4>1
    <3> QED
      BY <2>1, <3>2, <3>3
  <2> QED
    BY <1>4, <2>2 DEF DeletionsKnown, SyncKeeps
<1>5. CASE Scan(d)
  BY <1>4, <1>5 DEF Scan, server, history, SyncKeeps
<1>6. CASE StartGiven(d)
  <2>1. AfterBegin(d, usn[d]).got = Nothing /\ AfterBegin(d, usn[d]).delete = {}
    BY IdleKeeps DEF AfterBegin
  <2>2. \A e \in Devices : SyncKeeps(e)
    BY <1>6, <2>1, SyncMoves DEF StartGiven
  <2> QED
    BY <1>4, <1>6, <2>2 DEF StartGiven, server, history
<1>7. CASE Start(d)
  <2>1. \A e \in Devices : SyncKeeps(e)
    BY <1>7, IdleKeeps, SyncMoves DEF Start
  <2> QED
    BY <1>4, <1>7, <2>1 DEF Start, server, history
<1>8. ASSUME UNCHANGED <<store, folder, deleted>>,
             \A e \in Devices, f \in Files :
               rows'[e][f] = rows[e][f] \/ rows'[e][f] = NoRow \/ rows'[e][f] = Cleaned(rows[e][f]),
             \A e \in Devices : SyncKeeps(e)
      PROVE  DeletionsKnown'
  <2>1. \A e \in Devices, f \in Files :
          /\ rows'[e][f].known => rows[e][f].known /\ rows'[e][f].sum = rows[e][f].sum
          /\ rows'[e][f].sum # None => rows'[e][f].sum = rows[e][f].sum
    <3>1. \A e \in Devices, f \in Files : rows[e][f] \in MediaEntry
      BY DEF TypeOK
    <3> QED
      BY <1>8, <3>1, RowShapes
  <2> QED
    BY <1>8, <2>1 DEF DeletionsKnown, SyncKeeps
<1>9. CASE SyncStep(d)
  <2>1. CASE Begin(d)
    <3>1. AfterBegin(d, sync[d].last_usn).got = Nothing /\ AfterBegin(d, sync[d].last_usn).delete = {}
      BY IdleKeeps DEF AfterBegin
    <3>2. \A e \in Devices : SyncKeeps(e)
      BY <2>1, <3>1, SyncMoves DEF Begin
    <3> QED
      BY <1>8, <2>1, <3>2 DEF Begin, server, local, history
  <2>2. ASSUME NEW last \in Files, FetchChanges(d, last) PROVE DeletionsKnown'
    <3> DEFINE batch == MediaChangesChunk(sync[d].last_usn)
               gone == {f \in batch : RequiredChange(rows[d][f], store[f].sum) = "delete"}
    <3>1. \A f \in gone : f \in deleted
      BY FetchedRemovals
    <3>2. RemoveFiles(d, gone) /\ UNCHANGED <<store, deleted>>
      BY <2>2 DEF FetchChanges, server, history
    <3>3. \A e \in Devices : sync'[e].got = sync[e].got /\ (sync'[e].delete = sync[e].delete \/ sync'[e].delete = gone)
      <4>1. sync[d] \in Sync
        BY DEF TypeOK
      <4>2. \E a, b, c, m : sync' = [sync EXCEPT ![d] =
              [@ EXCEPT !.pc = "download", !.last_usn = a, !.download = b, !.delete = gone,
                        !.marked = c, !.agreed = m]]
        BY <2>2 DEF FetchChanges
      <4> HIDE DEF gone
      <4> QED
        BY <1>0, <4>1, <4>2 DEF Sync
    <3> HIDE DEF gone
    <3>4. \A e \in Devices, f \in Files : folder'[e][f] = folder[e][f] \/ f \in deleted
      BY <1>0, <3>1, <3>2 DEF RemoveFiles, Removable
    <3>5. \A e \in Devices, f \in Files : rows'[e][f] = rows[e][f] \/ f \in deleted
      BY <1>0, <3>1, <3>2 DEF RemoveFiles, MarkRemoved
    <3> QED
      BY <3>1, <3>2, <3>3, <3>4, <3>5 DEF DeletionsKnown
  <2>3. CASE FetchDone(d)
    <3>1. sync' = [sync EXCEPT ![d] = [sync[d] EXCEPT !.pc = "send"]]
      BY <2>3 DEF FetchDone, Goto
    <3>2. [sync[d] EXCEPT !.pc = "send"].got = sync[d].got /\ [sync[d] EXCEPT !.pc = "send"].delete = sync[d].delete
      BY <1>0 DEF Sync
    <3>3. \A e \in Devices : SyncKeeps(e)
      BY <3>1, <3>2, SyncMoves
    <3> QED
      BY <1>8, <2>3, <3>3 DEF FetchDone, server, local, history
  <2>4. ASSUME NEW z \in Zips(d), DownloadFiles(d, z) PROVE DeletionsKnown'
    <3>1. z \in SUBSET Files
      BY DEF Zips, Wanted
    <3>2. \A f \in z : blobs[f] # None
      BY <2>4 DEF DownloadFiles
    <3>3. \A e \in Devices, f \in Files :
            \/ folder'[e][f] = folder[e][f] /\ sync'[e].got[f] = sync[e].got[f]
            \/ folder'[e][f] # None
      BY <1>0, <2>4, <3>1, <3>2 DEF DownloadFiles, Sync
    <3>4. \A e \in Devices : sync'[e].delete = sync[e].delete
      BY <1>0, <2>4 DEF DownloadFiles, Sync
    <3> QED
      BY <2>4, <3>3, <3>4 DEF DownloadFiles, DeletionsKnown, server, history
  <2>5. ASSUME NEW f \in Wanted(d), DownloadConflict(d, f) PROVE DeletionsKnown'
    <3>1. \A g \in Files : store'[g] = store[g] \/ store'[g].usn = 0
      BY <1>0, <2>5 DEF DownloadConflict, ForgetMissingFile
    <3>2. \A e \in Devices : sync'[e] = sync[e] \/ sync'[e] = Idle
      BY <1>0, <2>5 DEF DownloadConflict, End
    <3> QED
      BY <1>2, <2>5, <3>1, <3>2 DEF DownloadConflict, DeletionsKnown, local, history
  <2>6. CASE RecordBatch(d)
    <3>2. \A e \in Devices : SyncKeeps(e)
      BY <2>6, IdleKeeps, SyncMoves DEF RecordBatch
    <3>3. \A e \in Devices, f \in Files :
            \/ rows'[e][f] = rows[e][f] \/ rows'[e][f] = NoRow \/ rows'[e][f] = Cleaned(rows[e][f])
            \/ sync[e].got[f] # None /\ rows'[e][f] = Entry(sync[e].got[f], FALSE)
      <4>1. rows' = [rows EXCEPT ![d] = Recorded(d, sync[d])]
        BY <2>6 DEF RecordBatch
      <4>2. rows \in [Devices -> [Files -> MediaEntry]]
        BY DEF TypeOK
      <4>3. ASSUME NEW f \in Files
            PROVE  \/ Recorded(d, sync[d])[f] = rows[d][f]
                   \/ Recorded(d, sync[d])[f] = NoRow
                   \/ Recorded(d, sync[d])[f] = Cleaned(rows[d][f])
                   \/ sync[d].got[f] # None /\ Recorded(d, sync[d])[f] = Entry(sync[d].got[f], FALSE)
        BY DEF Recorded
      <4> HIDE DEF MediaEntry
      <4> QED
        BY <4>1, <4>2, <4>3
    <3>4. \A e \in Devices, f \in Files : rows[e][f] \in MediaEntry
      BY DEF TypeOK
    <3>5. \A e \in Devices, f \in Files :
            /\ rows'[e][f].known /\ rows'[e][f].sum = None => f \in deleted
            /\ rows'[e][f].sum # None /\ folder[e][f] = None => f \in deleted
      <4> SUFFICES ASSUME NEW e \in Devices, NEW f \in Files
                   PROVE  /\ rows'[e][f].known /\ rows'[e][f].sum = None => f \in deleted
                          /\ rows'[e][f].sum # None /\ folder[e][f] = None => f \in deleted
        OBVIOUS
      <4>1. /\ rows[e][f].known /\ rows[e][f].sum = None => f \in deleted
            /\ rows[e][f].sum # None /\ folder[e][f] = None => f \in deleted
            /\ sync[e].got[f] # None /\ folder[e][f] = None => f \in deleted
        BY DEF DeletionsKnown
      <4>2. CASE sync[e].got[f] # None /\ rows'[e][f] = Entry(sync[e].got[f], FALSE)
        <5>1. rows'[e][f].sum = sync[e].got[f]
          BY <4>2, RowShapes
        <5> QED
          BY <4>1, <4>2, <5>1
      <4>3. CASE rows'[e][f] = NoRow
        BY <4>3, RowShapes
      <4>4. CASE rows'[e][f] = rows[e][f] \/ rows'[e][f] = Cleaned(rows[e][f])
        BY <4>1, <4>4, <3>4, RowShapes
      <4> QED
        BY <3>3, <4>2, <4>3, <4>4
    <3> QED
      BY <2>6, <3>2, <3>5 DEF RecordBatch, DeletionsKnown, SyncKeeps, server
  <2>7. ASSUME NEW b \in Batches(d), UploadChanges(d, b) PROVE DeletionsKnown'
    <3>1. \A f \in Files : store'[f].sum = None => store'[f] = store[f] \/ f \in deleted
      <4>1. PICK order \in Orders(Effective(ZipData(d), b)) : store' = RegisteredChanges(ZipData(d), order)
        BY <2>7 DEF UploadChanges
      <4>2. DOMAIN order \subseteq b
        BY DEF Orders, Effective
      <4>3. \A f \in Files : store'[f] = store[f] \/ (f \in b /\ store'[f].sum = ZipData(d)[f])
        BY <4>1, <4>2 DEF RegisteredChanges
      <4> QED
        BY <4>3, UploadedRemovals
    <3>2. \A e \in Devices : SyncKeeps(e)
      <4>1. PICK m, r : sync' = [sync EXCEPT ![d] =
                                  [sync[d] EXCEPT !.pc = "sent", !.marked = b, !.agreed = m, !.reply = r]]
        BY <2>7 DEF UploadChanges
      <4> DEFINE v == [sync[d] EXCEPT !.pc = "sent", !.marked = b, !.agreed = m, !.reply = r]
      <4>2. v.got = sync[d].got /\ v.delete = sync[d].delete
        BY <1>0 DEF Sync
      <4>3. sync' = [sync EXCEPT ![d] = v]
        BY <4>1
      <4> HIDE DEF v
      <4> QED
        BY <4>2, <4>3, SyncMoves
    <3> QED
      BY <2>7, <3>1, <3>2 DEF UploadChanges, DeletionsKnown, local, history
  <2>8. CASE RecordUpload(d)
    <3>2. \A e \in Devices : SyncKeeps(e)
      BY <2>8, IdleKeeps, SyncMoves DEF RecordUpload
    <3>3. \A e \in Devices, f \in Files : rows'[e][f] = rows[e][f] \/ rows'[e][f] = Cleaned(rows[e][f])
      BY <1>0, <2>8 DEF RecordUpload
    <3> QED
      BY <1>8, <2>8, <3>2, <3>3 DEF RecordUpload, server
  <2>9. CASE Finish(d)
    <3>1. \A e \in Devices : SyncKeeps(e)
      BY <2>9, IdleKeeps, SyncMoves DEF Finish, End
    <3> QED
      BY <1>8, <2>9, <3>1 DEF Finish, server, local, history
  <2>10. CASE ForceResync(d)
    <3>1. \A e \in Devices : SyncKeeps(e)
      BY <2>10, IdleKeeps, SyncMoves DEF ForceResync, End
    <3>2. \A e \in Devices, f \in Files : rows'[e][f] = rows[e][f] \/ rows'[e][f] = NoRow
      BY <1>0, <2>10 DEF ForceResync
    <3> QED
      BY <1>8, <2>10, <3>1, <3>2 DEF ForceResync, server
  <2> QED
    BY <1>9, <2>1, <2>2, <2>3, <2>4, <2>5, <2>6, <2>7, <2>8, <2>9, <2>10 DEF SyncStep
<1>10. ASSUME NEW b \in Batches(d), NEW w \in SUBSET b, UploadRolledBack(d, b, w) PROVE DeletionsKnown'
  <2>1. \A e \in Devices : SyncKeeps(e)
    BY <1>10, IdleKeeps, SyncMoves DEF UploadRolledBack, End
  <2> QED
    BY <1>8, <1>10, <2>1 DEF UploadRolledBack, local, history
<1>11. ASSUME NEW f \in Files, DropUnreadable(d, f) PROVE DeletionsKnown'
  <2>1. \A e \in Devices, g \in Files : rows'[e][g] = rows[e][g] \/ rows'[e][g] = NoRow
    BY <1>0, <1>11 DEF DropUnreadable
  <2>2. \A e \in Devices : SyncKeeps(e)
    BY <1>11 DEF DropUnreadable, SyncKeeps
  <2> QED
    BY <1>8, <1>11, <2>1, <2>2 DEF DropUnreadable, server
<1>12. CASE Interrupt(d)
  <2>1. \A e \in Devices : SyncKeeps(e)
    BY <1>12, IdleKeeps, SyncMoves DEF Interrupt, End
  <2> QED
    BY <1>8, <1>12, <2>1 DEF Interrupt, server, local, history
<1> QED
  BY <1>1, <1>3, <1>5, <1>6, <1>7, <1>9, <1>10, <1>11, <1>12

(* A step takes a file away only as OnlyUsersDelete says. *)
TakenByUsers ==
  \A f \in Files :
    /\ blobs[f] # None /\ blobs'[f] = None => f \in deleted'
    /\ \A d \in Devices :
         folder[d][f] # None /\ folder'[d][f] = None =>
           \/ edits' # edits
           \/ f \in deleted /\ ~ (rows[d][f].dirty /\ rows[d][f].sum # None)

LEMMA RemovalsKnown ==
  ASSUME Inv, Next
  PROVE  TakenByUsers
<1>1. PICK d \in Devices :
        \/ UserStep(d) \/ Scan(d) \/ StartGiven(d) \/ Start(d) \/ SyncStep(d)
        \/ \E b \in Batches(d) : \E w \in SUBSET b : UploadRolledBack(d, b, w)
        \/ \E f \in Files : DropUnreadable(d, f)
        \/ Interrupt(d)
  BY DEF Next
<1>2. CASE UNCHANGED <<blobs, folder>>
  BY <1>2 DEF TakenByUsers
<1>3. CASE UserStep(d)
  <2>1. edits' = edits + 1 /\ blobs' = blobs
    BY <1>3 DEF UserStep, ChangeOutside, AddFile, TrashFile, Edit, server
  <2>2. edits \in Nat
    BY DEF Inv, TypeOK
  <2>3. edits' # edits
    BY <2>1, <2>2
  <2> QED
    BY <2>1, <2>3 DEF TakenByUsers
<1>4. ASSUME NEW data, NEW done \in SUBSET Files, blobs' = WrittenFiles(data, done),
             \A f \in done : data[f] = None => f \in deleted,
             UNCHANGED <<folder, deleted>>
      PROVE  TakenByUsers
  BY <1>4 DEF WrittenFiles, TakenByUsers
<1>5. ASSUME NEW last \in Files, FetchChanges(d, last) PROVE TakenByUsers
  <2> DEFINE gone == {f \in MediaChangesChunk(sync[d].last_usn) :
                        RequiredChange(rows[d][f], store[f].sum) = "delete"}
  <2>1. \A f \in gone : f \in deleted /\ ~ (rows[d][f].dirty /\ rows[d][f].sum # None)
    BY FetchedRemovals
  <2>2. RemoveFiles(d, gone) /\ UNCHANGED blobs
    BY <1>5 DEF FetchChanges, server
  <2> HIDE DEF gone
  <2>3. folder \in [Devices -> [Files -> Sums]]
    BY DEF Inv, TypeOK
  <2>4. \A e \in Devices, f \in Files :
          \/ folder'[e][f] = folder[e][f]
          \/ e = d /\ f \in gone
    BY <2>2, <2>3 DEF RemoveFiles, Removable
  <2> QED
    BY <2>1, <2>2, <2>4 DEF TakenByUsers
<1>6. ASSUME NEW z \in Zips(d), DownloadFiles(d, z) PROVE TakenByUsers
  <2>1. \A f \in z : blobs[f] # None
    BY <1>6 DEF DownloadFiles
  <2>2. folder \in [Devices -> [Files -> Sums]]
    BY DEF Inv, TypeOK
  <2>3. \A e \in Devices, f \in Files : folder'[e][f] = folder[e][f] \/ folder'[e][f] # None
    BY <1>6, <2>1, <2>2 DEF DownloadFiles
  <2> QED
    BY <1>6, <2>3 DEF DownloadFiles, TakenByUsers, server
<1>7. ASSUME NEW b \in Batches(d), UploadChanges(d, b) PROVE TakenByUsers
  <2>1. Effective(ZipData(d), b) \in SUBSET Files /\ Effective(ZipData(d), b) \subseteq b
    BY DEF Effective, Batches, Pending
  <2> QED
    BY <1>4, <1>7, <2>1, UploadedRemovals DEF UploadChanges, local, history
<1>8. ASSUME NEW b \in Batches(d), NEW w \in SUBSET b, UploadRolledBack(d, b, w) PROVE TakenByUsers
  <2>1. w \in SUBSET Files
    BY DEF Batches, Pending
  <2> QED
    BY <1>4, <1>8, <2>1, UploadedRemovals DEF UploadRolledBack, local, history
<1>9. CASE SyncStep(d)
  <2>1. CASE UNCHANGED <<blobs, folder>>
    BY <2>1, <1>2
  <2>2. \/ UNCHANGED <<blobs, folder>>
        \/ \E last \in Files : FetchChanges(d, last)
        \/ \E z \in Zips(d) : DownloadFiles(d, z)
        \/ \E b \in Batches(d) : UploadChanges(d, b)
    BY <1>9 DEF SyncStep, Begin, FetchDone, DownloadConflict, RecordBatch, RecordUpload, Finish,
                ForceResync, server, local
  <2> QED
    BY <1>2, <1>5, <1>6, <1>7, <2>2
<1>10. CASE \/ Scan(d) \/ StartGiven(d) \/ Start(d) \/ Interrupt(d)
            \/ \E f \in Files : DropUnreadable(d, f)
  <2>1. UNCHANGED <<blobs, folder>>
    BY <1>10 DEF Scan, StartGiven, Start, Interrupt, DropUnreadable, server, local
  <2> QED
    BY <2>1, <1>2
<1> QED
  BY <1>1, <1>3, <1>8, <1>9, <1>10

-----------------------------------------------------------------------------
(* The theorems *)

LEMMA StutterInv ==
  ASSUME Inv, UNCHANGED vars
  PROVE  Inv' /\ TakenByUsers
BY DEF Inv, TypeOK, UsnsDistinct, CountHolds, Nonempty, DeletionsKnown, TakenByUsers, vars

LEMMA StepInv ==
  ASSUME Inv, [Next]_vars
  PROVE  Inv' /\ TakenByUsers
<1>1. CASE Next
  BY <1>1, Kept, DeletionsKept, RemovalsKnown DEF Inv
<1>2. CASE UNCHANGED vars
  BY <1>2, StutterInv
<1> QED
  BY <1>1, <1>2

(* Every value stays of its type. *)
THEOREM MediaTypes == Spec => []TypeOK
<1>1. Inv /\ [Next]_vars => Inv'
  BY StepInv
<1>2. Inv => TypeOK
  BY DEF Inv
<1> QED
  BY InitInv, <1>1, <1>2, PTL DEF Spec

(* No two files of the server share a usn, so that a device that fetches   *)
(* from the last usn it was given on skips none (changes.sql).             *)
THEOREM UsnsStayDistinct == Spec => []UsnsDistinct
<1>1. Inv /\ [Next]_vars => Inv'
  BY StepInv
<1>2. Inv => UsnsDistinct
  BY DEF Inv
<1> QED
  BY InitInv, <1>1, <1>2, PTL DEF Spec

(* The server's count is that of its files with data, whatever is          *)
(* uploaded, removed, rolled back or found missing.                        *)
THEOREM CountIsRight == Spec => []CountHolds
<1>1. Inv /\ [Next]_vars => Inv'
  BY StepInv
<1>2. Inv => CountHolds
  BY DEF Inv
<1> QED
  BY InitInv, <1>1, <1>2, PTL DEF Spec

(* Syncing takes away only what a user removed, in the folders and on the  *)
(* server, and never a file whose addition waits to be uploaded.           *)
THEOREM OnlyUsersDeleteHolds == Spec => OnlyUsersDelete
<1>1. Inv /\ [Next]_vars => Inv'
  BY StepInv
<1>2. Inv /\ [Next]_vars => [TakenByUsers]_vars
  BY StepInv
<1>3. [TakenByUsers]_vars =>
        [\A f \in Files :
           /\ blobs[f] # None /\ blobs'[f] = None => f \in deleted'
           /\ \A d \in Devices :
                folder[d][f] # None /\ folder'[d][f] = None =>
                  \/ edits' # edits
                  \/ f \in deleted /\ ~ (rows[d][f].dirty /\ rows[d][f].sum # None)]_vars
  BY DEF TakenByUsers
<1> QED
  BY InitInv, <1>1, <1>2, <1>3, PTL DEF Spec, OnlyUsersDelete


-----------------------------------------------------------------------------
(* What is clean is the server's                                           *)

(* A change of a file counts up to a usn: it is at or below it, did not    *)
(* slip by, and the server's folder holds what its table says.             *)
Counts(d, f, n) ==
  /\ 0 < store[f].usn /\ store[f].usn <= n
  /\ f \notin slipped[d] /\ blobs[f] = store[f].sum
Agrees(d, f) == rows[d][f].dirty \/ rows[d][f].sum = store[f].sum

(* No device is ahead of the server. *)
UsnsPast(d) ==
  usn[d] <= meta.last_usn /\ sync[d].last_usn <= meta.last_usn /\ sync[d].reply <= meta.last_usn

(* A fetch goes on from the usn the device has recorded, with empty hands. *)
Fetching(d) == sync[d].pc \in {"begin", "fetch"} => sync[d].last_usn = usn[d] /\ sync[d].got = Nothing

(* A batch under way amounts to the server's, whatever the user does to    *)
(* the folder meanwhile: what it got, deletes or unmarks is what the       *)
(* server has, and of the rest nothing is left to do.                      *)
Downloading(d, f) ==
  sync[d].pc = "download" /\ Counts(d, f, sync[d].last_usn) =>
    /\ sync[d].got[f] # None => sync[d].got[f] = store[f].sum
    /\ f \in sync[d].delete => store[f].sum = None
    /\ f \in sync[d].marked => sync[d].agreed[f] = store[f].sum /\ rows[d][f].dirty
    /\ sync[d].download[f] = 0 /\ sync[d].got[f] = None /\ f \notin sync[d].delete => Agrees(d, f)

(* The files of an upload are marked until its answer is recorded, and     *)
(* have been given to the server.                                          *)
SentOff(d, f) ==
  sync[d].pc = "sent" /\ f \in sync[d].marked =>
    /\ rows[d][f].dirty
    /\ Counts(d, f, usn[d]) => sync[d].agreed[f] = store[f].sum

Covered(d, f) == Counts(d, f, usn[d]) => Agrees(d, f)

CleanKept(d) ==
  /\ UsnsPast(d) /\ Fetching(d)
  /\ \A f \in Files : Covered(d, f) /\ Downloading(d, f) /\ SentOff(d, f)

CleanInv == \A d \in Devices : CleanKept(d)

(* What any step does to the server: a change that still counts was there. *)
ServerMoves ==
  /\ meta.last_usn <= meta'.last_usn
  /\ \A f \in Files :
       0 < store'[f].usn /\ store'[f].usn <= meta.last_usn /\ blobs'[f] = store'[f].sum
         => store'[f] = store[f] /\ blobs[f] = store[f].sum

LEMMA UploadMoves ==
  ASSUME TypeOK, NEW d \in Devices, NEW batch \in Batches(d), UploadChanges(d, batch)
  PROVE  /\ ServerMoves
         /\ meta'.last_usn = sync'[d].reply
         /\ \A f \in Files : \/ store'[f] = store[f]
                             \/ meta.last_usn < store'[f].usn
         /\ \A f \in batch : store'[f].sum = ZipData(d)[f]
<1> DEFINE data == ZipData(d)
           changed == Effective(data, batch)
<1>1. batch \in SUBSET Files /\ changed \in SUBSET Files
  BY DEF Batches, Pending, Effective
<1>2. Cardinality(changed) \in Nat
  BY <1>1, FilesFinite
<1>3. PICK order \in Orders(changed) : store' = RegisteredChanges(data, order)
  BY DEF UploadChanges
<1>4. DOMAIN order = changed /\ \A f \in changed : order[f] \in Nat /\ 1 <= order[f]
  BY <1>2 DEF Orders
<1>5. /\ \A f \in Files \ changed : store'[f] = store[f]
      /\ \A f \in changed : store'[f] = [sum |-> data[f], usn |-> meta.last_usn + order[f]]
  BY <1>1, <1>3, <1>4 DEF RegisteredChanges
<1>6. /\ blobs' = WrittenFiles(data, changed)
      /\ meta'.last_usn = meta.last_usn + Cardinality(changed)
  BY DEF UploadChanges
<1>7. sync'[d].reply = meta.last_usn + Cardinality(changed)
  <2>1. sync' = [sync EXCEPT ![d] = [sync[d] EXCEPT !.pc = "sent", !.marked = batch, !.agreed = data,
                                                     !.reply = meta.last_usn + Cardinality(changed)]]
    BY DEF UploadChanges
  <2>2. sync[d] \in Sync /\ sync \in [Devices -> Sync]
    BY DEF TypeOK
  <2> HIDE DEF data, changed
  <2> QED
    BY <2>1, <2>2 DEF Sync
<1>8. \A f \in batch \ changed : data[f] = store[f].sum
  BY DEF Effective
<1> HIDE DEF data, changed
<1>9. meta.last_usn \in Nat
  BY DEF TypeOK
<1>10. \A f \in changed : store'[f].usn = meta.last_usn + order[f] /\ store'[f].sum = data[f]
  <2> SUFFICES ASSUME NEW f \in changed
               PROVE  store'[f].usn = meta.last_usn + order[f] /\ store'[f].sum = data[f]
    OBVIOUS
  <2>1. store'[f] = [sum |-> data[f], usn |-> meta.last_usn + order[f]]
    BY <1>5
  <2> QED
    BY <2>1
<1>11. \A f \in changed : meta.last_usn < store'[f].usn
  BY <1>4, <1>9, <1>10
<1>12. \A f \in Files \ changed : blobs'[f] = blobs[f]
  BY <1>6 DEF WrittenFiles
<1>13. \A f \in batch : store'[f].sum = data[f]
  BY <1>1, <1>5, <1>8, <1>10
<1>14. ServerMoves
  <2>1. \A f \in changed : ~ (store'[f].usn <= meta.last_usn)
    BY <1>4, <1>9, <1>10
  <2> QED
    BY <1>2, <1>5, <1>6, <1>9, <1>12, <2>1 DEF ServerMoves
<1> QED
  BY <1>5, <1>6, <1>7, <1>11, <1>13, <1>14 DEF data

LEMMA ServerStays == ASSUME TypeOK, UNCHANGED server PROVE ServerMoves
BY DEF ServerMoves, server, TypeOK

LEMMA ServerFails ==
  ASSUME TypeOK, NEW d \in Devices, NEW b \in Batches(d), NEW w \in SUBSET b, UploadRolledBack(d, b, w)
  PROVE  ServerMoves
<1> DEFINE data == ZipData(d)
<1>1. /\ w \subseteq Effective(data, b) /\ blobs' = WrittenFiles(data, w) /\ UNCHANGED <<store, meta>>
  BY DEF UploadRolledBack
<1>2. \A f \in w : data[f] # store[f].sum
  BY <1>1 DEF Effective
<1> HIDE DEF data
<1>3. \A f \in Files : blobs'[f] = IF f \in w THEN data[f] ELSE blobs[f]
  BY <1>1 DEF WrittenFiles
<1> QED
  BY <1>1, <1>2, <1>3 DEF ServerMoves, TypeOK

LEMMA ServerForgets ==
  ASSUME TypeOK, NEW d \in Devices, NEW f \in Wanted(d), DownloadConflict(d, f)
  PROVE  ServerMoves
<1>1. blobs' = blobs /\ (UNCHANGED <<store, meta>> \/ ForgetMissingFile(f))
  BY DEF DownloadConflict
<1>2. meta'.last_usn = meta.last_usn
  BY <1>1 DEF ForgetMissingFile, TypeOK
<1>3. \A g \in Files : store'[g] = store[g] \/ store'[g] = [sum |-> None, usn |-> 0]
  BY <1>1 DEF ForgetMissingFile, TypeOK
<1>4. \A g \in Files : 0 < store'[g].usn => store'[g] = store[g]
  BY <1>3
<1> QED
  BY <1>1, <1>2, <1>4 DEF ServerMoves, TypeOK

(* Rows others change become marked, or their file slipped by.              *)
RowsMove(d) ==
  /\ slipped[d] \subseteq slipped'[d]
  /\ \A f \in Files : \/ rows'[d][f] = rows[d][f] \/ rows'[d][f].dirty
                      \/ f \in slipped'[d] /\ sync[d].pc = "send"

LEMMA CoveredStays ==
  ASSUME TypeOK, TypeOK', ServerMoves, NEW d \in Devices, NEW f \in Files, RowsMove(d), UsnsPast(d)
  PROVE  /\ \A n \in Nat : n <= meta.last_usn /\ Counts(d, f, n)' => Counts(d, f, n) /\ store'[f] = store[f]
         /\ usn'[d] = usn[d] /\ Covered(d, f) => Covered(d, f)'
<1>1. ASSUME NEW n \in Nat, n <= meta.last_usn, Counts(d, f, n)'
      PROVE  Counts(d, f, n) /\ store'[f] = store[f]
  <2>1. 0 < store'[f].usn /\ store'[f].usn <= n /\ f \notin slipped'[d] /\ blobs'[f] = store'[f].sum
    BY <1>1 DEF Counts
  <2>2. store'[f].usn \in Nat /\ meta.last_usn \in Nat
    BY DEF TypeOK
  <2>3. store'[f].usn <= meta.last_usn
    BY <1>1, <2>1, <2>2
  <2>4. store'[f] = store[f] /\ blobs[f] = store[f].sum
    BY <2>1, <2>3 DEF ServerMoves
  <2> QED
    BY <2>1, <2>4 DEF Counts, RowsMove
<1>2. ASSUME usn'[d] = usn[d], Covered(d, f), Counts(d, f, usn[d])' PROVE Agrees(d, f)'
  <2>1. usn[d] \in Nat /\ usn[d] <= meta.last_usn
    BY DEF TypeOK, UsnsPast
  <2>3. f \notin slipped'[d] /\ 0 < store'[f].usn /\ store'[f].usn <= usn[d] /\ blobs'[f] = store'[f].sum
    BY <1>2 DEF Counts
  <2>4. store'[f] = store[f] /\ blobs[f] = store[f].sum
    <3>1. store'[f].usn <= meta.last_usn
      BY <2>1, <2>3 DEF TypeOK
    <3> QED
      BY <2>3, <3>1 DEF ServerMoves
  <2>5. Counts(d, f, usn[d])
    BY <2>3, <2>4 DEF Counts, RowsMove
  <2>6. Agrees(d, f)
    BY <1>2, <2>5 DEF Covered
  <2> QED
    BY <2>3, <2>4, <2>6 DEF RowsMove, Agrees
<1> QED
  BY <1>1, <1>2 DEF Covered

(* A device whose own sync stays where it is, whatever else happens.        *)
LEMMA OthersKept ==
  ASSUME TypeOK, TypeOK', ServerMoves, NEW d \in Devices, CleanKept(d), RowsMove(d),
         sync'[d] = sync[d], usn'[d] = usn[d]
  PROVE  CleanKept(d)'
<1>1. UsnsPast(d)'
  BY DEF CleanKept, UsnsPast, ServerMoves, TypeOK, Sync
<1>2. Fetching(d)'
  BY DEF CleanKept, Fetching
<1> SUFFICES ASSUME NEW f \in Files PROVE Covered(d, f)' /\ Downloading(d, f)' /\ SentOff(d, f)'
  BY <1>1, <1>2 DEF CleanKept
<1>3. /\ \A n \in Nat : n <= meta.last_usn /\ Counts(d, f, n)' => Counts(d, f, n) /\ store'[f] = store[f]
      /\ Covered(d, f)'
  BY CoveredStays DEF CleanKept
<1>4. /\ sync[d].last_usn \in Nat /\ sync[d].last_usn <= meta.last_usn
      /\ usn[d] \in Nat /\ usn[d] <= meta.last_usn
  BY DEF CleanKept, UsnsPast, TypeOK, Sync
<1>5. /\ Counts(d, f, sync[d].last_usn)' => Counts(d, f, sync[d].last_usn) /\ store'[f] = store[f]
      /\ Counts(d, f, usn[d])' => Counts(d, f, usn[d]) /\ store'[f] = store[f]
  <2>1. Counts(d, f, sync[d].last_usn)' => Counts(d, f, sync[d].last_usn) /\ store'[f] = store[f]
    <3> DEFINE n == sync[d].last_usn
    <3>1. PICK m \in Nat : m = n
      BY <1>4
    <3>2. m <= meta.last_usn /\ sync'[d].last_usn = m
      BY <1>4, <3>1
    <3>3. Counts(d, f, sync[d].last_usn)' => Counts(d, f, m)'
      BY <3>2 DEF Counts
    <3> QED
      BY <1>3, <3>1, <3>2, <3>3
  <2>2. Counts(d, f, usn[d])' => Counts(d, f, usn[d]) /\ store'[f] = store[f]
    <3>1. PICK m \in Nat : m = usn[d]
      BY <1>4
    <3>2. m <= meta.last_usn /\ usn'[d] = m
      BY <1>4, <3>1
    <3>3. Counts(d, f, usn[d])' => Counts(d, f, m)'
      BY <3>2 DEF Counts
    <3> QED
      BY <1>3, <3>1, <3>2, <3>3
  <2> QED
    BY <2>1, <2>2
<1>6. sync[d].pc \in {"download", "sent"} => rows'[d][f] = rows[d][f] \/ rows'[d][f].dirty
  BY DEF RowsMove
<1>7. Downloading(d, f)'
  BY <1>5, <1>6 DEF CleanKept, Downloading, Agrees
<1>8. SentOff(d, f)'
  BY <1>5, <1>6 DEF CleanKept, SentOff
<1> QED
  BY <1>3, <1>7, <1>8

(* A device whose sync goes to a place between batches and uploads.         *)
LEMMA MovedOn ==
  ASSUME TypeOK, TypeOK', ServerMoves, NEW d \in Devices, UsnsPast(d)',
         sync'[d].pc \in {"idle", "begin", "fetch", "send"},
         sync'[d].pc \in {"begin", "fetch"} => sync'[d].last_usn = usn'[d] /\ sync'[d].got = Nothing,
         \A f \in Files : Covered(d, f)'
  PROVE  CleanKept(d)'
<1>1. Fetching(d)'
  BY DEF Fetching, Nothing
<1>2. \A f \in Files : Downloading(d, f)' /\ SentOff(d, f)'
  BY DEF Downloading, SentOff
<1> QED
  BY <1>1, <1>2 DEF CleanKept

LEMMA MovedOnAsIs ==
  ASSUME TypeOK, TypeOK', ServerMoves, NEW d \in Devices, CleanKept(d), RowsMove(d), usn'[d] = usn[d],
         sync'[d].pc \in {"idle", "begin", "fetch", "send"},
         sync'[d].last_usn \in {0, sync[d].last_usn, usn[d]}, sync'[d].reply \in {0, sync[d].reply},
         sync'[d].pc \in {"begin", "fetch"} => sync'[d].last_usn = usn[d] /\ sync'[d].got = Nothing
  PROVE  CleanKept(d)'
<1>1. UsnsPast(d)'
  BY DEF CleanKept, UsnsPast, ServerMoves, TypeOK, Sync
<1>2. \A f \in Files : Covered(d, f)'
  BY CoveredStays DEF CleanKept
<1> QED
  BY <1>1, <1>2, MovedOn
(* A step of one device's sync, seen from the others.                       *)
OthersStay(d) == \A e \in Devices \ {d} : RowsMove(e) /\ sync'[e] = sync[e] /\ usn'[e] = usn[e]

(* A fetched batch holds every change up to the last of it.                 *)
LEMMA ChunkHoldsAll ==
  ASSUME TypeOK, NEW after \in Nat, NEW last \in MediaChangesChunk(after),
         NEW f \in Changed(after), store[f].usn <= store[last].usn
  PROVE  f \in MediaChangesChunk(after)
<1> DEFINE Upto(g) == {h \in Changed(after) : store[h].usn <= store[g].usn}
<1>1. last \in Files /\ f \in Files /\ Cardinality(Upto(last)) <= ChunkLimit
  BY DEF MediaChangesChunk, Changed
<1>2. \A h \in Files : store[h].usn \in Nat
  BY DEF TypeOK
<1>3. Upto(f) \in SUBSET Upto(last)
  BY <1>1, <1>2 DEF Changed
<1>4. Upto(last) \in SUBSET Files
  BY DEF Changed
<1>5. IsFiniteSet(Upto(last)) /\ Cardinality(Upto(last)) \in Nat
  BY <1>4, FilesFinite
<1>6. Cardinality(Upto(f)) <= Cardinality(Upto(last)) /\ IsFiniteSet(Upto(f))
  BY <1>3, <1>5, FS_Subset
<1>7. Cardinality(Upto(f)) \in Nat
  BY <1>6, FS_CardinalityType
<1>8. Cardinality(Upto(f)) <= ChunkLimit
  <2> HIDE DEF Upto
  <2> QED
    BY <1>1, <1>5, <1>6, <1>7, LimitAssumption
<1> QED
  BY <1>8 DEF MediaChangesChunk

LEMMA FetchKept ==
  ASSUME TypeOK, TypeOK', UsnsDistinct, NEW d \in Devices, CleanKept(d), NEW last \in Files, FetchChanges(d, last)
  PROVE  CleanKept(d)' /\ OthersStay(d) /\ ServerMoves
<1> DEFINE after == sync[d].last_usn
           batch == MediaChangesChunk(after)
           Required(what) == {f \in batch : RequiredChange(rows[d][f], store[f].sum) = what}
           gone == Required("delete")
           s == sync'[d]
<1>1. /\ sync[d].pc = "fetch" /\ last \in batch /\ RemoveFiles(d, gone)
      /\ UNCHANGED <<store, blobs, meta, usn, slipped>>
  BY DEF FetchChanges, server, history
<1>2. sync[d] \in Sync /\ after \in Nat /\ after = usn[d] /\ sync[d].got = Nothing
  BY <1>1 DEF TypeOK, Sync, CleanKept, Fetching
<1>3. /\ s.pc = "download" /\ s.last_usn = store[last].usn /\ s.got = sync[d].got /\ s.reply = sync[d].reply
      /\ s.delete = gone /\ s.marked = Required("remove_pending")
      /\ \A f \in Files : /\ s.download[f] = IF f \in Required("download") THEN store[f].usn ELSE 0
                          /\ s.agreed[f] = store[f].sum
      /\ \A e \in Devices \ {d} : sync'[e] = sync[e]
  <2> DEFINE dl == [f \in Files |-> IF f \in Required("download") THEN store[f].usn ELSE 0]
             ag == [f \in Files |-> store[f].sum]
             mk == Required("remove_pending")
  <2>1. sync' = [sync EXCEPT ![d] = [sync[d] EXCEPT !.pc = "download", !.last_usn = store[last].usn,
                                       !.download = dl, !.delete = gone, !.marked = mk, !.agreed = ag]]
    BY DEF FetchChanges
  <2>2. /\ \A f \in Files : dl[f] = IF f \in Required("download") THEN store[f].usn ELSE 0
        /\ \A f \in Files : ag[f] = store[f].sum
    OBVIOUS
  <2>3. sync \in [Devices -> Sync]
    BY DEF TypeOK
  <2> HIDE DEF dl, ag, mk, gone, batch
  <2>4. s = [sync[d] EXCEPT !.pc = "download", !.last_usn = store[last].usn,
                            !.download = dl, !.delete = gone, !.marked = mk, !.agreed = ag]
        /\ \A e \in Devices \ {d} : sync'[e] = sync[e]
    BY <2>1, <2>3
  <2>5. /\ s.pc = "download" /\ s.last_usn = store[last].usn /\ s.got = sync[d].got /\ s.reply = sync[d].reply
        /\ s.delete = gone /\ s.marked = mk /\ s.download = dl /\ s.agreed = ag
    BY <1>2, <2>4 DEF Sync
  <2> QED
    BY <2>2, <2>4, <2>5 DEF mk
<1> DEFINE Kind(f) == RequiredChange(rows[d][f], store[f].sum)
<1>4. ASSUME NEW f \in Files
      PROVE  /\ Kind(f) = "delete" => store[f].sum = None
             /\ Kind(f) = "remove_pending" => rows[d][f].dirty /\ rows[d][f].sum = store[f].sum
             /\ Kind(f) = "none" => Agrees(d, f)
             /\ Kind(f) \in {"none", "delete", "download", "remove_pending"}
  BY DEF RequiredChange, Agrees
<1>5. /\ \A e \in Devices \ {d} : rows'[e] = rows[e]
      /\ \A f \in Files : IF f \in gone THEN rows'[d][f] = rows[d][f] \/ rows'[d][f].dirty
                          ELSE rows'[d][f] = rows[d][f]
  <2>1. rows \in [Devices -> [Files -> MediaEntry]]
    BY DEF TypeOK
  <2> HIDE DEF gone
  <2>2. \A f \in Files : MarkRemoved(d, gone)[f] = rows[d][f] \/ (f \in gone /\ MarkRemoved(d, gone)[f].dirty)
    BY DEF MarkRemoved, Entry
  <2> QED
    BY <1>1, <2>1, <2>2 DEF RemoveFiles
<1>6. ServerMoves /\ RowsMove(d) /\ \A e \in Devices \ {d} : RowsMove(e)
  <2>1. ServerMoves
    BY <1>1, ServerStays DEF server
  <2> QED
    BY <1>1, <1>5, <2>1 DEF RowsMove
<1>7. \A f \in Files : Covered(d, f)'
  BY <1>1, <1>6, CoveredStays DEF CleanKept
<1>8. UsnsPast(d)'
  <2>1. store[last].usn <= meta.last_usn
    BY DEF UsnsDistinct
  <2> QED
    BY <1>1, <1>3, <2>1 DEF CleanKept, UsnsPast
<1>9. ASSUME NEW f \in Files PROVE Downloading(d, f)'
  <2>1. SUFFICES ASSUME Counts(d, f, store[last].usn)
        PROVE /\ s.got[f] # None => s.got[f] = store[f].sum
              /\ f \in gone => store[f].sum = None
              /\ f \in s.marked => s.agreed[f] = store[f].sum /\ rows'[d][f].dirty
              /\ s.download[f] = 0 /\ s.got[f] = None /\ f \notin gone => rows'[d][f].dirty \/ rows'[d][f].sum = store[f].sum
    BY <1>1, <1>3 DEF Downloading, Counts, Agrees
  <2>2. s.got[f] = None
    BY <1>2, <1>3 DEF Nothing
  <2>3. f \in s.marked => Kind(f) = "remove_pending"
    BY <1>3
  <2>4. f \in gone => Kind(f) = "delete"
    OBVIOUS
  <2>5. f \in s.marked => rows'[d][f].dirty
    BY <1>4, <1>5, <2>3, <2>4
  <2>6. ASSUME s.download[f] = 0, f \notin gone PROVE Agrees(d, f)
    <3>1. 0 < store[f].usn /\ store[f].usn <= store[last].usn /\ store[f].usn \in Nat
      BY <2>1 DEF Counts, TypeOK
    <3>2. CASE store[f].usn <= usn[d]
      <4>1. Counts(d, f, usn[d])
        BY <2>1, <3>2 DEF Counts
      <4> QED
        BY <4>1 DEF CleanKept, Covered
    <3>3. CASE ~ (store[f].usn <= usn[d])
      <4>1. f \in Changed(after)
        BY <1>2, <3>1, <3>3 DEF Changed
      <4>2. f \in batch
        BY <1>1, <1>2, <3>1, <4>1, ChunkHoldsAll
      <4>3. Kind(f) # "delete"
        BY <2>6, <4>2
      <4>4. Kind(f) # "download"
        BY <1>3, <2>6, <3>1, <4>2
      <4> QED
        BY <1>4, <4>3, <4>4 DEF Agrees
    <3> QED
      BY <3>2, <3>3
  <2> QED
    BY <1>3, <1>4, <1>5, <2>2, <2>4, <2>5, <2>6 DEF Agrees
<1>10. Fetching(d)' /\ \A f \in Files : SentOff(d, f)'
  BY <1>3 DEF Fetching, SentOff
<1> QED
  BY <1>1, <1>3, <1>6, <1>7, <1>8, <1>9, <1>10 DEF CleanKept, OthersStay
LEMMA DownloadKept ==
  ASSUME TypeOK, TypeOK', NEW d \in Devices, CleanKept(d), NEW z \in Zips(d), DownloadFiles(d, z)
  PROVE  CleanKept(d)' /\ OthersStay(d) /\ ServerMoves
<1> DEFINE s == sync'[d]
<1>1. /\ sync[d].pc = "download" /\ \A f \in z : blobs[f] # None
      /\ UNCHANGED <<store, blobs, meta, rows, usn, slipped>>
  BY DEF DownloadFiles, server, history
<1>2. /\ s.pc = "download" /\ s.last_usn = sync[d].last_usn /\ s.reply = sync[d].reply
      /\ s.delete = sync[d].delete /\ s.marked = sync[d].marked /\ s.agreed = sync[d].agreed
      /\ \A f \in Files : IF f \in z THEN s.got[f] = blobs[f]
                          ELSE s.got[f] = sync[d].got[f] /\ s.download[f] = sync[d].download[f]
      /\ \A e \in Devices \ {d} : sync'[e] = sync[e]
  <2> DEFINE dl == [f \in Files |-> IF f \in z THEN 0 ELSE sync[d].download[f]]
             gt == [f \in Files |-> IF f \in z THEN blobs[f] ELSE sync[d].got[f]]
  <2>1. sync[d] \in Sync /\ sync \in [Devices -> Sync]
    BY DEF TypeOK
  <2>2. sync' = [sync EXCEPT ![d] = [sync[d] EXCEPT !.download = dl, !.got = gt]]
    BY <2>1 DEF DownloadFiles, Sync
  <2>3. \A f \in Files : IF f \in z THEN gt[f] = blobs[f] ELSE gt[f] = sync[d].got[f] /\ dl[f] = sync[d].download[f]
    OBVIOUS
  <2> HIDE DEF dl, gt
  <2>4. s.got = gt /\ s.download = dl
        /\ s.pc = sync[d].pc /\ s.last_usn = sync[d].last_usn /\ s.reply = sync[d].reply
        /\ s.delete = sync[d].delete /\ s.marked = sync[d].marked /\ s.agreed = sync[d].agreed
        /\ \A e \in Devices \ {d} : sync'[e] = sync[e]
    BY <2>1, <2>2 DEF Sync
  <2> QED
    BY <1>1, <2>3, <2>4
<1>3. ServerMoves /\ RowsMove(d) /\ OthersStay(d)
  BY <1>1, <1>2, ServerStays DEF server, RowsMove, OthersStay
<1>4. UsnsPast(d)' /\ Fetching(d)' /\ \A f \in Files : Covered(d, f)' /\ SentOff(d, f)'
  BY <1>1, <1>2 DEF CleanKept, UsnsPast, Fetching, SentOff, Covered, Counts, Agrees
<1>5. ASSUME NEW f \in Files PROVE Downloading(d, f)'
  <2>1. Downloading(d, f)
    BY DEF CleanKept
  <2>2. CASE f \in z
    <3>1. s.got[f] = blobs[f] /\ blobs[f] # None
      BY <1>1, <1>2, <2>2
    <3> QED
      BY <1>1, <1>2, <2>1, <3>1 DEF Downloading, Counts, Agrees
  <2>3. CASE f \notin z
    <3>1. s.got[f] = sync[d].got[f] /\ s.download[f] = sync[d].download[f]
      BY <1>2, <2>3
    <3> QED
      BY <1>1, <1>2, <2>1, <3>1 DEF Downloading, Counts, Agrees
  <2> QED
    BY <2>2, <2>3
<1> QED
  BY <1>3, <1>4, <1>5 DEF CleanKept

LEMMA BatchKept ==
  ASSUME TypeOK, TypeOK', NEW d \in Devices, CleanKept(d), RecordBatch(d)
  PROVE  CleanKept(d)' /\ OthersStay(d) /\ ServerMoves
<1> DEFINE s == sync[d]
<1>1. /\ s.pc = "download" /\ Wanted(d) = {} /\ UNCHANGED <<store, blobs, meta>>
      /\ rows' = [rows EXCEPT ![d] = Recorded(d, s)]
      /\ usn' = [usn EXCEPT ![d] = s.last_usn]
      /\ sync' = [sync EXCEPT ![d] = [Idle EXCEPT !.pc = "fetch", !.last_usn = s.last_usn, !.acted = TRUE]]
      /\ slipped' = [slipped EXCEPT ![d] = @ \cup ClearedUnsent(d)]
  BY DEF RecordBatch, server
<1>2. /\ \A e \in Devices \ {d} : rows'[e] = rows[e] /\ usn'[e] = usn[e] /\ sync'[e] = sync[e] /\ slipped'[e] = slipped[e]
      /\ rows'[d] = Recorded(d, s) /\ usn'[d] = s.last_usn /\ slipped'[d] = slipped[d] \cup ClearedUnsent(d)
      /\ sync'[d] = [Idle EXCEPT !.pc = "fetch", !.last_usn = s.last_usn, !.acted = TRUE]
  <2>1. DOMAIN rows = Devices /\ DOMAIN usn = Devices /\ DOMAIN sync = Devices /\ DOMAIN slipped = Devices
        /\ rows = [e \in Devices |-> rows[e]] /\ usn = [e \in Devices |-> usn[e]]
        /\ sync = [e \in Devices |-> sync[e]] /\ slipped = [e \in Devices |-> slipped[e]]
    BY DEF TypeOK
  <2> QED
    BY <1>1, <2>1
<1>3. sync'[d].pc = "fetch" /\ sync'[d].last_usn = s.last_usn /\ sync'[d].got = Nothing /\ sync'[d].reply = 0
  BY <1>2 DEF Idle
<1>4. OthersStay(d) /\ ServerMoves
  BY <1>1, <1>2, ServerStays DEF server, RowsMove, OthersStay
<1>5. UsnsPast(d)'
  BY <1>1, <1>2, <1>3 DEF CleanKept, UsnsPast, TypeOK
<1>6. ASSUME NEW f \in Files PROVE Covered(d, f)'
  <2>1. SUFFICES ASSUME Counts(d, f, s.last_usn), f \notin ClearedUnsent(d)
        PROVE rows'[d][f].dirty \/ rows'[d][f].sum = store[f].sum
    BY <1>1, <1>2 DEF Covered, Counts, Agrees
  <2>2. /\ s.got[f] # None => s.got[f] = store[f].sum
        /\ f \in s.delete => store[f].sum = None
        /\ f \in s.marked => s.agreed[f] = store[f].sum /\ rows[d][f].dirty
        /\ s.download[f] = 0 /\ s.got[f] = None /\ f \notin s.delete => Agrees(d, f)
    BY <1>1, <2>1 DEF CleanKept, Downloading
  <2>3. s.download[f] = 0
    BY <1>1 DEF Wanted
  <2>4. rows'[d][f] = IF s.got[f] # None THEN Entry(s.got[f], FALSE)
                      ELSE IF f \in s.delete THEN NoRow
                      ELSE IF f \in s.marked THEN Cleaned(rows[d][f])
                      ELSE rows[d][f]
    BY <1>2 DEF Recorded
  <2>5. CASE s.got[f] # None
    BY <2>2, <2>4, <2>5 DEF Entry
  <2>6. CASE s.got[f] = None /\ f \in s.delete
    BY <2>2, <2>4, <2>6 DEF NoRow
  <2>7. CASE s.got[f] = None /\ f \notin s.delete /\ f \in s.marked
    <3>1. rows[d][f].dirty /\ rows[d][f].sum = store[f].sum
      BY <2>1, <2>2, <2>7 DEF ClearedUnsent
    <3>2. rows'[d][f] = Entry(rows[d][f].sum, FALSE)
      BY <2>4, <2>7, <3>1 DEF Cleaned
    <3> QED
      BY <3>1, <3>2 DEF Entry
  <2>8. CASE s.got[f] = None /\ f \notin s.delete /\ f \notin s.marked
    BY <2>2, <2>3, <2>4, <2>8 DEF Agrees
  <2> QED
    BY <2>5, <2>6, <2>7, <2>8
<1> QED
  BY <1>2, <1>3, <1>4, <1>5, <1>6, MovedOn

LEMMA UploadKept ==
  ASSUME TypeOK, TypeOK', NEW d \in Devices, CleanKept(d), NEW b \in Batches(d), UploadChanges(d, b)
  PROVE  CleanKept(d)' /\ OthersStay(d) /\ ServerMoves
<1> DEFINE s == sync'[d]
<1>1. /\ sync[d].pc = "send" /\ UNCHANGED <<rows, usn, slipped>>
  BY DEF UploadChanges, local, history
<1>2. /\ s.pc = "sent" /\ s.last_usn = sync[d].last_usn /\ s.marked = b /\ s.agreed = ZipData(d)
      /\ \A e \in Devices \ {d} : sync'[e] = sync[e]
  <2> DEFINE ag == ZipData(d)
             rp == meta.last_usn + Cardinality(Effective(ZipData(d), b))
  <2>1. sync' = [sync EXCEPT ![d] = [sync[d] EXCEPT !.pc = "sent", !.marked = b, !.agreed = ag, !.reply = rp]]
    BY DEF UploadChanges
  <2>2. sync[d] \in Sync /\ sync \in [Devices -> Sync]
    BY DEF TypeOK
  <2> HIDE DEF ag, rp
  <2>3. /\ s.pc = "sent" /\ s.last_usn = sync[d].last_usn /\ s.marked = b /\ s.agreed = ag
        /\ \A e \in Devices \ {d} : sync'[e] = sync[e]
    BY <2>1, <2>2 DEF Sync
  <2> QED
    BY <2>3 DEF ag
<1>3. /\ ServerMoves /\ meta'.last_usn = s.reply
      /\ \A f \in b : store'[f].sum = ZipData(d)[f]
  BY UploadMoves
<1>4. RowsMove(d) /\ OthersStay(d)
  BY <1>1, <1>2 DEF RowsMove, OthersStay
<1>5. \A f \in Files : Covered(d, f)'
  BY <1>1, <1>3, <1>4, CoveredStays DEF CleanKept
<1>6. UsnsPast(d)'
  BY <1>1, <1>2, <1>3 DEF CleanKept, UsnsPast, ServerMoves, TypeOK, Sync
<1>7. \A f \in Files : SentOff(d, f)'
  <2>1. \A f \in b : rows[d][f].dirty
    BY DEF Batches, Pending
  <2> QED
    BY <1>1, <1>2, <1>3, <2>1 DEF SentOff
<1>8. Fetching(d)' /\ \A f \in Files : Downloading(d, f)'
  BY <1>2 DEF Fetching, Downloading
<1> QED
  BY <1>3, <1>4, <1>5, <1>6, <1>7, <1>8 DEF CleanKept

LEMMA RecordKept ==
  ASSUME TypeOK, TypeOK', NEW d \in Devices, CleanKept(d), RecordUpload(d)
  PROVE  CleanKept(d)' /\ OthersStay(d) /\ ServerMoves
<1> DEFINE s == sync[d]
           next == UsnAfterUpload(d)
<1>1. /\ s.pc = "sent" /\ UNCHANGED <<store, blobs, meta>>
      /\ rows' = [rows EXCEPT ![d] = [f \in Files |-> IF f \in s.marked THEN Cleaned(@[f]) ELSE @[f]]]
      /\ usn' = [usn EXCEPT ![d] = next]
      /\ slipped' = [slipped EXCEPT ![d] = @ \cup PassedOver(d, next) \cup ClearedUnsent(d)]
      /\ sync' = [sync EXCEPT ![d] = [Idle EXCEPT !.pc = "send", !.acted = TRUE]]
  BY DEF RecordUpload, server
<1>2. next \in {usn[d], s.reply}
  BY DEF UsnAfterUpload
<1> HIDE DEF next
<1>3. /\ \A e \in Devices \ {d} : rows'[e] = rows[e] /\ usn'[e] = usn[e] /\ sync'[e] = sync[e] /\ slipped'[e] = slipped[e]
      /\ \A f \in Files : rows'[d][f] = IF f \in s.marked THEN Cleaned(rows[d][f]) ELSE rows[d][f]
      /\ usn'[d] = next /\ slipped'[d] = slipped[d] \cup PassedOver(d, next) \cup ClearedUnsent(d)
      /\ sync'[d] = [Idle EXCEPT !.pc = "send", !.acted = TRUE]
  <2>1. /\ rows = [e \in Devices |-> rows[e]] /\ usn = [e \in Devices |-> usn[e]]
        /\ sync = [e \in Devices |-> sync[e]] /\ slipped = [e \in Devices |-> slipped[e]]
    BY DEF TypeOK
  <2> QED
    BY <1>1, <2>1
<1>4. sync'[d].pc = "send" /\ sync'[d].last_usn = 0 /\ sync'[d].reply = 0
  BY <1>3 DEF Idle
<1>5. OthersStay(d) /\ ServerMoves
  BY <1>1, <1>3, ServerStays DEF server, RowsMove, OthersStay
<1>6. UsnsPast(d)'
  BY <1>1, <1>2, <1>3, <1>4 DEF CleanKept, UsnsPast, TypeOK
<1>7. ASSUME NEW f \in Files PROVE Covered(d, f)'
  <2>1. SUFFICES ASSUME Counts(d, f, next), f \notin PassedOver(d, next), f \notin ClearedUnsent(d)
        PROVE rows'[d][f].dirty \/ rows'[d][f].sum = store[f].sum
    BY <1>1, <1>3 DEF Covered, Counts, Agrees
  <2>2. Covered(d, f) /\ SentOff(d, f) /\ usn[d] \in Nat /\ store[f].usn \in Nat
    BY DEF CleanKept, TypeOK
  <2>3. CASE usn[d] < store[f].usn
    <3>1. f \in s.marked /\ store[f].sum = s.agreed[f]
      BY <2>1, <2>3 DEF Counts, PassedOver
    <3>2. rows[d][f].dirty
      BY <1>1, <2>2, <3>1 DEF SentOff
    <3>3. rows[d][f].sum = store[f].sum
      BY <2>1, <3>1, <3>2 DEF ClearedUnsent
    <3>4. rows'[d][f] = Entry(rows[d][f].sum, FALSE)
      BY <1>3, <3>1, <3>2 DEF Cleaned
    <3> QED
      BY <3>3, <3>4 DEF Entry
  <2>4. CASE ~ (usn[d] < store[f].usn)
    <3>1. Counts(d, f, usn[d])
      BY <2>1, <2>2, <2>4 DEF Counts
    <3>2. CASE f \in s.marked
      <4>1. rows[d][f].dirty /\ s.agreed[f] = store[f].sum
        BY <1>1, <2>2, <3>1, <3>2 DEF SentOff
      <4>2. rows[d][f].sum = store[f].sum
        BY <2>1, <3>2, <4>1 DEF ClearedUnsent
      <4>3. rows'[d][f] = Entry(rows[d][f].sum, FALSE)
        BY <1>3, <3>2, <4>1 DEF Cleaned
      <4> QED
        BY <4>2, <4>3 DEF Entry
    <3>3. CASE f \notin s.marked
      BY <1>3, <2>2, <3>1, <3>3 DEF Covered, Agrees
    <3> QED
      BY <3>2, <3>3
  <2> QED
    BY <2>3, <2>4
<1> QED
  BY <1>4, <1>5, <1>6, <1>7, MovedOn
LEMMA DropKept ==
  ASSUME TypeOK, TypeOK', NEW d \in Devices, CleanKept(d), ForceResync(d)
  PROVE  CleanKept(d)' /\ OthersStay(d) /\ ServerMoves
<1>1. /\ UNCHANGED <<store, blobs, meta>>
      /\ rows' = [rows EXCEPT ![d] = [f \in Files |-> NoRow]]
      /\ usn' = [usn EXCEPT ![d] = 0] /\ slipped' = [slipped EXCEPT ![d] = {}] /\ sync' = [sync EXCEPT ![d] = Idle]
  BY DEF ForceResync, server, End
<1>2. /\ \A e \in Devices \ {d} : rows'[e] = rows[e] /\ usn'[e] = usn[e] /\ sync'[e] = sync[e] /\ slipped'[e] = slipped[e]
      /\ usn'[d] = 0 /\ sync'[d] = Idle
  BY <1>1 DEF TypeOK
<1>3. sync'[d].pc = "idle" /\ sync'[d].last_usn = 0 /\ sync'[d].reply = 0
  BY <1>2 DEF Idle
<1>4. OthersStay(d) /\ ServerMoves
  BY <1>1, <1>2, ServerStays DEF server, RowsMove, OthersStay
<1>5. UsnsPast(d)'
  <2>1. meta.last_usn \in Nat /\ meta' = meta
    BY <1>1 DEF TypeOK
  <2> QED
    BY <1>2, <1>3, <2>1 DEF UsnsPast
<1>6. \A f \in Files : Covered(d, f)'
  <2>1. \A f \in Files : store'[f].usn \in Nat
    BY DEF TypeOK
  <2> QED
    BY <1>2, <2>1 DEF Covered, Counts
<1> QED
  BY <1>3, <1>4, <1>5, <1>6, MovedOn

(* The places a sync goes to without a transaction of its own.              *)
LEMMA TurnKept ==
  ASSUME TypeOK, TypeOK', NEW d \in Devices, CleanKept(d), ServerMoves,
         \A e \in Devices : RowsMove(e), usn' = usn,
         NEW v, sync' = [sync EXCEPT ![d] = v],
         \/ v = Idle
         \/ v = AfterBegin(d, usn[d])
         \/ v = [Idle EXCEPT !.pc = "begin", !.last_usn = usn[d]]
         \/ v = [sync[d] EXCEPT !.pc = "send"]
  PROVE  CleanKept(d)' /\ OthersStay(d)
<1>1. sync'[d] = v /\ \A e \in Devices \ {d} : sync'[e] = sync[e]
  BY DEF TypeOK
<1>2. sync[d] \in Sync
  BY DEF TypeOK
<1>3. /\ v.pc \in {"idle", "begin", "fetch", "send"}
      /\ v.last_usn \in {0, sync[d].last_usn, usn[d]} /\ v.reply \in {0, sync[d].reply}
      /\ v.pc \in {"begin", "fetch"} => v.last_usn = usn[d] /\ v.got = Nothing
  <2>1. CASE v = [sync[d] EXCEPT !.pc = "send"]
    BY <1>2, <2>1 DEF Sync
  <2>2. CASE v = Idle
    BY <2>2 DEF Idle
  <2>3. CASE v = AfterBegin(d, usn[d]) \/ v = [Idle EXCEPT !.pc = "begin", !.last_usn = usn[d]]
    BY <2>3 DEF AfterBegin, Idle
  <2> QED
    BY <2>1, <2>2, <2>3
<1>4. CleanKept(d)'
  BY <1>1, <1>3, MovedOnAsIs
<1> QED
  BY <1>1, <1>4 DEF OthersStay

(* A scan or an edit marks what it changes.                                 *)
LEMMA ScanMarks ==
  ASSUME TypeOK, NEW d \in Devices, RegisterChanges(d), slipped' = slipped
  PROVE  \A e \in Devices : RowsMove(e)
<1>1. \A f \in Files : Scanned(d)[f] = rows[d][f] \/ Scanned(d)[f].dirty
  BY DEF Scanned, Entry
<1>2. rows' = rows \/ rows' = [rows EXCEPT ![d] = Scanned(d)]
  BY DEF RegisterChanges
<1>3. rows = [e \in Devices |-> rows[e]]
  BY DEF TypeOK
<1>4. \A e \in Devices : rows'[e] = rows[e] \/ (e = d /\ rows'[e] = Scanned(d))
  BY <1>2, <1>3
<1> QED
  BY <1>1, <1>4 DEF RowsMove

LEMMA EditMarks ==
  ASSUME TypeOK, NEW d \in Devices, UserStep(d)
  PROVE  \A e \in Devices : RowsMove(e)
<1>1. slipped' = slipped
  BY DEF UserStep, ChangeOutside, AddFile, TrashFile, Edit
<1>2. \A e \in Devices, g \in Files : rows'[e][g] = rows[e][g] \/ rows'[e][g].dirty
  <2>1. PICK f \in Files : \/ \E c \in Sums : ChangeOutside(d, f, c)
                           \/ \E c \in Contents : AddFile(d, f, c)
                           \/ TrashFile(d, f)
    BY DEF UserStep
  <2>2. rows \in [Devices -> [Files -> MediaEntry]]
    BY DEF TypeOK
  <2>3. ASSUME NEW c \in Sums, ChangeOutside(d, f, c) PROVE rows' = rows
    BY <2>3 DEF ChangeOutside
  <2>4. ASSUME NEW c \in Contents, AddFile(d, f, c)
        PROVE  \A e \in Devices, g \in Files : rows'[e][g] = rows[e][g] \/ rows'[e][g].dirty
    <3>1. rows' = rows \/ rows' = [rows EXCEPT ![d][f] = Entry(c, TRUE)]
      BY <2>4 DEF AddFile
    <3>2. Entry(c, TRUE).dirty
      BY DEF Entry
    <3> QED
      BY <2>2, <3>1, <3>2
  <2>5. ASSUME TrashFile(d, f)
        PROVE  \A e \in Devices, g \in Files : rows'[e][g] = rows[e][g] \/ rows'[e][g].dirty
    <3>1. rows' = [rows EXCEPT ![d] = MarkRemoved(d, {f})]
      BY <2>5 DEF TrashFile, RemoveFiles
    <3>2. \A g \in Files : MarkRemoved(d, {f})[g] = rows[d][g] \/ MarkRemoved(d, {f})[g].dirty
      BY DEF MarkRemoved, Entry
    <3> QED
      BY <2>2, <3>1, <3>2
  <2> QED
    BY <2>1, <2>3, <2>4, <2>5
<1> QED
  BY <1>1, <1>2 DEF RowsMove

LEMMA InitClean == Init => CleanInv
<1> SUFFICES ASSUME Init, NEW d \in Devices PROVE CleanKept(d)
  BY DEF CleanInv
<1>1. sync[d] = Idle /\ usn[d] = 0 /\ meta.last_usn = 0 /\ \A f \in Files : store[f].usn = 0
  BY DEF Init
<1>2. sync[d].pc = "idle" /\ sync[d].last_usn = 0 /\ sync[d].reply = 0
  BY <1>1 DEF Idle
<1> QED
  BY <1>1, <1>2 DEF CleanKept, UsnsPast, Fetching, Covered, Counts, Downloading, SentOff

LEMMA StepClean ==
  ASSUME Inv, Inv', CleanInv, [Next]_vars
  PROVE  CleanInv'
<1>1. TypeOK /\ TypeOK' /\ UsnsDistinct /\ \A e \in Devices : CleanKept(e)
  BY DEF Inv, CleanInv
<1>2. ASSUME NEW d \in Devices, CleanKept(d)', OthersStay(d), ServerMoves PROVE CleanInv'
  <2>1. \A e \in Devices \ {d} : CleanKept(e)'
    BY <1>1, <1>2, OthersKept DEF OthersStay
  <2> QED
    BY <1>2, <2>1 DEF CleanInv
<1>3. ASSUME \A e \in Devices : RowsMove(e), ServerMoves, usn' = usn, sync' = sync PROVE CleanInv'
  BY <1>1, <1>3, OthersKept DEF CleanInv
<1>4. CASE UNCHANGED vars
  BY <1>1, <1>3, <1>4, ServerStays DEF vars, server, RowsMove
<1>5. ASSUME NEW d \in Devices, Scan(d) \/ UserStep(d) PROVE CleanInv'
  <2>1. /\ \A e \in Devices : RowsMove(e)
        /\ UNCHANGED server /\ usn' = usn /\ sync' = sync
    <3>1. CASE Scan(d)
      <4>1. RegisterChanges(d) /\ slipped' = slipped
        BY <3>1 DEF Scan, history
      <4>2. UNCHANGED server /\ usn' = usn /\ sync' = sync
        BY <3>1 DEF Scan
      <4> QED
        BY <1>1, <4>1, <4>2, ScanMarks
    <3>2. CASE UserStep(d)
      <4>1. UNCHANGED server /\ usn' = usn /\ sync' = sync
        BY <3>2 DEF UserStep, ChangeOutside, AddFile, TrashFile, Edit
      <4> QED
        BY <1>1, <3>2, <4>1, EditMarks
    <3> QED
      BY <1>5, <3>1, <3>2
  <2> QED
    BY <1>1, <1>3, <2>1, ServerStays
<1>6. ASSUME NEW d \in Devices, NEW v, sync' = [sync EXCEPT ![d] = v], usn' = usn,
             \A e \in Devices : RowsMove(e), ServerMoves,
             \/ v = Idle
             \/ v = AfterBegin(d, usn[d])
             \/ v = [Idle EXCEPT !.pc = "begin", !.last_usn = usn[d]]
             \/ v = [sync[d] EXCEPT !.pc = "send"]
      PROVE  CleanInv'
  BY <1>1, <1>2, <1>6, TurnKept
<1>7. ASSUME NEW d \in Devices, StartGiven(d) \/ Start(d) PROVE CleanInv'
  <2>1. RegisterChanges(d) /\ slipped' = slipped /\ UNCHANGED server /\ usn' = usn
    BY <1>7 DEF StartGiven, Start, history
  <2>2. PICK v : sync' = [sync EXCEPT ![d] = v]
                 /\ (v = AfterBegin(d, usn[d]) \/ v = [Idle EXCEPT !.pc = "begin", !.last_usn = usn[d]])
    BY <1>7 DEF StartGiven, Start
  <2>3. (\A e \in Devices : RowsMove(e)) /\ ServerMoves
    BY <1>1, <2>1, ScanMarks, ServerStays
  <2> QED
    BY <1>6, <2>1, <2>2, <2>3
<1>8. ASSUME NEW d \in Devices, Begin(d) \/ FetchDone(d) \/ Finish(d) \/ Interrupt(d) PROVE CleanInv'
  <2>1. UNCHANGED <<server, rows, usn, slipped>>
    BY <1>8 DEF Begin, FetchDone, Finish, Interrupt, local, history
  <2>2. (\A e \in Devices : RowsMove(e)) /\ ServerMoves
    BY <1>1, <2>1, ServerStays DEF RowsMove
  <2>3. PICK v : sync' = [sync EXCEPT ![d] = v]
                 /\ (v = Idle \/ v = AfterBegin(d, usn[d]) \/ v = [sync[d] EXCEPT !.pc = "send"])
    <3>1. Begin(d) => sync' = [sync EXCEPT ![d] = AfterBegin(d, usn[d])]
      BY <1>1 DEF Begin, CleanKept, Fetching
    <3>2. FetchDone(d) => sync' = [sync EXCEPT ![d] = [sync[d] EXCEPT !.pc = "send"]]
      BY DEF FetchDone, Goto
    <3> QED
      BY <1>8, <3>1, <3>2 DEF Finish, Interrupt, End
  <2> QED
    BY <1>6, <2>1, <2>2, <2>3
<1>9. ASSUME NEW d \in Devices, NEW f \in Wanted(d), DownloadConflict(d, f) PROVE CleanInv'
  <2>1. UNCHANGED <<rows, usn, slipped>> /\ sync' = [sync EXCEPT ![d] = Idle]
    BY <1>9 DEF DownloadConflict, End, local, history
  <2>2. (\A e \in Devices : RowsMove(e)) /\ ServerMoves
    BY <1>1, <1>9, <2>1, ServerForgets DEF RowsMove
  <2> QED
    BY <1>6, <2>1, <2>2
<1>10. ASSUME NEW d \in Devices, NEW b \in Batches(d), NEW w \in SUBSET b, UploadRolledBack(d, b, w) PROVE CleanInv'
  <2>1. UNCHANGED <<rows, usn, slipped>> /\ sync' = [sync EXCEPT ![d] = Idle]
    BY <1>10 DEF UploadRolledBack, End, local, history
  <2>2. (\A e \in Devices : RowsMove(e)) /\ ServerMoves
    BY <1>1, <1>10, <2>1, ServerFails DEF RowsMove
  <2> QED
    BY <1>6, <2>1, <2>2
<1>11. ASSUME NEW d \in Devices, NEW f \in Files, DropUnreadable(d, f) PROVE CleanInv'
  <2>1. /\ sync[d].pc = "send" /\ rows' = [rows EXCEPT ![d][f] = NoRow]
        /\ slipped' = [slipped EXCEPT ![d] = @ \cup {f}] /\ UNCHANGED server /\ usn' = usn /\ sync' = sync
    BY <1>11 DEF DropUnreadable
  <2>2. rows = [e \in Devices |-> rows[e]] /\ slipped = [e \in Devices |-> slipped[e]]
        /\ rows[d] = [g \in Files |-> rows[d][g]]
    BY <1>1 DEF TypeOK
  <2>3. \A e \in Devices : RowsMove(e)
    BY <2>1, <2>2 DEF RowsMove
  <2> QED
    BY <1>1, <1>3, <2>1, <2>3, ServerStays
<1>12. ASSUME NEW d \in Devices, SyncStep(d) PROVE CleanInv'
  <2>1. CASE Begin(d) \/ FetchDone(d) \/ Finish(d)
    BY <1>8, <2>1
  <2>2. ASSUME NEW last \in Files, FetchChanges(d, last) PROVE CleanInv'
    BY <1>1, <1>2, <2>2, FetchKept
  <2>3. ASSUME NEW z \in Zips(d), DownloadFiles(d, z) PROVE CleanInv'
    BY <1>1, <1>2, <2>3, DownloadKept
  <2>4. ASSUME NEW f \in Wanted(d), DownloadConflict(d, f) PROVE CleanInv'
    BY <1>9, <2>4
  <2>5. CASE RecordBatch(d)
    BY <1>1, <1>2, <2>5, BatchKept
  <2>6. ASSUME NEW b \in Batches(d), UploadChanges(d, b) PROVE CleanInv'
    BY <1>1, <1>2, <2>6, UploadKept
  <2>7. CASE RecordUpload(d)
    BY <1>1, <1>2, <2>7, RecordKept
  <2>8. CASE ForceResync(d)
    BY <1>1, <1>2, <2>8, DropKept
  <2> QED
    BY <1>12, <2>1, <2>2, <2>3, <2>4, <2>5, <2>6, <2>7, <2>8 DEF SyncStep
<1> QED
  BY <1>4, <1>5, <1>7, <1>8, <1>10, <1>11, <1>12 DEF Next

(* What a device holds as clean is what the server has, of every change    *)
(* its usn says it has fetched: however its batches and uploads interleave *)
(* with those of others, with the user's edits and with failures.          *)
THEOREM CleanStaysServers == Spec => []CleanIsServers
<1>1. Init => Inv /\ CleanInv
  BY InitInv, InitClean
<1>2. Inv /\ CleanInv /\ [Next]_vars => Inv' /\ CleanInv'
  BY StepInv, StepClean
<1>3. Inv /\ CleanInv => CleanIsServers
  BY DEF CleanInv, CleanKept, Covered, Counts, Agrees, CleanIsServers
<1> QED
  BY <1>1, <1>2, <1>3, PTL DEF Spec
=============================================================================
