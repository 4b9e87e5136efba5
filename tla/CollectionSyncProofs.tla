------------------------ MODULE CollectionSyncProofs ------------------------
(***************************************************************************)
(* Proofs about CollectionSync, for any number of devices and objects and  *)
(* any chunk size.                                                         *)
(*                                                                         *)
(* 1. For any clock and any combination of faults: type correctness, that  *)
(*    reviews are kept (ReviewInv), and what a session promises to its     *)
(*    device and to the others (SessionInv).                               *)
(* 2. For one tick a second, and without overtaken sessions and ids that   *)
(*    come back (Timely): a device and the server agree on every object    *)
(*    (AgreeInv), review (HearInv) and, when stamps are equal, on the      *)
(*    whole collection (SyncInv), so that nothing is missed, the sanity    *)
(*    check never fails, and devices converge.                             *)
(***************************************************************************)
EXTENDS CollectionSync, FiniteSetTheorems, TLAPS

USE DEF Pending, NoGrave

-----------------------------------------------------------------------------
(* The operations on collections keep their type.                          *)

RowsOf(own) == [ver : Nat, usn : Usns(own)]
ReviewsOf(own) == [id : Nat, usn : Usns(own)]

LEMMA AbsentType == \A own : Absent \in RowsOf(own)
  BY DEF Absent, RowsOf, Usns

LEMMA ApplyGravesType ==
  ASSUME NEW own, NEW k \in Collection(own), NEW gone, NEW usn \in Usns(own)
  PROVE  ApplyGraves(k, gone, usn) \in Collection(own)
  BY AbsentType DEF ApplyGraves, AddGraves, Collection, RowsOf

LEMMA MarkGravesType ==
  ASSUME NEW own, NEW k \in Collection(own), NEW usn \in Nat
  PROVE  MarkGraves(k, usn) \in Collection(own)
  BY DEF MarkGraves, Collection, Usns

LEMMA MarkReviewsType ==
  ASSUME NEW reviews \in SUBSET ReviewsOf("device"), NEW usn \in Nat, NEW own
  PROVE  {[r EXCEPT !.usn = usn] : r \in reviews} \in SUBSET ReviewsOf(own)
  BY DEF ReviewsOf, Usns

LEMMA MarkObjectsType ==
  ASSUME NEW k \in Collection("device"), NEW objs, NEW usn \in Nat,
         NEW reviews \in SUBSET ReviewsOf("device")
  PROVE  MarkObjects(k, objs, reviews, usn) \in Collection("device")
<1> DEFINE rows == [o \in Objects |-> IF o \in objs THEN [k.obj[o] EXCEPT !.usn = usn]
                                      ELSE k.obj[o]]
           log == (k.log \ reviews) \cup {[r EXCEPT !.usn = usn] : r \in reviews}
<1>1. rows \in [Objects -> RowsOf("device")]
  BY DEF Collection, RowsOf, Usns
<1>2. log \in SUBSET ReviewsOf("device")
  BY MarkReviewsType DEF Collection, ReviewsOf
<1>3. MarkObjects(k, objs, reviews, usn) = [k EXCEPT !.obj = rows, !.log = log]
  BY DEF MarkObjects
<1> HIDE DEF rows, log
<1> QED
  BY <1>1, <1>2, <1>3 DEF Collection, RowsOf, ReviewsOf

(* The rows a device has just marked carry a server usn.                   *)
LEMMA SentRowsType ==
  ASSUME NEW k \in Collection("device"), NEW objs \in SUBSET Objects, NEW usn \in Nat,
         NEW reviews
  PROVE  Rows(MarkObjects(k, objs, reviews, usn), objs) \in [objs -> RowsOf("server")]
  BY DEF Rows, MarkObjects, Collection, RowsOf, Usns

LEMMA RowsType ==
  ASSUME NEW own, NEW k \in Collection(own), NEW objs \in SUBSET Objects
  PROVE  Rows(k, objs) \in [objs -> RowsOf(own)]
  BY DEF Rows, Collection, RowsOf

LEMMA MergeUnchunkedType ==
  ASSUME NEW own, NEW k \in Collection(own), NEW objs \in SUBSET Objects,
         NEW rows \in [objs -> RowsOf(own)]
  PROVE  MergeUnchunked(k, rows) \in Collection(own)
<1> DEFINE after == [o \in Objects |->
     IF o \in DOMAIN rows /\ (\/ ~Present(k, o)
                              \/ Secs(k.obj[o].ver) <= Secs(rows[o].ver))
     THEN rows[o] ELSE k.obj[o]]
<1>1. after \in [Objects -> RowsOf(own)]
  BY DEF Collection, RowsOf
<1>2. MergeUnchunked(k, rows) = [k EXCEPT !.obj = after]
  BY DEF MergeUnchunked
<1> HIDE DEF after
<1> QED
  BY <1>1, <1>2 DEF Collection, RowsOf

LEMMA MergeChunkType ==
  ASSUME NEW own, NEW k \in Collection(own), NEW objs \in SUBSET Objects,
         NEW rows \in [objs -> RowsOf(own)], NEW reviews \in SUBSET ReviewsOf(own), NEW since
  PROVE  MergeChunk(k, rows, reviews, since) \in Collection(own)
<1> DEFINE after == [o \in Objects |->
              IF o \in DOMAIN rows /\ (\/ ~Present(k, o)
                                       \/ ~IsPending(k.obj[o].usn, since)
                                       \/ Secs(k.obj[o].ver) < Secs(rows[o].ver))
              THEN rows[o] ELSE k.obj[o]]
           log == k.log \cup {r \in reviews : r.id \notin ReviewIds(k)}
<1>1. after \in [Objects -> RowsOf(own)]
  BY DEF Collection, RowsOf
<1>2. log \in SUBSET ReviewsOf(own)
  BY DEF Collection, ReviewsOf
<1>3. MergeChunk(k, rows, reviews, since) = [k EXCEPT !.obj = after, !.log = log]
  BY DEF MergeChunk
<1> HIDE DEF after, log
<1> QED
  BY <1>1, <1>2, <1>3 DEF Collection, RowsOf, ReviewsOf

LEMMA ConfType ==
  ASSUME NEW own, NEW k \in Collection(own), NEW conf \in Nat
  PROVE  Conf(k, conf) \in Collection(own)
  BY DEF Conf, Collection

LEMMA ServerIsDevice ==
  ASSUME NEW k \in Collection("server")
  PROVE  k \in Collection("device")
  BY DEF Collection, Usns

LEMMA ForUploadType ==
  ASSUME NEW k \in Collection("device"), clock \in Nat
  PROVE  ForUpload(k) \in Collection("server")
<1> DEFINE rows == [o \in Objects |-> IF o \in Decks \/ k.obj[o].usn = Pending
                                      THEN [k.obj[o] EXCEPT !.usn = 0] ELSE k.obj[o]]
           log == {IF r.usn = Pending THEN [r EXCEPT !.usn = 0] ELSE r : r \in k.log}
           graves == [o \in Objects |-> NoGrave]
<1>1. rows \in [Objects -> RowsOf("server")]
  BY DEF Collection, RowsOf, Usns
<1>2. log \in SUBSET ReviewsOf("server")
  BY DEF Collection, ReviewsOf, Usns
<1>3. graves \in [Objects -> Usns("server") \cup {NoGrave}]
  OBVIOUS
<1>4. Now \in Nat /\ k.usn + 1 \in Nat /\ k.conf \in Nat
  BY DEF Now, Collection
<1>5. ForUpload(k) = [k EXCEPT !.obj = rows, !.grave = graves, !.log = log,
                               !.usn = k.usn + 1, !.scm = Now, !.ls = Now, !.mod = Now]
  BY DEF ForUpload
<1> HIDE DEF rows, log, graves, Now
<1> QED
  BY <1>1, <1>2, <1>3, <1>4, <1>5 DEF Collection, RowsOf, ReviewsOf

-----------------------------------------------------------------------------
(* Type correctness.                                                       *)

(* A device about to upload has cleared its pending usns: the invariant    *)
(* that keeps -1 out of the server's collection.                           *)
UploadsAreClean == \A c \in Clients : pc[c] = "uploading" => col[c] \in Collection("server")

TypeInv == TypeOK /\ UploadsAreClean

LEMMA NoStateType == NoState \in State /\ NoSession \in Session
  BY DEF NoState, State, NoIds, Ids, NoSession, Session

LEMMA PendingTypes ==
  ASSUME NEW own, NEW k \in Collection(own), NEW since
  PROVE  /\ PendingGraves(k, since) \in SUBSET Objects
         /\ PendingReviews(k, since) \in SUBSET ReviewsOf(own)
         /\ ChunkableIds(k, since) \in [objs : SUBSET Cards, log : SUBSET ReviewsOf(own)]
         /\ \A S \in SUBSET Objects : PendingObjects(k, S, since) \in SUBSET S
  BY DEF PendingGraves, PendingReviews, ChunkableIds, PendingObjects, Collection, ReviewsOf, Objects

LEMMA IdsType ==
  ASSUME NEW k \in Collection("device"), NEW since
  PROVE  ChunkableIds(k, since) \in Ids
  BY PendingTypes DEF Ids, ReviewsOf, Usns

LEMMA ChunkType ==
  ASSUME NEW ids \in Ids, NEW t \in Chunks(ids)
  PROVE  t.objs \in SUBSET Cards /\ t.objs \in SUBSET Objects
         /\ t.log \in SUBSET ReviewsOf("device") /\ t.log \subseteq ids.log
         /\ Rest(ids, t) \in Ids
  BY DEF Chunks, Ids, Rest, ReviewsOf, Usns, Objects

LEMMA RollBackType ==
  ASSUME TypeInv, NEW c \in Clients, RollBack(c)
  PROVE  /\ pc' \in [Clients -> Stages] /\ st' \in [Clients -> State]
         /\ col' \in [Clients -> Collection("device")]
         /\ wcol' \in [Clients -> Collection("device")]
         /\ UploadsAreClean'
  BY NoStateType DEF TypeInv, TypeOK, UploadsAreClean, RollBack, Stages

LEMMA InitType == Init => TypeInv
<1> SUFFICES ASSUME Init PROVE TypeInv
  OBVIOUS
<1>1. Uploaded \in Collection("server") /\ Downloaded \in Collection("server")
      /\ [Downloaded EXCEPT !.ls = 1] \in Collection("server")
      /\ Fresh \in Collection("server")
  BY DEF Uploaded, Downloaded, Fresh, Collection, Usns, Absent
<1>2. Uploaded \in Collection("device") /\ Downloaded \in Collection("device")
      /\ Fresh \in Collection("device")
  BY <1>1, ServerIsDevice
<1>3. TypeOK
  BY <1>1, <1>2, NoStateType DEF Init, TypeOK, Stages
<1>4. UploadsAreClean
  BY DEF Init, UploadsAreClean
<1> QED
  BY <1>3, <1>4 DEF TypeInv

LEMMA CommitType ==
  ASSUME TypeInv, NEW c \in Clients, NEW k \in Collection("device"), Commit(c, k),
         pc[c] = "idle"
  PROVE  TypeInv'
<1>1. Now \in Nat
  BY DEF TypeInv, TypeOK, Now
<1>2. [k EXCEPT !.mod = Now] \in Collection("device")
  BY <1>1 DEF Collection
<1>3. TypeOK'
  BY <1>1, <1>2 DEF TypeInv, TypeOK, Commit, server
<1>4. UploadsAreClean'
  BY DEF TypeInv, TypeOK, UploadsAreClean, Commit
<1> QED
  BY <1>3, <1>4 DEF TypeInv

LEMMA LocalType ==
  ASSUME TypeInv, NEW c \in Clients, Local(c)
  PROVE  TypeInv'
<1> DEFINE k == col[c]
<1>1. k \in Collection("device") /\ Now \in Nat
  BY DEF TypeInv, TypeOK, Now
<1>2. \A o \in Objects : Touch(k, o) \in Collection("device")
  BY <1>1 DEF Touch, Collection, Usns
<1>3. ASSUME NEW o \in Objects, Create(c, o) \/ Edit(c, o)
      PROVE  TypeInv'
  BY <1>2, <1>3, CommitType DEF Create, Edit
<1>4. ASSUME NEW o \in Objects, Delete(c, o)
      PROVE  TypeInv'
  <2>1. ApplyGraves(k, {o}, Pending) \in Collection("device")
    BY <1>1, ApplyGravesType DEF Usns
  <2> QED
    BY <1>4, <2>1, CommitType DEF Delete
<1>5. ASSUME NEW o \in Cards, Answer(c, o)
      PROVE  TypeInv'
  <2>1. Touch(k, o) \in Collection("device")
    BY <1>2 DEF Objects
  <2>2. [Touch(k, o) EXCEPT !.log = @ \cup {[id |-> Now, usn |-> Pending]}]
          \in Collection("device")
    BY <1>1, <2>1 DEF Collection, Usns
  <2> QED
    BY <1>5, <2>2, CommitType DEF Answer
<1>6. CASE SetConfig(c)
  <2>1. Conf(k, Now) \in Collection("device")
    BY <1>1, ConfType
  <2> QED
    BY <1>6, <2>1, CommitType DEF SetConfig
<1>7. CASE ChangeSchema(c)
  <2>1. [k EXCEPT !.scm = Now] \in Collection("device")
    BY <1>1 DEF Collection
  <2> QED
    BY <1>7, <2>1, CommitType DEF ChangeSchema
<1> QED
  BY <1>3, <1>4, <1>5, <1>6, <1>7 DEF Local

LEMMA MetaType ==
  ASSUME TypeInv, NEW c \in Clients, Meta(c)
  PROVE  TypeInv'
<1> USE DEF TypeInv, TypeOK, UploadsAreClean, NoActiveSession
<1>1. srv' = srv /\ sess' = NoSession /\ work' = srv
  BY DEF Meta
<1>2. CASE UNCHANGED <<clock, client>>
  BY <1>1, <1>2, NoStateType DEF client
<1>3. CASE UNCHANGED <<clock, col, wcol>> /\ \E stage \in {"full", "met"} : Goto(c, stage)
  <2>1. pc' \in [Clients -> Stages] /\ UploadsAreClean'
    BY <1>3 DEF Goto, Stages
  <2>2. st' \in [Clients -> State]
    <3>1. \A may \in SUBSET {"upload", "download"} : [NoState EXCEPT !.may = may] \in State
      BY NoStateType DEF State
    <3>2. srv.usn \in Nat /\ col[c].usn \in Nat /\ (col[c].mod > srv.mod) \in BOOLEAN
      BY DEF Collection
    <3>3. [NoState EXCEPT !.susn = srv.usn, !.cusn = col[c].usn,
                          !.newer = col[c].mod > srv.mod] \in State
      BY <3>2, NoStateType DEF State
    <3>4. \/ \E may \in SUBSET {"upload", "download"} :
               st' = [st EXCEPT ![c] = [NoState EXCEPT !.may = may]]
          \/ st' = [st EXCEPT ![c] = [NoState EXCEPT !.susn = srv.usn, !.cusn = col[c].usn,
                                                     !.newer = col[c].mod > srv.mod]]
          \/ st' = st
      <4> DEFINE empty(k) == \A o \in Cards : ~Present(k, o)
                 may == (IF empty(col[c]) /\ ~empty(srv) THEN {} ELSE {"upload"}) \cup
                        (IF empty(srv) /\ ~empty(col[c]) THEN {} ELSE {"download"})
      <4>1. may \in SUBSET {"upload", "download"}
        OBVIOUS
      <4> QED
        BY <4>1 DEF Meta, client
    <3> QED
      BY <3>1, <3>3, <3>4
  <2> QED
    BY <1>1, <1>3, <2>1, <2>2, NoStateType
<1> QED
  BY <1>2, <1>3 DEF Meta

LEMMA StartType ==
  ASSUME TypeInv, NEW c \in Clients, Start(c)
  PROVE  TypeInv'
<1> USE DEF TypeInv, TypeOK
<1>1. st[c] \in State /\ st[c].susn \in Nat /\ st[c].cusn \in Nat /\ st[c].newer \in BOOLEAN
  BY DEF State
<1>2. srv.usn \in Nat
  BY DEF Collection
<1>3. sess' \in Session
  BY <1>1, <1>2, NoStateType DEF Start, Session, NoSession
<1>4. st' \in [Clients -> State]
  <2> DEFINE graves == PendingGraves(col[c], Pending)
             remote == PendingGraves(srv, st[c].cusn)
  <2>1. graves \in SUBSET Objects /\ remote \in SUBSET Objects
    BY DEF PendingGraves
  <2>2. [st[c] EXCEPT !.graves = graves, !.remote = remote] \in State
    BY <1>1, <2>1 DEF State
  <2>3. st' = [st EXCEPT ![c] = [st[c] EXCEPT !.graves = graves, !.remote = remote]]
    BY DEF Start
  <2> QED
    BY <2>2, <2>3
<1>5. wcol' \in [Clients -> Collection("device")]
  BY <1>1, MarkGravesType DEF Start
<1>6. pc' \in [Clients -> Stages] /\ UploadsAreClean'
  BY DEF Start, Goto, Stages, UploadsAreClean
<1> QED
  BY <1>3, <1>4, <1>5, <1>6 DEF Start

LEMMA GravesType ==
  ASSUME TypeInv, NEW c \in Clients, SendGraves(c) \/ ApplyRemoteGraves(c)
  PROVE  TypeInv'
<1> USE DEF TypeInv, TypeOK
<1>1. sess.usn \in Nat /\ st[c] \in State /\ st[c].susn \in Nat
  BY DEF Session, State
<1>2. CASE SendGraves(c)
  <2>1. PICK t \in GraveChunks(st[c].graves) : /\ work' = ApplyGraves(work, t, sess.usn)
                                               /\ st' = [st EXCEPT ![c].graves = @ \ t]
    BY <1>2 DEF SendGraves
  <2>2. work' \in Collection("server")
    BY <1>1, <2>1, ApplyGravesType DEF Usns
  <2>3. st' \in [Clients -> State]
    BY <1>1, <2>1 DEF State
  <2> QED
    BY <1>2, <2>2, <2>3 DEF SendGraves, UploadsAreClean
<1>3. CASE ApplyRemoteGraves(c)
  <2>1. wcol' \in [Clients -> Collection("device")]
    BY <1>1, <1>3, ApplyGravesType DEF ApplyRemoteGraves, Usns
  <2> QED
    BY <1>3, <2>1 DEF ApplyRemoteGraves, Goto, Stages, UploadsAreClean, server
<1> QED
  BY <1>2, <1>3

LEMMA SendChangesType ==
  ASSUME TypeInv, NEW c \in Clients, SendChanges(c)
  PROVE  TypeInv'
<1> USE DEF TypeInv, TypeOK
<1> DEFINE mine == PendingObjects(wcol[c], Decks, Pending)
           sent == MarkObjects(wcol[c], mine, {}, st[c].susn)
           theirs == PendingObjects(work, Decks, sess.cusn)
           there == MergeUnchunked(work, Rows(sent, mine))
           here == MergeUnchunked(sent, Rows(work, theirs))
<1>1. st[c].susn \in Nat /\ wcol[c] \in Collection("device")
  BY DEF State
<1>2. mine \in SUBSET Objects /\ theirs \in SUBSET Objects
  BY DEF PendingObjects, Objects
<1>3. sent \in Collection("device")
  BY <1>1, MarkObjectsType
<1>4. there \in Collection("server")
  BY <1>1, <1>2, SentRowsType, MergeUnchunkedType
<1>5. here \in Collection("device")
  <2>1. Rows(work, theirs) \in [theirs -> RowsOf("device")]
    BY <1>2, RowsType, ServerIsDevice
  <2> QED
    BY <1>2, <1>3, <2>1, MergeUnchunkedType
<1>6. sent.conf \in Nat /\ work.conf \in Nat
  BY <1>3 DEF Collection
<1>7. /\ work' = IF st[c].newer THEN Conf(there, sent.conf) ELSE there
      /\ wcol' = [wcol EXCEPT ![c] = IF sess.newer THEN here ELSE Conf(here, work.conf)]
  BY DEF SendChanges
<1> HIDE DEF mine, sent, theirs, there, here
<1>8. work' \in Collection("server") /\ wcol' \in [Clients -> Collection("device")]
  BY <1>4, <1>5, <1>6, <1>7, ConfType
<1> QED
  BY <1>8 DEF SendChanges, Goto, Stages, UploadsAreClean

LEMMA PullChunkType ==
  ASSUME TypeInv, NEW c \in Clients, PullChunk(c)
  PROVE  TypeInv'
<1> USE DEF TypeInv, TypeOK
<1> DEFINE ids == IF sess.chunking THEN sess.ids ELSE ChunkableIds(work, sess.cusn)
<1>1. work \in Collection("device") /\ ids \in Ids
  BY ServerIsDevice, IdsType DEF Session
<1>2. PICK t \in Chunks(ids) :
        /\ sess' = [sess EXCEPT !.chunking = TRUE, !.ids = Rest(ids, t)]
        /\ wcol' = [wcol EXCEPT ![c] = MergeChunk(@, Rows(work, t.objs), t.log, Pending)]
        /\ IF IsLast(t)
           THEN /\ Goto(c, "push")
                /\ st' = [st EXCEPT ![c].ids = ChunkableIds(wcol'[c], Pending)]
           ELSE UNCHANGED <<pc, st>>
  BY DEF PullChunk
<1>3. /\ t.objs \in SUBSET Objects /\ t.log \in SUBSET ReviewsOf("device")
      /\ Rest(ids, t) \in Ids
  BY <1>1, ChunkType
<1>4. sess' \in Session
  BY <1>2, <1>3 DEF Session
<1>5. wcol' \in [Clients -> Collection("device")]
  <2>1. Rows(work, t.objs) \in [t.objs -> RowsOf("device")]
    BY <1>1, <1>3, RowsType
  <2>2. MergeChunk(wcol[c], Rows(work, t.objs), t.log, Pending) \in Collection("device")
    BY <1>3, <2>1, MergeChunkType
  <2> QED
    BY <1>2, <2>2
<1>6. st' \in [Clients -> State]
  <2>1. ChunkableIds(wcol'[c], Pending) \in Ids
    BY <1>5, IdsType
  <2>2. [st[c] EXCEPT !.ids = ChunkableIds(wcol'[c], Pending)] \in State
    BY <2>1 DEF State
  <2> QED
    BY <1>2, <2>2
<1>7. pc' \in [Clients -> Stages] /\ UploadsAreClean'
  BY <1>2 DEF PullChunk, Goto, Stages, UploadsAreClean
<1> QED
  BY <1>4, <1>5, <1>6, <1>7 DEF PullChunk

LEMMA PushChunkType ==
  ASSUME TypeInv, NEW c \in Clients, PushChunk(c)
  PROVE  TypeInv'
<1> USE DEF TypeInv, TypeOK
<1>1. st[c] \in State /\ st[c].susn \in Nat /\ st[c].ids \in Ids
  BY DEF State
<1>2. PICK t \in Chunks(st[c].ids) :
        LET sent == MarkObjects(wcol[c], t.objs, t.log, st[c].susn)
            reviews == {[r EXCEPT !.usn = st[c].susn] : r \in t.log}
        IN /\ wcol' = [wcol EXCEPT ![c] = sent]
           /\ work' = MergeChunk(work, Rows(sent, t.objs), reviews, sess.cusn)
           /\ st' = [st EXCEPT ![c].ids = Rest(@, t)]
           /\ pc' = IF IsLast(t) THEN [pc EXCEPT ![c] = "sanity"] ELSE pc
  BY DEF PushChunk
<1> DEFINE sent == MarkObjects(wcol[c], t.objs, t.log, st[c].susn)
           reviews == {[r EXCEPT !.usn = st[c].susn] : r \in t.log}
<1>3. /\ t.objs \in SUBSET Objects /\ t.log \in SUBSET ReviewsOf("device")
      /\ Rest(st[c].ids, t) \in Ids
  BY <1>1, ChunkType
<1>4. sent \in Collection("device")
  BY <1>1, <1>3, MarkObjectsType
<1>5. Rows(sent, t.objs) \in [t.objs -> RowsOf("server")]
  BY <1>1, <1>3, SentRowsType
<1>6. reviews \in SUBSET ReviewsOf("server")
  BY <1>1, <1>3, MarkReviewsType
<1>7. MergeChunk(work, Rows(sent, t.objs), reviews, sess.cusn) \in Collection("server")
  BY <1>3, <1>5, <1>6, MergeChunkType
<1>8. work' \in Collection("server") /\ wcol' \in [Clients -> Collection("device")]
  BY <1>2, <1>4, <1>7
<1>9. st' \in [Clients -> State]
  BY <1>1, <1>2, <1>3 DEF State
<1>10. pc' \in [Clients -> Stages] /\ UploadsAreClean'
  BY <1>2 DEF PushChunk, Stages, UploadsAreClean
<1> QED
  BY <1>8, <1>9, <1>10 DEF PushChunk

LEMMA SanityType ==
  ASSUME TypeInv, NEW c \in Clients, SanityCheck(c) \/ SanityFailed(c)
  PROVE  TypeInv'
<1> USE DEF TypeInv, TypeOK, UploadsAreClean
<1>1. CASE SanityCheck(c)
  BY <1>1 DEF SanityCheck, Goto, Stages, server
<1>2. CASE SanityFailed(c)
  <2>1. Now \in Nat
    BY DEF Now
  <2>2. [col[c] EXCEPT !.scm = Now] \in Collection("device")
    BY <2>1 DEF Collection
  <2>3. col' \in [Clients -> Collection("device")] /\ col' = [col EXCEPT ![c] = [col[c] EXCEPT !.scm = Now]]
    BY <1>2, <2>2 DEF SanityFailed
  <2>4. wcol' \in [Clients -> Collection("device")]
    BY <1>2, <2>3 DEF SanityFailed
  <2>5. pc' \in [Clients -> Stages] /\ UploadsAreClean'
    BY <1>2, <2>3 DEF SanityFailed, Stages
  <2> QED
    BY <1>2, <2>1, <2>3, <2>4, <2>5, NoStateType DEF SanityFailed
<1> QED
  BY <1>1, <1>2

LEMMA NextUsnType ==
  ASSUME NEW k \in Collection("server"), NEW m \in Nat
  PROVE  /\ [k EXCEPT !.usn = @ + 1, !.ls = m] \in Collection("server")
         /\ [k EXCEPT !.usn = @ + 1, !.mod = m] \in Collection("server")
<1>1. ASSUME NEW u \in Nat
      PROVE  /\ [k EXCEPT !.usn = u, !.ls = m] \in Collection("server")
             /\ [k EXCEPT !.usn = u, !.mod = m] \in Collection("server")
  BY DEF Collection
<1>2. k.usn + 1 \in Nat
  <2>1. k.usn \in Nat
    BY DEF Collection
  <2> QED
    BY <2>1
<1> QED
  BY <1>1, <1>2

LEMMA CommittedType ==
  ASSUME TypeInv
  PROVE  /\ Committed(work) \in Collection("server")
         /\ Stamped(Committed(work)) \in Collection("server")
<1>1. Now \in Nat /\ work \in Collection("server")
  BY DEF TypeInv, TypeOK, Now
<1> DEFINE n == Now
<1>2. n \in Nat /\ n = Now
  BY <1>1
<1> HIDE DEF n
<1>3. ASSUME NEW k \in Collection("server") PROVE [k EXCEPT !.mod = n] \in Collection("server")
  BY <1>2 DEF Collection
<1>4. [work EXCEPT !.usn = @ + 1, !.ls = n] \in Collection("server")
  BY <1>1, <1>2, NextUsnType
<1> QED
  BY <1>2, <1>3, <1>4 DEF Committed, Stamped

LEMMA FinishType ==
  ASSUME TypeInv, NEW c \in Clients, Finish(c) \/ FinishLost(c) \/ FinishCrash(c)
  PROVE  TypeInv'
<1>1. clock' \in Nat /\ srv' \in Collection("server") /\ work' \in Collection("server")
      /\ sess' \in Session
  BY CommittedType, NoStateType
     DEF TypeInv, TypeOK, Finish, FinishLost, FinishCrash, NoActiveSession, Now
<1>2. CASE Finish(c)
  <2>1. st[c].susn + 1 \in Nat /\ Now \in Nat
    BY DEF TypeInv, TypeOK, State, Now
  <2>2. [wcol[c] EXCEPT !.usn = st[c].susn + 1, !.mod = Now, !.ls = Now] \in Collection("device")
    BY <2>1 DEF TypeInv, TypeOK, Collection
  <2>3. col' \in [Clients -> Collection("device")]
    BY <1>2, <2>2 DEF TypeInv, TypeOK, Finish
  <2>4. wcol' \in [Clients -> Collection("device")]
    BY <1>2, <2>3 DEF TypeInv, TypeOK, Finish
  <2>5. pc' \in [Clients -> Stages] /\ UploadsAreClean'
    BY <1>2 DEF TypeInv, TypeOK, UploadsAreClean, Finish, Stages
  <2> QED
    BY <1>1, <1>2, <2>3, <2>4, <2>5, NoStateType DEF TypeInv, TypeOK, Finish
<1>3. CASE FinishLost(c) \/ FinishCrash(c)
  BY <1>1, <1>3, RollBackType DEF TypeInv, TypeOK, FinishLost, FinishCrash
<1> QED
  BY <1>2, <1>3

LEMMA GiveUpType ==
  ASSUME TypeInv, NEW c \in Clients, GiveUp(c)
  PROVE  TypeInv'
<1>1. clock' \in Nat /\ srv' \in Collection("server") /\ work' \in Collection("server")
      /\ sess' \in Session
  BY NoStateType DEF TypeInv, TypeOK, GiveUp, NoActiveSession
<1> QED
  BY <1>1, RollBackType DEF TypeInv, TypeOK, GiveUp

LEMMA FullSyncType ==
  ASSUME TypeInv, NEW c \in Clients,
         ChooseUpload(c) \/ Upload(c) \/ Download(c) \/ DownloadLost(c) \/ CancelFull(c)
  PROVE  TypeInv'
<1> USE DEF TypeInv, TypeOK
<1>1. CASE ChooseUpload(c)
  <2>1. ForUpload(col[c]) \in Collection("server") /\ ForUpload(col[c]) \in Collection("device")
    BY ForUploadType, ServerIsDevice
  <2>2. col' = [col EXCEPT ![c] = ForUpload(col[c])]
    BY <1>1 DEF ChooseUpload
  <2>3. col' \in [Clients -> Collection("device")] /\ wcol' \in [Clients -> Collection("device")]
    BY <1>1, <2>1, <2>2 DEF ChooseUpload
  <2>4. pc' \in [Clients -> Stages] /\ UploadsAreClean'
    BY <1>1, <2>1, <2>2 DEF ChooseUpload, Goto, Stages, UploadsAreClean
  <2> QED
    BY <1>1, <2>3, <2>4 DEF ChooseUpload, server, Now
<1>2. CASE Upload(c)
  <2>1. srv' \in Collection("server") /\ work' \in Collection("server") /\ sess' \in Session
    BY <1>2, NoStateType DEF Upload, UploadsAreClean, NoActiveSession
  <2> QED
    BY <1>2, <2>1, NoStateType DEF Upload, Goto, Stages, UploadsAreClean
<1>3. CASE Download(c) \/ DownloadLost(c)
  <2> DEFINE n == Now
  <2>1. n \in Nat /\ n = Now /\ ServeDownload(c)
    BY <1>3 DEF Now, Download, DownloadLost
  <2> HIDE DEF n
  <2>2. srv' \in Collection("server")
    <3>1. [srv EXCEPT !.usn = @ + 1, !.mod = n] \in Collection("server")
      BY <2>1, NextUsnType
    <3> QED
      BY <2>1, <3>1 DEF ServeDownload
  <2>3. work' \in Collection("server") /\ sess' \in Session /\ clock' \in Nat
        /\ pc' \in [Clients -> Stages] /\ st' \in [Clients -> State] /\ pc' = [pc EXCEPT ![c] = "idle"]
    BY <2>1, <2>2, NoStateType DEF ServeDownload, NoActiveSession, Stages
  <2>4. [srv' EXCEPT !.ls = srv'.mod] \in Collection("device")
    <3>1. [srv' EXCEPT !.ls = srv'.mod] \in Collection("server")
      BY <2>2 DEF Collection
    <3> QED
      BY <3>1, ServerIsDevice
  <2>5. CASE Download(c)
    <3>1. col' = [col EXCEPT ![c] = [srv' EXCEPT !.ls = srv'.mod]]
          /\ wcol' = [wcol EXCEPT ![c] = col'[c]]
      BY <2>5 DEF Download
    <3>2. col' \in [Clients -> Collection("device")]
      BY <2>4, <3>1
    <3>3. wcol' \in [Clients -> Collection("device")]
      BY <3>1, <3>2
    <3>4. UploadsAreClean'
      BY <2>3, <3>1 DEF UploadsAreClean
    <3> QED
      BY <2>2, <2>3, <3>2, <3>3, <3>4
  <2>6. CASE DownloadLost(c)
    BY <2>2, <2>3, <2>6 DEF DownloadLost, UploadsAreClean
  <2> QED
    BY <1>3, <2>5, <2>6
<1>4. CASE CancelFull(c)
  BY <1>4, NoStateType DEF CancelFull, Stages, UploadsAreClean, server
<1> QED
  BY <1>1, <1>2, <1>3, <1>4

LEMMA TypeStep == TypeInv /\ [Next]_vars => TypeInv'
<1> SUFFICES ASSUME TypeInv, [Next]_vars PROVE TypeInv'
  OBVIOUS
<1>1. CASE ServerCrash
  BY <1>1, NoStateType DEF TypeInv, TypeOK, UploadsAreClean, ServerCrash, NoActiveSession, client
<1>2. ASSUME NEW c \in Clients, Local(c) \/ Meta(c) \/ Proceed(c) \/ Fault(c)
      PROVE  TypeInv'
  <2>1. CASE Local(c) \/ Meta(c)
    BY <2>1, LocalType, MetaType
  <2>2. CASE Proceed(c)
    BY <2>2, StartType, GravesType, SendChangesType, PullChunkType, PushChunkType, SanityType,
       FinishType, GiveUpType, FullSyncType DEF Proceed, Conflict
  <2>3. CASE Fault(c)
    BY <2>3, FinishType, GiveUpType, FullSyncType DEF Fault, Fail
  <2> QED
    BY <1>2, <2>1, <2>2, <2>3
<1>3. CASE UNCHANGED vars
  BY <1>3 DEF vars, TypeInv, TypeOK, UploadsAreClean
<1> QED
  BY <1>1, <1>2, <1>3 DEF Next

(* Every reachable state is well typed, for all values of the constants:   *)
(* in particular no fault and no interleaving of sessions and uploads      *)
(* leaves a pending usn in the server's collection.                        *)
THEOREM TypeCorrect == Spec => []TypeOK
<1>1. Spec => []TypeInv
  BY InitType, TypeStep, PTL DEF Spec
<1>2. TypeInv => TypeOK
  BY DEF TypeInv
<1> QED
  BY <1>1, <1>2, PTL
-----------------------------------------------------------------------------
(* The inductive invariant.                                                *)

(* A savepoint or sync transaction never changes the schema stamp, and all *)
(* stamps come from the clock.                                             *)
Stamps ==
  /\ srv.scm <= clock /\ work.scm = srv.scm
  /\ \A c \in Clients : col[c].scm <= clock /\ wcol[c].scm = col[c].scm

(* A device that is about to replace a collection differs from it in the   *)
(* schema stamp, and the stamp it chose for an upload is nobody else's.    *)
Directions ==
  \A c \in Clients :
    /\ pc[c] \in {"full", "uploading"} => col[c].scm # srv.scm
    /\ pc[c] = "uploading" => \A d \in Clients \ {c} : col[d].scm # col[c].scm

(* What is about to be committed contains every committed review.          *)
Logs ==
  /\ ReviewIds(srv) \subseteq ReviewIds(work)
  /\ \A c \in Clients : ReviewIds(col[c]) \subseteq ReviewIds(wcol[c])

ReviewInv == TypeInv /\ Stamps /\ Directions /\ Logs

-----------------------------------------------------------------------------
(* What the operations on collections do to the schema stamp and the log.  *)

Extends(k, l) == l.scm = k.scm /\ ReviewIds(k) \subseteq ReviewIds(l)

LEMMA ExtendsTransitive ==
  ASSUME NEW k, NEW l, NEW m, Extends(k, l), Extends(l, m)
  PROVE  Extends(k, m)
  BY DEF Extends

LEMMA PlainExtends ==
  ASSUME NEW own, NEW k \in Collection(own)
  PROVE  /\ Extends(k, k)
         /\ \A gone, usn : Extends(k, ApplyGraves(k, gone, usn))
         /\ \A usn : Extends(k, MarkGraves(k, usn))
         /\ \A rows : Extends(k, MergeUnchunked(k, rows))
         /\ \A conf : Extends(k, Conf(k, conf))
  BY DEF Collection, Extends, ReviewIds, ApplyGraves, MarkGraves, MergeUnchunked, Conf

LEMMA LongerLog ==
  ASSUME NEW k, NEW l, \A r \in k.log : \E s \in l.log : s.id = r.id
  PROVE  ReviewIds(k) \subseteq ReviewIds(l)
<1> SUFFICES ASSUME NEW i \in ReviewIds(k) PROVE i \in ReviewIds(l)
  OBVIOUS
<1>1. PICK r \in k.log : i = r.id
  BY DEF ReviewIds
<1>2. PICK s \in l.log : s.id = i
  BY <1>1
<1> QED
  BY <1>2 DEF ReviewIds

LEMMA TwoFields ==
  ASSUME NEW own, NEW k \in Collection(own), NEW rows, NEW log
  PROVE  [k EXCEPT !.obj = rows, !.log = log].scm = k.scm
         /\ [k EXCEPT !.obj = rows, !.log = log].log = log
  BY DEF Collection

LEMMA MergeChunkExtends ==
  ASSUME NEW own, NEW k \in Collection(own), NEW rows, NEW reviews, NEW since
  PROVE  Extends(k, MergeChunk(k, rows, reviews, since))
<1> DEFINE l == MergeChunk(k, rows, reviews, since)
<1>1. l.scm = k.scm /\ k.log \subseteq l.log
  BY TwoFields DEF MergeChunk
<1> HIDE DEF l
<1>2. Extends(k, l)
  BY <1>1, LongerLog DEF Extends
<1> QED
  BY <1>2 DEF l

LEMMA MarkObjectsExtends ==
  ASSUME NEW k \in Collection("device"), NEW objs, NEW reviews \in SUBSET ReviewsOf("device"),
         NEW usn
  PROVE  Extends(k, MarkObjects(k, objs, reviews, usn))
<1> DEFINE l == MarkObjects(k, objs, reviews, usn)
<1>1. l.scm = k.scm /\ l.log = (k.log \ reviews) \cup {[r EXCEPT !.usn = usn] : r \in reviews}
  BY TwoFields DEF MarkObjects
<1>2. \A r \in reviews : [r EXCEPT !.usn = usn].id = r.id
  BY DEF ReviewsOf
<1> HIDE DEF l
<1>3. ASSUME NEW r \in k.log PROVE \E s \in l.log : s.id = r.id
  <2>1. CASE r \in reviews
    <3>1. [r EXCEPT !.usn = usn] \in l.log
      BY <1>1, <2>1
    <3> QED
      BY <1>2, <2>1, <3>1
  <2>2. CASE r \notin reviews
    BY <1>1, <2>2
  <2> QED
    BY <2>1, <2>2
<1>4. Extends(k, l)
  BY <1>1, <1>3, LongerLog DEF Extends
<1> QED
  BY <1>4 DEF l

LEMMA ForUploadKeepsLog ==
  ASSUME NEW k \in Collection("device")
  PROVE  ReviewIds(ForUpload(k)) = ReviewIds(k) /\ ForUpload(k).scm = Now
<1> DEFINE sent(r) == IF r.usn = Pending THEN [r EXCEPT !.usn = 0] ELSE r
<1>1. ForUpload(k).log = {sent(r) : r \in k.log} /\ ForUpload(k).scm = Now
  BY DEF ForUpload, Collection
<1>2. \A r \in k.log : sent(r).id = r.id
  BY DEF Collection
<1> HIDE DEF sent
<1> QED
  BY <1>1, <1>2 DEF ReviewIds

-----------------------------------------------------------------------------
(* Steps that commit nothing.                                              *)

(* Whatever happens inside a session, an abort or a rollback.              *)
Quiet ==
  /\ UNCHANGED <<clock, srv, col>>
  /\ Extends(work, work') \/ work' = srv
  /\ \A c \in Clients : Extends(wcol[c], wcol'[c]) \/ wcol'[c] = col[c]
  /\ \A c \in Clients : pc'[c] \in {"full", "uploading"} =>
       pc'[c] = pc[c] \/ (pc'[c] = "full" /\ col[c].scm # srv.scm)

LEMMA QuietStep ==
  ASSUME Stamps, Directions, Logs, Quiet
  PROVE  Stamps' /\ Directions' /\ Logs'
<1>1. Stamps'
  BY DEF Stamps, Quiet, Extends
<1>2. Directions'
  BY DEF Directions, Quiet
<1>3. Logs'
  BY DEF Logs, Quiet, Extends, ReviewIds
<1> QED
  BY <1>1, <1>2, <1>3

LEMMA Unchanged ==
  ASSUME TypeInv
  PROVE  Extends(work, work) /\ \A c \in Clients : Extends(wcol[c], wcol[c])
  BY PlainExtends DEF TypeInv, TypeOK

(* One device's transaction moves on, or is rolled back.                   *)
LEMMA OneDevice ==
  ASSUME TypeInv, NEW c \in Clients, NEW k, wcol' = [wcol EXCEPT ![c] = k],
         Extends(wcol[c], k) \/ k = col[c]
  PROVE  \A d \in Clients : Extends(wcol[d], wcol'[d]) \/ wcol'[d] = col[d]
<1> TAKE d \in Clients
<1>1. CASE d = c
  <2>1. wcol'[d] = k
    BY <1>1 DEF TypeInv, TypeOK
  <2> QED
    BY <1>1, <2>1
<1>2. CASE d # c
  <2>1. wcol'[d] = wcol[d]
    BY <1>2 DEF TypeInv, TypeOK
  <2> QED
    BY <2>1, Unchanged
<1> QED
  BY <1>1, <1>2

LEMMA OneStage ==
  ASSUME TypeInv, NEW c \in Clients, NEW stage, pc' = [pc EXCEPT ![c] = stage],
         stage \notin {"full", "uploading"} \/ (stage = "full" /\ col[c].scm # srv.scm)
  PROVE  \A d \in Clients : pc'[d] \in {"full", "uploading"} =>
           pc'[d] = pc[d] \/ (pc'[d] = "full" /\ col[d].scm # srv.scm)
  BY DEF TypeInv, TypeOK

LEMMA GiveUpQuiet ==
  ASSUME TypeInv, NEW c \in Clients, GiveUp(c)
  PROVE  Quiet
<1>1. UNCHANGED <<clock, srv, col>> /\ (work' = work \/ work' = srv)
  BY DEF GiveUp, RollBack, NoActiveSession
<1>2. wcol' = [wcol EXCEPT ![c] = col[c]] /\ pc' = [pc EXCEPT ![c] = "idle"]
  BY DEF GiveUp, RollBack
<1> QED
  BY <1>1, <1>2, Unchanged, OneDevice, OneStage DEF Quiet

LEMMA IdleQuiet ==
  ASSUME TypeInv, UNCHANGED <<clock, srv, col, wcol>>, work' = work \/ work' = srv,
         \/ pc' = pc
         \/ \E c \in Clients : \E stage :
              /\ pc' = [pc EXCEPT ![c] = stage]
              /\ \/ stage \notin {"full", "uploading"}
                 \/ stage = "full" /\ col[c].scm # srv.scm
  PROVE  Quiet
  BY Unchanged, OneStage DEF Quiet

LEMMA OpeningQuiet ==
  ASSUME TypeInv, NEW c \in Clients, Meta(c) \/ Start(c) \/ SendGraves(c) \/ ApplyRemoteGraves(c)
  PROVE  Quiet
<1>1. CASE Meta(c)
  <2>1. UNCHANGED <<clock, srv, col, wcol>> /\ work' = srv
    BY <1>1 DEF Meta, NoActiveSession, client
  <2>2. \/ pc' = pc
        \/ pc' = [pc EXCEPT ![c] = "met"]
        \/ pc' = [pc EXCEPT ![c] = "full"] /\ col[c].scm # srv.scm
    BY <1>1 DEF Meta, Goto, client
  <2> QED
    BY <2>1, <2>2, IdleQuiet
<1>2. CASE Start(c)
  <2>1. wcol' = [wcol EXCEPT ![c] = MarkGraves(wcol[c], st[c].susn)]
        /\ pc' = [pc EXCEPT ![c] = "graves"]
        /\ work' = srv /\ UNCHANGED <<clock, srv, col>>
    BY <1>2 DEF Start, Goto
  <2>2. Extends(wcol[c], MarkGraves(wcol[c], st[c].susn))
    BY PlainExtends DEF TypeInv, TypeOK
  <2> QED
    BY <2>1, <2>2, OneDevice, OneStage DEF Quiet
<1>3. CASE SendGraves(c)
  <2>1. \E t : work' = ApplyGraves(work, t, sess.usn)
    BY <1>3 DEF SendGraves
  <2>2. Extends(work, work')
    BY <2>1, PlainExtends DEF TypeInv, TypeOK
  <2> QED
    BY <1>3, <2>2, Unchanged DEF Quiet, SendGraves
<1>4. CASE ApplyRemoteGraves(c)
  <2>1. wcol' = [wcol EXCEPT ![c] = ApplyGraves(wcol[c], st[c].remote, st[c].susn)]
        /\ pc' = [pc EXCEPT ![c] = "changes"]
        /\ work' = work /\ UNCHANGED <<clock, srv, col>>
    BY <1>4 DEF ApplyRemoteGraves, Goto, server
  <2>2. Extends(wcol[c], ApplyGraves(wcol[c], st[c].remote, st[c].susn))
    BY PlainExtends DEF TypeInv, TypeOK
  <2> QED
    BY <2>1, <2>2, Unchanged, OneDevice, OneStage DEF Quiet
<1> QED
  BY <1>1, <1>2, <1>3, <1>4

LEMMA SendChangesQuiet ==
  ASSUME TypeInv, NEW c \in Clients, SendChanges(c)
  PROVE  Quiet
<1> DEFINE mine == PendingObjects(wcol[c], Decks, Pending)
           sent == MarkObjects(wcol[c], mine, {}, st[c].susn)
           theirs == PendingObjects(work, Decks, sess.cusn)
           there == MergeUnchunked(work, Rows(sent, mine))
           here == MergeUnchunked(sent, Rows(work, theirs))
<1>1. st[c].susn \in Nat /\ wcol[c] \in Collection("device") /\ work \in Collection("server")
  BY DEF TypeInv, TypeOK, State
<1>2. mine \in SUBSET Objects /\ theirs \in SUBSET Objects
  BY DEF PendingObjects, Objects
<1>3. sent \in Collection("device") /\ Extends(wcol[c], sent)
  BY <1>1, MarkObjectsType, MarkObjectsExtends
<1>4. there \in Collection("server") /\ Extends(work, there)
  BY <1>1, <1>2, SentRowsType, MergeUnchunkedType, PlainExtends
<1>5. here \in Collection("device") /\ Extends(wcol[c], here)
  <2>1. Rows(work, theirs) \in [theirs -> RowsOf("device")]
    BY <1>1, <1>2, RowsType, ServerIsDevice
  <2>2. here \in Collection("device")
    BY <1>2, <1>3, <2>1, MergeUnchunkedType
  <2>3. Extends(sent, here)
    BY <1>3, PlainExtends
  <2> QED
    BY <1>3, <2>2, <2>3, ExtendsTransitive
<1>6. /\ work' = IF st[c].newer THEN Conf(there, sent.conf) ELSE there
      /\ wcol' = [wcol EXCEPT ![c] = IF sess.newer THEN here ELSE Conf(here, work.conf)]
      /\ pc' = [pc EXCEPT ![c] = "pull"]
      /\ UNCHANGED <<clock, srv, col>>
  BY DEF SendChanges, Goto
<1> HIDE DEF mine, sent, theirs, there, here
<1>7. Extends(there, Conf(there, sent.conf)) /\ Extends(here, Conf(here, work.conf))
  BY <1>4, <1>5, PlainExtends
<1>8. Extends(work, work')
  BY <1>4, <1>6, <1>7, ExtendsTransitive
<1>9. \E k : wcol' = [wcol EXCEPT ![c] = k] /\ Extends(wcol[c], k)
  BY <1>5, <1>6, <1>7, ExtendsTransitive
<1> QED
  BY <1>6, <1>8, <1>9, OneDevice, OneStage DEF Quiet

LEMMA PullChunkQuiet ==
  ASSUME TypeInv, NEW c \in Clients, PullChunk(c)
  PROVE  Quiet
<1>1. PICK rows, reviews :
        wcol' = [wcol EXCEPT ![c] = MergeChunk(wcol[c], rows, reviews, Pending)]
  BY DEF PullChunk
<1>2. Extends(wcol[c], MergeChunk(wcol[c], rows, reviews, Pending))
  BY MergeChunkExtends DEF TypeInv, TypeOK
<1>3. pc' = pc \/ pc' = [pc EXCEPT ![c] = "push"]
  BY DEF PullChunk, Goto
<1>4. \A d \in Clients : pc'[d] \in {"full", "uploading"} => pc'[d] = pc[d]
  BY <1>3 DEF TypeInv, TypeOK
<1>5. UNCHANGED <<clock, srv, work, col>>
  BY DEF PullChunk
<1> QED
  BY <1>1, <1>2, <1>4, <1>5, Unchanged, OneDevice DEF Quiet

LEMMA PushChunkQuiet ==
  ASSUME TypeInv, NEW c \in Clients, PushChunk(c)
  PROVE  Quiet
<1>1. PICK t \in Chunks(st[c].ids) :
        LET sent == MarkObjects(wcol[c], t.objs, t.log, st[c].susn)
            reviews == {[r EXCEPT !.usn = st[c].susn] : r \in t.log}
        IN /\ wcol' = [wcol EXCEPT ![c] = sent]
           /\ work' = MergeChunk(work, Rows(sent, t.objs), reviews, sess.cusn)
           /\ pc' = IF IsLast(t) THEN [pc EXCEPT ![c] = "sanity"] ELSE pc
  BY DEF PushChunk
<1>2. st[c].ids \in Ids /\ st[c].susn \in Nat
  BY DEF TypeInv, TypeOK, State
<1>3. t.log \in SUBSET ReviewsOf("device")
  BY <1>2, ChunkType
<1>4. Extends(wcol[c], MarkObjects(wcol[c], t.objs, t.log, st[c].susn))
  BY <1>3, MarkObjectsExtends DEF TypeInv, TypeOK
<1>5. Extends(work, work')
  BY <1>1, MergeChunkExtends DEF TypeInv, TypeOK
<1>6. \A d \in Clients : pc'[d] \in {"full", "uploading"} => pc'[d] = pc[d]
  BY <1>1 DEF TypeInv, TypeOK
<1>7. UNCHANGED <<clock, srv, col>>
  BY DEF PushChunk
<1> QED
  BY <1>1, <1>4, <1>5, <1>6, <1>7, OneDevice DEF Quiet

-----------------------------------------------------------------------------
(* Steps that commit, and neither begin an upload nor replace a collection.*)

Commits(c) ==
  /\ clock' \in {clock, Now}
  /\ \/ UNCHANGED <<srv, work>>
     \/ work' = srv' /\ Extends(srv, srv')
  /\ \/ UNCHANGED <<col, wcol>>
     \/ \E k : /\ col' = [col EXCEPT ![c] = k] /\ wcol' = [wcol EXCEPT ![c] = k]
              /\ ReviewIds(col[c]) \subseteq ReviewIds(k)
              /\ \/ k.scm = col[c].scm
                 \/ k.scm = Now /\ clock' = Now
  /\ pc[c] # "uploading"
  /\ \A d \in Clients : pc'[d] \in {"full", "uploading"} => d # c /\ pc'[d] = pc[d]

Kept == Stamps' /\ Directions' /\ Logs' /\ KeepsReviews

LEMMA CommitsKeep ==
  ASSUME ReviewInv, NEW c \in Clients, Commits(c)
  PROVE  Kept
<1>1. /\ clock \in Nat /\ clock' \in Nat /\ clock <= clock'
      /\ srv.scm \in Nat /\ \A d \in Clients : col[d].scm \in Nat
      /\ col \in [Clients -> Collection("device")] /\ wcol \in [Clients -> Collection("device")]
  BY DEF ReviewInv, TypeInv, TypeOK, Commits, Collection, Now
<1>2. srv'.scm = srv.scm /\ work'.scm = srv.scm
      /\ ReviewIds(srv) \subseteq ReviewIds(srv') /\ ReviewIds(srv') \subseteq ReviewIds(work')
  BY DEF ReviewInv, Stamps, Logs, Commits, Extends, ReviewIds
<1>3. \A d \in Clients :
        /\ ReviewIds(col[d]) \subseteq ReviewIds(col'[d])
        /\ ReviewIds(col'[d]) \subseteq ReviewIds(wcol'[d])
        /\ wcol'[d].scm = col'[d].scm
        /\ col'[d].scm = col[d].scm \/ (d = c /\ col'[d].scm = Now /\ clock' = Now)
  <2>1. CASE UNCHANGED <<col, wcol>>
    BY <2>1 DEF ReviewInv, Stamps, Logs
  <2>2. CASE ~UNCHANGED <<col, wcol>>
    <3>1. PICK k : /\ col' = [col EXCEPT ![c] = k] /\ wcol' = [wcol EXCEPT ![c] = k]
                   /\ ReviewIds(col[c]) \subseteq ReviewIds(k)
                   /\ \/ k.scm = col[c].scm
                      \/ k.scm = Now /\ clock' = Now
      BY <2>2 DEF Commits
    <3>2. col'[c] = k /\ wcol'[c] = k
      BY <1>1, <3>1
    <3>3. \A d \in Clients \ {c} : col'[d] = col[d] /\ wcol'[d] = wcol[d]
      BY <1>1, <3>1
    <3> QED
      BY <3>1, <3>2, <3>3 DEF ReviewInv, Stamps, Logs
  <2> QED
    BY <2>1, <2>2
<1>4. Stamps'
  BY <1>1, <1>2, <1>3 DEF ReviewInv, Stamps, Now
<1>5. Directions'
  BY <1>1, <1>2, <1>3 DEF ReviewInv, Stamps, Directions, Commits, Now
<1>6. Logs' /\ KeepsReviews
  BY <1>2, <1>3 DEF Logs, KeepsReviews
<1> QED
  BY <1>4, <1>5, <1>6 DEF Kept

LEMMA CommitCommits ==
  ASSUME TypeInv, NEW c \in Clients, NEW k \in Collection("device"), Commit(c, k), pc[c] = "idle",
         k.scm \in {col[c].scm, Now}, ReviewIds(col[c]) \subseteq ReviewIds(k)
  PROVE  Commits(c)
<1> DEFINE l == [k EXCEPT !.mod = Now]
<1>1. l.scm = k.scm /\ l.log = k.log
  BY DEF Collection
<1>2. col' = [col EXCEPT ![c] = l] /\ col'[c] = l /\ wcol' = [wcol EXCEPT ![c] = l]
  BY DEF Commit, TypeInv, TypeOK
<1>3. clock' = Now /\ UNCHANGED <<srv, work, pc>>
  BY DEF Commit, server
<1> HIDE DEF l
<1>4. ReviewIds(l) = ReviewIds(k)
  BY <1>1 DEF ReviewIds
<1>5. \A d \in Clients : pc'[d] \in {"full", "uploading"} => d # c /\ pc'[d] = pc[d]
  BY <1>3
<1> QED
  BY <1>1, <1>2, <1>3, <1>4, <1>5 DEF Commits

LEMMA LocalCommits ==
  ASSUME TypeInv, NEW c \in Clients, Local(c)
  PROVE  Commits(c)
<1> DEFINE k == col[c]
<1>1. k \in Collection("device") /\ Now \in Nat
  BY DEF TypeInv, TypeOK, Now
<1>2. \A o \in Objects : /\ Touch(k, o) \in Collection("device")
                        /\ Touch(k, o).scm = k.scm /\ Touch(k, o).log = k.log
  BY <1>1 DEF Touch, Collection, Usns
<1>3. ASSUME NEW o \in Objects, Create(c, o) \/ Edit(c, o)
      PROVE  Commits(c)
  <2>1. ReviewIds(k) \subseteq ReviewIds(Touch(k, o))
    BY <1>2 DEF ReviewIds
  <2> QED
    BY <1>2, <1>3, <2>1, CommitCommits DEF Create, Edit
<1>4. ASSUME NEW o \in Objects, Delete(c, o)
      PROVE  Commits(c)
  <2>1. ApplyGraves(k, {o}, Pending) \in Collection("device")
    BY <1>1, ApplyGravesType DEF Usns
  <2>2. Extends(k, ApplyGraves(k, {o}, Pending))
    BY <1>1, PlainExtends
  <2> QED
    BY <1>4, <2>1, <2>2, CommitCommits DEF Delete, Extends
<1>5. ASSUME NEW o \in Cards, Answer(c, o)
      PROVE  Commits(c)
  <2> DEFINE l == [Touch(k, o) EXCEPT !.log = @ \cup {[id |-> Now, usn |-> Pending]}]
  <2>1. Touch(k, o) \in Collection("device") /\ o \in Objects
    BY <1>2 DEF Objects
  <2>2. l \in Collection("device") /\ l.scm = k.scm /\ k.log \subseteq l.log
    <3>1. ASSUME NEW m \in Collection("device"), NEW n \in Nat
          PROVE  /\ [m EXCEPT !.log = @ \cup {[id |-> n, usn |-> Pending]}] \in Collection("device")
                 /\ [m EXCEPT !.log = @ \cup {[id |-> n, usn |-> Pending]}].scm = m.scm
                 /\ m.log \subseteq [m EXCEPT !.log = @ \cup {[id |-> n, usn |-> Pending]}].log
      BY DEF Collection, Usns
    <3> HIDE DEF k
    <3> QED
      BY <1>1, <1>2, <2>1, <3>1
  <2>3. Commit(c, l) /\ pc[c] = "idle"
    BY <1>5 DEF Answer
  <2> HIDE DEF l
  <2>4. ReviewIds(k) \subseteq ReviewIds(l)
    BY <2>2 DEF ReviewIds
  <2> QED
    BY <2>2, <2>3, <2>4, CommitCommits
<1>6. CASE SetConfig(c)
  <2>1. Conf(k, Now) \in Collection("device") /\ Extends(k, Conf(k, Now))
    BY <1>1, ConfType, PlainExtends
  <2> QED
    BY <1>6, <2>1, CommitCommits DEF SetConfig, Extends
<1>7. CASE ChangeSchema(c)
  <2> DEFINE l == [k EXCEPT !.scm = Now]
  <2>1. l \in Collection("device") /\ l.scm = Now /\ l.log = k.log
    BY <1>1 DEF Collection
  <2>2. Commit(c, l) /\ pc[c] = "idle"
    BY <1>7 DEF ChangeSchema
  <2> HIDE DEF l
  <2>3. ReviewIds(k) \subseteq ReviewIds(l)
    BY <2>1 DEF ReviewIds
  <2> QED
    BY <2>1, <2>2, <2>3, CommitCommits
<1> QED
  BY <1>3, <1>4, <1>5, <1>6, <1>7 DEF Local

LEMMA SanityFailedCommits ==
  ASSUME ReviewInv, NEW c \in Clients, SanityFailed(c)
  PROVE  Commits(c)
<1> DEFINE k == [col[c] EXCEPT !.scm = Now]
<1>1. k.scm = Now /\ k.log = col[c].log
  BY DEF ReviewInv, TypeInv, TypeOK, Collection
<1>2. col' = [col EXCEPT ![c] = k] /\ wcol' = [wcol EXCEPT ![c] = k]
  BY DEF ReviewInv, TypeInv, TypeOK, SanityFailed
<1>3. clock' = Now /\ work' = srv' /\ srv' = srv
  BY DEF SanityFailed
<1>4. Extends(srv, srv')
  BY <1>3, PlainExtends DEF ReviewInv, TypeInv, TypeOK
<1>5. pc[c] # "uploading"
      /\ \A d \in Clients : pc'[d] \in {"full", "uploading"} => d # c /\ pc'[d] = pc[d]
  BY DEF ReviewInv, TypeInv, TypeOK, SanityFailed
<1> HIDE DEF k
<1>6. ReviewIds(col[c]) \subseteq ReviewIds(k)
  BY <1>1 DEF ReviewIds
<1> QED
  BY <1>1, <1>2, <1>3, <1>4, <1>5, <1>6 DEF Commits

(* The server's commit keeps what its savepoint had, whatever it stamps.   *)
LEMMA ServerCommit ==
  ASSUME ReviewInv
  PROVE  Extends(srv, Committed(work)) /\ Extends(srv, Stamped(Committed(work)))
<1>1. work \in Collection("server") /\ Extends(srv, work)
  BY DEF ReviewInv, TypeInv, TypeOK, Stamps, Logs, Extends
<1>2. Extends(work, Committed(work))
  BY <1>1 DEF Committed, Collection, Extends, ReviewIds
<1>3. Committed(work) \in Collection("server")
  BY CommittedType DEF ReviewInv
<1>4. Extends(Committed(work), Stamped(Committed(work)))
  BY <1>3 DEF Stamped, Collection, Extends, ReviewIds
<1> QED
  BY <1>1, <1>2, <1>4, ExtendsTransitive

LEMMA FinishCommits ==
  ASSUME ReviewInv, NEW c \in Clients, Finish(c) \/ FinishLost(c) \/ FinishCrash(c)
  PROVE  Commits(c)
<1>1. clock' = Now /\ work' = srv' /\ Extends(srv, srv')
  BY ServerCommit DEF Finish, FinishLost, FinishCrash, NoActiveSession
<1>2. pc[c] # "uploading"
      /\ \A d \in Clients : pc'[d] \in {"full", "uploading"} => d # c /\ pc'[d] = pc[d]
  BY DEF ReviewInv, TypeInv, TypeOK, Finish, FinishLost, FinishCrash, RollBack
<1>3. CASE Finish(c)
  <2> DEFINE k == [wcol[c] EXCEPT !.usn = st[c].susn + 1, !.mod = Now, !.ls = Now]
  <2>1. k.scm = wcol[c].scm /\ k.log = wcol[c].log
    BY DEF ReviewInv, TypeInv, TypeOK, Collection
  <2>2. col' = [col EXCEPT ![c] = k] /\ col'[c] = k
    BY <1>3 DEF ReviewInv, TypeInv, TypeOK, Finish
  <2>3. wcol' = [wcol EXCEPT ![c] = k]
    BY <1>3, <2>2 DEF Finish
  <2> HIDE DEF k
  <2>4. ReviewIds(col[c]) \subseteq ReviewIds(k) /\ k.scm = col[c].scm
    BY <2>1 DEF ReviewInv, Stamps, Logs, ReviewIds
  <2> QED
    BY <1>1, <1>2, <2>2, <2>3, <2>4 DEF Commits
<1>4. CASE FinishLost(c) \/ FinishCrash(c)
  <2>1. col' = [col EXCEPT ![c] = col[c]] /\ wcol' = [wcol EXCEPT ![c] = col[c]]
    BY <1>4 DEF ReviewInv, TypeInv, TypeOK, FinishLost, FinishCrash, RollBack
  <2> QED
    BY <1>1, <1>2, <2>1 DEF Commits
<1> QED
  BY <1>3, <1>4

-----------------------------------------------------------------------------
(* Full syncs.                                                             *)

LEMMA ChooseUploadKeeps ==
  ASSUME ReviewInv, NEW c \in Clients, ChooseUpload(c)
  PROVE  Kept
<1> DEFINE k == ForUpload(col[c])
<1>1. /\ clock \in Nat /\ srv.scm \in Nat /\ \A d \in Clients : col[d].scm \in Nat
      /\ srv.scm <= clock /\ \A d \in Clients : col[d].scm <= clock
      /\ col \in [Clients -> Collection("device")] /\ wcol \in [Clients -> Collection("device")]
  BY DEF ReviewInv, TypeInv, TypeOK, Collection, Stamps
<1>2. ReviewIds(k) = ReviewIds(col[c]) /\ k.scm = clock + 1
  BY <1>1, ForUploadKeepsLog DEF Now
<1>3. /\ clock' = clock + 1 /\ UNCHANGED <<srv, work>>
      /\ col' = [col EXCEPT ![c] = k] /\ wcol' = [wcol EXCEPT ![c] = col'[c]]
      /\ pc' = [pc EXCEPT ![c] = "uploading"]
  BY DEF ChooseUpload, Goto, server, Now
<1> HIDE DEF k
<1>4. col'[c] = k /\ wcol'[c] = k
  BY <1>1, <1>3
<1>5. \A d \in Clients \ {c} : col'[d] = col[d] /\ wcol'[d] = wcol[d]
  BY <1>1, <1>3
<1>6. Stamps'
  BY <1>1, <1>2, <1>3, <1>4, <1>5 DEF ReviewInv, Stamps
<1>7. \A d \in Clients \ {c} : pc'[d] = pc[d]
  BY <1>3 DEF ReviewInv, TypeInv, TypeOK
<1>8. Directions'
  BY <1>1, <1>2, <1>3, <1>4, <1>5, <1>7 DEF ReviewInv, Directions
<1>9. Logs' /\ KeepsReviews
  BY <1>2, <1>3, <1>4, <1>5 DEF ReviewInv, Logs, KeepsReviews
<1> QED
  BY <1>6, <1>8, <1>9 DEF Kept

LEMMA UploadKeeps ==
  ASSUME ReviewInv, NEW c \in Clients, Upload(c)
  PROVE  Kept
<1>1. /\ pc[c] = "uploading" /\ srv' = col[c] /\ work' = col[c]
      /\ UNCHANGED <<clock, col, wcol>>
      /\ pc'[c] = "idle" /\ \A d \in Clients \ {c} : pc'[d] = pc[d]
  BY DEF Upload, NoActiveSession, Goto, ReviewInv, TypeInv, TypeOK
<1>2. col[c].scm # srv.scm /\ \A d \in Clients \ {c} : col[d].scm # col[c].scm
  BY <1>1 DEF ReviewInv, Directions
<1>3. Stamps' /\ Logs'
  BY <1>1 DEF ReviewInv, Stamps, Logs
<1>4. Directions'
  BY <1>1, <1>2 DEF ReviewInv, Directions
<1>5. KeepsReviews
  BY <1>1, <1>2 DEF KeepsReviews
<1> QED
  BY <1>3, <1>4, <1>5 DEF Kept

LEMMA DownloadKeeps ==
  ASSUME ReviewInv, NEW c \in Clients, Download(c) \/ DownloadLost(c)
  PROVE  Kept
<1>1. /\ ServeDownload(c) /\ pc[c] = "full" /\ clock' = clock + 1 /\ work' = srv'
      /\ srv' = [srv EXCEPT !.usn = @ + 1, !.mod = Now]
  BY DEF Download, DownloadLost, ServeDownload, NoActiveSession, Now
<1>2. srv'.scm = srv.scm /\ srv'.log = srv.log
  BY <1>1 DEF ReviewInv, TypeInv, TypeOK, Collection
<1>3. ReviewIds(srv') = ReviewIds(srv)
  BY <1>2 DEF ReviewIds
<1>4. pc'[c] = "idle" /\ \A d \in Clients \ {c} : pc'[d] = pc[d]
  BY <1>1 DEF ServeDownload, ReviewInv, TypeInv, TypeOK
<1>5. CASE UNCHANGED <<col, wcol>>
  <2>1. Extends(srv, srv')
    BY <1>2, <1>3 DEF Extends
  <2>2. Commits(c)
    BY <1>1, <1>4, <1>5, <2>1 DEF Commits, Now
  <2> QED
    BY <2>2, CommitsKeep
<1>6. CASE Download(c)
  <2>1. /\ clock \in Nat /\ srv.scm \in Nat /\ \A d \in Clients : col[d].scm \in Nat
        /\ srv.scm <= clock /\ \A d \in Clients : col[d].scm <= clock
        /\ col[c].scm # srv.scm
    BY <1>1 DEF ReviewInv, TypeInv, TypeOK, Collection, Stamps, Directions
  <2>2. srv' \in Collection("server")
    BY TypeStep, <1>6 DEF ReviewInv, TypeInv, TypeOK, Next, Proceed
  <2> DEFINE k == [srv' EXCEPT !.ls = srv'.mod]
  <2>3. k.scm = srv'.scm /\ k.log = srv'.log
    BY <2>2 DEF Collection
  <2>4. col'[c] = k /\ wcol'[c] = k
        /\ \A d \in Clients \ {c} : col'[d] = col[d] /\ wcol'[d] = wcol[d]
    BY <1>6 DEF Download, ReviewInv, TypeInv, TypeOK
  <2> HIDE DEF k
  <2>5. Stamps'
    BY <1>1, <1>2, <2>1, <2>3, <2>4 DEF ReviewInv, Stamps
  <2>6. Directions'
    BY <1>2, <1>4, <2>3, <2>4 DEF ReviewInv, Directions
  <2>7. Logs' /\ KeepsReviews
    BY <1>1, <1>2, <1>3, <2>1, <2>3, <2>4 DEF ReviewInv, Logs, KeepsReviews
  <2> QED
    BY <2>5, <2>6, <2>7 DEF Kept
<1> QED
  BY <1>5, <1>6 DEF DownloadLost

-----------------------------------------------------------------------------

LEMMA ReviewInit == Init => ReviewInv
<1> SUFFICES ASSUME Init PROVE ReviewInv
  OBVIOUS
<1>1. TypeInv
  BY InitType
<1>2. Stamps
  <2>1. Uploaded.scm = 1 /\ Downloaded.scm = 1 /\ Fresh.scm = 0
    BY DEF Uploaded, Downloaded, Fresh
  <2>2. \A c \in Clients : col[c] \in {Uploaded, Downloaded, Fresh} /\ wcol[c] = col[c]
    BY DEF Init
  <2>3. clock = 2 /\ srv.scm = 1 /\ work = srv
    BY <2>1 DEF Init, Downloaded, Uploaded
  <2>4. \A c \in Clients : col[c].scm <= 2
    BY <2>1, <2>2
  <2> QED
    BY <2>2, <2>3, <2>4 DEF Stamps
<1>3. Directions
  BY DEF Init, Directions
<1>4. Logs
  BY DEF Init, Logs
<1> QED
  BY <1>1, <1>2, <1>3, <1>4 DEF ReviewInv

LEMMA ReviewStep == ReviewInv /\ [Next]_vars => ReviewInv' /\ (KeepsReviews \/ UNCHANGED vars)
<1> SUFFICES ASSUME ReviewInv, [Next]_vars PROVE ReviewInv' /\ (KeepsReviews \/ UNCHANGED vars)
  OBVIOUS
<1>1. TypeInv' /\ TypeInv
  BY TypeStep DEF ReviewInv
<1>2. SUFFICES Kept
  BY <1>1 DEF Kept, ReviewInv
<1>3. ASSUME Quiet PROVE Kept
  BY <1>3, QuietStep DEF Kept, ReviewInv, KeepsReviews, Quiet
<1>4. CASE UNCHANGED vars \/ ServerCrash
  BY <1>1, <1>3, <1>4, IdleQuiet DEF vars, ServerCrash, NoActiveSession, client
<1>5. ASSUME NEW c \in Clients, Local(c) \/ Meta(c) \/ Proceed(c) \/ Fault(c)
      PROVE  Kept
  <2>1. CASE Local(c) \/ SanityFailed(c) \/ Finish(c) \/ FinishLost(c) \/ FinishCrash(c)
    BY <1>1, <2>1, LocalCommits, SanityFailedCommits, FinishCommits, CommitsKeep
  <2>2. CASE \/ Meta(c) \/ Start(c) \/ SendGraves(c) \/ ApplyRemoteGraves(c)
             \/ SendChanges(c) \/ PullChunk(c) \/ PushChunk(c)
    BY <1>1, <1>3, <2>2, OpeningQuiet, SendChangesQuiet, PullChunkQuiet, PushChunkQuiet
  <2>3. CASE Conflict(c) \/ Fail(c)
    BY <1>1, <1>3, <2>3, GiveUpQuiet DEF Conflict, Fail
  <2>4. CASE SanityCheck(c)
    <3>1. UNCHANGED <<clock, srv, col, wcol>> /\ work' = work /\ pc' = [pc EXCEPT ![c] = "finish"]
      BY <2>4 DEF SanityCheck, Goto, server
    <3>2. Quiet
      BY <1>1, <3>1, Unchanged, OneStage DEF Quiet
    <3> QED
      BY <1>3, <3>2
  <2>5. CASE CancelFull(c)
    <3>1. UNCHANGED <<clock, srv, col, wcol>> /\ work' = work /\ pc' = [pc EXCEPT ![c] = "idle"]
      BY <2>5 DEF CancelFull, server
    <3>2. Quiet
      BY <1>1, <3>1, Unchanged, OneStage DEF Quiet
    <3> QED
      BY <1>3, <3>2
  <2>6. CASE ChooseUpload(c) \/ Upload(c) \/ Download(c) \/ DownloadLost(c)
    BY <2>6, ChooseUploadKeeps, UploadKeeps, DownloadKeeps
  <2> QED
    BY <1>5, <2>1, <2>2, <2>3, <2>4, <2>5, <2>6 DEF Proceed, Fault
<1> QED
  BY <1>4, <1>5 DEF Next

(* Whatever the number of devices and whatever fails or overtakes what: a  *)
(* step that keeps a collection's schema stamp keeps its review log.       *)
THEOREM ReviewsAreKept == Spec => ReviewsKept
<1>1. Spec => [][KeepsReviews]_vars
  BY ReviewInit, ReviewStep, PTL DEF Spec
<1> QED
  BY <1>1 DEF ReviewsKept

-----------------------------------------------------------------------------
(* What each operation on collections does to each field.                  *)

SameStamps(k, l) == l.usn = k.usn /\ l.mod = k.mod /\ l.scm = k.scm /\ l.ls = k.ls

LEMMA ApplyGravesIs ==
  ASSUME NEW own, NEW k \in Collection(own), NEW gone, NEW usn,
         NEW l, l = ApplyGraves(k, gone, usn)
  PROVE  /\ SameStamps(k, l) /\ l.log = k.log /\ l.conf = k.conf
         /\ \A o \in Objects : /\ o \in gone => l.obj[o] = Absent
                               /\ o \notin gone => l.obj[o] = k.obj[o]
                               /\ o \in gone /\ k.grave[o] = NoGrave => l.grave[o] = usn
                               /\ o \notin gone \/ k.grave[o] # NoGrave => l.grave[o] = k.grave[o]
  BY DEF SameStamps, ApplyGraves, AddGraves, Collection

LEMMA MarkGravesIs ==
  ASSUME NEW own, NEW k \in Collection(own), NEW usn, NEW l, l = MarkGraves(k, usn)
  PROVE  /\ SameStamps(k, l) /\ l.log = k.log /\ l.conf = k.conf /\ l.obj = k.obj
         /\ \A o \in Objects : /\ k.grave[o] = Pending => l.grave[o] = usn
                               /\ k.grave[o] # Pending => l.grave[o] = k.grave[o]
  BY DEF SameStamps, MarkGraves, Collection

LEMMA ConfIs ==
  ASSUME NEW own, NEW k \in Collection(own), NEW conf, NEW l, l = Conf(k, conf)
  PROVE  /\ SameStamps(k, l) /\ l.log = k.log /\ l.grave = k.grave /\ l.obj = k.obj
         /\ l.conf = conf
  BY DEF SameStamps, Conf, Collection

LEMMA MarkObjectsIs ==
  ASSUME NEW k \in Collection("device"), NEW objs, NEW reviews, NEW usn,
         NEW l, l = MarkObjects(k, objs, reviews, usn)
  PROVE  /\ SameStamps(k, l) /\ l.conf = k.conf /\ l.grave = k.grave
         /\ \A o \in Objects :
              /\ o \in objs => l.obj[o].ver = k.obj[o].ver /\ l.obj[o].usn = usn
              /\ o \notin objs => l.obj[o] = k.obj[o]
  BY DEF SameStamps, MarkObjects, Collection

LEMMA MarkObjectsLog ==
  ASSUME NEW k \in Collection("device"), NEW objs, NEW reviews \in SUBSET ReviewsOf("device"),
         NEW usn, NEW l, l = MarkObjects(k, objs, reviews, usn)
  PROVE  /\ k.log \ reviews \subseteq l.log
         /\ \A r \in l.log : r \in k.log \ reviews
                            \/ \E s \in reviews : r.id = s.id /\ r.usn = usn
         /\ \A s \in reviews : \E r \in l.log : r.id = s.id /\ r.usn = usn
<1> DEFINE sent == {[r EXCEPT !.usn = usn] : r \in reviews}
<1>1. l.log = (k.log \ reviews) \cup sent
  BY DEF MarkObjects, Collection
<1>2. /\ \A r \in sent : \E s \in reviews : r.id = s.id /\ r.usn = usn
      /\ \A s \in reviews : \E r \in sent : r.id = s.id /\ r.usn = usn
  <2>1. \A s \in reviews : [s EXCEPT !.usn = usn].id = s.id /\ [s EXCEPT !.usn = usn].usn = usn
    BY DEF ReviewsOf
  <2> QED
    BY <2>1
<1> HIDE DEF sent
<1> QED
  BY <1>1, <1>2

LEMMA MarkNoReviews ==
  ASSUME NEW k \in Collection("device"), NEW objs, NEW usn, NEW l,
         l = MarkObjects(k, objs, {}, usn)
  PROVE  l.log = k.log
<1> DEFINE sent == {[r EXCEPT !.usn = usn] : r \in {}}
<1>1. l.log = (k.log \ {}) \cup sent
  BY DEF MarkObjects, Collection
<1>2. sent = {}
  OBVIOUS
<1> QED
  BY <1>1, <1>2

Wins(k, rows, o) == ~Present(k, o) \/ Secs(k.obj[o].ver) <= Secs(rows[o].ver)

LEMMA MergeUnchunkedIs ==
  ASSUME NEW own, NEW k \in Collection(own), NEW rows, NEW l, l = MergeUnchunked(k, rows)
  PROVE  /\ SameStamps(k, l) /\ l.conf = k.conf /\ l.grave = k.grave /\ l.log = k.log
         /\ \A o \in Objects :
              /\ o \in DOMAIN rows /\ Wins(k, rows, o) => l.obj[o] = rows[o]
              /\ ~(o \in DOMAIN rows /\ Wins(k, rows, o)) => l.obj[o] = k.obj[o]
  BY DEF SameStamps, MergeUnchunked, Collection, Wins

Replaces(k, rows, since, o) ==
  ~Present(k, o) \/ ~IsPending(k.obj[o].usn, since) \/ Secs(k.obj[o].ver) < Secs(rows[o].ver)

LEMMA MergeChunkIs ==
  ASSUME NEW own, NEW k \in Collection(own), NEW rows, NEW reviews, NEW since,
         NEW l, l = MergeChunk(k, rows, reviews, since)
  PROVE  /\ SameStamps(k, l) /\ l.conf = k.conf /\ l.grave = k.grave
         /\ l.log = k.log \cup {r \in reviews : r.id \notin ReviewIds(k)}
         /\ \A o \in Objects :
              /\ o \in DOMAIN rows /\ Replaces(k, rows, since, o) => l.obj[o] = rows[o]
              /\ ~(o \in DOMAIN rows /\ Replaces(k, rows, since, o)) => l.obj[o] = k.obj[o]
<1> DEFINE obj == [o \in Objects |->
              IF o \in DOMAIN rows /\ (\/ ~Present(k, o)
                                       \/ ~IsPending(k.obj[o].usn, since)
                                       \/ Secs(k.obj[o].ver) < Secs(rows[o].ver))
              THEN rows[o] ELSE k.obj[o]]
           log == k.log \cup {r \in reviews : r.id \notin ReviewIds(k)}
<1>1. l = [k EXCEPT !.obj = obj, !.log = log]
  BY DEF MergeChunk
<1>2. \A o \in Objects :
              /\ o \in DOMAIN rows /\ Replaces(k, rows, since, o) => obj[o] = rows[o]
              /\ ~(o \in DOMAIN rows /\ Replaces(k, rows, since, o)) => obj[o] = k.obj[o]
  BY DEF Replaces
<1> HIDE DEF obj, log
<1>3. SameStamps(k, l) /\ l.conf = k.conf /\ l.grave = k.grave /\ l.obj = obj /\ l.log = log
  BY <1>1 DEF SameStamps, Collection
<1> QED
  BY <1>2, <1>3 DEF log

LEMMA RowsAre ==
  ASSUME NEW k, NEW S
  PROVE  DOMAIN Rows(k, S) = S /\ \A o \in S : Rows(k, S)[o] = k.obj[o]
  BY DEF Rows

LEMMA ForUploadIs ==
  ASSUME NEW k \in Collection("device"), NEW l, l = ForUpload(k), clock \in Nat
  PROVE  /\ l.usn = k.usn + 1 /\ l.scm = Now /\ l.ls = Now /\ l.mod = Now /\ l.conf = k.conf
         /\ \A o \in Objects : /\ l.obj[o].ver = k.obj[o].ver /\ l.obj[o].usn # Pending
                               /\ l.grave[o] = NoGrave
         /\ \A r \in l.log : r.usn # Pending
<1> DEFINE obj == [o \in Objects |-> IF o \in Decks \/ k.obj[o].usn = Pending
                                    THEN [k.obj[o] EXCEPT !.usn = 0] ELSE k.obj[o]]
           grave == [o \in Objects |-> NoGrave]
           log == {IF r.usn = Pending THEN [r EXCEPT !.usn = 0] ELSE r : r \in k.log}
           n == Now
<1>1. l = [k EXCEPT !.obj = obj, !.grave = grave, !.log = log,
                    !.usn = k.usn + 1, !.scm = n, !.ls = n, !.mod = n]
  BY DEF ForUpload
<1>2. l \in Collection("server")
  BY ForUploadType
<1>3. \A o \in Objects : obj[o].ver = k.obj[o].ver
  BY DEF Collection
<1>4. n = Now /\ \A o \in Objects : grave[o] = NoGrave
  OBVIOUS
<1> HIDE DEF obj, grave, log, n
<1>5. /\ l.usn = k.usn + 1 /\ l.scm = n /\ l.ls = n /\ l.mod = n /\ l.conf = k.conf
      /\ l.obj = obj /\ l.grave = grave
  BY <1>1 DEF Collection
<1>6. \A o \in Objects : l.obj[o].usn # Pending
  BY <1>2 DEF Collection, Usns
<1>7. \A r \in l.log : r.usn # Pending
  BY <1>2 DEF Collection, Usns
<1> QED
  BY <1>3, <1>4, <1>5, <1>6, <1>7

(* A later stamp is not earlier in seconds.                                *)
LEMMA SecsMonotone ==
  ASSUME NEW v \in Nat, NEW w \in Nat, v <= w
  PROVE  Secs(v) <= Secs(w)
<1>1. TicksPerSecond \in Nat \ {0}
  BY TicksAssumption
<1> QED
  BY <1>1 DEF Secs

LEMMA SecsType == \A v \in Nat : Secs(v) \in Nat
  BY TicksAssumption DEF Secs

-----------------------------------------------------------------------------
(* The invariant behind the promises of one session.                       *)

(* A sync attempt that found the schemas equal.                            *)
Attempting(c) == pc[c] = "met" \/ InSession(c)

(* Nothing carries a stamp that the clock has not handed out.              *)
Clocked ==
  /\ \A o \in Objects : srv.obj[o].ver <= clock /\ work.obj[o].ver <= clock
  /\ \A c \in Clients : col[c].ls <= clock /\ \A o \in Objects : col[c].obj[o].ver <= clock

(* What a device remembers of its attempt fits its collection: what is     *)
(* pending in the transaction is pending outside of it, what is still to   *)
(* be pushed is pending, and nothing is when the sanity check has passed.  *)
PendingInside(c) ==
  \A o \in Objects : wcol[c].obj[o].usn = Pending => wcol[c].obj[o] = col[c].obj[o]
PushListed(c) == pc[c] = "push" => \A o \in st[c].ids.objs :
                   Present(wcol[c], o) /\ wcol[c].obj[o].usn = Pending
ClockedInside(c) == \A o \in Objects : wcol[c].obj[o].ver <= clock
NothingLeft(c) == pc[c] = "finish" => ~HasPending(wcol[c])
AttemptSound(c) ==
  /\ ~InSession(c) => wcol[c] = col[c]
  /\ Attempting(c) => st[c].cusn = col[c].usn /\ col[c].usn <= st[c].susn
  /\ Attempting(c) /\ col[c].scm = srv.scm => st[c].susn <= srv.usn
  /\ PendingInside(c) /\ ClockedInside(c) /\ PushListed(c) /\ NothingLeft(c)

(* The savepoint and the session belong to the server's last commit.       *)
Basis ==
  /\ work.usn = srv.usn
  /\ sess.owner # Nobody => sess.usn = srv.usn
  /\ \A c \in Clients : Owns(c) /\ InSession(c) => sess.cusn = st[c].cusn

(* Within one schema no device is ahead of the server.                     *)
Behind(c) == col[c].scm = srv.scm => col[c].usn <= srv.usn

(* A server row that device c has already seen, or will be taken to have   *)
(* seen, is not more recent than c's own unsent edit of the object.        *)
Sooner(k, c) ==
  \A o \in Objects : Present(k, o) /\ k.obj[o].usn < col[c].usn /\ col[c].obj[o].usn = Pending
                       => k.obj[o].ver <= col[c].obj[o].ver
SoonerSent(c) ==
  \A d \in Clients \ {c} : Attempting(d) /\ st[d].susn < col[c].usn =>
    \A o \in Objects : col[d].obj[o].usn = Pending /\ col[c].obj[o].usn = Pending
                         => col[d].obj[o].ver <= col[c].obj[o].ver
Ordered(c) == col[c].scm = srv.scm => Sooner(srv, c) /\ Sooner(work, c) /\ SoonerSent(c)

(* SessionOnLatest, for the objects.                                       *)
NotUndone(o) == Present(srv, o) =>
  \/ Present(work, o) /\ Secs(work.obj[o].ver) >= Secs(srv.obj[o].ver)
  \/ work.grave[o] # NoGrave
NothingUndone(c) == Owns(c) /\ col[c].scm = srv.scm => \A o \in Objects : NotUndone(o)

(* What has been a device's own change is pending in its transaction, or   *)
(* the server has it.                                                      *)
Delivered(c, o) ==
  Secs(work.obj[o].ver) >= Secs(col[c].obj[o].ver) \/ work.grave[o] # NoGrave
EditsArrive(c) ==
  \A o \in Objects : col[c].obj[o].usn = Pending
                       => wcol[c].obj[o] = col[c].obj[o] \/ Delivered(c, o)
DeletionsArrive(c) ==
  /\ \A o \in Objects : col[c].grave[o] = Pending /\ ~Present(col[c], o)
                          => o \in st[c].graves \/ ~Present(work, o)
  /\ \A o \in st[c].remote : work.grave[o] # NoGrave
  /\ pc[c] # "graves" => st[c].graves = {}
ReviewsArrive(c) ==
  /\ sess.chunking => \A r \in sess.ids.log : r.id \in ReviewIds(work)
  /\ col[c].scm = srv.scm => \A r \in wcol[c].log : r.usn = Pending \/ r.id \in ReviewIds(work)
Arriving(c) ==
  Owns(c) /\ InSession(c) => EditsArrive(c) /\ DeletionsArrive(c) /\ ReviewsArrive(c)

(* A review that is not pending is on the server.                          *)
ReviewsKnown(c) == col[c].scm = srv.scm =>
  \A r \in col[c].log : r.usn = Pending \/ r.id \in ReviewIds(srv)

(* Unsent changes show in the stamps, and are changes of existing rows.    *)
ShowsPending(k) ==
  /\ HasPending(k) => k.mod > k.ls \/ k.scm > k.ls
  /\ \A o \in Objects : k.obj[o].usn = Pending => Present(k, o)

SessionParts ==
  /\ Clocked /\ Basis
  /\ \A c \in Clients :
       /\ AttemptSound(c) /\ Behind(c) /\ Ordered(c) /\ NothingUndone(c)
       /\ Arriving(c) /\ ReviewsKnown(c) /\ ShowsPending(col[c])
SessionInv == ReviewInv /\ SessionParts
-----------------------------------------------------------------------------

LEMMA FieldTypes ==
  ASSUME NEW own, NEW k \in Collection(own)
  PROVE  /\ k.usn \in Nat /\ k.mod \in Nat /\ k.scm \in Nat /\ k.ls \in Nat /\ k.conf \in Nat
         /\ \A o \in Objects : /\ k.obj[o] = [ver |-> k.obj[o].ver, usn |-> k.obj[o].usn]
                               /\ k.obj[o].ver \in Nat /\ k.obj[o].usn \in Int
                               /\ k.obj[o].usn >= Pending /\ k.grave[o] >= NoGrave
                               /\ k.grave[o] \in Int
         /\ \A r \in k.log : r.usn \in Int /\ r.usn >= Pending
  BY DEF Collection, Usns

LEMMA ServerTypes ==
  ASSUME NEW k \in Collection("server")
  PROVE  /\ \A o \in Objects : k.obj[o].usn \in Nat /\ k.grave[o] # Pending
                               /\ (k.grave[o] # NoGrave => k.grave[o] \in Nat)
         /\ \A r \in k.log : r.usn \in Nat
  BY DEF Collection, Usns

LEMMA Typed ==
  ASSUME TypeInv
  PROVE  /\ clock \in Nat /\ srv \in Collection("server") /\ work \in Collection("server")
         /\ sess \in Session /\ sess.usn \in Nat /\ sess.cusn \in Nat
         /\ \A c \in Clients : /\ col[c] \in Collection("device") /\ wcol[c] \in Collection("device")
                               /\ st[c] \in State /\ st[c].susn \in Nat /\ st[c].cusn \in Nat
         /\ Nobody \notin Clients
  BY NobodyAssumption DEF TypeInv, TypeOK, Session, State, Nobody

(* The other devices are not touched by a step of c.                       *)
Alone(c) == \A d \in Clients \ {c} : /\ col'[d] = col[d] /\ wcol'[d] = wcol[d]
                                     /\ pc'[d] = pc[d] /\ st'[d] = st[d]

LEMMA StepsAreAlone ==
  ASSUME TypeInv, NEW c \in Clients, Local(c) \/ Meta(c) \/ Proceed(c) \/ Fault(c)
  PROVE  Alone(c)
<1> USE DEF TypeInv, TypeOK, Alone, Goto
<1>1. CASE Local(c)
  BY <1>1 DEF Local, Create, Edit, Delete, Answer, SetConfig, ChangeSchema, Commit
<1>2. CASE Meta(c)
  BY <1>2 DEF Meta, client
<1>3. ASSUME GiveUp(c) \/ FinishLost(c) \/ FinishCrash(c) PROVE Alone(c)
  BY <1>3 DEF GiveUp, RollBack, FinishLost, FinishCrash
<1>4. CASE Start(c) \/ SendGraves(c) \/ ApplyRemoteGraves(c) \/ SendChanges(c)
  BY <1>4 DEF Start, SendGraves, ApplyRemoteGraves, SendChanges
<1>5. CASE PullChunk(c)
  BY <1>5 DEF PullChunk
<1>6. CASE PushChunk(c)
  BY <1>6 DEF PushChunk
<1>7. CASE SanityCheck(c) \/ SanityFailed(c) \/ Finish(c)
  BY <1>7 DEF SanityCheck, SanityFailed, Finish
<1>8. CASE ChooseUpload(c) \/ Upload(c) \/ Download(c) \/ DownloadLost(c) \/ CancelFull(c)
  BY <1>8 DEF ChooseUpload, Upload, Download, DownloadLost, ServeDownload, CancelFull
<1> QED
  BY <1>1, <1>2, <1>3, <1>4, <1>5, <1>6, <1>7, <1>8 DEF Proceed, Fault, Conflict, Fail
-----------------------------------------------------------------------------
(* A request inside a session.                                             *)

SessionStep(c) ==
  /\ InSession(c) /\ InSession(c)' /\ Alone(c)
  /\ UNCHANGED <<clock, srv, col>>
  /\ sess'.owner = sess.owner /\ sess'.usn = sess.usn /\ sess'.cusn = sess.cusn
  /\ st'[c].susn = st[c].susn /\ st'[c].cusn = st[c].cusn
  /\ work'.usn = work.usn
  /\ Owns(c) \/ UNCHANGED <<work, sess>>

(* The server takes a row that is pending on the device.                   *)
Takes(c, o) ==
  /\ Owns(c) /\ Present(wcol[c], o) /\ wcol[c].obj[o].usn = Pending
  /\ work'.obj[o].ver = wcol[c].obj[o].ver /\ work'.obj[o].usn = st[c].susn
  /\ \/ ~Present(work, o)
     \/ work.obj[o].usn < sess.cusn
     \/ Secs(work.obj[o].ver) <= Secs(wcol[c].obj[o].ver)
Drops(o) == ~Present(work', o) /\ work'.grave[o] # NoGrave
WorkMoves(c) ==
  \A o \in Objects :
    /\ work.grave[o] # NoGrave => work'.grave[o] # NoGrave
    /\ work'.obj[o] = work.obj[o] \/ Drops(o) \/ Takes(c, o)

LEMMA TakenRow ==
  ASSUME SessionInv, NEW c \in Clients, InSession(c), NEW o \in Objects, Takes(c, o)
  PROVE  /\ col[c].obj[o].usn = Pending /\ work'.obj[o].ver = col[c].obj[o].ver
         /\ Present(col[c], o) /\ col[c].usn <= st[c].susn /\ sess.cusn = col[c].usn
  BY DEF SessionInv, SessionParts, AttemptSound, PendingInside, Takes, Attempting, Basis, Present

LEMMA SessionClocked ==
  ASSUME SessionInv, NEW c \in Clients, SessionStep(c), WorkMoves(c)
  PROVE  Clocked'
<1>1. \A o \in Objects : work'.obj[o].ver <= clock
  <2> TAKE o \in Objects
  <2>1. CASE work'.obj[o] = work.obj[o]
    BY <2>1 DEF SessionInv, SessionParts, Clocked
  <2>2. CASE Drops(o)
    BY <2>2, Typed DEF Drops, Present, SessionInv, ReviewInv
  <2>3. CASE Takes(c, o)
    BY <2>3, TakenRow DEF SessionInv, SessionParts, Clocked, SessionStep
  <2> QED
    BY <2>1, <2>2, <2>3 DEF WorkMoves
<1> QED
  BY <1>1 DEF SessionInv, SessionParts, Clocked, SessionStep

LEMMA SessionOrdered ==
  ASSUME SessionInv, NEW c \in Clients, SessionStep(c), WorkMoves(c), NEW d \in Clients
  PROVE  Ordered(d)'
<1> SUFFICES ASSUME col[d].scm = srv.scm
             PROVE  Sooner(srv, d)' /\ Sooner(work, d)' /\ SoonerSent(d)'
  BY DEF Ordered, SessionStep
<1>1. Sooner(srv, d) /\ Sooner(work, d) /\ SoonerSent(d)
  BY DEF SessionInv, SessionParts, Ordered
<1>2. Sooner(srv, d)'
  BY <1>1 DEF Sooner, SessionStep, Present
<1>3. SoonerSent(d)'
  <2>1. \A e \in Clients : st'[e].susn = st[e].susn /\ (Attempting(e)' => Attempting(e))
    BY DEF SessionStep, Alone, Attempting, InSession
  <2> QED
    BY <1>1, <2>1 DEF SoonerSent, SessionStep
<1>4. Sooner(work, d)'
  <2> SUFFICES ASSUME NEW o \in Objects, Present(work', o), work'.obj[o].usn < col[d].usn,
                      col[d].obj[o].usn = Pending
               PROVE  work'.obj[o].ver <= col[d].obj[o].ver
    BY DEF Sooner, SessionStep, Present
  <2>1. CASE work'.obj[o] = work.obj[o]
    BY <1>1, <2>1 DEF Sooner, Present
  <2>2. CASE Takes(c, o)
    <3>1. /\ col[c].obj[o].usn = Pending /\ work'.obj[o].ver = col[c].obj[o].ver
          /\ col[c].usn <= st[c].susn /\ work'.obj[o].usn = st[c].susn /\ Attempting(c)
      BY <2>2, TakenRow DEF SessionStep, Takes, Attempting
    <3>2. d # c
      BY <3>1, Typed, FieldTypes DEF SessionInv, ReviewInv
    <3> QED
      BY <1>1, <3>1, <3>2 DEF SoonerSent
  <2> QED
    BY <2>1, <2>2 DEF WorkMoves, Drops
<1> QED
  BY <1>2, <1>3, <1>4

LEMMA SessionUndone ==
  ASSUME SessionInv, NEW c \in Clients, SessionStep(c), WorkMoves(c), NEW d \in Clients
  PROVE  NothingUndone(d)'
<1> SUFFICES ASSUME Owns(d), col[d].scm = srv.scm, NEW o \in Objects, Present(srv, o)
             PROVE  \/ Present(work', o) /\ Secs(work'.obj[o].ver) >= Secs(srv.obj[o].ver)
                    \/ work'.grave[o] # NoGrave
  BY DEF NothingUndone, NotUndone, SessionStep, Owns, Present
<1>1. \/ Present(work, o) /\ Secs(work.obj[o].ver) >= Secs(srv.obj[o].ver)
      \/ work.grave[o] # NoGrave
  BY DEF SessionInv, SessionParts, NothingUndone, NotUndone
<1>2. CASE Takes(c, o)
  <2>1. /\ col[c].obj[o].usn = Pending /\ work'.obj[o].ver = col[c].obj[o].ver
        /\ wcol[c].obj[o].ver = col[c].obj[o].ver /\ Present(col[c], o) /\ sess.cusn = col[c].usn
    BY <1>2, TakenRow DEF SessionStep, Takes
  <2>2. c = d
    BY <1>2 DEF Takes, Owns
  <2>3. /\ work.obj[o].ver \in Nat /\ col[c].obj[o].ver \in Nat /\ work'.obj[o].ver \in Nat
        /\ srv.obj[o].ver \in Nat
    BY <2>1, Typed, FieldTypes DEF SessionInv, ReviewInv
  <2>4. Present(work, o) /\ work.obj[o].usn < sess.cusn
          => Secs(work.obj[o].ver) <= Secs(work'.obj[o].ver)
    BY <2>1, <2>2, <2>3, SecsMonotone DEF SessionInv, SessionParts, Ordered, Sooner
  <2>5. CASE Present(work, o) /\ Secs(work.obj[o].ver) >= Secs(srv.obj[o].ver)
    <3>1. Secs(work.obj[o].ver) <= Secs(work'.obj[o].ver)
      BY <1>2, <2>1, <2>4, <2>5 DEF Takes
    <3>2. Present(work', o)
      BY <2>1 DEF Present
    <3> QED
      BY <2>3, <2>5, <3>1, <3>2, SecsType
  <2> QED
    BY <1>1, <2>5 DEF WorkMoves
<1>3. CASE work'.obj[o] = work.obj[o]
  BY <1>1, <1>3 DEF WorkMoves, Present
<1>4. CASE Drops(o)
  BY <1>4 DEF Drops
<1> QED
  BY <1>2, <1>3, <1>4 DEF WorkMoves

(* What a request inside a session leaves to be shown of its own device.   *)
OwnPart(c) == PendingInside(c) /\ ClockedInside(c) /\ PushListed(c) /\ NothingLeft(c) /\ Arriving(c)

LEMMA SessionKeeps ==
  ASSUME SessionInv, NEW c \in Clients, SessionStep(c), WorkMoves(c), OwnPart(c)'
  PROVE  SessionParts'
<1>1. Clocked' /\ \A d \in Clients : Ordered(d)' /\ NothingUndone(d)'
  BY SessionClocked, SessionOrdered, SessionUndone
<1>2. Basis'
  BY DEF SessionInv, SessionParts, Basis, SessionStep, Alone, Owns, InSession
<1>3. ASSUME NEW d \in Clients
      PROVE  AttemptSound(d)' /\ Arriving(d)'
  <2>1. CASE d = c
    BY <2>1 DEF SessionInv, SessionParts, AttemptSound, SessionStep, OwnPart, Attempting
  <2>2. CASE d # c
    <3>1. AttemptSound(d)'
      BY <2>2 DEF SessionInv, SessionParts, AttemptSound, SessionStep, Alone, Attempting, InSession,
                  PendingInside, ClockedInside, PushListed, NothingLeft
    <3>2. Arriving(d)'
      <4>1. CASE Owns(c)
        BY <2>2, <4>1 DEF Arriving, SessionStep, Owns
      <4>2. CASE UNCHANGED <<work, sess>>
        <5>1. UNCHANGED <<work, sess, srv, col>> /\ wcol'[d] = wcol[d] /\ pc'[d] = pc[d]
              /\ st'[d] = st[d]
          BY <2>2, <4>2 DEF SessionStep, Alone
        <5>2. Arriving(d)
          BY DEF SessionInv, SessionParts
        <5> QED
          BY <5>1, <5>2 DEF Arriving, EditsArrive, DeletionsArrive, ReviewsArrive, Delivered,
                            Present, ReviewIds, Owns, InSession
      <4> QED
        BY <4>1, <4>2 DEF SessionStep
    <3> QED
      BY <3>1, <3>2
  <2> QED
    BY <2>1, <2>2
<1>4. ASSUME NEW d \in Clients
      PROVE  Behind(d)' /\ ReviewsKnown(d)' /\ ShowsPending(col[d])'
  BY DEF SessionInv, SessionParts, Behind, ReviewsKnown, ShowsPending, SessionStep, HasPending,
         PendingGraves, PendingObjects, PendingReviews, Present, ReviewIds
<1> QED
  BY <1>1, <1>2, <1>3, <1>4 DEF SessionParts
-----------------------------------------------------------------------------
(* The requests one by one.                                                *)

LEMMA AbsentIs == \A k, o : k.obj[o] = Absent => ~Present(k, o) /\ k.obj[o].usn = 0
  BY DEF Absent, Present

(* What is deleted on the device and sent as such does not come back.      *)
LEMMA DeletionsStay ==
  ASSUME SessionInv, NEW c \in Clients, SessionStep(c), WorkMoves(c), Owns(c),
         st[c].graves = {}, st'[c].graves = {}, st'[c].remote = st[c].remote
  PROVE  DeletionsArrive(c)'
<1>1. DeletionsArrive(c)
  BY DEF SessionInv, SessionParts, Arriving, SessionStep
<1>2. ASSUME NEW o \in Objects, col[c].grave[o] = Pending, ~Present(col[c], o)
      PROVE  ~Present(work', o)
  <2>1. ~Present(work, o)
    BY <1>1, <1>2 DEF DeletionsArrive
  <2>2. ~Takes(c, o)
    BY <1>2, TakenRow DEF SessionStep
  <2> QED
    BY <2>1, <2>2 DEF WorkMoves, Drops, Present
<1>3. \A o \in st[c].remote : work'.grave[o] # NoGrave
  BY <1>1, Typed DEF DeletionsArrive, WorkMoves, SessionInv, ReviewInv, State
<1> QED
  BY <1>2, <1>3 DEF DeletionsArrive, SessionStep, Present

LEMMA SendGravesKeeps ==
  ASSUME SessionInv, NEW c \in Clients, SendGraves(c)
  PROVE  SessionParts'
<1>1. PICK t \in GraveChunks(st[c].graves) : /\ work' = ApplyGraves(work, t, sess.usn)
                                             /\ st' = [st EXCEPT ![c].graves = @ \ t]
  BY DEF SendGraves
<1>2. /\ pc[c] = "graves" /\ Owns(c) /\ UNCHANGED <<clock, srv, sess, col, wcol, pc>>
      /\ t \subseteq st[c].graves
  BY DEF SendGraves, GraveChunks
<1>3. /\ SameStamps(work, work') /\ work'.log = work.log
      /\ \A o \in Objects :
           /\ o \in t => work'.obj[o] = Absent
           /\ o \notin t => work'.obj[o] = work.obj[o]
           /\ o \in t /\ work.grave[o] = NoGrave => work'.grave[o] = sess.usn
           /\ o \notin t \/ work.grave[o] # NoGrave => work'.grave[o] = work.grave[o]
  BY <1>1, ApplyGravesIs, Typed DEF SessionInv, ReviewInv
<1>4. /\ st'[c].susn = st[c].susn /\ st'[c].cusn = st[c].cusn /\ st'[c].remote = st[c].remote
      /\ st'[c].graves = st[c].graves \ t /\ st'[c].ids = st[c].ids
  BY <1>1, Typed DEF SessionInv, ReviewInv, TypeInv, TypeOK, State
<1>5. SessionStep(c)
  BY <1>2, <1>3, <1>4, StepsAreAlone DEF SessionStep, InSession, SameStamps, SessionInv, ReviewInv, Proceed
<1>6. WorkMoves(c)
  <2>1. sess.usn # NoGrave
    BY Typed DEF SessionInv, ReviewInv
  <2> QED
    BY <1>3, <2>1, AbsentIs DEF WorkMoves, Drops
<1>7. Arriving(c)'
  <2>1. EditsArrive(c) /\ DeletionsArrive(c) /\ ReviewsArrive(c)
    BY <1>2 DEF SessionInv, SessionParts, Arriving, InSession
  <2>2. \A o \in Objects : Delivered(c, o) => Delivered(c, o)'
    <3> TAKE o \in Objects
    <3>1. sess.usn # NoGrave
      BY Typed DEF SessionInv, ReviewInv
    <3>2. CASE o \in t
      BY <1>3, <3>1, <3>2 DEF Delivered
    <3>3. CASE o \notin t
      BY <1>2, <1>3, <3>3 DEF Delivered
    <3> QED
      BY <3>2, <3>3
  <2>3. EditsArrive(c)'
    BY <1>2, <2>1, <2>2 DEF EditsArrive
  <2>4. DeletionsArrive(c)'
    <3>1. ASSUME NEW o \in Objects, col[c].grave[o] = Pending, ~Present(col[c], o),
                 o \notin st[c].graves \ t
          PROVE  ~Present(work', o)
      <4>1. CASE o \in t
        BY <1>3, <4>1, AbsentIs
      <4>2. CASE o \notin t
        BY <1>3, <2>1, <3>1, <4>2 DEF DeletionsArrive, Present
      <4> QED
        BY <4>1, <4>2
    <3>2. \A o \in st[c].remote : work'.grave[o] # NoGrave
      BY <1>6, <2>1, Typed DEF DeletionsArrive, WorkMoves, SessionInv, ReviewInv, State
    <3> QED
      BY <1>2, <1>4, <3>1, <3>2 DEF DeletionsArrive, Present
  <2>5. ReviewsArrive(c)'
    BY <1>2, <1>3, <2>1 DEF ReviewsArrive, ReviewIds
  <2> QED
    BY <2>3, <2>4, <2>5 DEF Arriving
<1>8. OwnPart(c)'
  BY <1>2, <1>4, <1>7 DEF OwnPart, SessionInv, SessionParts, AttemptSound, PendingInside, PushListed,
                          ClockedInside, NothingLeft, Present, HasPending
<1> QED
  BY <1>5, <1>6, <1>8, SessionKeeps

LEMMA ApplyRemoteGravesKeeps ==
  ASSUME SessionInv, NEW c \in Clients, ApplyRemoteGraves(c)
  PROVE  SessionParts'
<1>1. /\ pc[c] = "graves" /\ st[c].graves = {} /\ UNCHANGED <<clock, srv, work, sess, col, st>>
      /\ wcol'[c] = ApplyGraves(wcol[c], st[c].remote, st[c].susn) /\ pc'[c] = "changes"
  BY DEF ApplyRemoteGraves, server, Goto, SessionInv, ReviewInv, TypeInv, TypeOK
<1>2. /\ wcol'[c].log = wcol[c].log
      /\ \A o \in Objects : /\ o \in st[c].remote => wcol'[c].obj[o] = Absent
                            /\ o \notin st[c].remote => wcol'[c].obj[o] = wcol[c].obj[o]
  BY <1>1, ApplyGravesIs, Typed DEF SessionInv, ReviewInv
<1>3. SessionStep(c)
  BY <1>1, StepsAreAlone DEF SessionStep, InSession, SessionInv, ReviewInv, Proceed
<1>4. WorkMoves(c)
  BY <1>1 DEF WorkMoves
<1>5. Arriving(c)'
  <2> SUFFICES ASSUME Owns(c) PROVE EditsArrive(c)' /\ DeletionsArrive(c)' /\ ReviewsArrive(c)'
    BY <1>1 DEF Arriving, Owns
  <2>1. EditsArrive(c) /\ DeletionsArrive(c) /\ ReviewsArrive(c)
    BY <1>1 DEF SessionInv, SessionParts, Arriving, InSession
  <2>2. EditsArrive(c)'
    <3>1. \A o \in Objects : Delivered(c, o)' <=> Delivered(c, o)
      BY <1>1 DEF Delivered
    <3>2. \A o \in st[c].remote : Delivered(c, o)
      BY <2>1 DEF Delivered, DeletionsArrive
    <3> QED
      BY <1>1, <1>2, <2>1, <3>1, <3>2 DEF EditsArrive
  <2>3. DeletionsArrive(c)'
    BY <1>1, <2>1 DEF DeletionsArrive, Present
  <2>4. ReviewsArrive(c)'
    BY <1>1, <1>2, <2>1 DEF ReviewsArrive, ReviewIds
  <2> QED
    BY <2>2, <2>3, <2>4
<1>6. PendingInside(c)'
  BY <1>1, <1>2, AbsentIs DEF SessionInv, SessionParts, AttemptSound, PendingInside
<1>7. PushListed(c)' /\ NothingLeft(c)' /\ ClockedInside(c)'
  <2>1. ClockedInside(c)
    BY DEF SessionInv, SessionParts, AttemptSound
  <2>2. ClockedInside(c)'
    BY <1>1, <1>2, <2>1, Typed DEF ClockedInside, Absent, SessionInv, ReviewInv
  <2> QED
    BY <1>1, <2>2 DEF PushListed, NothingLeft
<1> QED
  BY <1>3, <1>4, <1>5, <1>6, <1>7, SessionKeeps DEF OwnPart

LEMMA SanityCheckKeeps ==
  ASSUME SessionInv, NEW c \in Clients, SanityCheck(c)
  PROVE  SessionParts'
<1>1. /\ pc[c] = "sanity" /\ UNCHANGED <<clock, srv, work, sess, col, wcol, st>>
      /\ ~HasPending(wcol[c]) /\ pc'[c] = "finish"
  BY DEF SanityCheck, server, Goto, SessionInv, ReviewInv, TypeInv, TypeOK
<1>2. SessionStep(c)
  BY <1>1, StepsAreAlone DEF SessionStep, InSession, SessionInv, ReviewInv, Proceed
<1>3. WorkMoves(c)
  BY <1>1 DEF WorkMoves
<1>4. Arriving(c)'
  <2>1. Arriving(c)
    BY DEF SessionInv, SessionParts
  <2> QED
    BY <1>1, <2>1 DEF Arriving, EditsArrive, DeletionsArrive, ReviewsArrive, Delivered, Owns,
                      InSession, Present, ReviewIds
<1>5. PendingInside(c)' /\ PushListed(c)' /\ NothingLeft(c)' /\ ClockedInside(c)'
  <2>1. NothingLeft(c)'
    BY <1>1 DEF NothingLeft, HasPending, PendingGraves, PendingObjects, PendingReviews, Present
  <2> QED
    BY <1>1, <2>1 DEF SessionInv, SessionParts, AttemptSound, PendingInside, PushListed,
                      ClockedInside
<1> QED
  BY <1>2, <1>3, <1>4, <1>5, SessionKeeps DEF OwnPart

LEMMA SecsZero ==
  ASSUME NEW own, NEW k \in Collection(own), NEW o \in Objects, ~Present(k, o), NEW v \in Nat
  PROVE  Secs(k.obj[o].ver) <= Secs(v)
  BY SecsMonotone DEF Present

LEMMA SendChangesKeeps ==
  ASSUME SessionInv, NEW c \in Clients, SendChanges(c)
  PROVE  SessionParts'
<1> DEFINE mine == PendingObjects(wcol[c], Decks, Pending)
           sent == MarkObjects(wcol[c], mine, {}, st[c].susn)
           theirs == PendingObjects(work, Decks, sess.cusn)
           push == Rows(sent, mine)
           pull == Rows(work, theirs)
           there == MergeUnchunked(work, push)
           here == MergeUnchunked(sent, pull)
<1>1. TypeInv /\ st[c].susn \in Nat /\ wcol[c] \in Collection("device")
      /\ work \in Collection("server")
  BY Typed DEF SessionInv, ReviewInv
<1>2. mine \in SUBSET Objects /\ theirs \in SUBSET Objects
  BY DEF PendingObjects, Objects
<1>3. sent \in Collection("device")
  BY <1>1, MarkObjectsType
<1>4. there \in Collection("server")
  BY <1>1, <1>2, SentRowsType, MergeUnchunkedType
<1>5. here \in Collection("device")
  <2>1. Rows(work, theirs) \in [theirs -> RowsOf("device")]
    BY <1>1, <1>2, RowsType, ServerIsDevice
  <2> QED
    BY <1>2, <1>3, <2>1, MergeUnchunkedType
<1>6. /\ work' = IF st[c].newer THEN Conf(there, sent.conf) ELSE there
      /\ wcol'[c] = IF sess.newer THEN here ELSE Conf(here, work.conf)
      /\ pc[c] = "changes" /\ pc'[c] = "pull" /\ Owns(c) /\ UNCHANGED <<clock, srv, sess, col, st>>
  BY <1>1 DEF SendChanges, Goto, TypeInv, TypeOK
<1>7. /\ \A o : o \in mine <=> o \in Decks /\ Present(wcol[c], o) /\ wcol[c].obj[o].usn = Pending
      /\ \A o : o \in theirs <=> o \in Decks /\ Present(work, o) /\ work.obj[o].usn >= sess.cusn
  BY Typed, <1>1 DEF PendingObjects, IsPending
<1>8. /\ sent.log = wcol[c].log
      /\ \A o \in Objects : /\ o \in mine => /\ sent.obj[o].ver = wcol[c].obj[o].ver
                                            /\ sent.obj[o].usn = st[c].susn
                            /\ o \notin mine => sent.obj[o] = wcol[c].obj[o]
  <2>1. sent.log = wcol[c].log
    BY <1>1, MarkNoReviews
  <2>2. sent = MarkObjects(wcol[c], mine, {}, st[c].susn)
    OBVIOUS
  <2> HIDE DEF mine, sent
  <2> QED
    BY <1>1, <2>1, <2>2, MarkObjectsIs
<1>9. /\ DOMAIN push = mine /\ \A o \in mine : push[o] = sent.obj[o]
      /\ DOMAIN pull = theirs /\ \A o \in theirs : pull[o] = work.obj[o]
  BY RowsAre
<1> HIDE DEF mine, sent, theirs, push, pull
<1>10. /\ SameStamps(work, there) /\ there.log = work.log /\ there.grave = work.grave
       /\ \A o \in Objects :
            /\ o \in mine /\ Wins(work, push, o) => there.obj[o] = push[o]
            /\ ~(o \in mine /\ Wins(work, push, o)) => there.obj[o] = work.obj[o]
  BY <1>1, <1>9, MergeUnchunkedIs
<1>11. /\ here.log = sent.log
       /\ \A o \in Objects :
            /\ o \in theirs /\ Wins(sent, pull, o) => here.obj[o] = pull[o]
            /\ ~(o \in theirs /\ Wins(sent, pull, o)) => here.obj[o] = sent.obj[o]
  BY <1>3, <1>9, MergeUnchunkedIs
<1> HIDE DEF there, here
<1>12. /\ SameStamps(work, work') /\ work'.log = work.log /\ work'.grave = work.grave
       /\ work'.obj = there.obj
  BY <1>4, <1>6, <1>10, ConfIs DEF SameStamps
<1>13. wcol'[c].log = wcol[c].log /\ wcol'[c].obj = here.obj
  BY <1>5, <1>6, <1>8, <1>11, ConfIs
<1>14. SessionStep(c)
  BY <1>1, <1>6, <1>12, StepsAreAlone DEF SessionStep, InSession, SameStamps, Proceed
<1>15. WorkMoves(c)
  <2> SUFFICES ASSUME NEW o \in Objects PROVE work'.obj[o] = work.obj[o] \/ Takes(c, o)
    BY <1>12 DEF WorkMoves
  <2>1. CASE o \in mine /\ Wins(work, push, o)
    <3>1. work'.obj[o] = sent.obj[o] /\ push[o] = sent.obj[o]
      BY <1>9, <1>10, <1>12, <2>1
    <3>2. Present(wcol[c], o) /\ wcol[c].obj[o].usn = Pending /\ sent.obj[o].ver = wcol[c].obj[o].ver
          /\ sent.obj[o].usn = st[c].susn
      BY <1>7, <1>8, <2>1
    <3> QED
      BY <1>6, <2>1, <3>1, <3>2 DEF Takes, Wins
  <2> QED
    BY <1>10, <1>12, <2>1
<1>16. EditsArrive(c) /\ DeletionsArrive(c) /\ ReviewsArrive(c) /\ PendingInside(c)
  BY <1>6 DEF SessionInv, SessionParts, Arriving, InSession, AttemptSound
<1>17. EditsArrive(c)'
  <2> SUFFICES ASSUME NEW o \in Objects, col[c].obj[o].usn = Pending,
                      wcol'[c].obj[o] # col[c].obj[o], work.grave[o] = NoGrave
               PROVE  Secs(work'.obj[o].ver) >= Secs(col[c].obj[o].ver)
    BY <1>6, <1>12 DEF EditsArrive, Delivered
  <2>1. /\ work.obj[o].ver \in Nat /\ col[c].obj[o].ver \in Nat /\ Secs(work.obj[o].ver) \in Nat
        /\ Secs(col[c].obj[o].ver) \in Nat
    BY <1>1, Typed, FieldTypes, SecsType
  <2>2. ~Present(work, o) => Secs(work.obj[o].ver) <= Secs(col[c].obj[o].ver)
    BY <1>1, <2>1, SecsZero
  <2>3. CASE wcol[c].obj[o] = col[c].obj[o]
    <3>1. CASE o \in mine
      BY <1>8, <1>9, <1>10, <1>12, <2>1, <2>3, <3>1 DEF Wins
    <3>2. CASE o \notin mine /\ ~Present(wcol[c], o)
      <4>1. ~Present(col[c], o)
        BY <2>3, <3>2 DEF Present
      <4> QED
        BY <1>10, <1>12, <2>1, <3>2, <4>1, Typed, SecsZero, <1>1
    <3>3. CASE o \notin mine /\ Present(wcol[c], o)
      <4>1. o \notin theirs
        <5>1. wcol[c].obj[o].usn = Pending
          BY <2>3
        <5> QED
          BY <1>7, <3>3, <5>1
      <4> QED
        BY <1>8, <1>11, <1>13, <2>3, <3>3, <4>1
    <3> QED
      BY <3>1, <3>2, <3>3
  <2>4. CASE Secs(work.obj[o].ver) >= Secs(col[c].obj[o].ver) /\ wcol[c].obj[o] # col[c].obj[o]
    <3>1. o \notin mine
      <4>1. wcol[c].obj[o].usn # Pending
        BY <1>16, <2>4 DEF PendingInside
      <4> QED
        BY <1>7, <4>1
    <3> QED
      BY <1>10, <1>12, <2>4, <3>1
  <2> QED
    BY <1>16, <2>3, <2>4 DEF EditsArrive, Delivered
<1>18. DeletionsArrive(c)'
  BY <1>6, <1>14, <1>15, <1>16, DeletionsStay DEF DeletionsArrive
<1>19. ReviewsArrive(c)'
  BY <1>6, <1>12, <1>13, <1>16 DEF ReviewsArrive, ReviewIds
<1>20. PendingInside(c)'
  <2> SUFFICES ASSUME NEW o \in Objects, wcol'[c].obj[o].usn = Pending
               PROVE  wcol'[c].obj[o] = col[c].obj[o]
    BY <1>6 DEF PendingInside
  <2>1. ~(o \in theirs /\ Wins(sent, pull, o))
    BY <1>1, <1>9, <1>11, <1>13, ServerTypes
  <2> QED
    BY <1>1, <1>8, <1>11, <1>13, <1>16, <2>1 DEF PendingInside
<1>21. PushListed(c)' /\ NothingLeft(c)'
  BY <1>6 DEF PushListed, NothingLeft
<1>22. ClockedInside(c)'
  <2>1. ClockedInside(c) /\ Clocked
    BY DEF SessionInv, SessionParts, AttemptSound
  <2> SUFFICES ASSUME NEW o \in Objects PROVE here.obj[o].ver <= clock
    BY <1>6, <1>13 DEF ClockedInside
  <2>2. sent.obj[o].ver <= clock /\ work.obj[o].ver <= clock
    BY <1>8, <2>1 DEF Clocked, ClockedInside
  <2> QED
    BY <1>9, <1>11, <2>2
<1> QED
  BY <1>14, <1>15, <1>17, <1>18, <1>19, <1>20, <1>21, <1>22, SessionKeeps DEF OwnPart, Arriving

LEMMA PullChunkKeeps ==
  ASSUME SessionInv, NEW c \in Clients, PullChunk(c)
  PROVE  SessionParts'
<1> DEFINE ids == IF sess.chunking THEN sess.ids ELSE ChunkableIds(work, sess.cusn)
<1>1. TypeInv /\ wcol[c] \in Collection("device") /\ work \in Collection("server")
      /\ work \in Collection("device") /\ ids \in Ids /\ wcol'[c] \in Collection("device")
  BY Typed, ServerIsDevice, IdsType, PullChunkType
     DEF SessionInv, ReviewInv, Session, TypeInv, TypeOK
<1>2. PICK t \in Chunks(ids) :
        /\ sess' = [sess EXCEPT !.chunking = TRUE, !.ids = Rest(ids, t)]
        /\ wcol' = [wcol EXCEPT ![c] = MergeChunk(@, Rows(work, t.objs), t.log, Pending)]
        /\ IF IsLast(t)
           THEN /\ Goto(c, "push")
                /\ st' = [st EXCEPT ![c].ids = ChunkableIds(wcol'[c], Pending)]
           ELSE UNCHANGED <<pc, st>>
  BY DEF PullChunk
<1>3. /\ pc[c] = "pull" /\ Owns(c) /\ UNCHANGED <<clock, srv, work, col>>
      /\ t.objs \in SUBSET Objects /\ t.log \subseteq ids.log
  BY <1>1, ChunkType DEF PullChunk
<1>4. /\ sess'.owner = sess.owner /\ sess'.usn = sess.usn /\ sess'.cusn = sess.cusn
      /\ sess'.ids.log \subseteq ids.log
  BY <1>1, <1>2 DEF Rest, TypeInv, TypeOK, Session
<1>5. \/ /\ pc'[c] = "push" /\ st'[c].ids = ChunkableIds(wcol'[c], Pending)
         /\ st'[c].susn = st[c].susn /\ st'[c].cusn = st[c].cusn
         /\ st'[c].graves = st[c].graves /\ st'[c].remote = st[c].remote
      \/ pc'[c] = "pull" /\ st'[c] = st[c]
  BY <1>1, <1>2, <1>3 DEF Goto, TypeInv, TypeOK, State
<1> DEFINE rows == Rows(work, t.objs)
<1>6. DOMAIN rows = t.objs /\ \A o \in t.objs : rows[o] = work.obj[o]
  BY RowsAre
<1>7. wcol'[c] = MergeChunk(wcol[c], rows, t.log, Pending)
  BY <1>1, <1>2 DEF TypeInv, TypeOK
<1> HIDE DEF rows, ids
<1>8. /\ wcol'[c].log = wcol[c].log \cup {r \in t.log : r.id \notin ReviewIds(wcol[c])}
      /\ \A o \in Objects :
           /\ o \in t.objs /\ Replaces(wcol[c], rows, Pending, o) => wcol'[c].obj[o] = rows[o]
           /\ ~(o \in t.objs /\ Replaces(wcol[c], rows, Pending, o))
                => wcol'[c].obj[o] = wcol[c].obj[o]
  BY <1>1, <1>6, <1>7, MergeChunkIs
<1>9. SessionStep(c)
  BY <1>1, <1>3, <1>4, <1>5, StepsAreAlone DEF SessionStep, InSession, Proceed
<1>10. WorkMoves(c)
  BY <1>3 DEF WorkMoves
<1>11. /\ EditsArrive(c) /\ DeletionsArrive(c) /\ ReviewsArrive(c) /\ PendingInside(c)
  BY <1>3 DEF SessionInv, SessionParts, Arriving, InSession, AttemptSound
<1>12. EditsArrive(c)'
  <2> SUFFICES ASSUME NEW o \in Objects, col[c].obj[o].usn = Pending,
                      wcol[c].obj[o] = col[c].obj[o], wcol'[c].obj[o] # col[c].obj[o]
               PROVE  Secs(work.obj[o].ver) >= Secs(col[c].obj[o].ver)
    BY <1>3, <1>11 DEF EditsArrive, Delivered
  <2>1. /\ work.obj[o].ver \in Nat /\ col[c].obj[o].ver \in Nat /\ Secs(work.obj[o].ver) \in Nat
        /\ Secs(col[c].obj[o].ver) \in Nat
    BY <1>1, Typed, FieldTypes, SecsType
  <2>2. rows[o] = work.obj[o] /\ Replaces(wcol[c], rows, Pending, o)
    BY <1>6, <1>8
  <2>3. CASE ~Present(wcol[c], o)
    <3>1. ~Present(col[c], o)
      BY <2>3 DEF Present
    <3> QED
      BY <1>1, <2>1, <3>1, Typed, SecsZero
  <2>4. CASE Secs(wcol[c].obj[o].ver) < Secs(rows[o].ver)
    BY <2>1, <2>2, <2>4
  <2> QED
    BY <2>2, <2>3, <2>4 DEF Replaces, IsPending
<1>13. DeletionsArrive(c)'
  <2>1. st[c].graves = {} /\ st'[c].graves = {} /\ st'[c].remote = st[c].remote
    BY <1>3, <1>5, <1>11 DEF DeletionsArrive
  <2> QED
    BY <1>3, <1>9, <1>10, <2>1, DeletionsStay
<1>14. ReviewsArrive(c)'
  <2>1. \A r \in ids.log : r.id \in ReviewIds(work)
    <3>1. CASE sess.chunking
      BY <1>11, <3>1 DEF ids, ReviewsArrive
    <3>2. CASE ~sess.chunking
      BY <3>2 DEF ids, ChunkableIds, PendingReviews, ReviewIds
    <3> QED
      BY <3>1, <3>2
  <2>2. ReviewIds(work)' = ReviewIds(work)
    BY <1>3 DEF ReviewIds
  <2>3. \A r \in wcol'[c].log : r \in wcol[c].log \/ r \in ids.log
    BY <1>3, <1>8
  <2> QED
    BY <1>3, <1>4, <1>11, <2>1, <2>2, <2>3 DEF ReviewsArrive
<1>15. PendingInside(c)'
  <2> SUFFICES ASSUME NEW o \in Objects, wcol'[c].obj[o].usn = Pending
               PROVE  wcol'[c].obj[o] = col[c].obj[o]
    BY <1>3 DEF PendingInside
  <2>1. ~(o \in t.objs /\ Replaces(wcol[c], rows, Pending, o))
    BY <1>1, <1>6, <1>8, ServerTypes
  <2> QED
    BY <1>8, <1>11, <2>1 DEF PendingInside
<1>16. PushListed(c)' /\ NothingLeft(c)'
  <2>1. PushListed(c)'
    <3>1. \A o \in ChunkableIds(wcol'[c], Pending).objs :
            Present(wcol'[c], o) /\ wcol'[c].obj[o].usn = Pending
      BY DEF ChunkableIds, PendingObjects, IsPending
    <3> QED
      BY <1>5, <3>1 DEF PushListed, Present
  <2> QED
    BY <1>5, <2>1 DEF NothingLeft
<1>17. ClockedInside(c)'
  <2>1. ClockedInside(c) /\ Clocked
    BY DEF SessionInv, SessionParts, AttemptSound
  <2> QED
    BY <1>3, <1>6, <1>8, <2>1 DEF Clocked, ClockedInside
<1> QED
  BY <1>17, <1>9, <1>10, <1>12, <1>13, <1>14, <1>15, <1>16, SessionKeeps DEF OwnPart, Arriving

LEMMA PushChunkKeeps ==
  ASSUME SessionInv, NEW c \in Clients, PushChunk(c)
  PROVE  SessionParts'
<1>1. /\ TypeInv /\ wcol[c] \in Collection("device") /\ work \in Collection("server")
      /\ st[c].ids \in Ids /\ st[c].susn \in Nat /\ sess.cusn \in Nat
  BY Typed DEF SessionInv, ReviewInv, State
<1>2. PICK t \in Chunks(st[c].ids) :
        LET sent == MarkObjects(wcol[c], t.objs, t.log, st[c].susn)
            reviews == {[r EXCEPT !.usn = st[c].susn] : r \in t.log}
        IN /\ wcol' = [wcol EXCEPT ![c] = sent]
           /\ work' = MergeChunk(work, Rows(sent, t.objs), reviews, sess.cusn)
           /\ st' = [st EXCEPT ![c].ids = Rest(@, t)]
           /\ pc' = IF IsLast(t) THEN [pc EXCEPT ![c] = "sanity"] ELSE pc
  BY DEF PushChunk
<1> DEFINE sent == MarkObjects(wcol[c], t.objs, t.log, st[c].susn)
           reviews == {[r EXCEPT !.usn = st[c].susn] : r \in t.log}
           rows == Rows(sent, t.objs)
<1>3. /\ pc[c] = "push" /\ Owns(c) /\ UNCHANGED <<clock, srv, sess, col>>
      /\ t.objs \in SUBSET Objects /\ t.log \in SUBSET ReviewsOf("device")
      /\ t.objs \subseteq st[c].ids.objs
  BY <1>1, ChunkType DEF PushChunk, Chunks
<1>4. /\ wcol'[c] = sent /\ work' = MergeChunk(work, rows, reviews, sess.cusn)
      /\ st'[c].ids.objs = st[c].ids.objs \ t.objs
      /\ st'[c].susn = st[c].susn /\ st'[c].cusn = st[c].cusn
      /\ st'[c].graves = st[c].graves /\ st'[c].remote = st[c].remote
      /\ pc'[c] \in {"push", "sanity"}
  BY <1>1, <1>2, <1>3 DEF TypeInv, TypeOK, State, Rest
<1>5. \A r \in t.log : \E s \in reviews : s.id = r.id
  <2>1. \A r \in t.log : [r EXCEPT !.usn = st[c].susn].id = r.id
    BY <1>3 DEF ReviewsOf
  <2> QED
    BY <2>1
<1>6. /\ \A o \in Objects : /\ o \in t.objs => /\ sent.obj[o].ver = wcol[c].obj[o].ver
                                              /\ sent.obj[o].usn = st[c].susn
                            /\ o \notin t.objs => sent.obj[o] = wcol[c].obj[o]
  BY <1>1, MarkObjectsIs
<1>7. \A r \in sent.log : r \in wcol[c].log \/ \E s \in t.log : r.id = s.id
  BY <1>1, <1>3, MarkObjectsLog
<1>8. DOMAIN rows = t.objs /\ \A o \in t.objs : rows[o] = sent.obj[o]
  BY RowsAre
<1> HIDE DEF sent, rows, reviews
<1>9. /\ SameStamps(work, work') /\ work'.grave = work.grave
      /\ work'.log = work.log \cup {r \in reviews : r.id \notin ReviewIds(work)}
      /\ \A o \in Objects :
           /\ o \in t.objs /\ Replaces(work, rows, sess.cusn, o) => work'.obj[o] = rows[o]
           /\ ~(o \in t.objs /\ Replaces(work, rows, sess.cusn, o)) => work'.obj[o] = work.obj[o]
  BY <1>1, <1>4, <1>8, MergeChunkIs
<1>10. SessionStep(c)
  BY <1>1, <1>3, <1>4, <1>9, StepsAreAlone DEF SessionStep, InSession, SameStamps, Proceed
<1>11. /\ EditsArrive(c) /\ DeletionsArrive(c) /\ ReviewsArrive(c) /\ PendingInside(c)
       /\ PushListed(c)
  BY <1>3 DEF SessionInv, SessionParts, Arriving, InSession, AttemptSound
<1>12. \A o \in t.objs : /\ Present(wcol[c], o) /\ wcol[c].obj[o].usn = Pending
                         /\ wcol[c].obj[o] = col[c].obj[o]
  BY <1>3, <1>11 DEF PushListed, PendingInside
<1>13. ASSUME NEW o \in Objects
       PROVE  work'.obj[o] = work.obj[o] \/ Takes(c, o)
  <2>1. CASE o \in t.objs /\ Replaces(work, rows, sess.cusn, o)
    <3>1. work'.obj[o] = rows[o] /\ rows[o].ver = wcol[c].obj[o].ver /\ rows[o].usn = st[c].susn
      BY <1>6, <1>8, <1>9, <2>1
    <3>2. /\ work.obj[o].usn \in Nat /\ Secs(wcol[c].obj[o].ver) \in Nat
          /\ Secs(work.obj[o].ver) \in Nat
      BY <1>1, ServerTypes, FieldTypes, SecsType
    <3>3. \/ ~Present(work, o) \/ work.obj[o].usn < sess.cusn
          \/ Secs(work.obj[o].ver) <= Secs(wcol[c].obj[o].ver)
      BY <1>1, <2>1, <3>1, <3>2 DEF Replaces, IsPending
    <3> QED
      BY <1>3, <1>12, <2>1, <3>1, <3>3 DEF Takes
  <2> QED
    BY <1>9, <2>1
<1>14. WorkMoves(c)
  BY <1>9, <1>13 DEF WorkMoves
<1>15. EditsArrive(c)'
  <2> SUFFICES ASSUME NEW o \in Objects, col[c].obj[o].usn = Pending,
                      wcol'[c].obj[o] # col[c].obj[o], work.grave[o] = NoGrave
               PROVE  Secs(work'.obj[o].ver) >= Secs(col[c].obj[o].ver)
    BY <1>3, <1>9 DEF EditsArrive, Delivered
  <2>1. /\ Secs(work.obj[o].ver) \in Nat /\ Secs(col[c].obj[o].ver) \in Nat
    BY <1>1, Typed, FieldTypes, SecsType
  <2>2. CASE o \in t.objs
    <3>1. rows[o].ver = col[c].obj[o].ver
      BY <1>6, <1>8, <1>12, <2>2
    <3>2. CASE Replaces(work, rows, sess.cusn, o)
      BY <1>9, <2>1, <2>2, <3>1, <3>2
    <3>3. CASE ~Replaces(work, rows, sess.cusn, o)
      BY <1>9, <2>1, <2>2, <3>1, <3>3 DEF Replaces
    <3> QED
      BY <3>2, <3>3
  <2>3. CASE o \notin t.objs
    BY <1>4, <1>6, <1>9, <1>11, <2>3 DEF EditsArrive, Delivered
  <2> QED
    BY <2>2, <2>3
<1>16. DeletionsArrive(c)'
  <2>1. st[c].graves = {} /\ st'[c].graves = {} /\ st'[c].remote = st[c].remote
    BY <1>3, <1>4, <1>11 DEF DeletionsArrive
  <2> QED
    BY <1>3, <1>10, <1>14, <2>1, DeletionsStay
<1>17. ReviewsArrive(c)'
  <2>1. ReviewIds(work) \subseteq ReviewIds(work') /\ \A r \in t.log : r.id \in ReviewIds(work')
    BY <1>5, <1>9 DEF ReviewIds
  <2>2. ReviewIds(work)' = ReviewIds(work')
    BY DEF ReviewIds
  <2>3. \A r \in wcol'[c].log : r \in wcol[c].log \/ r.id \in ReviewIds(work')
    BY <1>4, <1>7, <2>1
  <2> QED
    BY <1>3, <1>11, <2>1, <2>2, <2>3 DEF ReviewsArrive
<1>18. PendingInside(c)'
  <2> SUFFICES ASSUME NEW o \in Objects, sent.obj[o].usn = Pending
               PROVE  sent.obj[o] = col[c].obj[o]
    BY <1>3, <1>4 DEF PendingInside
  <2> QED
    BY <1>1, <1>6, <1>11 DEF PendingInside
<1>19. PushListed(c)' /\ NothingLeft(c)'
  <2>1. PushListed(c)'
    <3>1. \A o \in st[c].ids.objs \ t.objs : Present(wcol'[c], o) /\ wcol'[c].obj[o].usn = Pending
      <4>1. \A o \in st[c].ids.objs : o \in Objects
        BY <1>1 DEF Ids, Objects
      <4> QED
        BY <1>3, <1>4, <1>6, <1>11, <4>1 DEF PushListed, Present
    <3> QED
      BY <1>4, <3>1 DEF PushListed, Present
  <2> QED
    BY <1>4, <2>1 DEF NothingLeft
<1>20. ClockedInside(c)'
  BY <1>3, <1>4, <1>6 DEF SessionInv, SessionParts, AttemptSound, ClockedInside
<1> QED
  BY <1>20, <1>10, <1>14, <1>15, <1>16, <1>17, <1>18, <1>19, SessionKeeps DEF OwnPart, Arriving
-----------------------------------------------------------------------------
(* Steps outside of a session, and the ends of sessions without a commit.  *)

Settles ==
  /\ UNCHANGED <<clock, srv, col>>
  /\ NoActiveSession \/ UNCHANGED <<work, sess>>
  /\ \A d \in Clients :
       \/ wcol'[d] = wcol[d] /\ pc'[d] = pc[d] /\ st'[d] = st[d]
       \/ /\ wcol'[d] = col[d] /\ ~InSession(d)' /\ pc'[d] # "uploading"
          /\ pc'[d] = "met" => /\ st'[d].cusn = col[d].usn /\ st'[d].susn = srv.usn
                               /\ col[d].scm = srv.scm

LEMMA SettlesKeeps ==
  ASSUME SessionInv, Settles
  PROVE  SessionParts'
<1> USE DEF Settles
<1>1. TypeInv /\ SessionParts
  BY DEF SessionInv, ReviewInv
<1>2. (work' = srv /\ sess' = NoSession /\ \A d \in Clients : ~Owns(d)')
      \/ UNCHANGED <<work, sess>>
  BY Typed, <1>1 DEF NoActiveSession, NoSession, Owns
<1>3. Clocked' /\ Basis'
  <2>1. Clocked'
    BY <1>1, <1>2 DEF SessionParts, Clocked
  <2>2. Basis'
    <3>1. ASSUME NEW d \in Clients, Owns(d)', InSession(d)'
          PROVE  sess'.cusn = st'[d].cusn
      <4>1. sess' = sess /\ st'[d] = st[d] /\ Owns(d) /\ InSession(d)
        BY <1>2, <3>1 DEF Owns, InSession
      <4> QED
        BY <1>1, <4>1 DEF SessionParts, Basis
    <3>2. work'.usn = srv'.usn
      BY <1>1, <1>2 DEF SessionParts, Basis
    <3>3. sess'.owner # Nobody => sess'.usn = srv'.usn
      BY <1>1, <1>2 DEF SessionParts, Basis, NoSession
    <3> QED
      BY <3>1, <3>2, <3>3 DEF Basis
  <2> QED
    BY <2>1, <2>2
<1> USE <1>1, <1>2
<1>4. ASSUME NEW d \in Clients
      PROVE  /\ AttemptSound(d)' /\ Behind(d)' /\ ReviewsKnown(d)' /\ ShowsPending(col[d])'
             /\ NothingUndone(d)' /\ Arriving(d)'
  <2>1. AttemptSound(d)'
    <3>1. CASE wcol'[d] = wcol[d] /\ pc'[d] = pc[d] /\ st'[d] = st[d]
      BY <3>1 DEF SessionParts, AttemptSound, Attempting, InSession, PendingInside, ClockedInside,
                  PushListed, NothingLeft, Present, HasPending, PendingGraves, PendingObjects, PendingReviews
    <3>2. CASE /\ wcol'[d] = col[d] /\ ~InSession(d)'
               /\ pc'[d] = "met" => /\ st'[d].cusn = col[d].usn /\ st'[d].susn = srv.usn
                                    /\ col[d].scm = srv.scm
      <4>1. PendingInside(d)' /\ ClockedInside(d)'
        BY <3>2 DEF PendingInside, ClockedInside, SessionParts, Clocked
      <4>2. PushListed(d)' /\ NothingLeft(d)'
        BY <3>2 DEF PushListed, NothingLeft, InSession
      <4>3. col[d].scm = srv.scm => col[d].usn <= srv.usn
        BY DEF SessionParts, Behind
      <4>4. srv.usn <= srv.usn
        BY Typed, FieldTypes
      <4> QED
        BY <3>2, <4>1, <4>2, <4>3, <4>4 DEF AttemptSound, Attempting
    <3> QED
      BY <3>1, <3>2
  <2>2. Behind(d)' /\ ReviewsKnown(d)' /\ ShowsPending(col[d])'
    BY DEF SessionParts, Behind, ReviewsKnown, ShowsPending, HasPending,
           PendingGraves, PendingObjects, PendingReviews, Present, ReviewIds
  <2>3. NothingUndone(d)'
    BY DEF SessionParts, NothingUndone, NotUndone, Present, Owns
  <2>4. Arriving(d)'
    <3> SUFFICES ASSUME Owns(d)', InSession(d)'
                 PROVE  EditsArrive(d)' /\ DeletionsArrive(d)' /\ ReviewsArrive(d)'
      BY DEF Arriving
    <3>1. UNCHANGED <<work, sess, srv, col>> /\ wcol'[d] = wcol[d] /\ pc'[d] = pc[d] /\ st'[d] = st[d]
      OBVIOUS
    <3>2. EditsArrive(d) /\ DeletionsArrive(d) /\ ReviewsArrive(d)
      BY <3>1 DEF SessionParts, Arriving, Owns, InSession
    <3> QED
      BY <3>1, <3>2 DEF EditsArrive, DeletionsArrive, ReviewsArrive, Delivered, Present, ReviewIds
  <2> QED
    BY <2>1, <2>2, <2>3, <2>4
<1>5. ASSUME NEW d \in Clients
      PROVE  Ordered(d)'
  <2> SUFFICES ASSUME col[d].scm = srv.scm
               PROVE  Sooner(srv, d)' /\ Sooner(work, d)' /\ SoonerSent(d)'
    BY DEF Ordered
  <2>1. Sooner(srv, d) /\ Sooner(work, d) /\ SoonerSent(d) /\ col[d].usn <= srv.usn
    BY DEF SessionParts, Ordered, Behind
  <2>2. Sooner(srv, d)' /\ Sooner(work, d)'
    BY <2>1 DEF Sooner, Present
  <2>3. SoonerSent(d)'
    <3> SUFFICES ASSUME NEW e \in Clients \ {d}, Attempting(e)', st'[e].susn < col[d].usn
                 PROVE  \A o \in Objects : col[e].obj[o].usn = Pending /\ col[d].obj[o].usn = Pending
                                             => col[e].obj[o].ver <= col[d].obj[o].ver
      BY DEF SoonerSent
    <3>1. CASE pc'[e] = pc[e] /\ st'[e] = st[e]
      BY <2>1, <3>1 DEF SoonerSent, Attempting, InSession
    <3>2. CASE ~InSession(e)' /\ (pc'[e] = "met" => st'[e].susn = srv.usn)
      <4>1. col[d].usn \in Nat /\ srv.usn \in Nat
        BY Typed, FieldTypes
      <4> QED
        BY <2>1, <3>2, <4>1 DEF Attempting
    <3> QED
      BY <3>1, <3>2
  <2> QED
    BY <2>2, <2>3
<1> QED
  BY <1>3, <1>4, <1>5 DEF SessionParts

LEMMA MetaSettles ==
  ASSUME SessionInv, NEW c \in Clients, Meta(c)
  PROVE  Settles
<1>1. TypeInv /\ Alone(c) /\ wcol[c] = col[c] /\ pc[c] = "idle"
  BY StepsAreAlone DEF SessionInv, ReviewInv, SessionParts, AttemptSound, Meta, InSession
<1>2. UNCHANGED <<clock, srv, col, wcol>> /\ NoActiveSession
  BY DEF Meta, client
<1>3. \/ UNCHANGED <<pc, st>>
      \/ pc'[c] = "full"
      \/ /\ pc'[c] = "met" /\ st'[c].cusn = col[c].usn /\ st'[c].susn = srv.usn
         /\ col[c].scm = srv.scm
  <2>1. NoState.susn = 0
    BY DEF NoState
  <2> QED
    BY <1>1 DEF Meta, Goto, client, TypeInv, TypeOK, NoState
<1>4. ASSUME NEW d \in Clients
      PROVE  \/ wcol'[d] = wcol[d] /\ pc'[d] = pc[d] /\ st'[d] = st[d]
             \/ /\ wcol'[d] = col[d] /\ ~InSession(d)' /\ pc'[d] # "uploading"
                /\ pc'[d] = "met" => /\ st'[d].cusn = col[d].usn /\ st'[d].susn = srv.usn
                                     /\ col[d].scm = srv.scm
  <2>1. CASE d = c
    BY <1>1, <1>2, <1>3, <2>1 DEF InSession
  <2>2. CASE d # c
    BY <1>1, <2>2 DEF Alone
  <2> QED
    BY <2>1, <2>2
<1> QED
  BY <1>2, <1>4 DEF Settles

LEMMA EndsSettle ==
  ASSUME SessionInv, NEW c \in Clients, GiveUp(c) \/ CancelFull(c), Alone(c)
  PROVE  Settles
<1>1. TypeInv
  BY DEF SessionInv, ReviewInv
<1>2. UNCHANGED <<clock, srv, col>> /\ (NoActiveSession \/ UNCHANGED <<work, sess>>)
  BY DEF GiveUp, RollBack, CancelFull, server
<1>3. wcol'[c] = col[c] /\ pc'[c] = "idle"
  <2>1. CASE GiveUp(c)
    BY <1>1, <2>1 DEF GiveUp, RollBack, TypeInv, TypeOK
  <2>2. CASE CancelFull(c)
    <3>1. wcol[c] = col[c]
      BY <2>2 DEF CancelFull, SessionInv, SessionParts, AttemptSound, InSession
    <3> QED
      BY <1>1, <2>2, <3>1 DEF CancelFull, TypeInv, TypeOK
  <2> QED
    BY <2>1, <2>2
<1> QED
  BY <1>2, <1>3 DEF Settles, Alone, InSession

LEMMA IdleSettles ==
  ASSUME ServerCrash \/ UNCHANGED vars
  PROVE  Settles
  BY DEF Settles, ServerCrash, vars, client

LEMMA StartKeeps ==
  ASSUME SessionInv, NEW c \in Clients, Start(c)
  PROVE  SessionParts'
<1>1. /\ TypeInv /\ SessionParts /\ Alone(c) /\ pc[c] = "met" /\ wcol[c] = col[c]
      /\ Attempting(c) /\ AttemptSound(c)
  BY StepsAreAlone DEF SessionInv, ReviewInv, Proceed, SessionParts, Start, AttemptSound, InSession, Attempting
<1>2. /\ work' = srv /\ UNCHANGED <<clock, srv, col>> /\ pc'[c] = "graves"
      /\ sess'.owner = c /\ sess'.usn = srv.usn /\ sess'.cusn = st[c].cusn /\ sess'.chunking = FALSE
      /\ wcol'[c] = MarkGraves(col[c], st[c].susn)
      /\ st'[c].graves = PendingGraves(col[c], Pending)
      /\ st'[c].remote = PendingGraves(srv, st[c].cusn)
      /\ st'[c].cusn = st[c].cusn /\ st'[c].susn = st[c].susn
  <2>1. st[c] \in State /\ Start(c) /\ wcol[c] = col[c]
    BY <1>1, Typed
  <2> QED
    BY <1>1, <2>1 DEF Start, Goto, TypeInv, TypeOK, State, NoSession
<1>3. wcol'[c].obj = col[c].obj /\ wcol'[c].log = col[c].log
  BY <1>1, <1>2, Typed, MarkGravesIs
<1>4. \A d \in Clients : Owns(d)' => d = c
  BY <1>2 DEF Owns
<1>5. Clocked' /\ Basis'
  BY <1>1, <1>2, <1>4 DEF SessionParts, Clocked, Basis
<1>6. ASSUME NEW d \in Clients
      PROVE  AttemptSound(d)'
  <2>1. CASE d = c
    BY <1>1, <1>2, <1>3, <2>1 DEF AttemptSound, Attempting, InSession, PendingInside, ClockedInside,
                                  PushListed, NothingLeft
  <2>2. CASE d # c
    BY <1>1, <1>2, <2>2 DEF Alone, SessionParts, AttemptSound, Attempting, InSession, PendingInside,
                            ClockedInside, PushListed, NothingLeft, Present, HasPending, PendingGraves,
                            PendingObjects, PendingReviews
  <2> QED
    BY <2>1, <2>2
<1>7. ASSUME NEW d \in Clients
      PROVE  /\ Behind(d)' /\ ReviewsKnown(d)' /\ ShowsPending(col[d])' /\ NothingUndone(d)'
  <2>1. Behind(d)' /\ ReviewsKnown(d)' /\ ShowsPending(col[d])'
    BY <1>1, <1>2 DEF SessionParts, Behind, ReviewsKnown, ShowsPending, HasPending,
           PendingGraves, PendingObjects, PendingReviews, Present, ReviewIds
  <2>2. NothingUndone(d)'
    <3>1. \A o \in Objects : Secs(srv.obj[o].ver) \in Nat
      BY <1>1, Typed, FieldTypes, SecsType
    <3> QED
      BY <1>2, <3>1 DEF NothingUndone, NotUndone, Present
  <2> QED
    BY <2>1, <2>2
<1>8. ASSUME NEW d \in Clients
      PROVE  Ordered(d)'
  <2>1. Ordered(d)
    BY <1>1 DEF SessionParts
  <2>2. \A e \in Clients : (Attempting(e)' => Attempting(e)) /\ st'[e].susn = st[e].susn
    BY <1>1, <1>2 DEF Alone, Attempting, InSession
  <2> QED
    BY <1>2, <2>1, <2>2 DEF Ordered, Sooner, SoonerSent, Present
<1>9. ASSUME NEW d \in Clients
      PROVE  Arriving(d)'
  <2> SUFFICES ASSUME d = c
               PROVE  EditsArrive(c)' /\ DeletionsArrive(c)' /\ ReviewsArrive(c)'
    BY <1>4 DEF Arriving
  <2>1. EditsArrive(c)'
    BY <1>2, <1>3 DEF EditsArrive
  <2>2. DeletionsArrive(c)'
    <3>1. \A o \in PendingGraves(srv, st[c].cusn) : srv.grave[o] # NoGrave
      <4>1. st[c].cusn \in Nat
        BY <1>1, Typed
      <4> QED
        BY <4>1 DEF PendingGraves, IsPending
    <3>2. \A o \in Objects : col[c].grave[o] = Pending => o \in PendingGraves(col[c], Pending)
      BY DEF PendingGraves, IsPending
    <3> QED
      BY <1>2, <3>1, <3>2 DEF DeletionsArrive
  <2>3. ReviewsArrive(c)'
    <3>1. ReviewsKnown(c)
      BY <1>1 DEF SessionParts
    <3> QED
      BY <1>2, <1>3, <3>1 DEF ReviewsArrive, ReviewsKnown, ReviewIds
  <2> QED
    BY <2>1, <2>2, <2>3
<1> QED
  BY <1>5, <1>6, <1>7, <1>8, <1>9 DEF SessionParts
-----------------------------------------------------------------------------
(* Local operations.                                                       *)

Changes(c) ==
  LET k == col[c]
      l == col'[c]
  IN /\ ~InSession(c) /\ Alone(c) /\ UNCHANGED <<srv, work, sess, st>>
     /\ pc'[c] \in {"idle", "uploading"}
     /\ clock' = Now /\ wcol'[c] = l /\ l.ls \in {k.ls, Now} /\ ShowsPending(l)
     /\ \A o \in Objects : l.obj[o].ver \in {k.obj[o].ver, 0, Now}
     /\ \/ l.scm = Now
        \/ /\ l.scm = k.scm /\ l.usn = k.usn
           /\ \A o \in Objects : \/ l.obj[o] = k.obj[o]
                                 \/ l.obj[o].ver = 0 /\ l.obj[o].usn = 0
                                 \/ l.obj[o].ver = Now
           /\ \A r \in l.log : r \in k.log \/ r.usn = Pending

LEMMA CommitChanges ==
  ASSUME SessionInv, NEW c \in Clients, NEW k \in Collection("device"), Commit(c, k),
         pc[c] = "idle", Alone(c), k.usn = col[c].usn, k.ls = col[c].ls,
         k.scm \in {col[c].scm, Now},
         \A o \in Objects : \/ k.obj[o] = col[c].obj[o]
                            \/ k.obj[o].ver = 0 /\ k.obj[o].usn = 0
                            \/ k.obj[o].ver = Now,
         \A r \in k.log : r \in col[c].log \/ r.usn = Pending
  PROVE  Changes(c)
<1> DEFINE l == [k EXCEPT !.mod = Now]
<1>1. /\ l.usn = k.usn /\ l.ls = k.ls /\ l.mod = Now /\ l.scm = k.scm /\ l.obj = k.obj
      /\ l.log = k.log
  BY DEF Collection
<1>2. col'[c] = l /\ wcol'[c] = l /\ clock' = Now /\ UNCHANGED <<srv, work, sess, st, pc>>
  BY DEF Commit, server, SessionInv, ReviewInv, TypeInv, TypeOK
<1>3. col[c].ls <= clock /\ col[c].ls \in Nat /\ clock \in Nat
  BY Typed, FieldTypes DEF SessionInv, ReviewInv, SessionParts, Clocked
<1> HIDE DEF l
<1>4. ShowsPending(l)
  <2>1. \A o \in Objects : col[c].obj[o].usn = Pending => Present(col[c], o)
    BY DEF SessionInv, SessionParts, ShowsPending
  <2> QED
    BY <1>1, <1>3, <2>1 DEF ShowsPending, Present, Now
<1>5. \A o \in Objects : l.obj[o].ver \in {col[c].obj[o].ver, 0, Now}
  BY <1>1
<1> QED
  BY <1>1, <1>2, <1>4, <1>5 DEF Changes, InSession

LEMMA LocalChanges ==
  ASSUME SessionInv, NEW c \in Clients, Local(c)
  PROVE  Changes(c)
<1> DEFINE k == col[c]
<1>1. k \in Collection("device") /\ Now \in Nat /\ Alone(c)
  BY Typed, StepsAreAlone DEF SessionInv, ReviewInv, Now
<1>2. ASSUME NEW o \in Objects
      PROVE  /\ Touch(k, o) \in Collection("device") /\ SameStamps(k, Touch(k, o))
             /\ Touch(k, o).log = k.log
             /\ \A p \in Objects : Touch(k, o).obj[p] = k.obj[p] \/ Touch(k, o).obj[p].ver = Now
  BY <1>1 DEF Touch, Collection, Usns, SameStamps
<1>3. ASSUME NEW o \in Objects, Create(c, o) \/ Edit(c, o)
      PROVE  Changes(c)
  BY <1>1, <1>2, <1>3, CommitChanges DEF Create, Edit, SameStamps
<1>4. ASSUME NEW o \in Objects, Delete(c, o)
      PROVE  Changes(c)
  <2> DEFINE l == ApplyGraves(k, {o}, Pending)
  <2>1. l \in Collection("device")
    BY <1>1, ApplyGravesType DEF Usns
  <2>2. SameStamps(k, l) /\ l.log = k.log
        /\ \A p \in Objects : l.obj[p] = Absent \/ l.obj[p] = k.obj[p]
    BY <1>1, ApplyGravesIs
  <2>3. Commit(c, l) /\ pc[c] = "idle"
    BY <1>4 DEF Delete
  <2> HIDE DEF l
  <2> QED
    BY <1>1, <2>1, <2>2, <2>3, CommitChanges DEF SameStamps, Absent
<1>5. ASSUME NEW o \in Cards, Answer(c, o)
      PROVE  Changes(c)
  <2> DEFINE m == Touch(k, o)
             l == [m EXCEPT !.log = @ \cup {[id |-> Now, usn |-> Pending]}]
             n == Now
  <2>1. /\ m \in Collection("device") /\ SameStamps(k, m) /\ m.log = k.log
        /\ \A p \in Objects : m.obj[p] = k.obj[p] \/ m.obj[p].ver = Now
    BY <1>2 DEF Objects
  <2>2. n \in Nat /\ n = Now /\ l = [m EXCEPT !.log = @ \cup {[id |-> n, usn |-> Pending]}]
    BY <1>1
  <2>3. Commit(c, l) /\ pc[c] = "idle"
    BY <1>5 DEF Answer
  <2> HIDE DEF l, m, n, k
  <2>4. /\ l \in Collection("device") /\ SameStamps(m, l) /\ l.obj = m.obj
        /\ l.log = m.log \cup {[id |-> n, usn |-> Pending]}
    BY <2>1, <2>2 DEF Collection, Usns, SameStamps
  <2>5. /\ k = col[c]
        /\ \A r \in l.log : r \in m.log \/ r.usn = Pending
    BY <2>4 DEF k
  <2> QED
    BY <1>1, <2>1, <2>3, <2>4, <2>5, CommitChanges DEF SameStamps
<1>6. CASE SetConfig(c)
  <2> DEFINE l == Conf(k, Now)
  <2>1. l \in Collection("device") /\ SameStamps(k, l) /\ l.log = k.log /\ l.obj = k.obj
    BY <1>1, ConfType, ConfIs
  <2>2. Commit(c, l) /\ pc[c] = "idle"
    BY <1>6 DEF SetConfig
  <2> HIDE DEF l
  <2> QED
    BY <1>1, <2>1, <2>2, CommitChanges DEF SameStamps
<1>7. CASE ChangeSchema(c)
  <2> DEFINE l == [k EXCEPT !.scm = Now]
  <2>1. l \in Collection("device") /\ l.scm = Now /\ l.log = k.log /\ l.obj = k.obj
        /\ l.usn = k.usn /\ l.ls = k.ls
    BY <1>1 DEF Collection
  <2>2. Commit(c, l) /\ pc[c] = "idle"
    BY <1>7 DEF ChangeSchema
  <2> HIDE DEF l
  <2> QED
    BY <1>1, <2>1, <2>2, CommitChanges
<1> QED
  BY <1>3, <1>4, <1>5, <1>6, <1>7 DEF Local

(* A change of c, or a rollback that changes only its schema stamp.        *)
LEMMA ChangesKeep ==
  ASSUME SessionInv, NEW c \in Clients, Changes(c)
  PROVE  SessionParts'
<1>1. TypeInv /\ SessionParts /\ Stamps /\ Alone(c)
  BY DEF SessionInv, ReviewInv, Changes
<1>2. /\ ~InSession(c) /\ ~InSession(c)' /\ ~Attempting(c)' /\ UNCHANGED <<srv, work, sess, st>>
      /\ clock' = clock + 1 /\ wcol'[c] = col'[c] /\ clock \in Nat
      /\ col'[c].ls \in {col[c].ls, clock + 1}
      /\ \A o \in Objects : col'[c].obj[o].ver \in {col[c].obj[o].ver, 0, clock + 1}
  BY <1>1, Typed DEF Changes, Now, InSession, Attempting
<1>3. /\ col'[c].scm = clock + 1 \/ col'[c].scm = col[c].scm
      /\ col'[c].scm # clock + 1 =>
           /\ col'[c].usn = col[c].usn
           /\ \A o \in Objects : \/ col'[c].obj[o] = col[c].obj[o]
                                 \/ col'[c].obj[o].ver = 0 /\ col'[c].obj[o].usn = 0
                                 \/ col'[c].obj[o].ver = clock + 1
           /\ \A r \in col'[c].log : r \in col[c].log \/ r.usn = Pending
  BY DEF Changes, Now
<1>4. col'[c].scm = srv.scm =>
        /\ col'[c].scm = col[c].scm /\ col'[c].usn = col[c].usn
        /\ \A o \in Objects : \/ col'[c].obj[o] = col[c].obj[o]
                              \/ col'[c].obj[o].ver = 0 /\ col'[c].obj[o].usn = 0
                              \/ col'[c].obj[o].ver = clock + 1
        /\ \A r \in col'[c].log : r \in col[c].log \/ r.usn = Pending
  <2>1. srv.scm \in Nat /\ srv.scm <= clock
    BY <1>1, Typed, FieldTypes DEF Stamps
  <2> QED
    BY <1>2, <1>3, <2>1
<1>5. \A d \in Clients \ {c} : col'[d] = col[d] /\ wcol'[d] = wcol[d] /\ pc'[d] = pc[d]
                              /\ st'[d] = st[d]
  BY <1>1 DEF Alone
<1>6. \A o \in Objects : /\ srv.obj[o].ver \in Nat /\ work.obj[o].ver \in Nat
                         /\ \A d \in Clients : col[d].obj[o].ver \in Nat /\ wcol[d].obj[o].ver \in Nat
  BY <1>1, Typed, FieldTypes
<1>7. Clocked'
  <2>1. \A d \in Clients : col[d].ls \in Nat
    BY <1>1, Typed, FieldTypes
  <2>2. Clocked
    BY <1>1 DEF SessionParts
  <2>3. ASSUME NEW d \in Clients
        PROVE  col'[d].ls <= clock + 1 /\ \A o \in Objects : col'[d].obj[o].ver <= clock + 1
    <3>1. col[d].ls <= clock /\ \A o \in Objects : col[d].obj[o].ver <= clock
      BY <2>2 DEF Clocked
    <3>2. CASE d = c
      BY <1>2, <1>6, <2>1, <3>1, <3>2
    <3>3. CASE d # c
      BY <1>2, <1>5, <1>6, <2>1, <3>1, <3>3
    <3> QED
      BY <3>2, <3>3
  <2> QED
    BY <1>2, <1>6, <2>2, <2>3 DEF Clocked
<1>8. Basis'
  BY <1>1, <1>2, <1>5 DEF SessionParts, Basis, Owns, InSession
<1>9. ASSUME NEW d \in Clients
      PROVE  AttemptSound(d)'
  <2>1. CASE d = c
    <3>1. ClockedInside(c)'
      BY <1>2, <1>7, <2>1 DEF Clocked, ClockedInside
    <3> QED
      BY <1>2, <2>1, <3>1 DEF AttemptSound, Attempting, InSession, PendingInside, PushListed, NothingLeft
  <2>2. CASE d # c
    <3>1. AttemptSound(d)
      BY <1>1 DEF SessionParts
    <3>2. ClockedInside(d)'
      BY <1>2, <1>5, <1>6, <2>2, <3>1 DEF AttemptSound, ClockedInside
    <3> QED
      BY <1>2, <1>5, <2>2, <3>1, <3>2 DEF AttemptSound, Attempting, InSession, PendingInside,
          PushListed, NothingLeft, Present, HasPending, PendingGraves, PendingObjects, PendingReviews
  <2> QED
    BY <2>1, <2>2
<1>10. ASSUME NEW d \in Clients
       PROVE  Behind(d)' /\ ReviewsKnown(d)' /\ NothingUndone(d)' /\ Arriving(d)'
  <2>1. Behind(d) /\ ReviewsKnown(d) /\ NothingUndone(d) /\ Arriving(d)
    BY <1>1 DEF SessionParts
  <2>2. CASE d = c
    <3>1. ~InSession(c)'
      BY <1>2 DEF InSession
    <3>2. Behind(c)' /\ ReviewsKnown(c)' /\ NothingUndone(c)'
      BY <1>2, <1>4, <2>1, <2>2
         DEF Behind, ReviewsKnown, NothingUndone, NotUndone, Owns, Present, ReviewIds
    <3> QED
      BY <2>2, <3>1, <3>2 DEF Arriving
  <2>3. CASE d # c
    <3>1. Behind(d)' /\ ReviewsKnown(d)' /\ NothingUndone(d)'
      BY <1>2, <1>5, <2>1, <2>3 DEF Behind, ReviewsKnown, NothingUndone, NotUndone, Owns, Present, ReviewIds
    <3>2. Arriving(d)'
      BY <1>2, <1>5, <2>1, <2>3 DEF Arriving, EditsArrive, DeletionsArrive, ReviewsArrive, Delivered,
           Owns, InSession, Present, ReviewIds
    <3> QED
      BY <3>1, <3>2
  <2> QED
    BY <2>2, <2>3
<1>11. ASSUME NEW d \in Clients
       PROVE  ShowsPending(col[d])'
  <2>1. CASE d = c
    BY <2>1 DEF Changes, ShowsPending, HasPending, PendingGraves, PendingObjects,
                PendingReviews, Present
  <2>2. CASE d # c
    BY <1>1, <1>5, <2>2 DEF SessionParts, ShowsPending, HasPending, PendingGraves, PendingObjects,
                            PendingReviews, Present
  <2> QED
    BY <2>1, <2>2
<1>12. ASSUME NEW d \in Clients
       PROVE  Ordered(d)'
  <2> SUFFICES ASSUME col'[d].scm = srv.scm
               PROVE  Sooner(srv, d)' /\ Sooner(work, d)' /\ SoonerSent(d)'
    BY <1>2 DEF Ordered
  <2>1. col[d].scm = srv.scm /\ Ordered(d)
    BY <1>1, <1>4, <1>5 DEF SessionParts
  <2>2. Sooner(srv, d) /\ Sooner(work, d) /\ SoonerSent(d)
    BY <2>1 DEF Ordered
  <2>3. ~Attempting(c)' /\ \A e \in Clients \ {c} : /\ Attempting(e)' => Attempting(e)
                                                   /\ st'[e].susn = st[e].susn
    BY <1>2, <1>5 DEF Attempting, InSession
  <2>4. CASE d = c
    <3>1. \A o \in Objects : /\ srv.obj[o].ver <= clock + 1 /\ work.obj[o].ver <= clock + 1
                             /\ \A e \in Clients : col[e].obj[o].ver <= clock + 1
      BY <1>1, <1>2, <1>6 DEF SessionParts, Clocked
    <3>2. \A o \in Objects : col'[c].obj[o].usn = Pending =>
            col'[c].obj[o] = col[c].obj[o] \/ col'[c].obj[o].ver = clock + 1
      BY <1>4, <2>4
    <3>5. col'[c].usn = col[c].usn
      BY <1>4, <2>4
    <3>3. Sooner(srv, c)' /\ Sooner(work, c)'
      BY <1>2, <2>2, <2>4, <3>1, <3>2, <3>5 DEF Sooner, Present
    <3>4. SoonerSent(c)'
      BY <1>2, <1>5, <2>2, <2>3, <2>4, <3>1, <3>2, <3>5 DEF SoonerSent
    <3> QED
      BY <2>4, <3>3, <3>4
  <2>5. CASE d # c
    <3>1. Sooner(srv, d)' /\ Sooner(work, d)'
      BY <1>2, <1>5, <2>2, <2>5 DEF Sooner, Present
    <3>2. SoonerSent(d)'
      BY <1>2, <1>5, <2>2, <2>3, <2>5 DEF SoonerSent
    <3> QED
      BY <3>1, <3>2
  <2> QED
    BY <2>4, <2>5
<1> QED
  BY <1>7, <1>8, <1>9, <1>10, <1>11, <1>12 DEF SessionParts
-----------------------------------------------------------------------------
(* Steps that end a session, or replace a collection as a whole.           *)

(* What the server's commit leaves of its collection for a device that     *)
(* shares the schema.                                                      *)
Advances(d) ==
  col[d].scm = srv'.scm => /\ srv'.scm = srv.scm /\ srv.usn <= srv'.usn
                           /\ ReviewIds(srv) \subseteq ReviewIds(srv')
                           /\ Sooner(srv', d)

Concludes(c) ==
  /\ Alone(c) /\ ~InSession(c)' /\ ~Attempting(c)' /\ wcol'[c] = col'[c]
  /\ work' = srv' /\ sess' \in {sess, NoSession}
  /\ sess' # NoSession => Owns(c) /\ col'[c].scm # srv'.scm /\ srv' = srv
  /\ clock' \in {clock, clock + 1} /\ srv'.usn \in Nat
  /\ \A o \in Objects : srv'.obj[o].ver <= clock' /\ col'[c].obj[o].ver <= clock'
  /\ col'[c].ls <= clock' /\ ShowsPending(col[c])' /\ Behind(c)' /\ ReviewsKnown(c)'
  /\ col'[c].scm = srv'.scm => Sooner(srv, c)' /\ SoonerSent(c)'
  /\ \A d \in Clients \ {c} : Advances(d)

LEMMA ConcludesKeep ==
  ASSUME SessionInv, NEW c \in Clients, Concludes(c)
  PROVE  SessionParts'
<1>1. TypeInv /\ SessionParts /\ clock \in Nat /\ clock' \in Nat /\ clock <= clock'
  BY Typed DEF SessionInv, ReviewInv, Concludes
<1>2. /\ ~InSession(c)' /\ ~Attempting(c)' /\ wcol'[c] = col'[c] /\ work' = srv'
      /\ \A d \in Clients : Owns(d)' => d = c /\ col'[c].scm # srv'.scm
      /\ sess'.owner # Nobody => sess'.usn = srv'.usn
      /\ \A d \in Clients \ {c} : Advances(d)
  <2>1. NoSession.owner = Nobody
    BY DEF NoSession
  <2> QED
    BY <1>1, <2>1, Typed DEF Concludes, Owns, SessionParts, Basis
<1>3. \A d \in Clients \ {c} : col'[d] = col[d] /\ wcol'[d] = wcol[d] /\ pc'[d] = pc[d]
                              /\ st'[d] = st[d]
  BY DEF Concludes, Alone
<1>4. \A d \in Clients : /\ col[d].ls \in Nat /\ \A o \in Objects : col[d].obj[o].ver \in Nat
                                                   /\ wcol[d].obj[o].ver \in Nat
  BY <1>1, Typed, FieldTypes
<1>5. Clocked'
  <2>1. ASSUME NEW d \in Clients
        PROVE  col'[d].ls <= clock' /\ \A o \in Objects : col'[d].obj[o].ver <= clock'
    <3>1. CASE d = c
      BY <3>1 DEF Concludes
    <3>2. CASE d # c
      BY <1>1, <1>3, <1>4, <3>2 DEF SessionParts, Clocked
    <3> QED
      BY <3>1, <3>2
  <2> QED
    BY <1>2, <2>1 DEF Clocked, Concludes
<1>6. Basis'
  BY <1>2 DEF Basis
<1>7. ASSUME NEW d \in Clients
      PROVE  AttemptSound(d)'
  <2>1. CASE d = c
    <3>1. ClockedInside(c)'
      BY <1>2, <1>5 DEF Clocked, ClockedInside
    <3> QED
      BY <1>2, <2>1, <3>1 DEF AttemptSound, Attempting, InSession, PendingInside, PushListed, NothingLeft
  <2>2. CASE d # c
    <3>1. AttemptSound(d) /\ Advances(d)
      BY <1>1, <1>2, <2>2 DEF SessionParts
    <3>2. ClockedInside(d)'
      BY <1>1, <1>3, <1>4, <2>2, <3>1 DEF AttemptSound, ClockedInside
    <3>4. srv.usn \in Nat /\ st[d].susn \in Nat /\ srv'.usn \in Nat
      BY <1>1, Typed, FieldTypes DEF Concludes
    <3>5. Attempting(d) /\ col[d].scm = srv'.scm => st[d].susn <= srv'.usn
      BY <3>1, <3>4 DEF AttemptSound, Advances
    <3> QED
      BY <1>3, <2>2, <3>1, <3>2, <3>5 DEF AttemptSound, Attempting, InSession, PendingInside,
          PushListed, NothingLeft, Present, HasPending, PendingGraves, PendingObjects, PendingReviews
  <2> QED
    BY <2>1, <2>2
<1>8. ASSUME NEW d \in Clients
      PROVE  Behind(d)' /\ ReviewsKnown(d)' /\ ShowsPending(col[d])'
  <2>1. CASE d = c
    BY <2>1 DEF Concludes
  <2>2. CASE d # c
    <3>1. Behind(d) /\ ReviewsKnown(d) /\ ShowsPending(col[d]) /\ Advances(d)
      BY <1>1, <1>2, <2>2 DEF SessionParts
    <3>2. srv.usn \in Nat /\ col[d].usn \in Nat /\ srv'.usn \in Nat
      BY <1>1, Typed, FieldTypes DEF Concludes
    <3>3. Behind(d)'
      BY <1>3, <2>2, <3>1, <3>2 DEF Behind, Advances
    <3>4. ReviewsKnown(d)'
      BY <1>3, <2>2, <3>1 DEF ReviewsKnown, Advances, ReviewIds
    <3>5. ShowsPending(col[d])'
      BY <1>3, <2>2, <3>1 DEF ShowsPending, HasPending, PendingGraves, PendingObjects, PendingReviews, Present
    <3> QED
      BY <3>3, <3>4, <3>5
  <2> QED
    BY <2>1, <2>2
<1>9. ASSUME NEW d \in Clients
      PROVE  NothingUndone(d)' /\ Arriving(d)'
  BY <1>2 DEF NothingUndone, Arriving
<1>10. ASSUME NEW d \in Clients
       PROVE  Ordered(d)'
  <2> SUFFICES ASSUME col'[d].scm = srv'.scm
               PROVE  Sooner(srv, d)' /\ Sooner(work, d)' /\ SoonerSent(d)'
    BY DEF Ordered
  <2>1. Sooner(srv, d)' => Sooner(work, d)'
    BY <1>2 DEF Sooner, Present
  <2>2. CASE d = c
    BY <2>1, <2>2 DEF Concludes
  <2>3. CASE d # c
    <3>1. Ordered(d) /\ Advances(d) /\ col[d].scm = srv'.scm
      BY <1>1, <1>2, <1>3, <2>3 DEF SessionParts
    <3>2. col[d].scm = srv.scm /\ Sooner(srv', d)
      BY <3>1 DEF Advances
    <3>3. SoonerSent(d)
      BY <3>1, <3>2 DEF Ordered
    <3>4. Sooner(srv, d)'
      BY <1>3, <2>3, <3>2 DEF Sooner, Present
    <3>5. SoonerSent(d)'
      BY <1>2, <1>3, <2>3, <3>3 DEF SoonerSent, Attempting, InSession
    <3> QED
      BY <2>1, <3>4, <3>5
  <2> QED
    BY <2>2, <2>3
<1> QED
  BY <1>5, <1>6, <1>7, <1>8, <1>9, <1>10 DEF SessionParts

LEMMA NothingPendingOnServer ==
  ASSUME NEW k \in Collection("server")
  PROVE  ~HasPending(k) /\ \A o \in Objects : k.obj[o].usn # Pending
  BY DEF Collection, Usns, HasPending, PendingGraves, PendingObjects, PendingReviews, IsPending

LEMMA SanityFailedKeeps ==
  ASSUME SessionInv, NEW c \in Clients, SanityFailed(c)
  PROVE  SessionParts'
<1>1. TypeInv /\ SessionParts /\ Stamps /\ Alone(c)
  BY StepsAreAlone DEF SessionInv, ReviewInv, Proceed
<1> DEFINE k == [col[c] EXCEPT !.scm = Now]
<1>2. /\ clock' = Now /\ col'[c] = k /\ wcol'[c] = k /\ pc'[c] = "idle" /\ work' = srv
      /\ sess' \in {sess, NoSession} /\ srv' = srv /\ Owns(c)
  BY <1>1 DEF SanityFailed, TypeInv, TypeOK
<1>3. col[c] \in Collection("device") /\ clock \in Nat /\ srv.scm \in Nat /\ srv.scm <= clock
      /\ Now = clock + 1
  BY <1>1, Typed, FieldTypes DEF Stamps, Now
<1>4. k.scm = clock + 1 /\ k.ls = col[c].ls /\ k.obj = col[c].obj /\ k.mod = col[c].mod
  BY <1>3 DEF Collection
<1> HIDE DEF k
<1>5. /\ col[c].ls \in Nat /\ col[c].ls <= clock
      /\ \A o \in Objects : col[c].obj[o].ver <= clock /\ srv.obj[o].ver <= clock
                            /\ col[c].obj[o].ver \in Nat /\ srv.obj[o].ver \in Nat
  BY <1>1, <1>3, Typed, FieldTypes DEF SessionParts, Clocked
<1>6. ShowsPending(col[c])' /\ Behind(c)' /\ ReviewsKnown(c)' /\ k.scm # srv.scm
  <2>1. \A o \in Objects : col[c].obj[o].usn = Pending => Present(col[c], o)
    BY <1>1 DEF SessionParts, ShowsPending
  <2> QED
    BY <1>2, <1>3, <1>4, <1>5, <2>1 DEF ShowsPending, Behind, ReviewsKnown, Present
<1>7. \A d \in Clients \ {c} : Advances(d)
  <2>1. srv.usn \in Nat
    BY <1>1, Typed, FieldTypes
  <2> QED
    BY <1>1, <1>2, <2>1 DEF Advances, SessionParts, Ordered, Sooner, Present, ReviewIds
<1>8. Concludes(c)
  <2>1. srv'.usn \in Nat
    BY <1>1, <1>2, Typed, FieldTypes
  <2> QED
    BY <1>1, <1>2, <1>3, <1>4, <1>5, <1>6, <1>7, <2>1 DEF Concludes, InSession, Attempting
<1> QED
  BY <1>8, ConcludesKeep

LEMMA CommittedIs ==
  ASSUME SessionInv, Stamps, NEW l, l = Committed(work) \/ l = Stamped(Committed(work))
  PROVE  /\ l.usn = srv.usn + 1 /\ l.scm = srv.scm /\ l.obj = work.obj /\ l.log = work.log
         /\ l.grave = work.grave
<1>1. work \in Collection("server") /\ Committed(work) \in Collection("server") /\ work.usn = srv.usn
  BY Typed, CommittedType DEF SessionInv, ReviewInv, SessionParts, Basis
<1>2. \A m \in Collection("server") : \A u, n :
        /\ [m EXCEPT !.usn = u, !.ls = n].usn = u /\ [m EXCEPT !.usn = u, !.ls = n].scm = m.scm
        /\ [m EXCEPT !.usn = u, !.ls = n].obj = m.obj /\ [m EXCEPT !.usn = u, !.ls = n].log = m.log
        /\ [m EXCEPT !.usn = u, !.ls = n].grave = m.grave
  BY DEF Collection
<1>3. \A m \in Collection("server") : \A n :
        /\ [m EXCEPT !.mod = n].usn = m.usn /\ [m EXCEPT !.mod = n].scm = m.scm
        /\ [m EXCEPT !.mod = n].obj = m.obj /\ [m EXCEPT !.mod = n].log = m.log
        /\ [m EXCEPT !.mod = n].grave = m.grave
  BY DEF Collection
<1>4. Committed(work) = [work EXCEPT !.usn = work.usn + 1, !.ls = Now]
      /\ Stamped(Committed(work)) = [Committed(work) EXCEPT !.mod = Now]
  BY DEF Committed, Stamped
<1>5. /\ Committed(work).usn = srv.usn + 1 /\ Committed(work).scm = srv.scm
      /\ Committed(work).obj = work.obj /\ Committed(work).log = work.log
      /\ Committed(work).grave = work.grave
  BY <1>1, <1>2, <1>4 DEF Stamps
<1>6. \A m : m = Committed(work) => /\ Stamped(m).usn = m.usn /\ Stamped(m).scm = m.scm
        /\ Stamped(m).obj = m.obj /\ Stamped(m).log = m.log /\ Stamped(m).grave = m.grave
  BY <1>1, <1>3 DEF Stamped
<1> QED
  BY <1>5, <1>6

LEMMA FinishKeeps ==
  ASSUME SessionInv, NEW c \in Clients, Finish(c) \/ FinishLost(c) \/ FinishCrash(c)
  PROVE  SessionParts'
<1>1. TypeInv /\ SessionParts /\ Stamps /\ Logs /\ Alone(c)
  BY StepsAreAlone DEF SessionInv, ReviewInv, Proceed, Fault
<1>2. /\ pc[c] = "finish" /\ Owns(c) /\ clock' = Now /\ work' = srv' /\ sess' = NoSession
      /\ pc'[c] = "idle" /\ wcol'[c] = col'[c]
      /\ srv' = Committed(work) \/ srv' = Stamped(Committed(work))
  BY <1>1 DEF Finish, FinishLost, FinishCrash, NoActiveSession, RollBack, TypeInv, TypeOK
<1>3. /\ srv'.usn = srv.usn + 1 /\ srv'.scm = srv.scm /\ srv'.obj = work.obj /\ srv'.log = work.log
      /\ srv.usn \in Nat /\ clock \in Nat /\ Now = clock + 1
  BY <1>1, <1>2, CommittedIs, Typed, FieldTypes DEF Now
<1>4. ReviewIds(srv) \subseteq ReviewIds(srv') /\ ReviewIds(srv') = ReviewIds(work)
  BY <1>1, <1>3 DEF Logs, ReviewIds
<1>5. \A o \in Objects : srv'.obj[o].ver <= clock'
  <2>1. \A o \in Objects : work.obj[o].ver \in Nat /\ work.obj[o].ver <= clock
    BY <1>1, Typed, FieldTypes DEF SessionParts, Clocked
  <2> QED
    BY <1>2, <1>3, <2>1
<1>6. ASSUME NEW d \in Clients
      PROVE  Advances(d)
  BY <1>1, <1>3, <1>4 DEF Advances, SessionParts, Ordered, Sooner, Present
<1>8. CASE FinishLost(c) \/ FinishCrash(c)
  <2>1. col' = col
    BY <1>8 DEF FinishLost, FinishCrash, RollBack
  <2>2. /\ col[c].usn \in Nat /\ col[c].ls \in Nat /\ col[c].ls <= clock
        /\ \A o \in Objects : col[c].obj[o].ver \in Nat /\ col[c].obj[o].ver <= clock
    BY <1>1, Typed, FieldTypes DEF SessionParts, Clocked
  <2>3. Behind(c)' /\ ReviewsKnown(c)' /\ ShowsPending(col[c])'
    <3>1. Behind(c) /\ ReviewsKnown(c) /\ ShowsPending(col[c])
      BY <1>1 DEF SessionParts
    <3>2. Behind(c)'
      BY <1>3, <2>1, <2>2, <3>1 DEF Behind
    <3>3. ReviewsKnown(c)'
      <4> SUFFICES ASSUME col[c].scm = srv.scm, NEW r \in col[c].log, r.usn # Pending
                   PROVE  r.id \in ReviewIds(srv)'
        BY <1>3, <2>1 DEF ReviewsKnown
      <4>1. r.id \in ReviewIds(srv)
        BY <3>1 DEF ReviewsKnown
      <4> QED
        BY <1>4, <4>1 DEF ReviewIds
    <3>4. ShowsPending(col[c])'
      BY <2>1, <3>1 DEF ShowsPending, HasPending, PendingGraves, PendingObjects, PendingReviews, Present
    <3> QED
      BY <3>2, <3>3, <3>4
  <2>4. col'[c].scm = srv'.scm => Sooner(srv, c)' /\ SoonerSent(c)'
    <3> SUFFICES ASSUME col[c].scm = srv'.scm PROVE Sooner(srv, c)' /\ SoonerSent(c)'
      BY <2>1
    <3>1. Sooner(srv, c)'
      BY <1>6, <2>1 DEF Advances, Sooner, Present
    <3>2. SoonerSent(c)
      BY <1>1, <1>3 DEF SessionParts, Ordered
    <3>3. SoonerSent(c)'
      BY <1>1, <2>1, <3>2 DEF SoonerSent, Alone, Attempting, InSession
    <3> QED
      BY <3>1, <3>3
  <2>5. Concludes(c)
    BY <1>1, <1>2, <1>3, <1>5, <1>6, <2>1, <2>2, <2>3, <2>4
       DEF Concludes, InSession, Attempting
  <2> QED
    BY <2>5, ConcludesKeep
<1>9. CASE Finish(c)
  <2> DEFINE l == [wcol[c] EXCEPT !.usn = st[c].susn + 1, !.mod = Now, !.ls = Now]
  <2>1. wcol[c] \in Collection("device") /\ st[c].susn \in Nat /\ col'[c] = l
    BY <1>1, <1>9, Typed DEF Finish, TypeInv, TypeOK
  <2>2. /\ l.usn = st[c].susn + 1 /\ l.ls = Now /\ l.scm = wcol[c].scm /\ l.obj = wcol[c].obj
        /\ l.log = wcol[c].log /\ l.grave = wcol[c].grave
    BY <2>1 DEF Collection
  <2> HIDE DEF l
  <2>3. /\ AttemptSound(c) /\ Arriving(c) /\ Attempting(c) /\ InSession(c) /\ wcol[c].scm = col[c].scm
    BY <1>1, <1>2 DEF SessionParts, Attempting, InSession, Stamps
  <2>4. ~HasPending(wcol[c]) /\ ~HasPending(l)
    BY <1>2, <2>2, <2>3 DEF AttemptSound, NothingLeft, HasPending, PendingGraves, PendingObjects,
                            PendingReviews, Present
  <2>5. /\ \A o \in Objects : Present(l, o) => l.obj[o].usn # Pending
        /\ \A r \in l.log : r.usn # Pending
    BY <2>4 DEF HasPending, PendingObjects, PendingReviews, IsPending
  <2>6. Behind(c)'
    BY <1>3, <2>1, <2>2, <2>3 DEF AttemptSound, Behind
  <2>7. ReviewsKnown(c)'
    <3> SUFFICES ASSUME col[c].scm = srv.scm, NEW r \in wcol[c].log PROVE r.id \in ReviewIds(work)
      BY <1>3, <1>4, <2>1, <2>2, <2>3 DEF ReviewsKnown, ReviewIds
    <3> QED
      BY <1>2, <2>2, <2>3, <2>5 DEF Arriving, ReviewsArrive
  <2>8. \A o \in Objects : l.obj[o].usn # Pending
    <3> SUFFICES ASSUME NEW o \in Objects, wcol[c].obj[o].usn = Pending PROVE FALSE
      BY <2>2
    <3>1. Present(col[c], o) /\ wcol[c].obj[o] = col[c].obj[o]
      BY <1>1, <2>3 DEF SessionParts, AttemptSound, PendingInside, ShowsPending
    <3> QED
      BY <2>2, <2>5, <3>1 DEF Present
  <2>9. Sooner(srv, c)' /\ SoonerSent(c)' /\ ShowsPending(col[c])'
    <3>1. Sooner(srv, c)' /\ SoonerSent(c)'
      BY <2>1, <2>8 DEF Sooner, SoonerSent
    <3>2. ShowsPending(col[c])'
      BY <2>1, <2>4, <2>8 DEF ShowsPending, HasPending, PendingGraves, PendingObjects, PendingReviews, Present
    <3> QED
      BY <3>1, <3>2
  <2>10. \A o \in Objects : l.obj[o].ver <= clock'
    <3>1. \A o \in Objects : wcol[c].obj[o].ver \in Nat /\ wcol[c].obj[o].ver <= clock
      BY <2>1, <2>3, FieldTypes DEF AttemptSound, ClockedInside
    <3> QED
      BY <1>2, <1>3, <2>2, <3>1
  <2>11. Concludes(c)
    BY <1>1, <1>2, <1>3, <1>5, <1>6, <2>1, <2>2, <2>6, <2>7, <2>9, <2>10
       DEF Concludes, InSession, Attempting
  <2> QED
    BY <2>11, ConcludesKeep
<1> QED
  BY <1>8, <1>9

LEMMA ChooseUploadChanges ==
  ASSUME SessionInv, NEW c \in Clients, ChooseUpload(c)
  PROVE  Changes(c)
<1> DEFINE k == col[c]
           l == ForUpload(k)
<1>1. /\ k \in Collection("device") /\ clock \in Nat /\ Now \in Nat /\ Alone(c) /\ TypeInv
      /\ l \in Collection("server")
  BY Typed, StepsAreAlone, ForUploadType DEF SessionInv, ReviewInv, Now, Proceed
<1>2. /\ col'[c] = l /\ wcol'[c] = l /\ clock' = Now /\ UNCHANGED <<srv, work, sess, st>>
      /\ pc[c] = "full" /\ pc'[c] = "uploading"
  BY <1>1 DEF ChooseUpload, server, TypeInv, TypeOK, Goto
<1>3. l.scm = Now /\ l.ls = Now /\ \A o \in Objects : l.obj[o].ver = k.obj[o].ver
  BY <1>1, ForUploadIs
<1>4. ShowsPending(l)
  BY <1>1, NothingPendingOnServer DEF ShowsPending
<1> HIDE DEF l
<1> QED
  BY <1>1, <1>2, <1>3, <1>4 DEF Changes, InSession

LEMMA UploadKeepsParts ==
  ASSUME SessionInv, NEW c \in Clients, Upload(c)
  PROVE  SessionParts'
<1>1. TypeInv /\ SessionParts /\ UploadsAreClean /\ Directions /\ Alone(c)
  BY StepsAreAlone DEF SessionInv, ReviewInv, Proceed, TypeInv
<1>2. /\ pc[c] = "uploading" /\ clock' = clock /\ col' = col /\ wcol' = wcol /\ srv' = col[c]
      /\ work' = srv' /\ sess' = NoSession /\ pc'[c] = "idle"
  BY <1>1 DEF Upload, NoActiveSession, Goto, TypeInv, TypeOK
<1>3. col[c] \in Collection("server") /\ wcol[c] = col[c]
  BY <1>1, <1>2 DEF UploadsAreClean, SessionParts, AttemptSound, InSession
<1>4. /\ col[c].usn \in Nat /\ col[c].ls \in Nat /\ col[c].ls <= clock
      /\ \A o \in Objects : col[c].obj[o].ver \in Nat /\ col[c].obj[o].ver <= clock
  BY <1>1, Typed, FieldTypes DEF SessionParts, Clocked
<1>5. \A o \in Objects : col[c].obj[o].usn # Pending
  BY <1>3, NothingPendingOnServer
<1>6. Behind(c)' /\ ReviewsKnown(c)' /\ ShowsPending(col[c])' /\ Sooner(srv, c)' /\ SoonerSent(c)'
  <2>1. ShowsPending(col[c])'
    BY <1>2, <1>3, <1>5, NothingPendingOnServer DEF ShowsPending
  <2>2. Behind(c)' /\ ReviewsKnown(c)'
    BY <1>2, <1>4 DEF Behind, ReviewsKnown, ReviewIds
  <2> QED
    BY <1>2, <1>5, <2>1, <2>2 DEF Sooner, SoonerSent
<1>7. \A d \in Clients \ {c} : Advances(d)
  BY <1>1, <1>2 DEF Advances, Directions
<1>8. Concludes(c)
  BY <1>1, <1>2, <1>3, <1>4, <1>6, <1>7 DEF Concludes, InSession, Attempting
<1> QED
  BY <1>8, ConcludesKeep

LEMMA DownloadKeepsParts ==
  ASSUME SessionInv, NEW c \in Clients, Download(c) \/ DownloadLost(c)
  PROVE  SessionParts'
<1>1. TypeInv /\ SessionParts /\ Directions /\ Alone(c)
  BY StepsAreAlone DEF SessionInv, ReviewInv, Proceed, Fault
<1>2. /\ pc[c] = "full" /\ clock' = Now /\ work' = srv' /\ sess' = NoSession /\ pc'[c] = "idle"
      /\ srv' = [srv EXCEPT !.usn = srv.usn + 1, !.mod = Now]
  BY <1>1 DEF Download, DownloadLost, ServeDownload, NoActiveSession, TypeInv, TypeOK
<1>3. /\ clock \in Nat /\ Now = clock + 1 /\ srv \in Collection("server") /\ srv.usn \in Nat
      /\ col[c].scm # srv.scm
  BY <1>1, <1>2, Typed, FieldTypes DEF Directions, Now
<1>4. /\ srv'.usn = srv.usn + 1 /\ srv'.mod = Now /\ srv'.scm = srv.scm /\ srv'.obj = srv.obj
      /\ srv'.log = srv.log /\ srv' \in Collection("server")
  <2> DEFINE u == srv.usn + 1
             n == Now
  <2>1. u \in Nat /\ n \in Nat /\ u = srv.usn + 1 /\ n = Now
        /\ srv' = [srv EXCEPT !.usn = u, !.mod = n]
    BY <1>2, <1>3
  <2> HIDE DEF u, n
  <2> QED
    BY <1>3, <2>1 DEF Collection
<1>5. \A o \in Objects : srv.obj[o].ver \in Nat /\ srv.obj[o].ver <= clock
  BY <1>1, <1>3, FieldTypes DEF SessionParts, Clocked
<1>6. /\ col[c].usn \in Nat /\ col[c].ls \in Nat /\ col[c].ls <= clock
      /\ \A o \in Objects : col[c].obj[o].ver \in Nat /\ col[c].obj[o].ver <= clock
  BY <1>1, Typed, FieldTypes DEF SessionParts, Clocked
<1>7. \A d \in Clients \ {c} : Advances(d)
  BY <1>1, <1>3, <1>4 DEF Advances, SessionParts, Ordered, Sooner, Present, ReviewIds
<1>8. CASE DownloadLost(c)
  <2>1. col' = col /\ wcol'[c] = col'[c]
    BY <1>1, <1>2, <1>8 DEF DownloadLost, SessionParts, AttemptSound, InSession
  <2>2. Behind(c)' /\ ReviewsKnown(c)' /\ col'[c].scm # srv'.scm
    BY <1>3, <1>4, <2>1 DEF Behind, ReviewsKnown
  <2>3. ShowsPending(col[c])'
    BY <1>1, <2>1 DEF SessionParts, ShowsPending, HasPending, PendingGraves, PendingObjects,
                      PendingReviews, Present
  <2>4. Concludes(c)
    BY <1>1, <1>2, <1>3, <1>4, <1>5, <1>6, <1>7, <2>1, <2>2, <2>3
       DEF Concludes, InSession, Attempting
  <2> QED
    BY <2>4, ConcludesKeep
<1>9. CASE Download(c)
  <2> DEFINE l == [srv' EXCEPT !.ls = srv'.mod]
  <2>1. col'[c] = l /\ wcol'[c] = l
    BY <1>1, <1>9 DEF Download, TypeInv, TypeOK
  <2>2. /\ l \in Collection("server") /\ l.usn = srv'.usn /\ l.ls = Now /\ l.scm = srv'.scm
        /\ l.obj = srv.obj /\ l.log = srv'.log
    BY <1>4 DEF Collection
  <2> HIDE DEF l
  <2>3. ~HasPending(l) /\ \A o \in Objects : l.obj[o].usn # Pending
    BY <2>2, NothingPendingOnServer
  <2>4. Behind(c)' /\ ReviewsKnown(c)' /\ ShowsPending(col[c])' /\ Sooner(srv, c)' /\ SoonerSent(c)'
    <3>1. Behind(c)' /\ ReviewsKnown(c)'
      BY <1>3, <1>4, <2>1, <2>2 DEF Behind, ReviewsKnown, ReviewIds
    <3>2. ShowsPending(col[c])'
      BY <2>1, <2>3 DEF ShowsPending, HasPending, PendingGraves, PendingObjects, PendingReviews, Present
    <3>3. Sooner(srv, c)' /\ SoonerSent(c)'
      BY <2>1, <2>3 DEF Sooner, SoonerSent
    <3> QED
      BY <3>1, <3>2, <3>3
  <2>5. Concludes(c)
    BY <1>1, <1>2, <1>3, <1>4, <1>5, <1>7, <2>1, <2>2, <2>4
       DEF Concludes, InSession, Attempting
  <2> QED
    BY <2>5, ConcludesKeep
<1> QED
  BY <1>8, <1>9

-----------------------------------------------------------------------------

LEMMA SessionInit == Init => SessionInv
<1> SUFFICES ASSUME Init PROVE SessionInv
  OBVIOUS
<1>1. ReviewInv /\ TypeInv
  BY ReviewInit DEF ReviewInv
<1>2. /\ clock = 2 /\ work = srv /\ sess = NoSession /\ wcol = col /\ \A c \in Clients : pc[c] = "idle"
  BY DEF Init
<1> DEFINE obj == [o \in Objects |-> IF o \in Shared THEN [ver |-> 1, usn |-> 0] ELSE Absent]
           none == [o \in Objects |-> Absent]
           grave == [o \in Objects |-> NoGrave]
<1>a. \A o \in Objects : /\ obj[o].ver \in {0, 1} /\ obj[o].usn = 0 /\ none[o].ver = 0
                         /\ none[o].usn = 0 /\ grave[o] = NoGrave
  BY DEF Absent
<1>b. /\ Uploaded = [obj |-> obj, grave |-> grave, log |-> {}, conf |-> 1, usn |-> 1, mod |-> 1,
                     scm |-> 1, ls |-> 1]
      /\ Fresh = [obj |-> none, grave |-> grave, log |-> {}, conf |-> 0, usn |-> 0, mod |-> 0,
                  scm |-> 0, ls |-> 0]
  BY DEF Uploaded, Fresh
<1> HIDE DEF obj, none, grave
<1>c. /\ Uploaded.ls = 1 /\ Uploaded.usn = 1 /\ Uploaded.log = {} /\ Uploaded.obj = obj
      /\ Uploaded.grave = grave /\ Uploaded.scm = 1
      /\ Downloaded.ls = 2 /\ Downloaded.usn = 2 /\ Downloaded.log = {} /\ Downloaded.obj = obj
      /\ Downloaded.grave = grave /\ Downloaded.scm = 1
      /\ Fresh.ls = 0 /\ Fresh.usn = 0 /\ Fresh.log = {} /\ Fresh.obj = none /\ Fresh.grave = grave
  BY <1>b DEF Downloaded
<1>3. /\ srv.usn = 2 /\ srv.scm = 1 /\ srv.log = {} /\ \A o \in Objects : srv.obj[o].ver \in {0, 1}
  <2>1. srv = [Downloaded EXCEPT !.ls = 1]
    BY DEF Init
  <2>2. srv.usn = 2 /\ srv.scm = 1 /\ srv.log = {} /\ srv.obj = obj
    BY <1>b, <2>1 DEF Downloaded
  <2> QED
    BY <1>a, <2>2
<1>4. ASSUME NEW c \in Clients
      PROVE  /\ col[c].ls \in 0..2 /\ col[c].usn \in 0..2 /\ col[c].log = {}
             /\ \A o \in Objects : /\ col[c].obj[o].ver \in {0, 1} /\ col[c].obj[o].usn = 0
                                    /\ col[c].grave[o] = NoGrave
  <2>1. col[c] \in {Uploaded, Downloaded, Fresh}
    BY DEF Init
  <2> QED
    BY <1>a, <1>c, <2>1
<1>5. \A c \in Clients : ~HasPending(col[c]) /\ ~Attempting(c) /\ ~InSession(c) /\ ~Owns(c)
  BY <1>1, <1>2, <1>4, Typed DEF HasPending, PendingGraves, PendingObjects, PendingReviews, IsPending,
     Attempting, InSession, Owns, NoSession
<1>6. Clocked /\ Basis
  <2>1. Clocked
    BY <1>2, <1>3, <1>4 DEF Clocked
  <2> QED
    BY <1>2, <1>5, <2>1 DEF Basis, NoSession
<1>7. ASSUME NEW c \in Clients
      PROVE  /\ AttemptSound(c) /\ Behind(c) /\ Ordered(c) /\ NothingUndone(c)
             /\ Arriving(c) /\ ReviewsKnown(c) /\ ShowsPending(col[c])
  <2>1. AttemptSound(c)
    BY <1>2, <1>4, <1>5, <1>6 DEF AttemptSound, PendingInside, ClockedInside, PushListed, NothingLeft,
                                 Clocked
  <2>2. Behind(c) /\ ReviewsKnown(c)
    BY <1>3, <1>4 DEF Behind, ReviewsKnown
  <2>3. Ordered(c) /\ ShowsPending(col[c])
    BY <1>4, <1>5 DEF Ordered, Sooner, SoonerSent, ShowsPending
  <2>4. NothingUndone(c) /\ Arriving(c)
    BY <1>5 DEF NothingUndone, Arriving
  <2> QED
    BY <2>1, <2>2, <2>3, <2>4
<1> QED
  BY <1>1, <1>6, <1>7 DEF SessionInv, SessionParts

LEMMA SessionInvStep == SessionInv /\ [Next]_vars => SessionInv'
<1> SUFFICES ASSUME SessionInv, [Next]_vars PROVE SessionInv'
  OBVIOUS
<1>1. ReviewInv'
  BY ReviewStep DEF SessionInv
<1>2. CASE UNCHANGED vars \/ ServerCrash
  BY <1>1, <1>2, IdleSettles, SettlesKeeps DEF SessionInv
<1>3. ASSUME NEW c \in Clients, Local(c) \/ Meta(c) \/ Proceed(c) \/ Fault(c)
      PROVE  SessionParts'
  <2>1. CASE Local(c) \/ ChooseUpload(c)
    BY <2>1, LocalChanges, ChooseUploadChanges, ChangesKeep
  <2>2. CASE Meta(c)
    BY <2>2, MetaSettles, SettlesKeeps
  <2>3. CASE Start(c) \/ SendGraves(c) \/ ApplyRemoteGraves(c)
    BY <1>3, <2>3, StartKeeps, SendGravesKeeps, ApplyRemoteGravesKeeps
  <2>4. CASE SendChanges(c) \/ PullChunk(c) \/ PushChunk(c) \/ SanityCheck(c)
    BY <1>3, <2>4, SendChangesKeeps, PullChunkKeeps, PushChunkKeeps, SanityCheckKeeps
  <2>5. CASE SanityFailed(c)
    BY <1>3, <2>5, SanityFailedKeeps
  <2>6. CASE Finish(c) \/ FinishLost(c) \/ FinishCrash(c)
    BY <1>3, <2>6, FinishKeeps
  <2>7. CASE GiveUp(c) \/ CancelFull(c)
    <3>1. Alone(c)
      BY <1>3, StepsAreAlone DEF SessionInv, ReviewInv
    <3> QED
      BY <2>7, <3>1, EndsSettle, SettlesKeeps
  <2>8. CASE Upload(c) \/ Download(c) \/ DownloadLost(c)
    BY <1>3, <2>8, UploadKeepsParts, DownloadKeepsParts
  <2> QED
    BY <1>3, <2>1, <2>2, <2>3, <2>4, <2>5, <2>6, <2>7, <2>8 DEF Proceed, Fault, Conflict, Fail
<1> QED
  BY <1>1, <1>2, <1>3 DEF SessionInv, Next

LEMMA SessionAlways == Spec => []SessionInv
<1>1. Init => SessionInv
  BY SessionInit
<1>2. SessionInv /\ [Next]_vars => SessionInv'
  BY SessionInvStep
<1> QED
  BY <1>1, <1>2, PTL DEF Spec

(* The session the server keeps in memory is built on its last commit,     *)
(* whatever requests, failed sessions and full syncs of other devices come *)
(* between its requests: committing it loses no review, and within one     *)
(* schema it never brings an older state of an object back.                *)
THEOREM SessionsBuildOnLatest == Spec => []SessionOnLatest
<1>1. SessionInv => SessionOnLatest
  <2> SUFFICES ASSUME SessionInv, NEW c \in Clients, Owns(c)
               PROVE  /\ sess.usn = srv.usn
                      /\ ReviewIds(srv) \subseteq ReviewIds(work)
                      /\ col[c].scm = srv.scm => \A o \in Objects : NotUndone(o)
    BY DEF SessionOnLatest, NotUndone
  <2>1. c # Nobody
    BY Typed DEF SessionInv, ReviewInv
  <2> QED
    BY <2>1 DEF SessionInv, ReviewInv, Logs, SessionParts, Basis, NothingUndone, Owns
<1> QED
  BY <1>1, SessionAlways, PTL

(* A device with unsent changes never shows "no changes": every session,   *)
(* failed session, full sync and edit leaves the stamps such that          *)
(* sync_status_offline notices what is pending.                            *)
THEOREM OfflineStatusIsSound == Spec => []OfflineStatusSound
<1>1. SessionInv => OfflineStatusSound
  <2> SUFFICES ASSUME SessionInv, NEW c \in Clients, col[c].ls # 0, HasPending(col[c])
               PROVE  OfflineStatus(col[c]) # "no_changes"
    BY DEF OfflineStatusSound
  <2>1. col[c].mod > col[c].ls \/ col[c].scm > col[c].ls
    BY DEF SessionInv, SessionParts, ShowsPending
  <2>2. col[c].mod \in Nat /\ col[c].ls \in Nat /\ col[c].scm \in Nat
    BY Typed, FieldTypes DEF SessionInv, ReviewInv
  <2>3. CASE col[c].scm > col[c].ls
    BY <2>2, <2>3 DEF OfflineStatus
  <2>4. CASE ~(col[c].scm > col[c].ls)
    <3>1. col[c].scm <= col[c].ls /\ col[c].mod > col[c].ls
      BY <2>1, <2>2, <2>4
    <3>2. OfflineStatus(col[c]) = "normal_sync"
      BY <2>4, <3>1 DEF OfflineStatus
    <3> QED
      BY <3>2
  <2> QED
    BY <2>3, <2>4
<1> QED
  BY <1>1, SessionAlways, PTL

LEMMA OnlyFinishCommits ==
  ASSUME SessionInv, [Next]_vars, NEW c \in Clients,
         pc[c] = "finish", pc'[c] = "idle", srv' # srv
  PROVE  Owns(c) /\ (srv' = Committed(work) \/ srv' = Stamped(Committed(work)))
<1>1. Next
  BY DEF vars
<1>2. ~ServerCrash
  BY DEF ServerCrash
<1>3. PICK d \in Clients : Local(d) \/ Meta(d) \/ Proceed(d) \/ Fault(d)
  BY <1>1, <1>2 DEF Next
<1>4. Alone(d)
  BY <1>3, StepsAreAlone DEF SessionInv, ReviewInv
<1>5. d = c
  BY <1>4 DEF Alone
<1>6. ~Local(c) /\ ~Meta(c)
  BY DEF Local, Create, Edit, Answer, Delete, SetConfig, ChangeSchema, Meta
<1>7. ~GiveUp(c)
  BY DEF GiveUp
<1>8. ~Start(c) /\ ~SendGraves(c) /\ ~ApplyRemoteGraves(c) /\ ~SendChanges(c) /\ ~PullChunk(c)
      /\ ~PushChunk(c) /\ ~SanityCheck(c) /\ ~SanityFailed(c)
  BY DEF Start, SendGraves, ApplyRemoteGraves, SendChanges, PullChunk, PushChunk, SanityCheck, SanityFailed
<1>9. ~ChooseUpload(c) /\ ~Upload(c) /\ ~Download(c) /\ ~CancelFull(c) /\ ~DownloadLost(c)
  BY DEF ChooseUpload, Upload, Download, CancelFull, DownloadLost, ServeDownload
<1>10. Finish(c) \/ FinishLost(c) \/ FinishCrash(c)
  BY <1>3, <1>5, <1>6, <1>7, <1>8, <1>9 DEF Proceed, Fault, Conflict, Fail
<1> QED
  BY <1>10 DEF Finish, FinishLost, FinishCrash

(* A commit keeps the local work of the device that made it: each edit it  *)
(* had not sent is in what the server commits in that state or a more      *)
(* recent one, or the object has been deleted; so is each deletion, and    *)
(* each review.                                                            *)
THEOREM CommitsKeepLocalWork == Spec => CommitKeepsLocalWork
<1> DEFINE Keeps == \A c \in Clients :
       pc[c] = "finish" /\ pc'[c] = "idle" /\ srv' # srv /\ col[c].scm = srv.scm =>
         /\ \A o \in PendingObjects(col[c], Objects, Pending) :
              \/ Secs(srv'.obj[o].ver) >= Secs(col[c].obj[o].ver)
              \/ srv'.grave[o] # NoGrave
         /\ \A o \in PendingGraves(col[c], Pending) :
              Present(srv', o) => Present(col[c], o)
         /\ ReviewIds(col[c]) \subseteq ReviewIds(srv')
<1>1. SessionInv /\ [Next]_vars => Keeps
  <2> SUFFICES ASSUME SessionInv, [Next]_vars, NEW c \in Clients,
                      pc[c] = "finish", pc'[c] = "idle", srv' # srv, col[c].scm = srv.scm
               PROVE  /\ \A o \in PendingObjects(col[c], Objects, Pending) :
                           \/ Secs(srv'.obj[o].ver) >= Secs(col[c].obj[o].ver)
                           \/ srv'.grave[o] # NoGrave
                      /\ \A o \in PendingGraves(col[c], Pending) :
                           Present(srv', o) => Present(col[c], o)
                      /\ ReviewIds(col[c]) \subseteq ReviewIds(srv')
    OBVIOUS
  <2>1. Owns(c) /\ srv'.obj = work.obj /\ srv'.log = work.log /\ srv'.grave = work.grave
    BY OnlyFinishCommits, CommittedIs DEF SessionInv, ReviewInv
  <2>2. Arriving(c) /\ InSession(c) /\ AttemptSound(c) /\ ~HasPending(wcol[c])
    BY DEF SessionInv, SessionParts, InSession, AttemptSound, NothingLeft
  <2>3. EditsArrive(c) /\ DeletionsArrive(c) /\ ReviewsArrive(c)
    BY <2>1, <2>2 DEF Arriving
  <2>4. ASSUME NEW o \in Objects, Present(col[c], o), col[c].obj[o].usn = Pending
        PROVE  Secs(srv'.obj[o].ver) >= Secs(col[c].obj[o].ver) \/ srv'.grave[o] # NoGrave
    <3>1. wcol[c].obj[o] # col[c].obj[o]
      BY <2>2, <2>4 DEF HasPending, PendingObjects, IsPending, Present
    <3> QED
      BY <2>1, <2>3, <2>4, <3>1 DEF EditsArrive, Delivered
  <2>5. ASSUME NEW o \in Objects, col[c].grave[o] = Pending, Present(srv', o)
        PROVE  Present(col[c], o)
    BY <2>1, <2>3, <2>5 DEF DeletionsArrive, Present
  <2>6. ReviewIds(col[c]) \subseteq ReviewIds(srv')
    <3>1. ReviewIds(col[c]) \subseteq ReviewIds(wcol[c])
      BY DEF SessionInv, ReviewInv, Logs
    <3>2. \A r \in wcol[c].log : r.usn # Pending
      BY <2>2 DEF HasPending, PendingReviews, IsPending
    <3>3. ReviewIds(wcol[c]) \subseteq ReviewIds(work)
      BY <2>3, <3>2 DEF ReviewsArrive, ReviewIds
    <3> QED
      BY <2>1, <3>1, <3>3 DEF ReviewIds
  <2> QED
    BY <2>4, <2>5, <2>6 DEF PendingObjects, PendingGraves, IsPending
<1>2. Spec => [][Keeps]_vars
  BY <1>1, SessionAlways, PTL DEF Spec
<1> QED
  BY <1>2 DEF CommitKeepsLocalWork

-----------------------------------------------------------------------------
(* Review logs: finite, one entry to an id, ids from the past.             *)

Fine(log, n) ==
  /\ IsFiniteSet(log)
  /\ \A r, s \in log : r.id = s.id => r = s
  /\ \A r \in log : r.id <= n

LEMMA FineEmpty == \A n : Fine({}, n)
  BY FS_EmptySet DEF Fine

LEMMA FineSubset ==
  ASSUME NEW L, NEW M \in SUBSET L, NEW n, Fine(L, n)
  PROVE  Fine(M, n)
  BY FS_Subset DEF Fine

LEMMA FineLater ==
  ASSUME NEW own, NEW L \in SUBSET ReviewsOf(own), NEW n \in Nat, NEW m \in Nat, n <= m, Fine(L, n)
  PROVE  Fine(L, m)
<1>1. \A r \in L : r.id \in Nat
  BY DEF ReviewsOf
<1>2. \A r \in L : r.id <= m
  BY <1>1 DEF Fine
<1> QED
  BY <1>2 DEF Fine

(* What MergeChunk adds to a log, and what MarkObjects makes of reviews.    *)
Unknown(M, k) == {r \in M : r.id \notin ReviewIds(k)}
Marked(M, usn) == {[r EXCEPT !.usn = usn] : r \in M}

LEMMA FineMerge ==
  ASSUME NEW k, NEW M, NEW n, Fine(k.log, n), Fine(M, n)
  PROVE  Fine(k.log \cup Unknown(M, k), n)
<1> DEFINE L == k.log
           new == Unknown(M, k)
<1>1. IsFiniteSet(new) /\ \A r \in new : r \in M /\ r.id \notin ReviewIds(k)
  <2>1. new \in SUBSET M
    BY DEF Unknown
  <2> QED
    BY <2>1, FS_Subset DEF Fine, Unknown
<1>2. \A r \in L : r.id \in ReviewIds(k)
  BY DEF ReviewIds
<1> HIDE DEF new, L
<1>3. Fine(L, n)
  BY DEF L
<1>4. IsFiniteSet(L \cup new)
  BY <1>1, <1>3, FS_Union DEF Fine
<1>5. \A r, s \in L \cup new : r.id = s.id => r = s
  BY <1>1, <1>2, <1>3 DEF Fine
<1>6. \A r \in L \cup new : r.id <= n
  BY <1>1, <1>3 DEF Fine
<1>7. Fine(L \cup new, n)
  BY <1>4, <1>5, <1>6 DEF Fine
<1> QED
  BY <1>7 DEF new, L

LEMMA FineMarked ==
  ASSUME NEW L \in SUBSET ReviewsOf("device"), NEW n, Fine(L, n), NEW usn \in Nat
  PROVE  Fine(Marked(L, usn), n)
<1> DEFINE sent == {[r EXCEPT !.usn = usn] : r \in L}
           f == [r \in L |-> [r EXCEPT !.usn = usn]]
<1>1. \A r \in L : [r EXCEPT !.usn = usn] = [id |-> r.id, usn |-> usn]
  BY DEF ReviewsOf
<1>2. f \in Surjection(L, sent)
  BY DEF Surjection
<1>3. IsFiniteSet(sent)
  <2>1. IsFiniteSet(L)
    BY DEF Fine
  <2> HIDE DEF f, sent
  <2> QED
    BY <1>2, <2>1, FS_Surjection
<1>4. \A s \in sent : \E r \in L : s = [id |-> r.id, usn |-> usn]
  BY <1>1
<1> HIDE DEF sent
<1>5. \A s \in sent : \E r \in L : s.id = r.id /\ s.usn = usn /\ s = [id |-> s.id, usn |-> usn]
  <2> TAKE s \in sent
  <2>1. PICK r \in L : s = [id |-> r.id, usn |-> usn]
    BY <1>4
  <2> QED
    BY <2>1
<1>6. \A r, s \in sent : r.id = s.id => r = s
  BY <1>5
<1>7. \A s \in sent : s.id <= n
  BY <1>5 DEF Fine
<1>8. Fine(sent, n)
  BY <1>3, <1>6, <1>7 DEF Fine
<1> QED
  BY <1>8 DEF sent, Marked

LEMMA FineRemarked ==
  ASSUME NEW L \in SUBSET ReviewsOf("device"), NEW M \in SUBSET L, NEW n, Fine(L, n), NEW usn \in Nat
  PROVE  Fine((L \ M) \cup Marked(M, usn), n)
<1> DEFINE sent == Marked(M, usn)
<1>1. Fine(M, n) /\ Fine(L \ M, n)
  BY FineSubset
<1>2. Fine(sent, n)
  BY <1>1, FineMarked
<1>3. \A s \in sent : \E r \in M : s.id = r.id
  <2>1. \A r \in M : [r EXCEPT !.usn = usn].id = r.id
    BY DEF ReviewsOf
  <2> QED
    BY <2>1 DEF Marked
<1> HIDE DEF sent
<1>4. IsFiniteSet((L \ M) \cup sent)
  BY <1>1, <1>2, FS_Union DEF Fine
<1>5. \A r \in L \ M, s \in sent : r.id # s.id
  BY <1>3 DEF Fine
<1>6. Fine((L \ M) \cup sent, n)
  BY <1>1, <1>2, <1>4, <1>5 DEF Fine
<1> QED
  BY <1>6 DEF sent

LEMMA FineForUpload ==
  ASSUME NEW k \in Collection("device"), NEW n, Fine(k.log, n)
  PROVE  Fine(ForUpload(k).log, n)
<1> DEFINE Send(r) == IF r.usn = Pending THEN [r EXCEPT !.usn = 0] ELSE r
           f == [r \in k.log |-> Send(r)]
           log == {Send(r) : r \in k.log}
<1>1. k.log \in SUBSET ReviewsOf("device")
  BY DEF Collection, ReviewsOf
<1>2. ForUpload(k).log = log
  BY DEF ForUpload, Collection
<1>3. ASSUME NEW r \in k.log
      PROVE  Send(r).id = r.id
  <2>1. r \in ReviewsOf("device")
    BY <1>1
  <2>2. r.id = r.id /\ [r EXCEPT !.usn = 0].id = r.id
    BY <2>1 DEF ReviewsOf
  <2> QED
    BY <2>2
<1>4. f \in Surjection(k.log, log)
  BY DEF Surjection
<1>5. \A r \in k.log : Send(r).id = r.id
  BY <1>3
<1>6. \A s \in log : \E r \in k.log : s = Send(r) /\ s.id = r.id
  BY <1>5
<1> HIDE DEF f, Send, log
<1>7. IsFiniteSet(log)
  BY <1>4, FS_Surjection DEF Fine
<1>8. \A r, s \in log : r.id = s.id => r = s
  BY <1>6 DEF Fine
<1>9. \A s \in log : s.id <= n
  BY <1>6 DEF Fine
<1> QED
  BY <1>2, <1>7, <1>8, <1>9 DEF Fine
-----------------------------------------------------------------------------
(* The three requests that merge, object by object.                        *)

PendRow(k, o) == Present(k, o) /\ k.obj[o].usn = Pending
NewRow(k, o, since) == Present(k, o) /\ k.obj[o].usn >= since

LEMMA SendChangesIs ==
  ASSUME TypeInv, NEW c \in Clients, SendChanges(c)
  PROVE  \E sent :
           /\ pc[c] = "changes" /\ pc'[c] = "pull" /\ Owns(c) /\ UNCHANGED <<clock, srv, sess, col, st>>
           /\ work'.usn = work.usn /\ work'.log = work.log /\ wcol'[c].log = wcol[c].log
           /\ \A o \in Objects :
                /\ work'.grave[o] = work.grave[o] /\ wcol'[c].grave[o] = wcol[c].grave[o]
                /\ o \notin Decks => work'.obj[o] = work.obj[o] /\ wcol'[c].obj[o] = wcol[c].obj[o]
                /\ PendRow(wcol[c], o) /\ o \in Decks => /\ sent.obj[o].ver = wcol[c].obj[o].ver
                                                        /\ sent.obj[o].usn = st[c].susn
                /\ ~PendRow(wcol[c], o) => sent.obj[o] = wcol[c].obj[o]
                /\ o \in Decks =>
                     /\ IF PendRow(wcol[c], o)
                           /\ (~Present(work, o) \/ Secs(work.obj[o].ver) <= Secs(sent.obj[o].ver))
                        THEN work'.obj[o] = sent.obj[o] ELSE work'.obj[o] = work.obj[o]
                     /\ IF NewRow(work, o, sess.cusn)
                           /\ (~Present(sent, o) \/ Secs(sent.obj[o].ver) <= Secs(work.obj[o].ver))
                        THEN wcol'[c].obj[o] = work.obj[o] ELSE wcol'[c].obj[o] = sent.obj[o]
<1> DEFINE mine == PendingObjects(wcol[c], Decks, Pending)
           sent == MarkObjects(wcol[c], mine, {}, st[c].susn)
           theirs == PendingObjects(work, Decks, sess.cusn)
           push == Rows(sent, mine)
           pull == Rows(work, theirs)
           there == MergeUnchunked(work, push)
           here == MergeUnchunked(sent, pull)
<1>1. st[c].susn \in Nat /\ wcol[c] \in Collection("device") /\ sess.cusn \in Nat
      /\ work \in Collection("server")
  BY Typed
<1>2. mine \in SUBSET Objects /\ theirs \in SUBSET Objects
  BY DEF PendingObjects, Objects
<1>3. sent \in Collection("device")
  BY <1>1, MarkObjectsType
<1>4. there \in Collection("server")
  BY <1>1, <1>2, SentRowsType, MergeUnchunkedType
<1>5. here \in Collection("device")
  <2>1. Rows(work, theirs) \in [theirs -> RowsOf("device")]
    BY <1>1, <1>2, RowsType, ServerIsDevice
  <2> QED
    BY <1>2, <1>3, <2>1, MergeUnchunkedType
<1>6. /\ work' = IF st[c].newer THEN Conf(there, sent.conf) ELSE there
      /\ wcol'[c] = IF sess.newer THEN here ELSE Conf(here, work.conf)
      /\ pc[c] = "changes" /\ pc'[c] = "pull" /\ Owns(c) /\ UNCHANGED <<clock, srv, sess, col, st>>
  BY <1>1 DEF SendChanges, Goto, TypeInv, TypeOK
<1>7. /\ \A o : o \in mine <=> o \in Decks /\ PendRow(wcol[c], o)
      /\ \A o : o \in theirs <=> o \in Decks /\ NewRow(work, o, sess.cusn)
  BY <1>1 DEF PendingObjects, IsPending, PendRow, NewRow
<1>8. /\ sent.grave = wcol[c].grave /\ sent.log = wcol[c].log
      /\ \A o \in Objects : /\ o \in mine => /\ sent.obj[o].ver = wcol[c].obj[o].ver
                                             /\ sent.obj[o].usn = st[c].susn
                            /\ o \notin mine => sent.obj[o] = wcol[c].obj[o]
  <2>1. sent = MarkObjects(wcol[c], mine, {}, st[c].susn)
    OBVIOUS
  <2>2. sent.log = wcol[c].log
    BY <1>1, MarkNoReviews
  <2> HIDE DEF mine, sent
  <2> QED
    BY <1>1, <2>1, <2>2, MarkObjectsIs
<1>9. /\ DOMAIN push = mine /\ \A o \in mine : push[o] = sent.obj[o]
      /\ DOMAIN pull = theirs /\ \A o \in theirs : pull[o] = work.obj[o]
  BY RowsAre
<1> HIDE DEF mine, sent, theirs, push, pull
<1>10. /\ SameStamps(work, there) /\ there.grave = work.grave /\ there.log = work.log
       /\ \A o \in Objects :
            /\ o \in mine /\ Wins(work, push, o) => there.obj[o] = push[o]
            /\ ~(o \in mine /\ Wins(work, push, o)) => there.obj[o] = work.obj[o]
  BY <1>1, <1>9, MergeUnchunkedIs
<1>11. /\ here.grave = sent.grave /\ here.log = sent.log
       /\ \A o \in Objects :
            /\ o \in theirs /\ Wins(sent, pull, o) => here.obj[o] = pull[o]
            /\ ~(o \in theirs /\ Wins(sent, pull, o)) => here.obj[o] = sent.obj[o]
  BY <1>3, <1>9, MergeUnchunkedIs
<1> HIDE DEF there, here
<1>12. /\ work'.usn = work.usn /\ work'.grave = work.grave /\ work'.obj = there.obj
       /\ work'.log = work.log
  BY <1>4, <1>6, <1>10, ConfIs DEF SameStamps
<1>13. wcol'[c].grave = wcol[c].grave /\ wcol'[c].obj = here.obj /\ wcol'[c].log = wcol[c].log
  BY <1>5, <1>6, <1>8, <1>11, ConfIs
<1>14. ASSUME NEW o \in Objects, o \in Decks
       PROVE  /\ IF PendRow(wcol[c], o)
                    /\ (~Present(work, o) \/ Secs(work.obj[o].ver) <= Secs(sent.obj[o].ver))
                 THEN work'.obj[o] = sent.obj[o] ELSE work'.obj[o] = work.obj[o]
              /\ IF NewRow(work, o, sess.cusn)
                    /\ (~Present(sent, o) \/ Secs(sent.obj[o].ver) <= Secs(work.obj[o].ver))
                 THEN wcol'[c].obj[o] = work.obj[o] ELSE wcol'[c].obj[o] = sent.obj[o]
  <2>1. /\ o \in mine <=> PendRow(wcol[c], o)
        /\ o \in theirs <=> NewRow(work, o, sess.cusn)
        /\ o \in mine => push[o] = sent.obj[o]
        /\ o \in theirs => pull[o] = work.obj[o]
    BY <1>7, <1>9, <1>14
  <2> QED
    BY <1>10, <1>11, <1>12, <1>13, <2>1 DEF Wins
<1>15. ASSUME NEW o \in Objects
       PROVE  /\ work'.grave[o] = work.grave[o] /\ wcol'[c].grave[o] = wcol[c].grave[o]
              /\ o \notin Decks => work'.obj[o] = work.obj[o] /\ wcol'[c].obj[o] = wcol[c].obj[o]
              /\ PendRow(wcol[c], o) /\ o \in Decks => /\ sent.obj[o].ver = wcol[c].obj[o].ver
                                                      /\ sent.obj[o].usn = st[c].susn
              /\ ~PendRow(wcol[c], o) => sent.obj[o] = wcol[c].obj[o]
  BY <1>7, <1>8, <1>10, <1>11, <1>12, <1>13
<1> QED
  BY <1>6, <1>12, <1>13, <1>14, <1>15

(* What the server has still to send.                                       *)
Remaining == IF sess.chunking THEN sess.ids ELSE ChunkableIds(work, sess.cusn)

LEMMA PullChunkIs ==
  ASSUME TypeInv, NEW c \in Clients, PullChunk(c)
  PROVE  \E t \in Chunks(Remaining) :
           /\ pc[c] = "pull" /\ Owns(c) /\ UNCHANGED <<clock, srv, work, col>>
           /\ Remaining \in Ids /\ t.objs \subseteq Remaining.objs /\ t.log \subseteq Remaining.log /\ t.objs \subseteq Cards
           /\ sess'.owner = sess.owner /\ sess'.usn = sess.usn /\ sess'.cusn = sess.cusn
           /\ sess'.chunking = TRUE /\ sess'.ids = Rest(Remaining, t)
           /\ \/ /\ IsLast(t) /\ pc'[c] = "push" /\ st'[c].ids = ChunkableIds(wcol'[c], Pending)
                 /\ st'[c].susn = st[c].susn /\ st'[c].cusn = st[c].cusn
              \/ pc'[c] = "pull" /\ st'[c] = st[c]
           /\ wcol'[c].log = wcol[c].log \cup Unknown(t.log, wcol[c])
           /\ \A o \in Objects :
                /\ wcol'[c].grave[o] = wcol[c].grave[o]
                /\ IF o \in t.objs /\ (\/ ~Present(wcol[c], o) \/ wcol[c].obj[o].usn # Pending
                                       \/ Secs(wcol[c].obj[o].ver) < Secs(work.obj[o].ver))
                   THEN wcol'[c].obj[o] = work.obj[o] ELSE wcol'[c].obj[o] = wcol[c].obj[o]
<1>1. wcol[c] \in Collection("device") /\ work \in Collection("server") /\ work \in Collection("device")
      /\ Remaining \in Ids
  BY Typed, ServerIsDevice, IdsType DEF Session, Remaining
<1>2. PICK t \in Chunks(Remaining) :
        /\ sess' = [sess EXCEPT !.chunking = TRUE, !.ids = Rest(Remaining, t)]
        /\ wcol' = [wcol EXCEPT ![c] = MergeChunk(@, Rows(work, t.objs), t.log, Pending)]
        /\ IF IsLast(t)
           THEN /\ Goto(c, "push")
                /\ st' = [st EXCEPT ![c].ids = ChunkableIds(wcol'[c], Pending)]
           ELSE UNCHANGED <<pc, st>>
  BY DEF PullChunk, Remaining
<1>3. /\ pc[c] = "pull" /\ Owns(c) /\ UNCHANGED <<clock, srv, work, col>>
      /\ t.objs \in SUBSET Objects /\ t.objs \subseteq Cards /\ t.log \subseteq Remaining.log
      /\ t.objs \subseteq Remaining.objs
  BY <1>1, ChunkType DEF PullChunk, Chunks
<1>4. /\ sess'.owner = sess.owner /\ sess'.usn = sess.usn /\ sess'.cusn = sess.cusn
      /\ sess'.chunking = TRUE /\ sess'.ids = Rest(Remaining, t)
  BY <1>1, <1>2 DEF TypeInv, TypeOK, Session
<1>5. \/ /\ IsLast(t) /\ pc'[c] = "push" /\ st'[c].ids = ChunkableIds(wcol'[c], Pending)
         /\ st'[c].susn = st[c].susn /\ st'[c].cusn = st[c].cusn
      \/ pc'[c] = "pull" /\ st'[c] = st[c]
  BY <1>1, <1>2, <1>3 DEF Goto, TypeInv, TypeOK, State
<1> DEFINE rows == Rows(work, t.objs)
<1>6. DOMAIN rows = t.objs /\ \A o \in t.objs : rows[o] = work.obj[o]
  BY RowsAre
<1>7. wcol'[c] = MergeChunk(wcol[c], rows, t.log, Pending)
  BY <1>1, <1>2 DEF TypeInv, TypeOK
<1> HIDE DEF rows
<1>8. /\ wcol'[c].log = wcol[c].log \cup Unknown(t.log, wcol[c])
      /\ wcol'[c].grave = wcol[c].grave
      /\ \A o \in Objects :
           /\ o \in t.objs /\ Replaces(wcol[c], rows, Pending, o) => wcol'[c].obj[o] = rows[o]
           /\ ~(o \in t.objs /\ Replaces(wcol[c], rows, Pending, o))
                => wcol'[c].obj[o] = wcol[c].obj[o]
  BY <1>1, <1>6, <1>7, MergeChunkIs DEF Unknown
<1>9. ASSUME NEW o \in Objects
      PROVE  /\ wcol'[c].grave[o] = wcol[c].grave[o]
             /\ IF o \in t.objs /\ (\/ ~Present(wcol[c], o) \/ wcol[c].obj[o].usn # Pending
                                    \/ Secs(wcol[c].obj[o].ver) < Secs(work.obj[o].ver))
                THEN wcol'[c].obj[o] = work.obj[o] ELSE wcol'[c].obj[o] = wcol[c].obj[o]
  BY <1>6, <1>8 DEF Replaces, IsPending
<1> QED
  BY <1>1, <1>3, <1>4, <1>5, <1>8, <1>9

LEMMA PushChunkIs ==
  ASSUME TypeInv, NEW c \in Clients, PushChunk(c)
  PROVE  \E t \in Chunks(st[c].ids) :
           /\ pc[c] = "push" /\ Owns(c) /\ UNCHANGED <<clock, srv, sess, col>>
           /\ t.objs \subseteq st[c].ids.objs /\ t.log \subseteq st[c].ids.log /\ t.objs \subseteq Cards
           /\ st'[c].ids = Rest(st[c].ids, t)
           /\ st'[c].susn = st[c].susn /\ st'[c].cusn = st[c].cusn
           /\ work'.usn = work.usn
           /\ pc'[c] = "push" \/ (pc'[c] = "sanity" /\ IsLast(t))
           /\ wcol'[c].log = (wcol[c].log \ t.log) \cup Marked(t.log, st[c].susn)
           /\ work'.log = work.log \cup Unknown(Marked(t.log, st[c].susn), work)
           /\ \A o \in Objects :
                /\ wcol'[c].grave[o] = wcol[c].grave[o] /\ work'.grave[o] = work.grave[o]
                /\ o \in t.objs => /\ wcol'[c].obj[o].ver = wcol[c].obj[o].ver
                                   /\ wcol'[c].obj[o].usn = st[c].susn
                /\ o \notin t.objs => wcol'[c].obj[o] = wcol[c].obj[o]
                /\ IF o \in t.objs /\ (\/ ~Present(work, o) \/ work.obj[o].usn < sess.cusn
                                       \/ Secs(work.obj[o].ver) < Secs(wcol'[c].obj[o].ver))
                   THEN work'.obj[o] = wcol'[c].obj[o] ELSE work'.obj[o] = work.obj[o]
<1>1. /\ wcol[c] \in Collection("device") /\ work \in Collection("server")
      /\ st[c].ids \in Ids /\ st[c].susn \in Nat /\ sess.cusn \in Nat
  BY Typed DEF State
<1>2. PICK t \in Chunks(st[c].ids) :
        LET sent == MarkObjects(wcol[c], t.objs, t.log, st[c].susn)
            reviews == {[r EXCEPT !.usn = st[c].susn] : r \in t.log}
        IN /\ wcol' = [wcol EXCEPT ![c] = sent]
           /\ work' = MergeChunk(work, Rows(sent, t.objs), reviews, sess.cusn)
           /\ st' = [st EXCEPT ![c].ids = Rest(@, t)]
           /\ pc' = IF IsLast(t) THEN [pc EXCEPT ![c] = "sanity"] ELSE pc
  BY DEF PushChunk
<1> DEFINE sent == MarkObjects(wcol[c], t.objs, t.log, st[c].susn)
           reviews == Marked(t.log, st[c].susn)
           rows == Rows(sent, t.objs)
<1>3. /\ pc[c] = "push" /\ Owns(c) /\ UNCHANGED <<clock, srv, sess, col>>
      /\ t.objs \in SUBSET Objects /\ t.log \in SUBSET ReviewsOf("device") /\ t.objs \subseteq Cards
      /\ t.objs \subseteq st[c].ids.objs /\ t.log \subseteq st[c].ids.log
  BY <1>1, ChunkType DEF PushChunk, Chunks
<1>4. /\ wcol'[c] = sent /\ work' = MergeChunk(work, rows, reviews, sess.cusn)
      /\ st'[c].ids = Rest(st[c].ids, t)
      /\ st'[c].susn = st[c].susn /\ st'[c].cusn = st[c].cusn
      /\ pc'[c] = "push" \/ (pc'[c] = "sanity" /\ IsLast(t))
  BY <1>1, <1>2, <1>3 DEF TypeInv, TypeOK, State, Marked
<1>5. sent.log = (wcol[c].log \ t.log) \cup reviews
  BY <1>1 DEF MarkObjects, Collection, Marked
<1>6. /\ sent.grave = wcol[c].grave
      /\ \A o \in Objects : /\ o \in t.objs => /\ sent.obj[o].ver = wcol[c].obj[o].ver
                                              /\ sent.obj[o].usn = st[c].susn
                            /\ o \notin t.objs => sent.obj[o] = wcol[c].obj[o]
  BY <1>1, MarkObjectsIs
<1>7. DOMAIN rows = t.objs /\ \A o \in t.objs : rows[o] = sent.obj[o]
  BY RowsAre
<1>8. reviews = Marked(t.log, st[c].susn)
  OBVIOUS
<1> HIDE DEF sent, rows, reviews
<1>9. /\ SameStamps(work, work') /\ work'.grave = work.grave
      /\ work'.log = work.log \cup Unknown(reviews, work)
      /\ \A o \in Objects :
           /\ o \in t.objs /\ Replaces(work, rows, sess.cusn, o) => work'.obj[o] = rows[o]
           /\ ~(o \in t.objs /\ Replaces(work, rows, sess.cusn, o)) => work'.obj[o] = work.obj[o]
  BY <1>1, <1>4, <1>7, MergeChunkIs DEF Unknown
<1>10. ASSUME NEW o \in Objects
       PROVE  /\ wcol'[c].grave[o] = wcol[c].grave[o] /\ work'.grave[o] = work.grave[o]
              /\ o \in t.objs => /\ wcol'[c].obj[o].ver = wcol[c].obj[o].ver
                                 /\ wcol'[c].obj[o].usn = st[c].susn
              /\ o \notin t.objs => wcol'[c].obj[o] = wcol[c].obj[o]
              /\ IF o \in t.objs /\ (\/ ~Present(work, o) \/ work.obj[o].usn < sess.cusn
                                     \/ Secs(work.obj[o].ver) < Secs(wcol'[c].obj[o].ver))
                 THEN work'.obj[o] = wcol'[c].obj[o] ELSE work'.obj[o] = work.obj[o]
  <2>1. ~IsPending(work.obj[o].usn, sess.cusn) <=> work.obj[o].usn < sess.cusn
    BY <1>1, ServerTypes DEF IsPending
  <2> QED
    BY <1>4, <1>6, <1>7, <1>9, <2>1 DEF Replaces
<1> QED
  BY <1>3, <1>4, <1>5, <1>8, <1>9, <1>10 DEF SameStamps
-----------------------------------------------------------------------------
(* Every review log, and every list of reviews still to be sent, is fine.  *)
LogsFine ==
  /\ Fine(srv.log, clock) /\ Fine(work.log, clock) /\ Fine(sess.ids.log, clock)
  /\ \A c \in Clients :
       /\ Fine(col[c].log, clock) /\ Fine(wcol[c].log, clock) /\ Fine(st[c].ids.log, clock)
       /\ pc[c] = "push" => st[c].ids.log \subseteq wcol[c].log
LogInv == SessionInv /\ LogsFine

LEMMA LogTypes ==
  ASSUME TypeInv
  PROVE  /\ clock \in Nat /\ srv.log \in SUBSET ReviewsOf("server") /\ work.log \in SUBSET ReviewsOf("server")
         /\ sess.ids.log \in SUBSET ReviewsOf("device")
         /\ \A c \in Clients : /\ col[c].log \in SUBSET ReviewsOf("device")
                               /\ wcol[c].log \in SUBSET ReviewsOf("device")
                               /\ st[c].ids.log \in SUBSET ReviewsOf("device")
  BY Typed DEF Collection, ReviewsOf, Session, State, Ids, Usns

LEMMA StillFine ==
  ASSUME LogInv, NEW n \in Nat, clock <= n
  PROVE  /\ Fine(srv.log, n) /\ Fine(work.log, n) /\ Fine(sess.ids.log, n)
         /\ \A c \in Clients : Fine(col[c].log, n) /\ Fine(wcol[c].log, n) /\ Fine(st[c].ids.log, n)
<1>1. LogsFine /\ TypeInv
  BY DEF LogInv, SessionInv, ReviewInv
<1> QED
  BY <1>1, LogTypes, FineLater DEF LogsFine

LEMMA LogsStayFine ==
  ASSUME LogInv, NEW c \in Clients, Alone(c), clock' \in {clock, clock + 1},
         Fine(srv'.log, clock'), Fine(work'.log, clock'), Fine(sess'.ids.log, clock'),
         Fine(col'[c].log, clock'), Fine(wcol'[c].log, clock'), Fine(st'[c].ids.log, clock'),
         pc'[c] = "push" => st'[c].ids.log \subseteq wcol'[c].log
  PROVE  LogsFine'
<1>1. clock \in Nat /\ clock' \in Nat /\ clock <= clock'
  BY Typed DEF LogInv, SessionInv, ReviewInv
<1>2. ASSUME NEW d \in Clients
      PROVE  /\ Fine(col'[d].log, clock') /\ Fine(wcol'[d].log, clock') /\ Fine(st'[d].ids.log, clock')
             /\ pc'[d] = "push" => st'[d].ids.log \subseteq wcol'[d].log
  <2>1. CASE d = c
    BY <2>1
  <2>2. CASE d # c
    BY <1>1, <2>2, StillFine DEF Alone, LogInv, LogsFine
  <2> QED
    BY <2>1, <2>2
<1> QED
  BY <1>2 DEF LogsFine

LEMMA NoIdsFine == \A n : Fine(NoIds.log, n)
  BY FineEmpty DEF NoIds

LEMMA NewIds ==
  ASSUME LogInv
  PROVE  /\ \A n : Fine(NoState.ids.log, n) /\ Fine(NoSession.ids.log, n)
         /\ NoActiveSession => /\ work'.log = srv'.log
                               /\ \A n : Fine(sess'.ids.log, n)
  BY NoIdsFine DEF NoState, NoSession, NoActiveSession

LEMMA LocalLog ==
  ASSUME LogInv, NEW c \in Clients, Local(c)
  PROVE  /\ clock' = Now /\ UNCHANGED <<srv, work, sess, st>> /\ pc'[c] = "idle"
         /\ wcol'[c].log = col'[c].log
         /\ \/ col'[c].log = col[c].log
            \/ col'[c].log = col[c].log \cup {[id |-> Now, usn |-> Pending]}
<1> DEFINE k == col[c]
           n == Now
           new == [id |-> n, usn |-> Pending]
<1>1. k \in Collection("device") /\ n \in Nat /\ Now = n
  BY Typed DEF LogInv, SessionInv, ReviewInv, Now
<1>2. ASSUME NEW m \in Collection("device"), Commit(c, m), m.log = k.log \/ m.log = k.log \cup {new}
      PROVE  /\ clock' = Now /\ UNCHANGED <<srv, work, sess, st, pc>>
             /\ wcol'[c].log = col'[c].log
             /\ col'[c].log = k.log \/ col'[c].log = k.log \cup {new}
  <2>1. col'[c] = [m EXCEPT !.mod = n] /\ wcol'[c] = [m EXCEPT !.mod = n]
    BY <1>2 DEF Commit, LogInv, SessionInv, ReviewInv, TypeInv, TypeOK
  <2>2. [m EXCEPT !.mod = n].log = m.log
    BY <1>2 DEF Collection
  <2> HIDE DEF n, new, k
  <2> QED
    BY <1>2, <2>1, <2>2 DEF Commit, server
<1>3. ASSUME NEW o \in Objects
      PROVE  Touch(k, o) \in Collection("device") /\ Touch(k, o).log = k.log
  BY <1>1 DEF Touch, Collection, Usns
<1>4. ASSUME NEW o \in Objects
      PROVE  ApplyGraves(k, {o}, Pending) \in Collection("device") /\ ApplyGraves(k, {o}, Pending).log = k.log
  BY <1>1, ApplyGravesType, ApplyGravesIs DEF Usns
<1>5. ASSUME NEW o \in Cards
      PROVE  /\ [Touch(k, o) EXCEPT !.log = @ \cup {[id |-> Now, usn |-> Pending]}] \in Collection("device")
             /\ [Touch(k, o) EXCEPT !.log = @ \cup {[id |-> Now, usn |-> Pending]}].log = k.log \cup {new}
  <2> DEFINE m == Touch(k, o)
  <2>1. m \in Collection("device") /\ m.log = k.log
    BY <1>3 DEF Objects
  <2> HIDE DEF m
  <2>2. new \in [id : Nat, usn : Nat \cup {Pending}] /\ new = [id |-> Now, usn |-> Pending]
    BY <1>1
  <2> HIDE DEF new, n
  <2>3. /\ [m EXCEPT !.log = @ \cup {new}] \in Collection("device")
        /\ [m EXCEPT !.log = @ \cup {new}].log = k.log \cup {new}
    BY <2>1, <2>2 DEF Collection, Usns
  <2> QED
    BY <2>2, <2>3 DEF m
<1>6. Conf(k, Now) \in Collection("device") /\ Conf(k, Now).log = k.log
  BY <1>1, ConfType, ConfIs
<1>7. [k EXCEPT !.scm = Now] \in Collection("device") /\ [k EXCEPT !.scm = Now].log = k.log
  BY <1>1 DEF Collection
<1>8. \E m \in Collection("device") : Commit(c, m) /\ (m.log = k.log \/ m.log = k.log \cup {new})
  <2> HIDE DEF k, new, n
  <2>1. ASSUME NEW o \in Objects, Create(c, o) \/ Edit(c, o) PROVE Commit(c, Touch(k, o))
    BY <2>1 DEF Create, Edit, k
  <2>2. ASSUME NEW o \in Objects, Delete(c, o) PROVE Commit(c, ApplyGraves(k, {o}, Pending))
    BY <2>2 DEF Delete, k
  <2>3. ASSUME NEW o \in Cards, Answer(c, o)
        PROVE  Commit(c, [Touch(k, o) EXCEPT !.log = @ \cup {[id |-> Now, usn |-> Pending]}])
    BY <2>3 DEF Answer, k
  <2>4. SetConfig(c) => Commit(c, Conf(k, Now))
    BY DEF SetConfig, k
  <2>5. ChangeSchema(c) => Commit(c, [k EXCEPT !.scm = Now])
    BY DEF ChangeSchema, k
  <2> QED
    BY <1>3, <1>4, <1>5, <1>6, <1>7, <2>1, <2>2, <2>3, <2>4, <2>5 DEF Local
<1>9. pc[c] = "idle"
  BY DEF Local, Create, Edit, Answer, Delete, SetConfig, ChangeSchema
<1> QED
  BY <1>1, <1>2, <1>8, <1>9

LEMMA LocalLogsFine ==
  ASSUME LogInv, NEW c \in Clients, Local(c)
  PROVE  LogsFine'
<1> DEFINE new == [id |-> Now, usn |-> Pending]
<1>1. /\ clock \in Nat /\ Now = clock + 1 /\ clock + 1 \in Nat /\ clock <= clock + 1 /\ Alone(c)
      /\ col[c].log \in SUBSET ReviewsOf("device")
  BY Typed, LogTypes, StepsAreAlone DEF LogInv, SessionInv, ReviewInv, Now
<1>2. Fine(col[c].log, clock) /\ Fine(col[c].log, clock + 1)
  BY <1>1, StillFine DEF LogInv, LogsFine
<1>3. new.id = clock + 1
  BY <1>1
<1> HIDE DEF new
<1>4. Fine(col[c].log \cup {new}, clock + 1)
  <2>1. IsFiniteSet(col[c].log \cup {new})
    BY <1>2, FS_AddElement DEF Fine
  <2>2. \A r \in col[c].log : r.id \in Nat /\ r.id <= clock
    BY <1>1, <1>2 DEF Fine, ReviewsOf
  <2>3. \A r \in col[c].log : r.id # new.id
    BY <1>1, <1>3, <2>2
  <2>4. \A r, s \in col[c].log \cup {new} : r.id = s.id => r = s
    BY <1>2, <2>3 DEF Fine
  <2>5. \A r \in col[c].log \cup {new} : r.id <= clock + 1
    BY <1>1, <1>3, <2>2
  <2> QED
    BY <2>1, <2>4, <2>5 DEF Fine
<1>5. Fine(col'[c].log, clock')
  BY <1>1, <1>2, <1>4, LocalLog DEF new
<1> QED
  BY <1>1, <1>5, LocalLog, LogsStayFine, StillFine

(* Steps that move logs about but merge none.                              *)
LEMMA PlainLogsFine ==
  ASSUME LogInv, NEW c \in Clients, Alone(c), clock' \in {clock, clock + 1},
         srv'.log \in {srv.log, work.log, col[c].log},
         work'.log \in {work.log, srv.log, srv'.log},
         sess' = sess \/ sess'.ids = NoIds,
         col'[c].log \in {col[c].log, wcol[c].log, srv.log},
         wcol'[c].log \in {col[c].log, wcol[c].log, srv.log},
         st'[c].ids = st[c].ids \/ st'[c].ids = NoIds,
         pc'[c] # "push"
  PROVE  LogsFine'
<1>1. clock' \in Nat /\ clock <= clock'
  BY Typed DEF LogInv, SessionInv, ReviewInv
<1>2. /\ Fine(srv.log, clock') /\ Fine(work.log, clock') /\ Fine(sess.ids.log, clock')
      /\ Fine(col[c].log, clock') /\ Fine(wcol[c].log, clock') /\ Fine(st[c].ids.log, clock')
  BY <1>1, StillFine
<1>3. Fine(sess'.ids.log, clock') /\ Fine(st'[c].ids.log, clock')
  BY <1>2, NoIdsFine
<1>4. Fine(srv'.log, clock')
  BY <1>2
<1>5. Fine(work'.log, clock')
  BY <1>2, <1>4
<1>6. Fine(col'[c].log, clock') /\ Fine(wcol'[c].log, clock')
  BY <1>2
<1> QED
  BY <1>3, <1>4, <1>5, <1>6, LogsStayFine

LEMMA OpeningLogsFine ==
  ASSUME LogInv, NEW c \in Clients,
         Meta(c) \/ Start(c) \/ SendGraves(c) \/ ApplyRemoteGraves(c) \/ SanityCheck(c)
           \/ GiveUp(c) \/ CancelFull(c),
         Alone(c)
  PROVE  LogsFine'
<1>1. /\ TypeInv /\ st[c] \in State /\ wcol[c] \in Collection("device")
      /\ work \in Collection("server") /\ srv \in Collection("server")
  BY Typed DEF LogInv, SessionInv, ReviewInv
<1>2. NoState.ids = NoIds /\ NoSession.ids = NoIds
  BY DEF NoState, NoSession
<1>3. NoActiveSession => sess'.ids = NoIds /\ work'.log = srv'.log
  BY <1>2 DEF NoActiveSession
<1>4. wcol[c].log = wcol[c].log /\ (~InSession(c) => wcol[c] = col[c])
  BY DEF LogInv, SessionInv, SessionParts, AttemptSound
<1>5. CASE Meta(c)
  <2>1. /\ UNCHANGED <<clock, srv, col, wcol>> /\ NoActiveSession
        /\ pc'[c] # "push" /\ pc[c] = "idle"
    BY <1>1, <1>5 DEF Meta, client, Goto, TypeInv, TypeOK
  <2>2. /\ \A may : [NoState EXCEPT !.may = may].ids = NoState.ids
        /\ \A u, v, n : [NoState EXCEPT !.susn = u, !.cusn = v, !.newer = n].ids = NoState.ids
    BY NoStateType DEF State
  <2>3. ASSUME pc'[c] = "met" PROVE st'[c].ids = NoIds
    <3>1. st' = [st EXCEPT ![c] = [NoState EXCEPT !.susn = srv.usn, !.cusn = col[c].usn,
                                                  !.newer = col[c].mod > srv.mod]]
      BY <1>1, <1>5, <2>1, <2>3 DEF Meta, client, Goto, TypeInv, TypeOK
    <3>2. st'[c] = [NoState EXCEPT !.susn = srv.usn, !.cusn = col[c].usn, !.newer = col[c].mod > srv.mod]
      BY <1>1, <3>1 DEF TypeInv, TypeOK
    <3> QED
      BY <1>2, <2>2, <3>2
  <2>4. ASSUME pc'[c] = "full" PROVE st'[c].ids = NoIds
    <3> DEFINE empty(k) == \A o \in Cards : ~Present(k, o)
               may == (IF empty(col[c]) /\ ~empty(srv) THEN {} ELSE {"upload"}) \cup
                      (IF empty(srv) /\ ~empty(col[c]) THEN {} ELSE {"download"})
    <3>1. st' = [st EXCEPT ![c] = [NoState EXCEPT !.may = may]]
      BY <1>1, <1>5, <2>1, <2>4 DEF Meta, client, Goto, TypeInv, TypeOK
    <3> HIDE DEF may
    <3>2. st'[c] = [NoState EXCEPT !.may = may]
      BY <1>1, <3>1 DEF TypeInv, TypeOK
    <3> QED
      BY <1>2, <2>2, <3>2
  <2>5. st'[c].ids = st[c].ids \/ st'[c].ids = NoIds
    <3>1. client' = client \/ pc'[c] = "met" \/ pc'[c] = "full"
      BY <1>1, <1>5 DEF Meta, client, Goto, TypeInv, TypeOK
    <3>2. client' = client => st'[c].ids = st[c].ids
      BY DEF client
    <3> QED
      BY <2>3, <2>4, <3>1, <3>2
  <2> QED
    BY <1>3, <2>1, <2>5, PlainLogsFine
<1>6. CASE Start(c)
  <2>1. /\ UNCHANGED <<clock, srv, col>> /\ work' = srv /\ sess'.ids = NoIds
        /\ wcol'[c] = MarkGraves(wcol[c], st[c].susn) /\ st'[c].ids = st[c].ids /\ pc'[c] = "graves"
    BY <1>1, <1>6 DEF Start, Goto, TypeInv, TypeOK, State, NoSession
  <2>2. wcol'[c].log = wcol[c].log
    BY <1>1, <2>1, MarkGravesIs
  <2> QED
    BY <2>1, <2>2, PlainLogsFine
<1>7. CASE SendGraves(c)
  <2>1. UNCHANGED <<clock, srv, sess, col, wcol>> /\ pc'[c] = "graves" /\ st'[c].ids = st[c].ids
        /\ \E t : work' = ApplyGraves(work, t, sess.usn)
    BY <1>1, <1>7 DEF SendGraves, TypeInv, TypeOK, State
  <2>2. work'.log = work.log
    BY <1>1, <2>1, ApplyGravesIs
  <2> QED
    BY <2>1, <2>2, PlainLogsFine
<1>8. CASE ApplyRemoteGraves(c)
  <2>1. UNCHANGED <<clock, srv, work, sess, col, st>> /\ pc'[c] = "changes"
        /\ wcol'[c] = ApplyGraves(wcol[c], st[c].remote, st[c].susn)
    BY <1>1, <1>8 DEF ApplyRemoteGraves, Goto, server, TypeInv, TypeOK
  <2>2. wcol'[c].log = wcol[c].log
    BY <1>1, <2>1, ApplyGravesIs
  <2> QED
    BY <2>1, <2>2, PlainLogsFine
<1>9. CASE SanityCheck(c)
  <2>1. UNCHANGED <<clock, srv, work, sess, col, wcol, st>> /\ pc'[c] = "finish"
    BY <1>1, <1>9 DEF SanityCheck, Goto, server, TypeInv, TypeOK
  <2> QED
    BY <2>1, PlainLogsFine
<1>10. CASE GiveUp(c) \/ CancelFull(c)
  <2>1. /\ UNCHANGED <<clock, srv, col>> /\ st'[c].ids = NoIds /\ pc'[c] = "idle"
        /\ NoActiveSession \/ UNCHANGED <<work, sess>>
        /\ wcol'[c] = col[c] \/ wcol'[c] = wcol[c]
    BY <1>1, <1>2, <1>10 DEF GiveUp, RollBack, CancelFull, server, TypeInv, TypeOK
  <2> QED
    BY <1>3, <2>1, PlainLogsFine
<1> QED
  BY <1>5, <1>6, <1>7, <1>8, <1>9, <1>10

LEMMA SendChangesLogsFine ==
  ASSUME LogInv, NEW c \in Clients, SendChanges(c), Alone(c)
  PROVE  LogsFine'
<1>1. UNCHANGED <<clock, srv, sess, col, st>> /\ pc'[c] = "pull"
      /\ work'.log = work.log /\ wcol'[c].log = wcol[c].log
  BY SendChangesIs DEF LogInv, SessionInv, ReviewInv
<1> QED
  BY <1>1, PlainLogsFine

LEMMA RemainingFine ==
  ASSUME LogsFine
  PROVE  Fine(Remaining.log, clock)
<1>1. CASE sess.chunking
  BY <1>1 DEF LogsFine, Remaining
<1>2. CASE ~sess.chunking
  <2>1. Remaining.log \in SUBSET work.log
    BY <1>2 DEF ChunkableIds, PendingReviews, Remaining
  <2> QED
    BY <2>1, FineSubset DEF LogsFine
<1> QED
  BY <1>1, <1>2

LEMMA PullChunkLogsFine ==
  ASSUME LogInv, NEW c \in Clients, PullChunk(c), Alone(c)
  PROVE  LogsFine'
<1>1. TypeInv /\ LogsFine
  BY DEF LogInv, SessionInv, ReviewInv
<1>2. Fine(Remaining.log, clock)
  BY <1>1, RemainingFine
<1>3. PICK t \in Chunks(Remaining) :
           /\ UNCHANGED <<clock, srv, work, col>>
           /\ t.log \subseteq Remaining.log
           /\ sess'.ids = Rest(Remaining, t)
           /\ \/ pc'[c] = "push" /\ st'[c].ids = ChunkableIds(wcol'[c], Pending)
              \/ pc'[c] = "pull" /\ st'[c] = st[c]
           /\ wcol'[c].log = wcol[c].log \cup Unknown(t.log, wcol[c])
  BY <1>1, PullChunkIs
<1>4. Fine(sess'.ids.log, clock)
  <2>1. sess'.ids.log \in SUBSET Remaining.log
    BY <1>3 DEF Rest
  <2> QED
    BY <1>2, <2>1, FineSubset
<1>5. Fine(wcol'[c].log, clock)
  <2>1. Fine(t.log, clock) /\ Fine(wcol[c].log, clock)
    BY <1>1, <1>2, <1>3, FineSubset DEF LogsFine
  <2> QED
    BY <1>3, <2>1, FineMerge
<1>6. /\ Fine(st'[c].ids.log, clock)
      /\ pc'[c] = "push" => st'[c].ids.log \subseteq wcol'[c].log
  <2>1. CASE pc'[c] = "push" /\ st'[c].ids = ChunkableIds(wcol'[c], Pending)
    <3>1. st'[c].ids.log \in SUBSET wcol'[c].log
      BY <2>1 DEF ChunkableIds, PendingReviews
    <3> QED
      BY <1>5, <3>1, FineSubset
  <2>2. CASE pc'[c] = "pull" /\ st'[c] = st[c]
    BY <1>1, <2>2 DEF LogsFine
  <2> QED
    BY <1>3, <2>1, <2>2
<1> QED
  BY <1>1, <1>3, <1>4, <1>5, <1>6, LogsStayFine DEF LogsFine

LEMMA PushChunkLogsFine ==
  ASSUME LogInv, NEW c \in Clients, PushChunk(c), Alone(c)
  PROVE  LogsFine'
<1>1. /\ TypeInv /\ LogsFine /\ st[c].susn \in Nat /\ wcol[c].log \in SUBSET ReviewsOf("device")
  BY Typed, LogTypes DEF LogInv, SessionInv, ReviewInv
<1>2. PICK t \in Chunks(st[c].ids) :
           /\ pc[c] = "push" /\ UNCHANGED <<clock, srv, sess, col>>
           /\ t.log \subseteq st[c].ids.log
           /\ st'[c].ids = Rest(st[c].ids, t)
           /\ wcol'[c].log = (wcol[c].log \ t.log) \cup Marked(t.log, st[c].susn)
           /\ work'.log = work.log \cup Unknown(Marked(t.log, st[c].susn), work)
  BY <1>1, PushChunkIs
<1>3. t.log \in SUBSET wcol[c].log /\ Fine(wcol[c].log, clock) /\ Fine(work.log, clock)
  BY <1>1, <1>2 DEF LogsFine
<1> DEFINE reviews == Marked(t.log, st[c].susn)
<1>4. Fine(reviews, clock) /\ Fine((wcol[c].log \ t.log) \cup reviews, clock)
  <2>1. Fine((wcol[c].log \ t.log) \cup reviews, clock)
    BY <1>1, <1>3, FineRemarked
  <2> QED
    BY <2>1, FineSubset
<1> HIDE DEF reviews
<1>5. /\ UNCHANGED <<clock, srv, sess, col>> /\ wcol'[c].log = (wcol[c].log \ t.log) \cup reviews
      /\ work'.log = work.log \cup Unknown(reviews, work)
      /\ st'[c].ids.log = st[c].ids.log \ t.log
  BY <1>2 DEF reviews, Rest
<1>6. Fine(work'.log, clock)
  BY <1>3, <1>4, <1>5, FineMerge
<1>7. Fine(st'[c].ids.log, clock) /\ st'[c].ids.log \subseteq wcol'[c].log
  <2>1. st[c].ids.log \subseteq wcol[c].log /\ Fine(st[c].ids.log, clock)
    BY <1>1, <1>2 DEF LogsFine
  <2>2. st'[c].ids.log \in SUBSET st[c].ids.log
    BY <1>5
  <2> QED
    BY <1>5, <2>1, <2>2, FineSubset
<1> QED
  BY <1>1, <1>4, <1>5, <1>6, <1>7, LogsStayFine DEF LogsFine

LEMMA EndsLogsFine ==
  ASSUME LogInv, NEW c \in Clients, Alone(c),
         \/ SanityFailed(c) \/ Finish(c) \/ FinishLost(c) \/ FinishCrash(c)
         \/ ChooseUpload(c) \/ Upload(c) \/ Download(c) \/ DownloadLost(c)
  PROVE  LogsFine'
<1>1. /\ TypeInv /\ LogsFine /\ st[c] \in State /\ wcol[c] \in Collection("device")
      /\ col[c] \in Collection("device") /\ work \in Collection("server") /\ srv \in Collection("server")
      /\ clock \in Nat /\ clock + 1 \in Nat /\ Now = clock + 1
  BY Typed DEF LogInv, SessionInv, ReviewInv, Now
<1>2. NoState.ids = NoIds /\ NoSession.ids = NoIds
  BY DEF NoState, NoSession
<1>3. NoActiveSession => sess'.ids = NoIds /\ work'.log = srv'.log
  BY <1>2 DEF NoActiveSession
<1>4. /\ Committed(work).log = work.log /\ Stamped(Committed(work)).log = work.log
  BY <1>1, CommittedType DEF Committed, Stamped, Collection
<1>5. CASE SanityFailed(c)
  <2>1. /\ clock' = clock + 1 /\ UNCHANGED srv /\ work' = srv /\ (sess' = sess \/ sess'.ids = NoIds)
        /\ col'[c] = [col[c] EXCEPT !.scm = Now] /\ wcol'[c] = col'[c]
        /\ pc'[c] = "idle" /\ st'[c].ids = NoIds
    BY <1>1, <1>2, <1>5 DEF SanityFailed, TypeInv, TypeOK
  <2>2. col'[c].log = col[c].log
    BY <1>1, <2>1 DEF Collection
  <2> QED
    BY <2>1, <2>2, PlainLogsFine
<1>6. CASE Finish(c)
  <2>1. /\ clock' = clock + 1 /\ srv'.log = work.log /\ NoActiveSession
        /\ \E u, n : col'[c] = [wcol[c] EXCEPT !.usn = u, !.mod = n, !.ls = n]
        /\ wcol'[c] = col'[c] /\ pc'[c] = "idle" /\ st'[c].ids = NoIds
    BY <1>1, <1>2, <1>4, <1>6 DEF Finish, TypeInv, TypeOK
  <2>2. col'[c].log = wcol[c].log
    BY <1>1, <2>1 DEF Collection
  <2> QED
    BY <1>3, <2>1, <2>2, PlainLogsFine
<1>7. CASE FinishLost(c) \/ FinishCrash(c)
  <2>1. /\ clock' = clock + 1 /\ srv'.log = work.log /\ NoActiveSession
        /\ col'[c] = col[c] /\ wcol'[c] = col[c] /\ pc'[c] = "idle" /\ st'[c].ids = NoIds
    BY <1>1, <1>2, <1>4, <1>7 DEF FinishLost, FinishCrash, RollBack, TypeInv, TypeOK
  <2> QED
    BY <1>3, <2>1, PlainLogsFine
<1>8. CASE ChooseUpload(c)
  <2>1. /\ clock' = clock + 1 /\ UNCHANGED <<srv, work, sess, st>>
        /\ col'[c] = ForUpload(col[c]) /\ wcol'[c] = col'[c] /\ pc'[c] = "uploading"
    BY <1>1, <1>8 DEF ChooseUpload, Goto, server, TypeInv, TypeOK
  <2>2. /\ Fine(srv.log, clock + 1) /\ Fine(work.log, clock + 1) /\ Fine(sess.ids.log, clock + 1)
        /\ Fine(col[c].log, clock + 1) /\ Fine(st[c].ids.log, clock + 1)
    BY <1>1, StillFine
  <2>3. Fine(col'[c].log, clock + 1)
    BY <1>1, <2>1, <2>2, FineForUpload
  <2> QED
    BY <2>1, <2>2, <2>3, LogsStayFine
<1>9. CASE Upload(c)
  <2>1. /\ UNCHANGED <<clock, col, wcol>> /\ srv' = col[c] /\ NoActiveSession
        /\ pc'[c] = "idle" /\ st'[c].ids = NoIds
    BY <1>1, <1>2, <1>9 DEF Upload, Goto, TypeInv, TypeOK
  <2> QED
    BY <1>3, <2>1, PlainLogsFine
<1>10. CASE Download(c) \/ DownloadLost(c)
  <2>1. /\ clock' = clock + 1 /\ NoActiveSession /\ pc'[c] = "idle" /\ st'[c].ids = NoIds
        /\ \E n, m : srv' = [srv EXCEPT !.usn = n, !.mod = m]
    BY <1>1, <1>2, <1>10 DEF Download, DownloadLost, ServeDownload, TypeInv, TypeOK
  <2>2. srv'.log = srv.log
    BY <1>1, <2>1 DEF Collection
  <2>3. CASE Download(c)
    <3>1. srv' \in Collection("server") /\ (\E n : col'[c] = [srv' EXCEPT !.ls = n]) /\ wcol'[c] = col'[c]
      BY <1>1, <2>3, FullSyncType DEF Download, TypeInv, TypeOK
    <3>2. col'[c].log = srv.log
      BY <2>2, <3>1 DEF Collection
    <3> QED
      BY <1>3, <2>1, <2>2, <3>1, <3>2, PlainLogsFine
  <2>4. CASE DownloadLost(c)
    BY <1>3, <2>1, <2>2, <2>4, PlainLogsFine DEF DownloadLost
  <2> QED
    BY <1>10, <2>3, <2>4
<1> QED
  BY <1>5, <1>6, <1>7, <1>8, <1>9, <1>10

LEMMA LogsFineStep == LogInv /\ [Next]_vars => LogsFine'
<1> SUFFICES ASSUME LogInv, [Next]_vars PROVE LogsFine'
  OBVIOUS
<1>1. TypeInv /\ LogsFine
  BY DEF LogInv, SessionInv, ReviewInv
<1>2. CASE UNCHANGED vars
  BY <1>1, <1>2 DEF vars, LogsFine
<1>3. CASE ServerCrash
  <2>1. /\ UNCHANGED <<clock, srv, col, wcol, pc, st>> /\ work'.log = srv.log
        /\ Fine(sess'.ids.log, clock)
    BY <1>3, NewIds DEF ServerCrash, client, NoActiveSession
  <2> QED
    BY <1>1, <2>1 DEF LogsFine
<1>4. ASSUME NEW c \in Clients, Local(c) \/ Meta(c) \/ Proceed(c) \/ Fault(c)
      PROVE  LogsFine'
  <2>1. Alone(c)
    BY <1>1, <1>4, StepsAreAlone
  <2> QED
    BY <1>4, <2>1, LocalLogsFine, OpeningLogsFine, SendChangesLogsFine, PullChunkLogsFine,
       PushChunkLogsFine, EndsLogsFine DEF Proceed, Fault, Conflict, Fail
<1> QED
  BY <1>2, <1>3, <1>4 DEF Next

LEMMA LogsFineInit == Init => LogsFine
<1> SUFFICES ASSUME Init PROVE LogsFine
  OBVIOUS
<1>1. Uploaded.log = {} /\ Downloaded.log = {} /\ Fresh.log = {} /\ [Downloaded EXCEPT !.ls = 1].log = {}
  BY DEF Uploaded, Downloaded, Fresh
<1>2. /\ srv.log = {} /\ work.log = {} /\ sess.ids = NoIds
      /\ \A c \in Clients : col[c].log = {} /\ wcol[c].log = {} /\ st[c].ids = NoIds /\ pc[c] = "idle"
  BY <1>1 DEF Init, NoSession, NoState
<1> QED
  BY <1>2, FineEmpty, NoIdsFine DEF LogsFine

LEMMA LogInvInit == Init => LogInv
  BY SessionInit, LogsFineInit DEF LogInv

LEMMA LogInvStep == LogInv /\ [Next]_vars => LogInv'
  BY SessionInvStep, LogsFineStep DEF LogInv

-----------------------------------------------------------------------------
(* Objects: what a device and the server agree on, object by object.       *)

(* One second to a tick, so that stamps order edits as the merges see them; *)
(* nobody gets between another's `meta` and `start`, and no deleted id      *)
(* comes back.                                                              *)
Timely == TicksPerSecond = 1 /\ "overtake" \notin Events /\ "reimport" \notin Events

Excl(k, o) == k.grave[o] # NoGrave => ~Present(k, o)
Same(k, l, o) == k.obj[o].ver = l.obj[o].ver

(* A device k whose last sync left it at usn u, and the server s: a         *)
(* deletion the device does not know will be fetched, one it knows is the   *)
(* server's, a difference will be sent or fetched, and a row that will not  *)
(* be sent is no newer than the server's.                                   *)
Agrees(k, s, u, o) ==
  /\ s.grave[o] # NoGrave /\ Present(k, o) => s.grave[o] >= u
  /\ k.grave[o] \notin {NoGrave, Pending} => s.grave[o] # NoGrave
  /\ \/ Same(k, s, o) \/ k.obj[o].usn = Pending \/ k.grave[o] = Pending
     \/ NewRow(s, o, u) \/ (~Present(s, o) /\ s.grave[o] >= u)
  /\ Present(k, o) /\ k.obj[o].usn # Pending /\ Present(s, o) => k.obj[o].ver <= s.obj[o].ver

(* What a savepoint b at usn n has done to an object of the commit s.       *)
Grows(b, s, n, o) ==
  /\ \/ b.obj[o] = s.obj[o]
     \/ Present(b, o) /\ b.obj[o].usn = n
     \/ ~Present(b, o) /\ (~Present(s, o) \/ b.grave[o] = n)
  /\ \/ b.grave[o] = s.grave[o]
     \/ s.grave[o] = NoGrave /\ b.grave[o] = n
  /\ Excl(b, o)

(* The stages of a session: k is the device's collection, w the same inside *)
(* its transaction, s and b the server's.                                   *)
Deleted(k, o, left) == k.grave[o] = Pending /\ ~left
GravesAt(k, w, b, s, u, n, o, left, remote) ==
  /\ left => k.grave[o] = Pending
  /\ remote <=> s.grave[o] >= u
  /\ Deleted(k, o, left) => ~Present(b, o) /\ b.grave[o] # NoGrave
  /\ ~Deleted(k, o, left) => b.obj[o] = s.obj[o] /\ b.grave[o] = s.grave[o]
  /\ w.obj[o] = k.obj[o]
  /\ w.grave[o] = IF k.grave[o] = Pending THEN n ELSE k.grave[o]

Tombs(w, b, o) ==
  /\ w.grave[o] # NoGrave => b.grave[o] # NoGrave
  /\ Present(w, o) => b.grave[o] = NoGrave

ChangesAt(k, w, b, s, u, o) ==
  /\ w.obj[o] = k.obj[o] \/ ~Present(w, o)
  /\ b.obj[o] = s.obj[o] \/ ~Present(b, o)
  /\ Same(w, b, o) \/ PendRow(w, o) \/ NewRow(b, o, u)

Merged(w, b, o) == Same(w, b, o) /\ w.obj[o].usn # Pending

NotOlder(w, b, u, o) == PendRow(w, o) /\ NewRow(b, o, u) => b.obj[o].ver <= w.obj[o].ver
PullAt(w, b, u, o, rest) ==
  /\ Same(w, b, o) \/ PendRow(w, o) \/ rest
  /\ rest \/ NotOlder(w, b, u, o)
PushAt(w, b, u, o, listed) ==
  /\ listed \/ Merged(w, b, o)
  /\ NotOlder(w, b, u, o)

(* Types of what the lemmas speak of.                                       *)
Ty(k, o) ==
  /\ k.obj[o].ver \in Nat /\ k.obj[o].usn \in Int /\ k.obj[o].usn >= Pending
  /\ k.grave[o] \in Int /\ k.grave[o] >= NoGrave
TyS(k, o) == Ty(k, o) /\ k.obj[o].usn \in Nat /\ k.grave[o] # Pending

LEMMA TyIs ==
  /\ \A k \in Collection("device") : \A o \in Objects : Ty(k, o)
  /\ \A k \in Collection("server") : \A o \in Objects : Ty(k, o) /\ TyS(k, o)
  BY FieldTypes, ServerTypes DEF Ty, TyS

LEMMA SecsIs ==
  ASSUME Timely
  PROVE  \A v \in Nat : Secs(v) = v
  BY DEF Timely, Secs

(* A commit keeps a device that did not take part in agreement.             *)
LEMMA AgreesAdvance ==
  ASSUME NEW k, NEW s, NEW b, NEW o, Ty(k, o), TyS(s, o), TyS(b, o), NEW u \in Nat, NEW n \in Nat,
         u <= n, Agrees(k, s, u, o), Excl(k, o), Grows(b, s, n, o),
         Present(s, o) /\ Present(b, o) => s.obj[o].ver <= b.obj[o].ver
  PROVE  Agrees(k, b, u, o)
  BY DEF Agrees, Grows, Excl, Present, Ty, TyS, Same, NewRow

LEMMA AgreesEnd ==
  ASSUME NEW w, NEW b, NEW o, NEW u, Ty(w, o), Ty(b, o), Same(w, b, o), Excl(b, o), Tombs(w, b, o)
  PROVE  Agrees(w, b, u, o) /\ Excl(w, o)
  BY DEF Agrees, Excl, Present, Ty, Same, Tombs

(* start: the device's new graves are marked.                               *)
LEMMA StartAt ==
  ASSUME NEW k, NEW w, NEW s, NEW o, Ty(k, o), TyS(s, o), NEW u \in Nat, NEW n \in Nat, Excl(s, o),
         NEW left, NEW remote, left <=> k.grave[o] = Pending, remote <=> s.grave[o] >= u,
         w.obj[o] = k.obj[o], w.grave[o] = IF k.grave[o] = Pending THEN n ELSE k.grave[o]
  PROVE  /\ GravesAt(k, w, s, s, u, n, o, left, remote)
         /\ Grows(s, s, n, o) /\ w.grave[o] # Pending
  BY DEF GravesAt, Grows, Excl, Present, Ty, Deleted

(* Some graves arrive at the server.                                        *)
LEMMA SendGravesAt ==
  ASSUME NEW k, NEW w, NEW s, NEW b, NEW l, NEW o, Ty(k, o), TyS(s, o), TyS(b, o), NEW u \in Nat, NEW n \in Nat,
         NEW left, NEW rem, NEW sent, left \in BOOLEAN, sent \in BOOLEAN, sent => left,
         GravesAt(k, w, b, s, u, n, o, left, rem), Grows(b, s, n, o),
         sent => ~Present(l, o) /\ l.grave[o] = IF b.grave[o] = NoGrave THEN n ELSE b.grave[o],
         ~sent => l.obj[o] = b.obj[o] /\ l.grave[o] = b.grave[o]
  PROVE  GravesAt(k, w, l, s, u, n, o, left /\ ~sent, rem) /\ Grows(l, s, n, o)
  BY DEF GravesAt, Grows, Excl, Present, Ty, TyS, Deleted

(* The server's graves arrive at the device.                                *)
LEMMA RemoteGravesAt ==
  ASSUME NEW k, NEW w, NEW s, NEW b, NEW l, NEW o, Ty(k, o), TyS(s, o), TyS(b, o), NEW u \in Nat, NEW n \in Nat,
         NEW rem, rem \in BOOLEAN, GravesAt(k, w, b, s, u, n, o, FALSE, rem), Grows(b, s, n, o),
         Agrees(k, s, u, o), Excl(k, o), Excl(s, o), k.obj[o].usn = Pending => Present(k, o),
         rem => ~Present(l, o) /\ l.grave[o] = IF w.grave[o] = NoGrave THEN n ELSE w.grave[o],
         ~rem => l.obj[o] = w.obj[o] /\ l.grave[o] = w.grave[o]
  PROVE  ChangesAt(k, l, b, s, u, o) /\ Tombs(l, b, o) /\ l.grave[o] # Pending
  BY DEF GravesAt, Grows, Agrees, Excl, Present, Ty, TyS, Deleted, ChangesAt, Tombs, Same, PendRow, NewRow

(* An object that travels in one message: there and here are what becomes   *)
(* of b and w.                                                              *)
LEMMA SendChangesAt ==
  ASSUME NEW k, NEW w, NEW s, NEW b, NEW there, NEW sent, NEW here, NEW o,
         Ty(k, o), Ty(w, o), TyS(s, o), TyS(b, o), NEW u \in Nat, NEW n \in Nat,
         Agrees(k, s, u, o), ChangesAt(k, w, b, s, u, o), Tombs(w, b, o), Grows(b, s, n, o),
         w.obj[o].usn = Pending => w.obj[o] = k.obj[o] /\ Present(k, o),
         Present(b, o) /\ b.obj[o].usn < u /\ k.obj[o].usn = Pending => b.obj[o].ver <= k.obj[o].ver,
         PendRow(w, o) => sent.obj[o].ver = w.obj[o].ver /\ sent.obj[o].usn = n,
         ~PendRow(w, o) => sent.obj[o] = w.obj[o],
         there.grave[o] = b.grave[o], here.grave[o] = w.grave[o],
         IF PendRow(w, o) /\ (~Present(b, o) \/ b.obj[o].ver <= sent.obj[o].ver)
         THEN there.obj[o] = sent.obj[o] ELSE there.obj[o] = b.obj[o],
         IF NewRow(b, o, u) /\ (~Present(sent, o) \/ sent.obj[o].ver <= b.obj[o].ver)
         THEN here.obj[o] = b.obj[o] ELSE here.obj[o] = sent.obj[o]
  PROVE  Merged(here, there, o) /\ Tombs(here, there, o) /\ Grows(there, s, n, o)
  BY DEF Grows, Agrees, Excl, Present, Ty, TyS, ChangesAt, Tombs, Same, PendRow, NewRow, Merged

(* A chunk of the server's.                                                 *)
LEMMA PullAtStart ==
  ASSUME NEW k, NEW w, NEW b, NEW s, NEW u, NEW o, ChangesAt(k, w, b, s, u, o)
  PROVE  PullAt(w, b, u, o, NewRow(b, o, u))
  BY DEF ChangesAt, PullAt, NotOlder

LEMMA PullChunkAt ==
  ASSUME NEW w, NEW b, NEW l, NEW o, Ty(w, o), TyS(b, o), NEW u \in Nat, NEW rest, NEW got,
         rest \in BOOLEAN, got \in BOOLEAN, PullAt(w, b, u, o, rest), Tombs(w, b, o), Excl(b, o),
         l.grave[o] = w.grave[o],
         IF got /\ (~Present(w, o) \/ w.obj[o].usn # Pending \/ w.obj[o].ver < b.obj[o].ver)
         THEN l.obj[o] = b.obj[o] ELSE l.obj[o] = w.obj[o]
  PROVE  PullAt(l, b, u, o, rest /\ ~got) /\ Tombs(l, b, o)
  BY DEF Excl, Present, Ty, TyS, PullAt, Tombs, Same, PendRow, NewRow, NotOlder

LEMMA PushAtStart ==
  ASSUME NEW w, NEW b, NEW u, NEW o, PullAt(w, b, u, o, FALSE),
         w.obj[o].usn = Pending => Present(w, o)
  PROVE  PushAt(w, b, u, o, PendRow(w, o))
  BY DEF PullAt, PushAt, Merged, PendRow

LEMMA PushChunkAt ==
  ASSUME NEW w, NEW b, NEW s, NEW l, NEW m, NEW o, Ty(w, o), TyS(b, o), NEW u \in Nat, NEW n \in Nat,
         NEW listed, NEW got, listed \in BOOLEAN, got \in BOOLEAN,
         PushAt(w, b, u, o, listed), Tombs(w, b, o), Grows(b, s, n, o),
         got => PendRow(w, o),
         got => l.obj[o].ver = w.obj[o].ver /\ l.obj[o].usn = n,
         ~got => l.obj[o] = w.obj[o],
         l.grave[o] = w.grave[o], m.grave[o] = b.grave[o],
         IF got /\ (~Present(b, o) \/ b.obj[o].usn < u \/ b.obj[o].ver < l.obj[o].ver)
         THEN m.obj[o] = l.obj[o] ELSE m.obj[o] = b.obj[o]
  PROVE  /\ PushAt(l, m, u, o, listed /\ ~got) /\ Tombs(l, m, o) /\ Grows(m, s, n, o)
  BY DEF Grows, Excl, Present, Ty, TyS, PushAt, Tombs, Same, PendRow, NewRow, NotOlder, Merged
-----------------------------------------------------------------------------
(* The invariant: the same for every object, by stages of the session.      *)

Rests(b, z) == (IF z.chunking THEN z.ids ELSE ChunkableIds(b, z.cusn)).objs

ObjAt(k, w, b, s, stage, x, z, o) ==
  /\ Grows(b, s, s.usn, o) /\ w.grave[o] # Pending
  /\ stage = "graves" => GravesAt(k, w, b, s, k.usn, s.usn, o, o \in x.graves, o \in x.remote)
  /\ stage # "graves" => Tombs(w, b, o)
  /\ stage = "changes" => ChangesAt(k, w, b, s, k.usn, o)
  /\ stage \in {"pull", "push"} /\ o \in Decks => Merged(w, b, o)
  /\ stage = "pull" /\ o \in Cards => PullAt(w, b, k.usn, o, o \in Rests(b, z))
  /\ stage = "push" /\ o \in Cards => PushAt(w, b, k.usn, o, o \in x.ids.objs)
  /\ stage \in {"sanity", "finish"} => Merged(w, b, o)

OpenAt(k, w, b, s, stage, x, z) ==
  /\ x.susn = s.usn /\ k.scm = s.scm
  /\ stage \in {"graves", "changes"} => ~z.chunking
  /\ \A o \in Objects : ObjAt(k, w, b, s, stage, x, z, o)

CommitAt(k, s, stage, x) ==
  /\ \A o \in Objects : Excl(k, o)
  /\ k.scm = s.scm => \A o \in Objects : Agrees(k, s, k.usn, o)
  /\ stage = "met" => x.susn = s.usn /\ k.scm = s.scm

DeviceAgrees(c) ==
  /\ CommitAt(col[c], srv, pc[c], st[c])
  /\ Owns(c) /\ InSession(c) => OpenAt(col[c], wcol[c], work, srv, pc[c], st[c], sess)

AgreeParts == (\A o \in Objects : Excl(srv, o)) /\ \A c \in Clients : DeviceAgrees(c)
AgreeInv == LogInv /\ AgreeParts

LEMMA AgreeFacts ==
  ASSUME AgreeInv, NEW c \in Clients
  PROVE  /\ col[c].usn \in Nat /\ srv.usn \in Nat
         /\ \A o \in Objects : /\ Ty(col[c], o) /\ Ty(wcol[c], o) /\ Ty(srv, o) /\ Ty(work, o)
                               /\ TyS(srv, o) /\ TyS(work, o) /\ Excl(srv, o) /\ Excl(col[c], o)
                               /\ col[c].obj[o].usn = Pending => Present(col[c], o)
                               /\ wcol[c].obj[o].usn = Pending => wcol[c].obj[o] = col[c].obj[o]
                               /\ wcol[c].obj[o].usn = Pending => Present(wcol[c], o)
<1>1. TypeInv /\ SessionParts
  BY DEF AgreeInv, LogInv, SessionInv, ReviewInv
<1>2. /\ col[c].usn \in Nat /\ srv.usn \in Nat
      /\ \A o \in Objects : /\ Ty(col[c], o) /\ Ty(wcol[c], o) /\ Ty(srv, o) /\ Ty(work, o)
                            /\ TyS(srv, o) /\ TyS(work, o)
  BY <1>1, Typed, FieldTypes, TyIs
<1>3. \A o \in Objects : Excl(srv, o) /\ Excl(col[c], o)
  BY DEF AgreeInv, AgreeParts, DeviceAgrees, CommitAt
<1>4. ShowsPending(col[c]) /\ PendingInside(c)
  BY <1>1 DEF SessionParts, AttemptSound
<1> QED
  BY <1>2, <1>3, <1>4 DEF ShowsPending, PendingInside, Present

LEMMA OpenFacts ==
  ASSUME AgreeInv, Timely, NEW c \in Clients, Owns(c), InSession(c)
  PROVE  /\ st[c].susn = srv.usn /\ sess.usn = srv.usn /\ sess.cusn = col[c].usn
         /\ col[c].usn <= srv.usn /\ col[c].scm = srv.scm
         /\ OpenAt(col[c], wcol[c], work, srv, pc[c], st[c], sess)
         /\ \A o \in Objects :
              /\ Agrees(col[c], srv, col[c].usn, o)
              /\ ObjAt(col[c], wcol[c], work, srv, pc[c], st[c], sess, o)
              /\ Present(work, o) /\ work.obj[o].usn < col[c].usn /\ col[c].obj[o].usn = Pending
                   => work.obj[o].ver <= col[c].obj[o].ver
<1>1. TypeInv /\ SessionParts /\ DeviceAgrees(c)
  BY DEF AgreeInv, LogInv, SessionInv, ReviewInv, AgreeParts
<1>2. OpenAt(col[c], wcol[c], work, srv, pc[c], st[c], sess)
  BY <1>1 DEF DeviceAgrees
<1>3. st[c].susn = srv.usn /\ col[c].scm = srv.scm
      /\ \A o \in Objects : ObjAt(col[c], wcol[c], work, srv, pc[c], st[c], sess, o)
  BY <1>2 DEF OpenAt
<1>4. sess.usn = srv.usn /\ sess.cusn = col[c].usn /\ col[c].usn <= srv.usn
  <2>1. Basis /\ AttemptSound(c) /\ Behind(c) /\ Nobody \notin Clients
    BY <1>1, Typed DEF SessionParts
  <2> QED
    BY <1>3, <2>1 DEF Basis, AttemptSound, Behind, Owns, Attempting
<1>5. Sooner(work, c)
  BY <1>1, <1>3 DEF SessionParts, Ordered
<1> QED
  BY <1>1, <1>2, <1>3, <1>4, <1>5 DEF DeviceAgrees, CommitAt, Sooner

(* The other devices, while the server's commit stays or goes on.           *)
LEMMA OthersAgree ==
  ASSUME AgreeInv, NEW c \in Clients, Alone(c), NEW d \in Clients, d # c,
         Owns(d)' => UNCHANGED <<srv, work, sess>>,
         \/ UNCHANGED srv
         \/ /\ pc[d] # "met"
            /\ col[d].scm = srv'.scm => \A o \in Objects : Agrees(col[d], srv', col[d].usn, o)
  PROVE  DeviceAgrees(d)'
<1>1. /\ col'[d] = col[d] /\ wcol'[d] = wcol[d] /\ pc'[d] = pc[d] /\ st'[d] = st[d]
      /\ DeviceAgrees(d)
  BY DEF Alone, AgreeInv, AgreeParts
<1>2. CommitAt(col'[d], srv', pc'[d], st'[d])
  BY <1>1 DEF DeviceAgrees, CommitAt
<1>3. ASSUME Owns(d)', InSession(d)'
      PROVE  OpenAt(col'[d], wcol'[d], work', srv', pc'[d], st'[d], sess')
  <2>1. sess' = sess /\ work' = work /\ srv' = srv /\ InSession(d) /\ Owns(d)
    BY <1>1, <1>3 DEF InSession, Owns
  <2> QED
    BY <1>1, <2>1 DEF DeviceAgrees
<1> QED
  BY <1>2, <1>3 DEF DeviceAgrees, CommitAt, OpenAt

(* A request of a session.                                                  *)
LEMMA RequestAgrees ==
  ASSUME AgreeInv, NEW c \in Clients, SessionStep(c),
         Owns(c) => /\ pc'[c] \in {"graves", "changes"} => ~sess'.chunking
                    /\ \A o \in Objects :
                         ObjAt(col[c], wcol'[c], work', srv, pc'[c], st'[c], sess', o)
  PROVE  AgreeParts'
<1>1. ASSUME NEW d \in Clients, d # c
      PROVE  DeviceAgrees(d)'
  <2>1. Owns(d)' => UNCHANGED <<srv, work, sess>>
    BY <1>1 DEF SessionStep, Owns
  <2> QED
    BY <1>1, <2>1, OthersAgree DEF SessionStep
<1>2. DeviceAgrees(c)'
  <2>1. DeviceAgrees(c) /\ InSession(c) /\ InSession(c)'
    BY DEF AgreeInv, AgreeParts, SessionStep
  <2>2. CommitAt(col[c]', srv', pc[c]', st[c]')
    BY <2>1 DEF DeviceAgrees, CommitAt, SessionStep, InSession
  <2>3. ASSUME Owns(c)'
        PROVE  OpenAt(col[c]', wcol[c]', work', srv', pc[c]', st[c]', sess')
    <3>1. Owns(c)
      BY <2>3 DEF Owns, SessionStep
    <3> QED
      BY <2>1, <3>1 DEF DeviceAgrees, OpenAt, SessionStep
  <2> QED
    BY <2>2, <2>3 DEF DeviceAgrees, CommitAt, OpenAt
<1>3. \A o \in Objects : Excl(srv, o)'
  BY DEF SessionStep, AgreeInv, AgreeParts, Excl, Present
<1> QED
  BY <1>1, <1>2, <1>3 DEF AgreeParts
-----------------------------------------------------------------------------
(* The requests one by one.                                                *)

LEMMA SendGravesAgrees ==
  ASSUME AgreeInv, Timely, NEW c \in Clients, SendGraves(c)
  PROVE  AgreeParts'
<1>1. PICK t \in GraveChunks(st[c].graves) : /\ work' = ApplyGraves(work, t, sess.usn)
                                             /\ st' = [st EXCEPT ![c].graves = @ \ t]
  BY DEF SendGraves
<1>2. /\ pc[c] = "graves" /\ Owns(c) /\ UNCHANGED <<clock, srv, sess, col, wcol, pc>>
      /\ t \subseteq st[c].graves /\ InSession(c)
  BY DEF SendGraves, GraveChunks, InSession
<1>3. TypeInv
  BY DEF AgreeInv, LogInv, SessionInv, ReviewInv
<1>4. /\ SameStamps(work, work') /\ work'.log = work.log
      /\ \A o \in Objects :
           /\ o \in t => work'.obj[o] = Absent
           /\ o \notin t => work'.obj[o] = work.obj[o]
           /\ o \in t /\ work.grave[o] = NoGrave => work'.grave[o] = sess.usn
           /\ o \notin t \/ work.grave[o] # NoGrave => work'.grave[o] = work.grave[o]
  BY <1>1, <1>3, ApplyGravesIs, Typed
<1>5. /\ st'[c].susn = st[c].susn /\ st'[c].cusn = st[c].cusn /\ st'[c].remote = st[c].remote
      /\ st'[c].graves = st[c].graves \ t /\ st'[c].ids = st[c].ids
  BY <1>1, <1>3, Typed DEF TypeInv, TypeOK, State
<1>6. SessionStep(c)
  BY <1>2, <1>3, <1>4, <1>5, StepsAreAlone DEF SessionStep, InSession, SameStamps, Proceed
<1>7. work' \in Collection("server")
  BY <1>3, GravesType DEF TypeInv, TypeOK
<1>8. ASSUME NEW o \in Objects
      PROVE  ObjAt(col[c], wcol'[c], work', srv, pc'[c], st'[c], sess', o)
  <2>1. /\ ObjAt(col[c], wcol[c], work, srv, pc[c], st[c], sess, o)
        /\ sess.usn = srv.usn /\ Ty(col[c], o) /\ TyS(srv, o) /\ TyS(work, o) /\ TyS(work', o)
        /\ col[c].usn \in Nat /\ srv.usn \in Nat
    BY <1>2, <1>7, OpenFacts, AgreeFacts, TyIs
  <2>2. /\ o \in t => ~Present(work', o)
                      /\ work'.grave[o] = IF work.grave[o] = NoGrave THEN srv.usn ELSE work.grave[o]
        /\ o \notin t => work'.obj[o] = work.obj[o] /\ work'.grave[o] = work.grave[o]
        /\ o \in t => o \in st[c].graves
    BY <1>2, <1>4, <2>1, AbsentIs
  <2> DEFINE left == o \in st[c].graves
             rem == o \in st[c].remote
             gone == o \in t
  <2>3. GravesAt(col[c], wcol[c], work', srv, col[c].usn, srv.usn, o, left /\ ~gone, rem)
        /\ Grows(work', srv, srv.usn, o)
    <3>1. GravesAt(col[c], wcol[c], work, srv, col[c].usn, srv.usn, o, left, rem)
          /\ Grows(work, srv, srv.usn, o)
      BY <1>2, <2>1 DEF ObjAt
    <3>2. left \in BOOLEAN /\ gone \in BOOLEAN /\ (gone => left)
      BY <2>2
    <3>3. /\ gone => ~Present(work', o)
                     /\ work'.grave[o] = IF work.grave[o] = NoGrave THEN srv.usn ELSE work.grave[o]
          /\ ~gone => work'.obj[o] = work.obj[o] /\ work'.grave[o] = work.grave[o]
      BY <2>2
    <3> HIDE DEF left, rem, gone
    <3> QED
      BY <2>1, <3>1, <3>2, <3>3, SendGravesAt
  <2>4. GravesAt(col[c], wcol[c], work', srv, col[c].usn, srv.usn, o, o \in st'[c].graves, o \in st'[c].remote)
    BY <1>5, <2>3 DEF GravesAt, Deleted
  <2> QED
    BY <1>2, <2>1, <2>3, <2>4 DEF ObjAt
<1>9. sess'.chunking = FALSE
  BY <1>2, <1>3, OpenFacts, Typed DEF OpenAt, Session
<1> QED
  BY <1>6, <1>8, <1>9, RequestAgrees

LEMMA ApplyRemoteGravesAgrees ==
  ASSUME AgreeInv, Timely, NEW c \in Clients, ApplyRemoteGraves(c)
  PROVE  AgreeParts'
<1>1. TypeInv
  BY DEF AgreeInv, LogInv, SessionInv, ReviewInv
<1>2. /\ pc[c] = "graves" /\ st[c].graves = {} /\ UNCHANGED <<clock, srv, work, sess, col, st>>
      /\ wcol'[c] = ApplyGraves(wcol[c], st[c].remote, st[c].susn) /\ pc'[c] = "changes"
      /\ InSession(c)
  BY <1>1 DEF ApplyRemoteGraves, server, Goto, TypeInv, TypeOK, InSession
<1>3. \A o \in Objects : /\ o \in st[c].remote => wcol'[c].obj[o] = Absent
                         /\ o \notin st[c].remote => wcol'[c].obj[o] = wcol[c].obj[o]
                         /\ o \in st[c].remote /\ wcol[c].grave[o] = NoGrave => wcol'[c].grave[o] = st[c].susn
                         /\ o \notin st[c].remote \/ wcol[c].grave[o] # NoGrave
                              => wcol'[c].grave[o] = wcol[c].grave[o]
  BY <1>1, <1>2, ApplyGravesIs, Typed
<1>4. SessionStep(c)
  BY <1>1, <1>2, StepsAreAlone DEF SessionStep, InSession, Proceed
<1>5. ASSUME Owns(c), NEW o \in Objects
      PROVE  ObjAt(col[c], wcol'[c], work', srv, pc'[c], st'[c], sess', o)
  <2> DEFINE rem == o \in st[c].remote
             left == o \in st[c].graves
  <2>1. /\ ObjAt(col[c], wcol[c], work, srv, pc[c], st[c], sess, o)
        /\ st[c].susn = srv.usn /\ Ty(col[c], o) /\ TyS(srv, o) /\ TyS(work, o)
        /\ col[c].usn \in Nat /\ srv.usn \in Nat /\ Excl(col[c], o) /\ Excl(srv, o)
        /\ (col[c].obj[o].usn = Pending => Present(col[c], o))
        /\ Agrees(col[c], srv, col[c].usn, o)
    BY <1>2, <1>5, OpenFacts, AgreeFacts
  <2>2. GravesAt(col[c], wcol[c], work, srv, col[c].usn, srv.usn, o, left, rem)
        /\ Grows(work, srv, srv.usn, o)
    BY <1>2, <2>1 DEF ObjAt
  <2>3. ~left
    BY <1>2
  <2>4. GravesAt(col[c], wcol[c], work, srv, col[c].usn, srv.usn, o, FALSE, rem)
    BY <2>2, <2>3 DEF GravesAt, Deleted
  <2>5. /\ rem => ~Present(wcol'[c], o)
                  /\ wcol'[c].grave[o] = IF wcol[c].grave[o] = NoGrave THEN srv.usn ELSE wcol[c].grave[o]
        /\ ~rem => wcol'[c].obj[o] = wcol[c].obj[o] /\ wcol'[c].grave[o] = wcol[c].grave[o]
    BY <1>3, <2>1, AbsentIs
  <2>6. rem \in BOOLEAN
    OBVIOUS
  <2> HIDE DEF rem, left
  <2>7. ChangesAt(col[c], wcol'[c], work, srv, col[c].usn, o) /\ Tombs(wcol'[c], work, o)
        /\ wcol'[c].grave[o] # Pending
    BY <2>1, <2>2, <2>4, <2>5, <2>6, RemoteGravesAt
  <2> QED
    BY <1>2, <2>2, <2>7 DEF ObjAt
<1>6. Owns(c) => ~sess'.chunking
  BY <1>2, OpenFacts DEF OpenAt
<1> QED
  BY <1>4, <1>5, <1>6, RequestAgrees

LEMMA SanityCheckAgrees ==
  ASSUME AgreeInv, Timely, NEW c \in Clients, SanityCheck(c)
  PROVE  AgreeParts'
<1>1. TypeInv
  BY DEF AgreeInv, LogInv, SessionInv, ReviewInv
<1>2. /\ pc[c] = "sanity" /\ UNCHANGED <<clock, srv, work, sess, col, wcol, st>>
      /\ Owns(c) /\ pc'[c] = "finish" /\ InSession(c)
  BY <1>1 DEF SanityCheck, server, Goto, TypeInv, TypeOK, InSession
<1>3. SessionStep(c)
  BY <1>1, <1>2, StepsAreAlone DEF SessionStep, InSession, Proceed
<1>4. ASSUME NEW o \in Objects
      PROVE  ObjAt(col[c], wcol'[c], work', srv, pc'[c], st'[c], sess', o)
  <2>1. ObjAt(col[c], wcol[c], work, srv, pc[c], st[c], sess, o)
    BY <1>2, OpenFacts
  <2> QED
    BY <1>2, <2>1 DEF ObjAt
<1> QED
  BY <1>2, <1>3, <1>4, RequestAgrees

LEMMA RestsAre ==
  ASSUME NEW b, NEW z, ~z.chunking, z.cusn \in Nat, NEW o \in Cards
  PROVE  o \in Rests(b, z) <=> NewRow(b, o, z.cusn)
  BY DEF Rests, ChunkableIds, PendingObjects, IsPending, NewRow, Present

(* An object that stays as it is while the other kind travels.              *)
LEMMA BystandingAt ==
  ASSUME NEW k, NEW w, NEW b, NEW s, NEW l, NEW m, NEW u, NEW n, NEW o,
         l.obj[o] = w.obj[o], l.grave[o] = w.grave[o], m.obj[o] = b.obj[o], m.grave[o] = b.grave[o]
  PROVE  /\ ChangesAt(k, w, b, s, u, o) => ChangesAt(k, l, m, s, u, o)
         /\ Tombs(w, b, o) => Tombs(l, m, o)
         /\ Grows(b, s, n, o) => Grows(m, s, n, o)
         /\ Merged(w, b, o) => Merged(l, m, o)
  BY DEF ChangesAt, Tombs, Grows, Merged, Present, Same, PendRow, NewRow, Excl

LEMMA SendChangesAgrees ==
  ASSUME AgreeInv, Timely, NEW c \in Clients, SendChanges(c)
  PROVE  AgreeParts'
<1>1. TypeInv
  BY DEF AgreeInv, LogInv, SessionInv, ReviewInv
<1>2. PICK sent :
           /\ pc[c] = "changes" /\ pc'[c] = "pull" /\ Owns(c) /\ UNCHANGED <<clock, srv, sess, col, st>>
           /\ work'.usn = work.usn
           /\ \A o \in Objects :
                /\ work'.grave[o] = work.grave[o] /\ wcol'[c].grave[o] = wcol[c].grave[o]
                /\ o \notin Decks => work'.obj[o] = work.obj[o] /\ wcol'[c].obj[o] = wcol[c].obj[o]
                /\ PendRow(wcol[c], o) /\ o \in Decks => /\ sent.obj[o].ver = wcol[c].obj[o].ver
                                                        /\ sent.obj[o].usn = st[c].susn
                /\ ~PendRow(wcol[c], o) => sent.obj[o] = wcol[c].obj[o]
                /\ o \in Decks =>
                     /\ IF PendRow(wcol[c], o)
                           /\ (~Present(work, o) \/ Secs(work.obj[o].ver) <= Secs(sent.obj[o].ver))
                        THEN work'.obj[o] = sent.obj[o] ELSE work'.obj[o] = work.obj[o]
                     /\ IF NewRow(work, o, sess.cusn)
                           /\ (~Present(sent, o) \/ Secs(sent.obj[o].ver) <= Secs(work.obj[o].ver))
                        THEN wcol'[c].obj[o] = work.obj[o] ELSE wcol'[c].obj[o] = sent.obj[o]
  BY <1>1, SendChangesIs
<1>3. InSession(c) /\ SessionStep(c)
  BY <1>1, <1>2, StepsAreAlone DEF SessionStep, InSession, Proceed
<1>4. ASSUME NEW o \in Objects
      PROVE  ObjAt(col[c], wcol'[c], work', srv, pc'[c], st'[c], sess', o)
  <2>1. /\ ObjAt(col[c], wcol[c], work, srv, pc[c], st[c], sess, o)
        /\ st[c].susn = srv.usn /\ sess.cusn = col[c].usn /\ ~sess.chunking
        /\ Ty(col[c], o) /\ Ty(wcol[c], o) /\ TyS(srv, o) /\ TyS(work, o)
        /\ col[c].usn \in Nat /\ srv.usn \in Nat
        /\ Agrees(col[c], srv, col[c].usn, o)
        /\ (wcol[c].obj[o].usn = Pending => wcol[c].obj[o] = col[c].obj[o] /\ Present(col[c], o))
        /\ (Present(work, o) /\ work.obj[o].usn < col[c].usn /\ col[c].obj[o].usn = Pending
                   => work.obj[o].ver <= col[c].obj[o].ver)
    BY <1>2, <1>3, OpenFacts, AgreeFacts DEF OpenAt
  <2>2. /\ ChangesAt(col[c], wcol[c], work, srv, col[c].usn, o)
        /\ Tombs(wcol[c], work, o) /\ Grows(work, srv, srv.usn, o) /\ wcol[c].grave[o] # Pending
    BY <1>2, <2>1 DEF ObjAt
  <2>3. CASE o \in Decks
    <3>1. sent.obj[o].ver \in Nat
      BY <1>2, <2>1, <2>3 DEF Ty
    <3>2. Secs(work.obj[o].ver) = work.obj[o].ver /\ Secs(sent.obj[o].ver) = sent.obj[o].ver
      BY <2>1, <3>1, SecsIs DEF Ty, TyS
    <3>3. /\ work'.grave[o] = work.grave[o] /\ wcol'[c].grave[o] = wcol[c].grave[o]
          /\ PendRow(wcol[c], o) => sent.obj[o].ver = wcol[c].obj[o].ver /\ sent.obj[o].usn = srv.usn
          /\ ~PendRow(wcol[c], o) => sent.obj[o] = wcol[c].obj[o]
          /\ IF PendRow(wcol[c], o) /\ (~Present(work, o) \/ work.obj[o].ver <= sent.obj[o].ver)
             THEN work'.obj[o] = sent.obj[o] ELSE work'.obj[o] = work.obj[o]
          /\ IF NewRow(work, o, col[c].usn) /\ (~Present(sent, o) \/ sent.obj[o].ver <= work.obj[o].ver)
             THEN wcol'[c].obj[o] = work.obj[o] ELSE wcol'[c].obj[o] = sent.obj[o]
      BY <1>2, <2>1, <2>3, <3>2
    <3>4. Merged(wcol'[c], work', o) /\ Tombs(wcol'[c], work', o) /\ Grows(work', srv, srv.usn, o)
      <4> DEFINE k == col[c]
                 w == wcol[c]
                 b == work
                 s == srv
                 there == work'
                 here == wcol'[c]
                 u == col[c].usn
                 n == srv.usn
      <4>1. /\ Ty(k, o) /\ Ty(w, o) /\ TyS(s, o) /\ TyS(b, o) /\ u \in Nat /\ n \in Nat
            /\ Agrees(k, s, u, o) /\ ChangesAt(k, w, b, s, u, o) /\ Tombs(w, b, o) /\ Grows(b, s, n, o)
        BY <2>1, <2>2
      <4>2. /\ w.obj[o].usn = Pending => w.obj[o] = k.obj[o] /\ Present(k, o)
            /\ Present(b, o) /\ b.obj[o].usn < u /\ k.obj[o].usn = Pending => b.obj[o].ver <= k.obj[o].ver
        BY <2>1
      <4>3. /\ there.grave[o] = b.grave[o] /\ here.grave[o] = w.grave[o]
            /\ PendRow(w, o) => sent.obj[o].ver = w.obj[o].ver /\ sent.obj[o].usn = n
            /\ ~PendRow(w, o) => sent.obj[o] = w.obj[o]
        BY <3>3
      <4>4. IF PendRow(w, o) /\ (~Present(b, o) \/ b.obj[o].ver <= sent.obj[o].ver)
            THEN there.obj[o] = sent.obj[o] ELSE there.obj[o] = b.obj[o]
        BY <3>3
      <4>5. IF NewRow(b, o, u) /\ (~Present(sent, o) \/ sent.obj[o].ver <= b.obj[o].ver)
            THEN here.obj[o] = b.obj[o] ELSE here.obj[o] = sent.obj[o]
        BY <3>3
      <4> HIDE DEF k, w, b, s, there, here, u, n
      <4>6. Merged(here, there, o) /\ Tombs(here, there, o) /\ Grows(there, s, n, o)
        BY <4>1, <4>2, <4>3, <4>4, <4>5, SendChangesAt
      <4> QED
        BY <4>6 DEF here, there, s, n
    <3>5. o \notin Cards
      BY <2>3, ObjectsAssumption
    <3> QED
      BY <1>2, <2>2, <3>4, <3>5 DEF ObjAt
  <2>4. CASE o \in Cards
    <3>1. o \notin Decks
      BY <2>4, ObjectsAssumption
    <3>2. /\ wcol'[c].obj[o] = wcol[c].obj[o] /\ wcol'[c].grave[o] = wcol[c].grave[o]
          /\ work'.obj[o] = work.obj[o] /\ work'.grave[o] = work.grave[o]
      BY <1>2, <3>1
    <3>3. /\ ChangesAt(col[c], wcol'[c], work', srv, col[c].usn, o)
          /\ Tombs(wcol'[c], work', o) /\ Grows(work', srv, srv.usn, o)
      BY <2>2, <3>2, BystandingAt
    <3>4. PullAt(wcol'[c], work', col[c].usn, o, NewRow(work', o, col[c].usn))
      BY <3>3, PullAtStart
    <3>5. o \in Rests(work', sess) <=> NewRow(work', o, col[c].usn)
      BY <2>1, <2>4, RestsAre
    <3>6. PullAt(wcol'[c], work', col[c].usn, o, o \in Rests(work', sess))
      BY <3>4, <3>5 DEF PullAt
    <3> QED
      BY <1>2, <2>2, <3>1, <3>2, <3>3, <3>6 DEF ObjAt
  <2> QED
    BY <2>3, <2>4 DEF Objects
<1> QED
  BY <1>2, <1>3, <1>4, RequestAgrees

(* The last chunk takes the rest.                                           *)
LEMMA LastIsRest ==
  ASSUME NEW ids \in Ids, IsFiniteSet(ids.log), NEW t \in Chunks(ids), IsLast(t)
  PROVE  t = ids
<1>1. t.objs \in SUBSET Objects /\ t.log \in SUBSET ids.log
  BY ChunkType
<1>2. IsFiniteSet(t.objs) /\ IsFiniteSet(t.log)
  BY <1>1, FiniteAssumption, FS_Subset
<1> DEFINE n == Cardinality(t.objs) + Cardinality(t.log)
<1>3. n \in Nat
  BY <1>2, FS_CardinalityType
<1>4. ChunkSize \in Nat /\ (t = ids \/ n >= ChunkSize) /\ n < ChunkSize
  BY ChunkSizeAssumption DEF Chunks, IsLast
<1> HIDE DEF n
<1> QED
  BY <1>3, <1>4

LEMMA PullChunkAgrees ==
  ASSUME AgreeInv, Timely, NEW c \in Clients, PullChunk(c)
  PROVE  AgreeParts'
<1>1. TypeInv /\ LogsFine
  BY DEF AgreeInv, LogInv, SessionInv, ReviewInv
<1>2. PICK t \in Chunks(Remaining) :
           /\ pc[c] = "pull" /\ Owns(c) /\ UNCHANGED <<clock, srv, work, col>>
           /\ Remaining \in Ids /\ t.objs \subseteq Remaining.objs /\ t.log \subseteq Remaining.log
           /\ t.objs \subseteq Cards
           /\ sess'.owner = sess.owner /\ sess'.usn = sess.usn /\ sess'.cusn = sess.cusn
           /\ sess'.chunking = TRUE /\ sess'.ids = Rest(Remaining, t)
           /\ \/ /\ IsLast(t) /\ pc'[c] = "push" /\ st'[c].ids = ChunkableIds(wcol'[c], Pending)
                 /\ st'[c].susn = st[c].susn /\ st'[c].cusn = st[c].cusn
              \/ pc'[c] = "pull" /\ st'[c] = st[c]
           /\ \A o \in Objects :
                /\ wcol'[c].grave[o] = wcol[c].grave[o]
                /\ IF o \in t.objs /\ (\/ ~Present(wcol[c], o) \/ wcol[c].obj[o].usn # Pending
                                       \/ Secs(wcol[c].obj[o].ver) < Secs(work.obj[o].ver))
                   THEN wcol'[c].obj[o] = work.obj[o] ELSE wcol'[c].obj[o] = wcol[c].obj[o]
  BY <1>1, PullChunkIs
<1>3. InSession(c) /\ SessionStep(c)
  BY <1>1, <1>2, StepsAreAlone DEF SessionStep, InSession, Proceed
<1>4. IsLast(t) => t.objs = Remaining.objs
  BY <1>1, <1>2, RemainingFine, LastIsRest DEF Fine
<1>5. wcol'[c] \in Collection("device") /\ PendingInside(c)'
  <2>1. TypeInv' /\ SessionParts'
    BY PullChunkType, PullChunkKeeps DEF AgreeInv, LogInv, SessionInv, ReviewInv
  <2> QED
    BY <2>1 DEF TypeInv, TypeOK, SessionParts, AttemptSound
<1>6. ASSUME NEW o \in Objects
      PROVE  ObjAt(col[c], wcol'[c], work', srv, pc'[c], st'[c], sess', o)
  <2>1. /\ ObjAt(col[c], wcol[c], work, srv, pc[c], st[c], sess, o)
        /\ Ty(wcol[c], o) /\ TyS(work, o) /\ col[c].usn \in Nat
        /\ (col[c].obj[o].usn = Pending => Present(col[c], o))
    BY <1>2, <1>3, OpenFacts, AgreeFacts
  <2>2. /\ Grows(work, srv, srv.usn, o) /\ wcol[c].grave[o] # Pending /\ Tombs(wcol[c], work, o)
        /\ o \in Decks => Merged(wcol[c], work, o)
    BY <1>2, <2>1 DEF ObjAt
  <2>3. wcol'[c].grave[o] = wcol[c].grave[o]
    BY <1>2
  <2>4. CASE o \in Decks
    <3>1. o \notin Cards
      BY <2>4, ObjectsAssumption
    <3>2. wcol'[c].obj[o] = wcol[c].obj[o]
      BY <1>2, <3>1
    <3>3. Merged(wcol'[c], work', o) /\ Tombs(wcol'[c], work', o) /\ Grows(work', srv, srv.usn, o)
      BY <1>2, <2>2, <2>3, <2>4, <3>2, BystandingAt
    <3> QED
      BY <1>2, <2>2, <2>3, <2>4, <3>1, <3>3 DEF ObjAt
  <2>5. CASE o \in Cards
    <3>1. o \notin Decks
      BY <2>5, ObjectsAssumption
    <3> DEFINE rest == o \in Remaining.objs
               got == o \in t.objs
               w == wcol[c]
               l == wcol'[c]
               b == work
               u == col[c].usn
    <3>2. PullAt(w, b, u, o, rest)
      BY <1>2, <2>1, <2>5 DEF ObjAt, Rests, Remaining
    <3>3. Ty(w, o) /\ TyS(b, o) /\ u \in Nat /\ Tombs(w, b, o) /\ Excl(b, o) /\ l.grave[o] = w.grave[o]
      BY <2>1, <2>2, <2>3 DEF Grows
    <3>4. Secs(w.obj[o].ver) = w.obj[o].ver /\ Secs(b.obj[o].ver) = b.obj[o].ver
      BY <2>1, SecsIs DEF Ty, TyS
    <3>5. IF got /\ (~Present(w, o) \/ w.obj[o].usn # Pending \/ w.obj[o].ver < b.obj[o].ver)
          THEN l.obj[o] = b.obj[o] ELSE l.obj[o] = w.obj[o]
      BY <1>2, <3>4
    <3>6. rest \in BOOLEAN /\ got \in BOOLEAN
      OBVIOUS
    <3> HIDE DEF rest, got, w, l, b, u
    <3>7. PullAt(l, b, u, o, rest /\ ~got) /\ Tombs(l, b, o)
      BY <3>2, <3>3, <3>5, <3>6, PullChunkAt
    <3>8. pc'[c] = "pull" => PullAt(l, b, u, o, o \in Rests(work', sess'))
      <4>1. pc'[c] = "pull" => (o \in Rests(work', sess') <=> rest /\ ~got)
        BY <1>2 DEF Rests, Rest, rest, got
      <4> QED
        BY <3>7, <4>1 DEF PullAt
    <3>9. pc'[c] = "push" => PushAt(l, b, u, o, o \in st'[c].ids.objs)
      <4> SUFFICES ASSUME pc'[c] = "push" PROVE PushAt(l, b, u, o, o \in st'[c].ids.objs)
        OBVIOUS
      <4>1. IsLast(t) /\ st'[c].ids = ChunkableIds(wcol'[c], Pending)
        BY <1>2
      <4>2. PullAt(l, b, u, o, FALSE)
        BY <1>4, <3>7, <4>1 DEF PullAt, rest, got
      <4>3. l.obj[o].usn = Pending => Present(l, o)
        BY <1>2, <1>5, <2>1 DEF PendingInside, Present, l
      <4>4. PushAt(l, b, u, o, PendRow(l, o))
        BY <4>2, <4>3, PushAtStart
      <4>5. o \in st'[c].ids.objs <=> PendRow(l, o)
        BY <2>5, <4>1 DEF ChunkableIds, PendingObjects, IsPending, PendRow, l
      <4> QED
        BY <4>4, <4>5 DEF PushAt
    <3> QED
      BY <1>2, <2>2, <2>3, <3>1, <3>7, <3>8, <3>9 DEF ObjAt, l, b, u
  <2> QED
    BY <2>4, <2>5 DEF Objects
<1> QED
  BY <1>2, <1>3, <1>6, RequestAgrees

LEMMA PushChunkAgrees ==
  ASSUME AgreeInv, Timely, NEW c \in Clients, PushChunk(c)
  PROVE  AgreeParts'
<1>1. TypeInv /\ LogsFine /\ SessionParts /\ st[c].ids \in Ids
  BY Typed DEF AgreeInv, LogInv, SessionInv, ReviewInv, State
<1>2. PICK t \in Chunks(st[c].ids) :
           /\ pc[c] = "push" /\ Owns(c) /\ UNCHANGED <<clock, srv, sess, col>>
           /\ t.objs \subseteq st[c].ids.objs /\ t.objs \subseteq Cards
           /\ st'[c].ids = Rest(st[c].ids, t)
           /\ st'[c].susn = st[c].susn /\ st'[c].cusn = st[c].cusn
           /\ work'.usn = work.usn
           /\ pc'[c] = "push" \/ (pc'[c] = "sanity" /\ IsLast(t))
           /\ \A o \in Objects :
                /\ wcol'[c].grave[o] = wcol[c].grave[o] /\ work'.grave[o] = work.grave[o]
                /\ o \in t.objs => /\ wcol'[c].obj[o].ver = wcol[c].obj[o].ver
                                   /\ wcol'[c].obj[o].usn = st[c].susn
                /\ o \notin t.objs => wcol'[c].obj[o] = wcol[c].obj[o]
                /\ IF o \in t.objs /\ (\/ ~Present(work, o) \/ work.obj[o].usn < sess.cusn
                                       \/ Secs(work.obj[o].ver) < Secs(wcol'[c].obj[o].ver))
                   THEN work'.obj[o] = wcol'[c].obj[o] ELSE work'.obj[o] = work.obj[o]
  BY <1>1, PushChunkIs
<1>3. InSession(c) /\ SessionStep(c)
  BY <1>1, <1>2, StepsAreAlone DEF SessionStep, InSession, Proceed
<1>4. IsLast(t) => t.objs = st[c].ids.objs
  BY <1>1, LastIsRest DEF Fine, LogsFine
<1>5. \A o \in t.objs : PendRow(wcol[c], o)
  BY <1>1, <1>2 DEF SessionParts, AttemptSound, PushListed, PendRow
<1>6. ASSUME NEW o \in Objects
      PROVE  ObjAt(col[c], wcol'[c], work', srv, pc'[c], st'[c], sess', o)
  <2>1. /\ ObjAt(col[c], wcol[c], work, srv, pc[c], st[c], sess, o)
        /\ Ty(wcol[c], o) /\ TyS(work, o) /\ col[c].usn \in Nat /\ srv.usn \in Nat
        /\ st[c].susn = srv.usn /\ sess.cusn = col[c].usn
    BY <1>2, <1>3, OpenFacts, AgreeFacts
  <2>2. /\ Grows(work, srv, srv.usn, o) /\ wcol[c].grave[o] # Pending /\ Tombs(wcol[c], work, o)
        /\ o \in Decks => Merged(wcol[c], work, o)
    BY <1>2, <2>1 DEF ObjAt
  <2>3. wcol'[c].grave[o] = wcol[c].grave[o] /\ work'.grave[o] = work.grave[o]
    BY <1>2
  <2>4. CASE o \in Decks
    <3>1. o \notin Cards
      BY <2>4, ObjectsAssumption
    <3>2. wcol'[c].obj[o] = wcol[c].obj[o] /\ work'.obj[o] = work.obj[o]
      BY <1>2, <3>1
    <3>3. Merged(wcol'[c], work', o) /\ Tombs(wcol'[c], work', o) /\ Grows(work', srv, srv.usn, o)
      BY <2>2, <2>3, <2>4, <3>2, BystandingAt
    <3> QED
      BY <1>2, <2>2, <2>3, <2>4, <3>1, <3>3 DEF ObjAt
  <2>5. CASE o \in Cards
    <3>1. o \notin Decks
      BY <2>5, ObjectsAssumption
    <3> DEFINE listed == o \in st[c].ids.objs
               got == o \in t.objs
               w == wcol[c]
               l == wcol'[c]
               b == work
               m == work'
               s == srv
               u == col[c].usn
               n == srv.usn
    <3>2. PushAt(w, b, u, o, listed)
      BY <1>2, <2>1, <2>5 DEF ObjAt
    <3>3. /\ Ty(w, o) /\ TyS(b, o) /\ u \in Nat /\ n \in Nat /\ Tombs(w, b, o) /\ Grows(b, s, n, o)
          /\ l.grave[o] = w.grave[o] /\ m.grave[o] = b.grave[o]
      BY <2>1, <2>2, <2>3
    <3>4. /\ got => PendRow(w, o)
          /\ got => l.obj[o].ver = w.obj[o].ver /\ l.obj[o].usn = n
          /\ ~got => l.obj[o] = w.obj[o]
      BY <1>2, <1>5, <2>1
    <3>5. got => Secs(l.obj[o].ver) = l.obj[o].ver /\ Secs(b.obj[o].ver) = b.obj[o].ver
      BY <2>1, <3>4, SecsIs DEF Ty, TyS
    <3>6. IF got /\ (~Present(b, o) \/ b.obj[o].usn < u \/ b.obj[o].ver < l.obj[o].ver)
          THEN m.obj[o] = l.obj[o] ELSE m.obj[o] = b.obj[o]
      BY <1>2, <2>1, <3>5
    <3>7. listed \in BOOLEAN /\ got \in BOOLEAN
      OBVIOUS
    <3> HIDE DEF listed, got, w, l, b, m, s, u, n
    <3>8. PushAt(l, m, u, o, listed /\ ~got) /\ Tombs(l, m, o) /\ Grows(m, s, n, o)
      BY <3>2, <3>3, <3>4, <3>6, <3>7, PushChunkAt
    <3>9. o \in st'[c].ids.objs <=> listed /\ ~got
      BY <1>2 DEF Rest, listed, got
    <3>10. PushAt(l, m, u, o, o \in st'[c].ids.objs)
      BY <3>8, <3>9 DEF PushAt
    <3>11. IsLast(t) => Merged(l, m, o)
      BY <1>4, <3>8 DEF PushAt, listed, got
    <3> QED
      BY <1>2, <2>2, <2>3, <3>1, <3>8, <3>10, <3>11 DEF ObjAt, l, m, u, s, n
  <2> QED
    BY <2>4, <2>5 DEF Objects
<1> QED
  BY <1>2, <1>3, <1>6, RequestAgrees
-----------------------------------------------------------------------------
(* Steps outside of a session.                                             *)

LEMMA SettlesAgrees ==
  ASSUME AgreeInv, Settles
  PROVE  AgreeParts'
<1>1. AgreeParts /\ TypeInv /\ srv' = srv /\ col' = col
  BY DEF AgreeInv, LogInv, SessionInv, ReviewInv, Settles
<1>2. ASSUME NEW d \in Clients
      PROVE  DeviceAgrees(d)'
  <2>1. DeviceAgrees(d)
    BY <1>1 DEF AgreeParts
  <2>2. CommitAt(col'[d], srv', pc'[d], st'[d])
    BY <1>1, <2>1 DEF DeviceAgrees, CommitAt, Settles
  <2>3. ASSUME Owns(d)', InSession(d)'
        PROVE  /\ Owns(d) /\ InSession(d) /\ UNCHANGED <<srv, work, sess>>
               /\ col'[d] = col[d] /\ wcol'[d] = wcol[d] /\ pc'[d] = pc[d] /\ st'[d] = st[d]
    <3>1. ~NoActiveSession
      BY <1>1, <2>3, Typed DEF NoActiveSession, NoSession, Owns
    <3>2. UNCHANGED <<work, sess>>
      BY <3>1 DEF Settles
    <3>3. wcol'[d] = wcol[d] /\ pc'[d] = pc[d] /\ st'[d] = st[d]
      BY <2>3 DEF Settles
    <3> QED
      BY <1>1, <2>3, <3>2, <3>3 DEF Owns, InSession
  <2> QED
    BY <2>1, <2>2, <2>3 DEF DeviceAgrees
<1> QED
  BY <1>1, <1>2 DEF AgreeParts, Excl, Present

LEMMA StartAgrees ==
  ASSUME AgreeInv, NEW c \in Clients, Start(c)
  PROVE  AgreeParts'
<1>1. /\ TypeInv /\ SessionParts /\ Alone(c) /\ pc[c] = "met" /\ wcol[c] = col[c]
      /\ st[c].cusn = col[c].usn /\ st[c].susn = srv.usn /\ col[c].scm = srv.scm
      /\ col[c].usn \in Nat /\ srv.usn \in Nat
  <2>1. TypeInv /\ SessionParts /\ Alone(c) /\ pc[c] = "met" /\ AttemptSound(c) /\ DeviceAgrees(c)
    BY StepsAreAlone DEF AgreeInv, LogInv, SessionInv, ReviewInv, Proceed, SessionParts, Start, AgreeParts
  <2> QED
    BY <2>1, AgreeFacts DEF AttemptSound, Attempting, InSession, DeviceAgrees, CommitAt
<1>2. /\ work' = srv /\ UNCHANGED <<clock, srv, col>> /\ pc'[c] = "graves"
      /\ sess'.owner = c /\ sess'.usn = srv.usn /\ sess'.chunking = FALSE
      /\ wcol'[c] = MarkGraves(col[c], st[c].susn)
      /\ st'[c].graves = PendingGraves(col[c], Pending)
      /\ st'[c].remote = PendingGraves(srv, st[c].cusn)
      /\ st'[c].cusn = st[c].cusn /\ st'[c].susn = st[c].susn
  <2>1. st[c] \in State /\ Start(c) /\ wcol[c] = col[c]
    BY <1>1, Typed
  <2> QED
    BY <1>1, <2>1 DEF Start, Goto, TypeInv, TypeOK, State, NoSession
<1>3. ASSUME NEW d \in Clients, d # c
      PROVE  DeviceAgrees(d)'
  <2>1. ~Owns(d)'
    BY <1>2, <1>3 DEF Owns
  <2> QED
    BY <1>1, <1>2, <1>3, <2>1, OthersAgree
<1>4. ASSUME NEW o \in Objects
      PROVE  ObjAt(col[c], wcol'[c], work', srv, pc'[c], st'[c], sess', o)
  <2>1. /\ Ty(col[c], o) /\ TyS(srv, o) /\ Excl(srv, o)
    BY AgreeFacts
  <2>2. /\ wcol'[c].obj[o] = col[c].obj[o]
        /\ wcol'[c].grave[o] = IF col[c].grave[o] = Pending THEN srv.usn ELSE col[c].grave[o]
    BY <1>1, <1>2, Typed, MarkGravesIs
  <2> DEFINE left == o \in st'[c].graves
             rem == o \in st'[c].remote
             w == wcol'[c]
             n == srv.usn
  <2>3. (left <=> col[c].grave[o] = Pending) /\ (rem <=> srv.grave[o] >= col[c].usn)
    BY <1>1, <1>2 DEF PendingGraves, IsPending
  <2>4. w.obj[o] = col[c].obj[o] /\ w.grave[o] = IF col[c].grave[o] = Pending THEN n ELSE col[c].grave[o]
    BY <2>2
  <2>5. n \in Nat
    BY <1>1
  <2> HIDE DEF left, rem, w, n
  <2>6. /\ GravesAt(col[c], w, srv, srv, col[c].usn, n, o, left, rem)
        /\ Grows(srv, srv, n, o) /\ w.grave[o] # Pending
    BY <1>1, <2>1, <2>3, <2>4, <2>5, StartAt
  <2> QED
    BY <1>2, <2>6 DEF ObjAt, left, rem, w, n
<1>5. DeviceAgrees(c)'
  <2>1. CommitAt(col[c], srv, pc[c], st[c])
    BY DEF AgreeInv, AgreeParts, DeviceAgrees
  <2>2. CommitAt(col'[c], srv', pc'[c], st'[c])
    BY <1>2, <2>1 DEF CommitAt
  <2>3. OpenAt(col'[c], wcol'[c], work', srv', pc'[c], st'[c], sess')
    BY <1>1, <1>2, <1>4 DEF OpenAt
  <2> QED
    BY <2>2, <2>3 DEF DeviceAgrees
<1> QED
  BY <1>2, <1>3, <1>5 DEF AgreeParts, AgreeInv, Excl, Present
-----------------------------------------------------------------------------
(* Local operations.                                                       *)

LEMMA AgreesAlike ==
  ASSUME NEW k, NEW l, NEW s, NEW b, NEW u, NEW o, l.obj[o] = k.obj[o], l.grave[o] = k.grave[o],
         b.obj[o] = s.obj[o], b.grave[o] = s.grave[o]
  PROVE  /\ Agrees(k, s, u, o) => Agrees(l, b, u, o)
         /\ Excl(k, o) => Excl(l, o)
  BY DEF Agrees, Excl, Same, NewRow, Present

LEMMA AgreesItself ==
  ASSUME NEW k, NEW s, NEW u, NEW o, k.obj[o] = s.obj[o], k.grave[o] = s.grave[o], Excl(s, o), TyS(s, o)
  PROVE  Agrees(k, s, u, o) /\ Excl(k, o)
  BY DEF Agrees, Excl, Same, NewRow, Present, Ty, TyS

LEMMA TouchAt ==
  ASSUME NEW k, NEW l, NEW s, NEW u, NEW o, Excl(k, o),
         Present(k, o) \/ k.grave[o] = NoGrave,
         l.obj[o].usn = Pending, l.grave[o] = k.grave[o]
  PROVE  /\ Excl(l, o)
         /\ Agrees(k, s, u, o) /\ (Present(k, o) \/ s.grave[o] = NoGrave) => Agrees(l, s, u, o)
  BY DEF Agrees, Excl, Same, NewRow, Present

LEMMA DeleteAt ==
  ASSUME NEW k, NEW l, NEW s, NEW u, NEW o, Excl(k, o), Present(k, o), ~Present(l, o),
         k.grave[o] = NoGrave => l.grave[o] = Pending
  PROVE  Excl(l, o) /\ Agrees(l, s, u, o)
  BY DEF Agrees, Excl, Same, NewRow, Present

LEMMA ChangeAgrees ==
  ASSUME AgreeInv, NEW c \in Clients, Alone(c), UNCHANGED srv, pc'[c] # "met", ~InSession(c)',
         \A d \in Clients \ {c} : Owns(d)' => UNCHANGED <<work, sess>>,
         \A o \in Objects : Excl(col'[c], o),
         col'[c].scm = srv.scm => \A o \in Objects : Agrees(col'[c], srv, col'[c].usn, o)
  PROVE  AgreeParts'
<1>1. ASSUME NEW d \in Clients, d # c
      PROVE  DeviceAgrees(d)'
  BY <1>1, OthersAgree
<1>2. DeviceAgrees(c)'
  <2>1. CommitAt(col'[c], srv', pc'[c], st'[c])
    BY DEF CommitAt
  <2> QED
    BY <2>1 DEF DeviceAgrees
<1> QED
  BY <1>1, <1>2 DEF AgreeParts, AgreeInv, Excl, Present

LEMMA SanityFailedAgrees ==
  ASSUME AgreeInv, NEW c \in Clients, SanityFailed(c)
  PROVE  AgreeParts'
<1>1. TypeInv /\ Stamps /\ Alone(c)
  BY StepsAreAlone DEF AgreeInv, LogInv, SessionInv, ReviewInv, Proceed
<1> DEFINE k == [col[c] EXCEPT !.scm = Now]
<1>2. /\ col'[c] = k /\ pc'[c] = "idle" /\ sess' \in {sess, NoSession} /\ srv' = srv /\ Owns(c)
  BY <1>1 DEF SanityFailed, TypeInv, TypeOK
<1>3. col[c] \in Collection("device") /\ clock \in Nat /\ srv.scm <= clock /\ Now = clock + 1
      /\ srv.scm \in Nat
  BY <1>1, Typed, FieldTypes DEF Stamps, Now
<1>4. k.scm = clock + 1 /\ k.obj = col[c].obj /\ k.grave = col[c].grave
  BY <1>3 DEF Collection
<1> HIDE DEF k
<1>5. \A o \in Objects : Excl(col'[c], o)
  BY <1>2, <1>4 DEF AgreeInv, AgreeParts, DeviceAgrees, CommitAt, Excl, Present
<1>6. \A d \in Clients \ {c} : ~Owns(d)'
  BY <1>1, <1>2, Typed DEF Owns, NoSession
<1> QED
  BY <1>1, <1>2, <1>3, <1>4, <1>5, <1>6, ChangeAgrees DEF InSession

LEMMA CommitAgrees ==
  ASSUME AgreeInv, NEW c \in Clients, NEW k \in Collection("device"), Commit(c, k), pc[c] = "idle",
         Alone(c), \A o \in Objects : Excl(k, o), k.usn = col[c].usn,
         k.scm = srv.scm => \A o \in Objects : Agrees(k, srv, k.usn, o)
  PROVE  AgreeParts'
<1> DEFINE l == [k EXCEPT !.mod = Now]
<1>1. l.usn = k.usn /\ l.scm = k.scm /\ l.obj = k.obj /\ l.grave = k.grave
  BY DEF Collection
<1>2. col'[c] = l /\ pc'[c] = "idle" /\ UNCHANGED <<srv, work, sess>>
  BY DEF Commit, server, AgreeInv, LogInv, SessionInv, ReviewInv, TypeInv, TypeOK
<1> HIDE DEF l
<1>3. \A o \in Objects : /\ Excl(k, o) => Excl(l, o)
                         /\ Agrees(k, srv, k.usn, o) => Agrees(l, srv, l.usn, o)
  BY <1>1 DEF Agrees, Excl, Same, NewRow, Present
<1> QED
  BY <1>1, <1>2, <1>3, ChangeAgrees DEF InSession

LEMMA LocalAgrees ==
  ASSUME AgreeInv, Timely, NEW c \in Clients, Local(c)
  PROVE  AgreeParts'
<1> DEFINE k == col[c]
           n == Now
<1>1. /\ k \in Collection("device") /\ n \in Nat /\ n # 0 /\ Alone(c)
      /\ \A o \in Objects : Excl(k, o) /\ (k.scm = srv.scm => Agrees(k, srv, k.usn, o))
  <2>1. TypeInv /\ DeviceAgrees(c) /\ Alone(c)
    BY StepsAreAlone DEF AgreeInv, LogInv, SessionInv, ReviewInv, AgreeParts
  <2> QED
    BY <2>1, Typed DEF DeviceAgrees, CommitAt, Now
<1>2. ASSUME NEW o \in Objects
      PROVE  /\ Touch(k, o) \in Collection("device") /\ SameStamps(k, Touch(k, o))
             /\ Touch(k, o).grave = k.grave /\ Touch(k, o).obj[o].usn = Pending
             /\ \A p \in Objects \ {o} : Touch(k, o).obj[p] = k.obj[p]
  BY <1>1 DEF Touch, Collection, Usns, SameStamps
<1>3. ASSUME NEW o \in Objects, Present(k, o) \/ (k.grave[o] = NoGrave /\ srv.grave[o] = NoGrave)
      PROVE  /\ \A p \in Objects : /\ Excl(Touch(k, o), p)
                                   /\ k.scm = srv.scm => Agrees(Touch(k, o), srv, k.usn, p)
             /\ Touch(k, o).scm = k.scm /\ Touch(k, o).usn = k.usn
  <2> DEFINE l == Touch(k, o)
  <2>1. SameStamps(k, l) /\ l.grave = k.grave /\ l.obj[o].usn = Pending
        /\ \A p \in Objects \ {o} : l.obj[p] = k.obj[p]
    BY <1>2
  <2> HIDE DEF l, k
  <2>2. ASSUME NEW p \in Objects
        PROVE  Excl(l, p) /\ (k.scm = srv.scm => Agrees(l, srv, k.usn, p))
    <3>1. CASE p = o
      BY <1>1, <1>3, <2>1, <3>1, TouchAt
    <3>2. CASE p # o
      <4>1. l.obj[p] = k.obj[p] /\ l.grave[p] = k.grave[p]
        BY <2>1, <3>2
      <4> QED
        BY <1>1, <4>1, AgreesAlike
    <3> QED
      BY <3>1, <3>2
  <2> QED
    BY <2>1, <2>2 DEF SameStamps, l
<1>4. ASSUME NEW o \in Objects, Create(c, o) \/ Edit(c, o)
      PROVE  AgreeParts'
  <2>1. Commit(c, Touch(k, o)) /\ pc[c] = "idle"
    BY <1>4 DEF Create, Edit
  <2>2. Present(k, o) \/ (k.grave[o] = NoGrave /\ srv.grave[o] = NoGrave)
    BY <1>4 DEF Create, Edit, Known, Timely
  <2> HIDE DEF k
  <2>3. Touch(k, o) \in Collection("device") /\ k = col[c]
    BY <1>2 DEF k
  <2> QED
    BY <1>1, <1>3, <2>1, <2>2, <2>3, CommitAgrees
<1>5. ASSUME NEW o \in Cards, Answer(c, o)
      PROVE  AgreeParts'
  <2> DEFINE m == Touch(k, o)
             l == [m EXCEPT !.log = @ \cup {[id |-> n, usn |-> Pending]}]
  <2>1. /\ m \in Collection("device") /\ m.scm = k.scm /\ m.usn = k.usn
        /\ \A p \in Objects : Excl(m, p) /\ (k.scm = srv.scm => Agrees(m, srv, k.usn, p))
    BY <1>2, <1>3, <1>5 DEF Objects, Answer
  <2>2. l = [m EXCEPT !.log = @ \cup {[id |-> n, usn |-> Pending]}]
    OBVIOUS
  <2>3. Commit(c, l) /\ pc[c] = "idle"
    BY <1>5 DEF Answer
  <2>k. k = col[c]
    OBVIOUS
  <2> HIDE DEF l, m, n, k
  <2>4. l \in Collection("device") /\ l.obj = m.obj /\ l.grave = m.grave /\ l.scm = m.scm /\ l.usn = m.usn
    BY <1>1, <2>1, <2>2 DEF Collection, Usns
  <2>5. \A p \in Objects : Excl(l, p) /\ (l.scm = srv.scm => Agrees(l, srv, l.usn, p))
    BY <2>1, <2>4, AgreesAlike
  <2> QED
    BY <1>1, <2>k, <2>1, <2>3, <2>4, <2>5, CommitAgrees
<1>6. ASSUME NEW o \in Objects, Delete(c, o)
      PROVE  AgreeParts'
  <2> DEFINE l == ApplyGraves(k, {o}, Pending)
  <2>1. l \in Collection("device")
    BY <1>1, ApplyGravesType DEF Usns
  <2>2. /\ SameStamps(k, l) /\ l.obj[o] = Absent /\ (k.grave[o] = NoGrave => l.grave[o] = Pending)
        /\ \A p \in Objects \ {o} : l.obj[p] = k.obj[p] /\ l.grave[p] = k.grave[p]
    BY <1>1, ApplyGravesIs
  <2>3. Commit(c, l) /\ pc[c] = "idle" /\ Present(k, o)
    BY <1>6 DEF Delete
  <2>k. k = col[c]
    OBVIOUS
  <2> HIDE DEF l, k
  <2>4. ASSUME NEW p \in Objects
        PROVE  Excl(l, p) /\ (k.scm = srv.scm => Agrees(l, srv, k.usn, p))
    <3>1. CASE p = o
      BY <1>1, <2>2, <2>3, <3>1, AbsentIs, DeleteAt
    <3>2. CASE p # o
      <4>1. l.obj[p] = k.obj[p] /\ l.grave[p] = k.grave[p]
        BY <2>2, <3>2
      <4> QED
        BY <1>1, <4>1, AgreesAlike
    <3> QED
      BY <3>1, <3>2
  <2> QED
    BY <1>1, <2>k, <2>1, <2>2, <2>3, <2>4, CommitAgrees DEF SameStamps
<1>7. CASE SetConfig(c)
  <2> DEFINE l == Conf(k, n)
  <2>1. l \in Collection("device") /\ SameStamps(k, l) /\ l.grave = k.grave /\ l.obj = k.obj
    BY <1>1, ConfType, ConfIs
  <2>2. Commit(c, l) /\ pc[c] = "idle" /\ k = col[c]
    BY <1>7 DEF SetConfig
  <2> HIDE DEF l, k
  <2>3. \A p \in Objects : Excl(l, p) /\ (l.scm = srv.scm => Agrees(l, srv, l.usn, p))
    BY <1>1, <2>1, AgreesAlike DEF SameStamps
  <2> QED
    BY <1>1, <2>1, <2>2, <2>3, CommitAgrees DEF SameStamps
<1>8. CASE ChangeSchema(c)
  <2> DEFINE l == [k EXCEPT !.scm = n]
  <2>1. l \in Collection("device") /\ l.scm = n /\ l.grave = k.grave /\ l.obj = k.obj /\ l.usn = k.usn
    BY <1>1 DEF Collection
  <2>2. Commit(c, l) /\ pc[c] = "idle" /\ k = col[c]
    BY <1>8 DEF ChangeSchema
  <2>3. n # srv.scm
    <3>1. Stamps /\ clock \in Nat /\ srv.scm \in Nat
      BY Typed, FieldTypes DEF AgreeInv, LogInv, SessionInv, ReviewInv
    <3> QED
      BY <3>1 DEF Stamps, Now
  <2> HIDE DEF l, k, n
  <2>4. \A p \in Objects : Excl(l, p)
    BY <1>1, <2>1, AgreesAlike
  <2> QED
    BY <1>1, <2>1, <2>2, <2>3, <2>4, CommitAgrees
<1> QED
  BY <1>4, <1>5, <1>6, <1>7, <1>8 DEF Local

LEMMA ChooseUploadAgrees ==
  ASSUME AgreeInv, NEW c \in Clients, ChooseUpload(c)
  PROVE  AgreeParts'
<1> DEFINE l == ForUpload(col[c])
<1>1. /\ col[c] \in Collection("device") /\ clock \in Nat /\ Alone(c) /\ TypeInv
      /\ srv.scm <= clock /\ srv.scm \in Nat
  BY Typed, FieldTypes, StepsAreAlone DEF AgreeInv, LogInv, SessionInv, ReviewInv, Proceed, Stamps
<1>2. col'[c] = l /\ UNCHANGED <<srv, work, sess>> /\ pc'[c] = "uploading"
  BY <1>1 DEF ChooseUpload, server, TypeInv, TypeOK, Goto
<1>3. l.scm = Now /\ \A o \in Objects : l.grave[o] = NoGrave
  BY <1>1, ForUploadIs
<1> HIDE DEF l
<1>4. l.scm # srv.scm /\ \A o \in Objects : Excl(l, o)
  BY <1>1, <1>3 DEF Now, Excl
<1> QED
  BY <1>1, <1>2, <1>4, ChangeAgrees DEF InSession
-----------------------------------------------------------------------------
(* Steps that end a session, or replace a collection as a whole.           *)

LEMMA EndAgrees ==
  ASSUME AgreeInv, NEW c \in Clients, Alone(c), ~InSession(c)', pc'[c] # "met", sess' = NoSession,
         \A o \in Objects : Excl(srv', o) /\ Excl(col'[c], o),
         col'[c].scm = srv'.scm => \A o \in Objects : Agrees(col'[c], srv', col'[c].usn, o),
         \A d \in Clients \ {c} :
           /\ pc[d] # "met"
           /\ col[d].scm = srv'.scm => \A o \in Objects : Agrees(col[d], srv', col[d].usn, o)
  PROVE  AgreeParts'
<1>1. \A d \in Clients : ~Owns(d)'
  <2>1. TypeInv
    BY DEF AgreeInv, LogInv, SessionInv, ReviewInv
  <2> QED
    BY <2>1, Typed DEF Owns, NoSession
<1>2. ASSUME NEW d \in Clients, d # c
      PROVE  DeviceAgrees(d)'
  BY <1>1, <1>2, OthersAgree
<1>3. DeviceAgrees(c)'
  <2>1. CommitAt(col'[c], srv', pc'[c], st'[c])
    BY DEF CommitAt
  <2> QED
    BY <1>1, <2>1 DEF DeviceAgrees
<1>4. \A o \in Objects : Excl(srv, o)'
  BY DEF Excl, Present
<1> QED
  BY <1>2, <1>3, <1>4 DEF AgreeParts

LEMMA UploadAgrees ==
  ASSUME AgreeInv, Timely, NEW c \in Clients, Upload(c)
  PROVE  AgreeParts'
<1>1. TypeInv /\ UploadsAreClean /\ Directions /\ Alone(c)
  BY StepsAreAlone DEF AgreeInv, LogInv, SessionInv, ReviewInv, Proceed, TypeInv
<1>2. /\ pc[c] = "uploading" /\ col' = col /\ srv' = col[c] /\ sess' = NoSession /\ pc'[c] = "idle"
  BY <1>1 DEF Upload, NoActiveSession, Goto, TypeInv, TypeOK
<1>3. \A d \in Clients \ {c} : pc[d] # "met" /\ col[d].scm # srv'.scm
  BY <1>1, <1>2 DEF Upload, Undisturbed, Timely, Directions
<1> DEFINE k == col[c]
<1>4. \A o \in Objects : Excl(k, o) /\ TyS(k, o)
  <2>1. k \in Collection("server")
    BY <1>1, <1>2 DEF UploadsAreClean
  <2> QED
    BY <2>1, TyIs, AgreeFacts
<1>5. k = col[c]
  OBVIOUS
<1> HIDE DEF k
<1>6. \A o \in Objects : Agrees(k, k, k.usn, o)
  BY <1>4, AgreesItself
<1>7. \A o \in Objects : Excl(srv', o) /\ Excl(col'[c], o) /\ Agrees(col'[c], srv', col'[c].usn, o)
  BY <1>2, <1>4, <1>5, <1>6 DEF Excl, Present
<1> QED
  BY <1>1, <1>2, <1>3, <1>7, EndAgrees DEF InSession

LEMMA DownloadAgrees ==
  ASSUME AgreeInv, Timely, NEW c \in Clients, Download(c) \/ DownloadLost(c)
  PROVE  AgreeParts'
<1>1. TypeInv /\ AgreeParts /\ Directions /\ Alone(c)
  BY StepsAreAlone DEF AgreeInv, LogInv, SessionInv, ReviewInv, Proceed, Fault
<1>2. /\ pc[c] = "full" /\ sess' = NoSession /\ pc'[c] = "idle" /\ clock \in Nat
      /\ srv' = [srv EXCEPT !.usn = srv.usn + 1, !.mod = Now]
      /\ \A d \in Clients \ {c} : pc[d] # "met"
  BY <1>1, Typed DEF Download, DownloadLost, ServeDownload, NoActiveSession, TypeInv, TypeOK, Undisturbed, Timely
<1>3. /\ srv'.scm = srv.scm /\ srv'.obj = srv.obj /\ srv'.grave = srv.grave
      /\ srv' \in Collection("server")
  <2> DEFINE u == srv.usn + 1
             n == Now
  <2>1. u \in Nat /\ n \in Nat /\ srv' = [srv EXCEPT !.usn = u, !.mod = n] /\ srv \in Collection("server")
    BY <1>1, <1>2, Typed, FieldTypes DEF Now
  <2> HIDE DEF u, n
  <2> QED
    BY <2>1 DEF Collection
<1>4. \A o \in Objects : /\ Excl(srv, o) /\ TyS(srv, o) /\ Excl(srv', o)
                         /\ srv'.obj[o] = srv.obj[o] /\ srv'.grave[o] = srv.grave[o]
  BY <1>3, AgreeFacts, AgreesAlike
<1>5. \A d \in Clients : /\ \A o \in Objects : Excl(col[d], o)
                         /\ col[d].scm = srv'.scm => \A o \in Objects : Agrees(col[d], srv', col[d].usn, o)
  BY <1>1, <1>3, <1>4, AgreesAlike DEF AgreeParts, DeviceAgrees, CommitAt
<1>6. CASE DownloadLost(c)
  <2>1. col' = col
    BY <1>6 DEF DownloadLost
  <2> QED
    BY <1>1, <1>2, <1>4, <1>5, <2>1, EndAgrees DEF InSession
<1>7. CASE Download(c)
  <2> DEFINE l == [srv' EXCEPT !.ls = srv'.mod]
  <2>1. col'[c] = l
    BY <1>1, <1>7 DEF Download, TypeInv, TypeOK
  <2>2. l.obj = srv.obj /\ l.grave = srv.grave
    BY <1>3 DEF Collection
  <2> HIDE DEF l
  <2>3. \A o \in Objects : /\ l.obj[o] = srv'.obj[o] /\ l.grave[o] = srv'.grave[o]
                           /\ Excl(srv', o) /\ TyS(srv', o)
    BY <1>3, <1>4, <2>2, TyIs
  <2>4. \A o \in Objects : Agrees(l, srv', l.usn, o) /\ Excl(l, o)
    BY <2>3, AgreesItself
  <2> QED
    BY <1>1, <1>2, <1>4, <1>5, <2>1, <2>4, EndAgrees DEF InSession
<1> QED
  BY <1>6, <1>7

LEMMA FinishAgrees ==
  ASSUME AgreeInv, Timely, NEW c \in Clients, Finish(c) \/ FinishLost(c) \/ FinishCrash(c)
  PROVE  AgreeParts'
<1>1. TypeInv /\ AgreeParts /\ Stamps /\ SessionParts /\ Alone(c)
  BY StepsAreAlone DEF AgreeInv, LogInv, SessionInv, ReviewInv, Proceed, Fault
<1>2. /\ pc[c] = "finish" /\ Owns(c) /\ InSession(c) /\ sess' = NoSession /\ pc'[c] = "idle"
      /\ \A d \in Clients \ {c} : pc[d] # "met"
  BY <1>1 DEF Finish, FinishLost, FinishCrash, NoActiveSession, RollBack, TypeInv, TypeOK, Undisturbed,
              Timely, InSession
<1>3. srv'.scm = srv.scm /\ srv'.obj = work.obj /\ srv'.grave = work.grave
  <2>1. srv' = Committed(work) \/ srv' = Stamped(Committed(work))
    BY DEF Finish, FinishLost, FinishCrash
  <2> QED
    BY <1>1, <2>1, CommittedIs DEF AgreeInv, LogInv
<1>4. /\ col[c].scm = srv.scm /\ srv.usn \in Nat
      /\ \A o \in Objects :
           /\ TyS(srv, o) /\ TyS(work, o) /\ Ty(wcol[c], o)
           /\ Grows(work, srv, srv.usn, o) /\ Merged(wcol[c], work, o) /\ Tombs(wcol[c], work, o)
  BY <1>2, OpenFacts, AgreeFacts DEF ObjAt
<1>5. ASSUME NEW o \in Objects
      PROVE  Present(srv, o) /\ Present(work, o) => srv.obj[o].ver <= work.obj[o].ver
  <2>1. NotUndone(o) /\ Excl(work, o)
    BY <1>1, <1>2, <1>4 DEF SessionParts, NothingUndone, Grows
  <2>2. Secs(srv.obj[o].ver) = srv.obj[o].ver /\ Secs(work.obj[o].ver) = work.obj[o].ver
    BY <1>4, SecsIs DEF Ty, TyS
  <2>3. srv.obj[o].ver \in Nat /\ work.obj[o].ver \in Nat
    BY <1>4 DEF Ty, TyS
  <2> QED
    BY <2>1, <2>2, <2>3 DEF NotUndone, Excl
<1>6. ASSUME NEW d \in Clients, col[d].scm = srv'.scm, NEW o \in Objects
      PROVE  Agrees(col[d], srv', col[d].usn, o)
  <2> DEFINE k == col[d]
             s == srv
             b == work
             u == col[d].usn
             n == srv.usn
  <2>1. Ty(k, o) /\ u \in Nat /\ Excl(k, o) /\ TyS(s, o) /\ TyS(b, o) /\ n \in Nat
    BY <1>4, AgreeFacts
  <2>2. u <= n /\ Agrees(k, s, u, o)
    BY <1>1, <1>3, <1>6 DEF AgreeParts, DeviceAgrees, CommitAt, SessionParts, Behind
  <2>3. Grows(b, s, n, o) /\ (Present(s, o) /\ Present(b, o) => s.obj[o].ver <= b.obj[o].ver)
    BY <1>4, <1>5
  <2>4. k.obj[o] = k.obj[o] /\ k.grave[o] = k.grave[o] /\ srv'.obj[o] = b.obj[o] /\ srv'.grave[o] = b.grave[o]
    BY <1>3
  <2>5. u = col[d].usn /\ k = col[d]
    OBVIOUS
  <2> HIDE DEF k, s, b, u, n
  <2>6. Agrees(k, b, u, o)
    BY <2>1, <2>2, <2>3, AgreesAdvance
  <2> QED
    BY <2>4, <2>5, <2>6, AgreesAlike
<1>7. \A d \in Clients : \A o \in Objects : Excl(col[d], o)
  BY AgreeFacts
<1>8. ASSUME NEW o \in Objects
      PROVE  Excl(srv', o)
  BY <1>3, <1>4, AgreesAlike DEF Grows
<1>9. CASE FinishLost(c) \/ FinishCrash(c)
  <2>1. col' = col
    BY <1>9 DEF FinishLost, FinishCrash, RollBack
  <2> QED
    BY <1>1, <1>2, <1>6, <1>7, <1>8, <2>1, EndAgrees DEF InSession
<1>10. CASE Finish(c)
  <2> DEFINE l == [wcol[c] EXCEPT !.usn = st[c].susn + 1, !.mod = Now, !.ls = Now]
  <2>1. wcol[c] \in Collection("device") /\ col'[c] = l
    BY <1>1, <1>10, Typed DEF Finish, TypeInv, TypeOK
  <2>2. l.obj = wcol[c].obj /\ l.grave = wcol[c].grave
    BY <2>1 DEF Collection
  <2> HIDE DEF l
  <2>3. ASSUME NEW o \in Objects
        PROVE  Agrees(l, srv', l.usn, o) /\ Excl(l, o)
    <3> DEFINE w == wcol[c]
               b == work
               u == l.usn
    <3>1. Ty(w, o) /\ Ty(b, o) /\ Same(w, b, o) /\ Excl(b, o) /\ Tombs(w, b, o)
      BY <1>4 DEF Merged, TyS, Grows
    <3>2. l.obj[o] = w.obj[o] /\ l.grave[o] = w.grave[o] /\ srv'.obj[o] = b.obj[o]
          /\ srv'.grave[o] = b.grave[o] /\ u = l.usn
      BY <1>3, <2>2
    <3> HIDE DEF w, b, u
    <3>3. Agrees(w, b, u, o) /\ Excl(w, o)
      BY <3>1, AgreesEnd
    <3> QED
      BY <3>2, <3>3, AgreesAlike
  <2> QED
    BY <1>1, <1>2, <1>6, <1>8, <2>1, <2>3, EndAgrees DEF InSession
<1> QED
  BY <1>9, <1>10
-----------------------------------------------------------------------------

LEMMA AgreeStep ==
  ASSUME AgreeInv, Timely, [Next]_vars
  PROVE  AgreeParts'
<1>1. CASE UNCHANGED vars \/ ServerCrash
  BY <1>1, IdleSettles, SettlesAgrees
<1>2. ASSUME NEW c \in Clients, Local(c) \/ Meta(c) \/ Proceed(c) \/ Fault(c)
      PROVE  AgreeParts'
  <2>1. SessionInv
    BY DEF AgreeInv, LogInv
  <2>2. CASE Local(c) \/ ChooseUpload(c) \/ SanityFailed(c)
    BY <2>2, LocalAgrees, ChooseUploadAgrees, SanityFailedAgrees
  <2>3. CASE Meta(c)
    BY <2>1, <2>3, MetaSettles, SettlesAgrees
  <2>4. CASE Start(c) \/ SendGraves(c) \/ ApplyRemoteGraves(c)
    BY <2>4, StartAgrees, SendGravesAgrees, ApplyRemoteGravesAgrees
  <2>5. CASE SendChanges(c) \/ PullChunk(c) \/ PushChunk(c) \/ SanityCheck(c)
    BY <2>5, SendChangesAgrees, PullChunkAgrees, PushChunkAgrees, SanityCheckAgrees
  <2>6. CASE Finish(c) \/ FinishLost(c) \/ FinishCrash(c)
    BY <2>6, FinishAgrees
  <2>7. CASE GiveUp(c) \/ CancelFull(c)
    <3>1. Alone(c)
      BY <1>2, <2>1, StepsAreAlone DEF SessionInv, ReviewInv
    <3> QED
      BY <2>1, <2>7, <3>1, EndsSettle, SettlesAgrees
  <2>8. CASE Upload(c) \/ Download(c) \/ DownloadLost(c)
    BY <2>8, UploadAgrees, DownloadAgrees
  <2> QED
    BY <1>2, <2>2, <2>3, <2>4, <2>5, <2>6, <2>7, <2>8 DEF Proceed, Fault, Conflict, Fail
<1> QED
  BY <1>1, <1>2 DEF Next

LEMMA AgreeInit == Init => AgreeParts
<1> SUFFICES ASSUME Init PROVE AgreeParts
  OBVIOUS
<1> DEFINE obj == [o \in Objects |-> IF o \in Shared THEN [ver |-> 1, usn |-> 0] ELSE Absent]
           none == [o \in Objects |-> Absent]
           grave == [o \in Objects |-> NoGrave]
<1>1. \A o \in Objects : grave[o] = NoGrave
  OBVIOUS
<1>2. /\ Uploaded = [obj |-> obj, grave |-> grave, log |-> {}, conf |-> 1, usn |-> 1, mod |-> 1,
                     scm |-> 1, ls |-> 1]
      /\ Fresh = [obj |-> none, grave |-> grave, log |-> {}, conf |-> 0, usn |-> 0, mod |-> 0,
                  scm |-> 0, ls |-> 0]
  BY DEF Uploaded, Fresh
<1> HIDE DEF obj, none, grave
<1>3. /\ Uploaded.obj = obj /\ Uploaded.grave = grave /\ Downloaded.obj = obj
      /\ Downloaded.grave = grave /\ Fresh.grave = grave /\ Fresh.scm = 0
  BY <1>2 DEF Downloaded
<1>4. srv.scm = 1 /\ srv.obj = obj /\ srv.grave = grave
  <2>1. srv = [Downloaded EXCEPT !.ls = 1]
    BY DEF Init
  <2> QED
    BY <1>2, <2>1 DEF Downloaded
<1>5. ASSUME NEW c \in Clients
      PROVE  col[c].grave = grave /\ (col[c].scm = srv.scm => col[c].obj = obj)
  <2>1. col[c] \in {Uploaded, Downloaded, Fresh}
    BY DEF Init
  <2> QED
    BY <1>3, <1>4, <2>1
<1>6. \A o \in Objects : TyS(srv, o)
  BY InitType, Typed, TyIs
<1>7. \A o \in Objects : Excl(srv, o)
  BY <1>1, <1>4 DEF Excl
<1>8. ASSUME NEW c \in Clients
      PROVE  DeviceAgrees(c)
  <2>1. \A o \in Objects : Excl(col[c], o)
    BY <1>1, <1>5 DEF Excl
  <2>2. col[c].scm = srv.scm => \A o \in Objects : Agrees(col[c], srv, col[c].usn, o)
    BY <1>4, <1>5, <1>6, <1>7, AgreesItself
  <2>3. pc[c] = "idle"
    BY DEF Init
  <2> QED
    BY <2>1, <2>2, <2>3 DEF DeviceAgrees, CommitAt, InSession
<1> QED
  BY <1>7, <1>8 DEF AgreeParts

LEMMA AgreeAlways ==
  ASSUME Timely
  PROVE  Spec => []AgreeInv
<1>1. Init => AgreeInv
  BY LogInvInit, AgreeInit DEF AgreeInv
<1>2. AgreeInv /\ [Next]_vars => AgreeInv'
  BY LogInvStep, AgreeStep DEF AgreeInv
<1> QED
  BY <1>1, <1>2, PTL DEF Spec

-----------------------------------------------------------------------------
(* Reviews: what a device and the server agree on.                         *)

(* The server's reviews that a device does not have will be fetched.        *)
Heard(k, s, u) == \A r \in s.log : r.id \in ReviewIds(k) \/ r.usn >= u

(* The stages of a session, as in ObjAt; rest is what the server has still  *)
(* to send.                                                                 *)
LogAt(k, w, b, s, stage, x, rest) ==
  /\ \A r \in b.log : r \in s.log \/ r.usn = s.usn
  /\ stage \in {"graves", "changes"} => w.log = k.log /\ b.log = s.log
  /\ stage = "pull" => \A r \in b.log : r.id \in ReviewIds(w) \/ r \in rest
  /\ stage \in {"push", "sanity", "finish"} => ReviewIds(b) \subseteq ReviewIds(w)
  /\ stage = "push" => \A r \in w.log : r.usn = Pending => r \in x.ids.log
  /\ stage \in {"sanity", "finish"} => \A r \in w.log : r.usn # Pending

LogsAgree(c) ==
  /\ col[c].scm = srv.scm => Heard(col[c], srv, col[c].usn)
  /\ Owns(c) /\ InSession(c)
       => LogAt(col[c], wcol[c], work, srv, pc[c], st[c], Remaining.log)
HearParts == \A c \in Clients : LogsAgree(c)
HearInv == AgreeInv /\ HearParts

LEMMA OthersHear ==
  ASSUME HearInv, NEW c \in Clients, Alone(c), NEW d \in Clients, d # c,
         Owns(d)' => UNCHANGED <<srv, work, sess>>,
         UNCHANGED srv \/ (col[d].scm = srv'.scm => Heard(col[d], srv', col[d].usn))
  PROVE  LogsAgree(d)'
<1>1. /\ col'[d] = col[d] /\ wcol'[d] = wcol[d] /\ pc'[d] = pc[d] /\ st'[d] = st[d]
      /\ LogsAgree(d)
  BY DEF Alone, HearInv, HearParts
<1>2. col'[d].scm = srv'.scm => Heard(col'[d], srv', col'[d].usn)
  BY <1>1 DEF LogsAgree, Heard
<1>3. ASSUME Owns(d)', InSession(d)'
      PROVE  LogAt(col'[d], wcol'[d], work', srv', pc'[d], st'[d], Remaining.log')
  <2>1. sess' = sess /\ work' = work /\ srv' = srv /\ InSession(d) /\ Owns(d)
    BY <1>1, <1>3 DEF InSession, Owns
  <2>2. Remaining' = Remaining
    BY <2>1 DEF Remaining, ChunkableIds, PendingObjects, PendingReviews, Present, IsPending
  <2> QED
    BY <1>1, <2>1, <2>2 DEF LogsAgree
<1> QED
  BY <1>2, <1>3 DEF LogsAgree, Heard, ReviewIds

LEMMA RequestHears ==
  ASSUME HearInv, NEW c \in Clients, SessionStep(c),
         Owns(c) => LogAt(col[c], wcol'[c], work', srv, pc'[c], st'[c], Remaining.log')
  PROVE  HearParts'
<1>1. ASSUME NEW d \in Clients, d # c
      PROVE  LogsAgree(d)'
  <2>1. Owns(d)' => UNCHANGED <<srv, work, sess>>
    BY <1>1 DEF SessionStep, Owns
  <2> QED
    BY <1>1, <2>1, OthersHear DEF SessionStep
<1>2. LogsAgree(c)'
  <2>1. LogsAgree(c) /\ InSession(c) /\ srv' = srv /\ col' = col /\ (Owns(c)' => Owns(c))
    BY DEF HearInv, HearParts, SessionStep, Owns
  <2> QED
    BY <2>1 DEF LogsAgree, Heard, ReviewIds
<1> QED
  BY <1>1, <1>2 DEF HearParts

LEMMA EarlyHears ==
  ASSUME HearInv, NEW c \in Clients, SendGraves(c) \/ ApplyRemoteGraves(c)
  PROVE  HearParts'
<1>1. TypeInv
  BY DEF HearInv, AgreeInv, LogInv, SessionInv, ReviewInv
<1>2. /\ UNCHANGED <<clock, srv, sess, col>> /\ InSession(c) /\ pc[c] = "graves"
      /\ pc'[c] \in {"graves", "changes"} /\ InSession(c)'
      /\ work'.log = work.log /\ wcol'[c].log = wcol[c].log
      /\ st'[c].susn = st[c].susn /\ st'[c].cusn = st[c].cusn
      /\ work'.usn = work.usn /\ (Owns(c) \/ work' = work)
  <2>1. CASE SendGraves(c)
    <3>1. PICK t \in GraveChunks(st[c].graves) : /\ work' = ApplyGraves(work, t, sess.usn)
                                                 /\ st' = [st EXCEPT ![c].graves = @ \ t]
      BY <2>1 DEF SendGraves
    <3>2. work'.log = work.log /\ work'.usn = work.usn
      BY <1>1, <3>1, ApplyGravesIs, Typed DEF SameStamps
    <3>3. st'[c].susn = st[c].susn /\ st'[c].cusn = st[c].cusn
      BY <1>1, <3>1, Typed DEF TypeInv, TypeOK, State
    <3> QED
      BY <2>1, <3>2, <3>3 DEF SendGraves, InSession
  <2>2. CASE ApplyRemoteGraves(c)
    <3>1. /\ pc[c] = "graves" /\ UNCHANGED <<clock, srv, work, sess, col, st>>
          /\ wcol'[c] = ApplyGraves(wcol[c], st[c].remote, st[c].susn) /\ pc'[c] = "changes"
      BY <1>1, <2>2 DEF ApplyRemoteGraves, server, Goto, TypeInv, TypeOK
    <3>2. wcol'[c].log = wcol[c].log
      BY <1>1, <3>1, ApplyGravesIs, Typed
    <3> QED
      BY <3>1, <3>2 DEF InSession
  <2> QED
    BY <2>1, <2>2
<1>3. SessionStep(c)
  BY <1>1, <1>2, StepsAreAlone DEF SessionStep, Proceed
<1>4. Owns(c) => LogAt(col[c], wcol[c], work, srv, pc[c], st[c], Remaining.log)
  BY <1>2 DEF HearInv, HearParts, LogsAgree
<1>5. Owns(c) => LogAt(col[c], wcol'[c], work', srv, pc'[c], st'[c], Remaining.log')
  BY <1>2, <1>4 DEF LogAt
<1> QED
  BY <1>3, <1>5, RequestHears

LEMMA SendChangesHears ==
  ASSUME HearInv, Timely, NEW c \in Clients, SendChanges(c)
  PROVE  HearParts'
<1>1. TypeInv /\ AgreeInv
  BY DEF HearInv, AgreeInv, LogInv, SessionInv, ReviewInv
<1>2. /\ pc[c] = "changes" /\ pc'[c] = "pull" /\ Owns(c) /\ UNCHANGED <<clock, srv, sess, col, st>>
      /\ work'.usn = work.usn /\ work'.log = work.log /\ wcol'[c].log = wcol[c].log
  BY <1>1, SendChangesIs
<1>3. InSession(c) /\ SessionStep(c)
  BY <1>1, <1>2, StepsAreAlone DEF SessionStep, InSession, Proceed
<1>4. /\ LogAt(col[c], wcol[c], work, srv, pc[c], st[c], Remaining.log)
      /\ Heard(col[c], srv, col[c].usn) /\ sess.cusn = col[c].usn /\ ~sess.chunking
      /\ col[c].usn \in Nat
  BY <1>1, <1>2, <1>3, OpenFacts, AgreeFacts DEF HearInv, HearParts, LogsAgree, OpenAt
<1>5. \A r \in work'.log : r.usn >= col[c].usn => r \in Remaining.log'
  <2>1. Remaining' = ChunkableIds(work', sess.cusn)
    BY <1>2, <1>4 DEF Remaining
  <2>2. Remaining.log' = PendingReviews(work', sess.cusn)
    BY <2>1 DEF ChunkableIds
  <2> QED
    BY <1>4, <2>2 DEF PendingReviews, IsPending
<1>6. LogAt(col[c], wcol'[c], work', srv, pc'[c], st'[c], Remaining.log')
  BY <1>2, <1>4, <1>5 DEF LogAt, Heard, ReviewIds
<1> QED
  BY <1>3, <1>6, RequestHears

LEMMA PullChunkHears ==
  ASSUME HearInv, NEW c \in Clients, PullChunk(c)
  PROVE  HearParts'
<1>1. TypeInv /\ LogsFine
  BY DEF HearInv, AgreeInv, LogInv, SessionInv, ReviewInv
<1>2. PICK t \in Chunks(Remaining) :
           /\ pc[c] = "pull" /\ Owns(c) /\ UNCHANGED <<clock, srv, work, col>>
           /\ Remaining \in Ids /\ t.log \subseteq Remaining.log
           /\ sess'.owner = sess.owner /\ sess'.usn = sess.usn /\ sess'.cusn = sess.cusn
           /\ sess'.chunking = TRUE /\ sess'.ids = Rest(Remaining, t)
           /\ \/ /\ IsLast(t) /\ pc'[c] = "push" /\ st'[c].ids = ChunkableIds(wcol'[c], Pending)
                 /\ st'[c].susn = st[c].susn /\ st'[c].cusn = st[c].cusn
              \/ pc'[c] = "pull" /\ st'[c] = st[c]
           /\ wcol'[c].log = wcol[c].log \cup Unknown(t.log, wcol[c])
  BY <1>1, PullChunkIs
<1>3. InSession(c) /\ SessionStep(c)
  BY <1>1, <1>2, StepsAreAlone DEF SessionStep, InSession, Proceed
<1>4. LogAt(col[c], wcol[c], work, srv, pc[c], st[c], Remaining.log)
  BY <1>2, <1>3 DEF HearInv, HearParts, LogsAgree
<1>5. \A r \in work.log : r.id \in ReviewIds(wcol'[c]) \/ r \in Remaining.log \ t.log
  BY <1>2, <1>4 DEF LogAt, ReviewIds, Unknown
<1>6. CASE IsLast(t) /\ pc'[c] = "push" /\ st'[c].ids = ChunkableIds(wcol'[c], Pending)
  <2>1. t.log = Remaining.log
    BY <1>1, <1>2, <1>6, RemainingFine, LastIsRest DEF Fine
  <2>2. ReviewIds(work) \subseteq ReviewIds(wcol'[c])
    <3>1. \A r \in work.log : r.id \in ReviewIds(wcol'[c])
      BY <1>5, <2>1
    <3> QED
      BY <3>1 DEF ReviewIds
  <2>3. \A r \in wcol'[c].log : r.usn = Pending => r \in st'[c].ids.log
    BY <1>6 DEF ChunkableIds, PendingReviews, IsPending
  <2>4. LogAt(col[c], wcol'[c], work', srv, pc'[c], st'[c], Remaining.log')
    BY <1>2, <1>4, <1>6, <2>2, <2>3 DEF LogAt
  <2> QED
    BY <1>3, <2>4, RequestHears
<1>7. CASE pc'[c] = "pull"
  <2>1. Remaining.log' = Remaining.log \ t.log
    BY <1>2 DEF Remaining, Rest
  <2>2. LogAt(col[c], wcol'[c], work', srv, pc'[c], st'[c], Remaining.log')
    BY <1>2, <1>4, <1>5, <1>7, <2>1 DEF LogAt
  <2> QED
    BY <1>3, <2>2, RequestHears
<1> QED
  BY <1>2, <1>6, <1>7

LEMMA MarkedIs ==
  ASSUME NEW M \in SUBSET ReviewsOf("device"), NEW n \in Nat
  PROVE  /\ \A r \in M : \E s \in Marked(M, n) : s.id = r.id
         /\ \A s \in Marked(M, n) : s.usn = n
<1>1. \A r \in M : [r EXCEPT !.usn = n].id = r.id /\ [r EXCEPT !.usn = n].usn = n
  BY DEF ReviewsOf
<1> QED
  BY <1>1 DEF Marked

LEMMA PushChunkHears ==
  ASSUME HearInv, Timely, NEW c \in Clients, PushChunk(c)
  PROVE  HearParts'
<1>1. TypeInv /\ LogsFine /\ AgreeInv /\ st[c].ids \in Ids
  BY Typed DEF HearInv, AgreeInv, LogInv, SessionInv, ReviewInv, State
<1>2. PICK t \in Chunks(st[c].ids) :
           /\ pc[c] = "push" /\ Owns(c) /\ UNCHANGED <<clock, srv, sess, col>>
           /\ t.log \subseteq st[c].ids.log /\ st'[c].ids = Rest(st[c].ids, t)
           /\ st'[c].susn = st[c].susn /\ st'[c].cusn = st[c].cusn
           /\ work'.usn = work.usn
           /\ pc'[c] = "push" \/ (pc'[c] = "sanity" /\ IsLast(t))
           /\ wcol'[c].log = (wcol[c].log \ t.log) \cup Marked(t.log, st[c].susn)
           /\ work'.log = work.log \cup Unknown(Marked(t.log, st[c].susn), work)
  BY <1>1, PushChunkIs
<1>3. InSession(c) /\ SessionStep(c)
  BY <1>1, <1>2, StepsAreAlone DEF SessionStep, InSession, Proceed
<1>4. /\ LogAt(col[c], wcol[c], work, srv, pc[c], st[c], Remaining.log)
      /\ st[c].susn = srv.usn /\ srv.usn \in Nat
  BY <1>1, <1>2, <1>3, OpenFacts, AgreeFacts DEF HearInv, HearParts, LogsAgree
<1> DEFINE sent == Marked(t.log, st[c].susn)
<1>5. /\ \A r \in t.log : \E s \in sent : s.id = r.id
      /\ \A s \in sent : s.usn = srv.usn
  <2>1. t.log \in SUBSET ReviewsOf("device")
    BY <1>1, <1>2, LogTypes
  <2> QED
    BY <1>4, <2>1, MarkedIs
<1>6. /\ wcol'[c].log = (wcol[c].log \ t.log) \cup sent
      /\ work'.log = work.log \cup Unknown(sent, work)
  BY <1>2
<1> HIDE DEF sent
<1>7. ReviewIds(wcol[c]) \subseteq ReviewIds(wcol'[c])
  BY <1>5, <1>6 DEF ReviewIds
<1>8. ReviewIds(work') \subseteq ReviewIds(wcol'[c])
  <2>1. ReviewIds(work) \subseteq ReviewIds(wcol[c])
    BY <1>2, <1>4 DEF LogAt
  <2>2. \A r \in work'.log : r.id \in ReviewIds(wcol'[c])
    <3>1. \A r \in work.log : r.id \in ReviewIds(wcol'[c])
      BY <1>7, <2>1 DEF ReviewIds
    <3>2. \A r \in Unknown(sent, work) : r.id \in ReviewIds(wcol'[c])
      BY <1>6 DEF ReviewIds, Unknown
    <3> QED
      BY <1>6, <3>1, <3>2
  <2> QED
    BY <2>2 DEF ReviewIds
<1>9. \A r \in work'.log : r \in srv.log \/ r.usn = srv.usn
  BY <1>4, <1>5, <1>6 DEF LogAt, Unknown
<1>10. \A r \in wcol'[c].log : r.usn = Pending => r \in st[c].ids.log \ t.log
  BY <1>2, <1>4, <1>5, <1>6 DEF LogAt
<1>11. IsLast(t) => \A r \in wcol'[c].log : r.usn # Pending
  <2>1. IsLast(t) => t.log = st[c].ids.log
    BY <1>1, LastIsRest DEF Fine, LogsFine
  <2> QED
    BY <1>10, <2>1
<1>12. LogAt(col[c], wcol'[c], work', srv, pc'[c], st'[c], Remaining.log')
  BY <1>2, <1>8, <1>9, <1>10, <1>11 DEF LogAt, Rest
<1> QED
  BY <1>3, <1>12, RequestHears

LEMMA SanityCheckHears ==
  ASSUME HearInv, NEW c \in Clients, SanityCheck(c)
  PROVE  HearParts'
<1>1. TypeInv
  BY DEF HearInv, AgreeInv, LogInv, SessionInv, ReviewInv
<1>2. /\ pc[c] = "sanity" /\ UNCHANGED <<clock, srv, work, sess, col, wcol, st>>
      /\ Owns(c) /\ pc'[c] = "finish" /\ InSession(c)
  BY <1>1 DEF SanityCheck, server, Goto, TypeInv, TypeOK, InSession
<1>3. SessionStep(c)
  BY <1>1, <1>2, StepsAreAlone DEF SessionStep, InSession, Proceed
<1>4. LogAt(col[c], wcol'[c], work', srv, pc'[c], st'[c], Remaining.log')
  BY <1>2 DEF HearInv, HearParts, LogsAgree, LogAt
<1> QED
  BY <1>3, <1>4, RequestHears

LEMMA StartHears ==
  ASSUME HearInv, NEW c \in Clients, Start(c)
  PROVE  HearParts'
<1>1. /\ TypeInv /\ Alone(c) /\ pc[c] = "met" /\ wcol[c] = col[c]
  BY StepsAreAlone DEF HearInv, AgreeInv, LogInv, SessionInv, ReviewInv, Proceed, SessionParts, Start,
                       AttemptSound, InSession
<1>2. /\ work' = srv /\ UNCHANGED <<clock, srv, col>> /\ pc'[c] = "graves"
      /\ sess'.owner = c /\ wcol'[c].log = col[c].log
  <2>1. wcol'[c] = MarkGraves(col[c], st[c].susn)
    BY <1>1 DEF Start, TypeInv, TypeOK
  <2>2. wcol'[c].log = col[c].log
    BY <1>1, <2>1, Typed, MarkGravesIs
  <2> QED
    BY <1>1, <2>2 DEF Start, Goto, TypeInv, TypeOK, NoSession
<1>3. ASSUME NEW d \in Clients, d # c
      PROVE  LogsAgree(d)'
  <2>1. ~Owns(d)'
    BY <1>2, <1>3 DEF Owns
  <2> QED
    BY <1>1, <1>2, <1>3, <2>1, OthersHear
<1>4. LogAt(col[c], wcol'[c], work', srv, pc'[c], st'[c], Remaining.log')
  BY <1>2 DEF LogAt
<1>5. LogsAgree(c)'
  BY <1>2, <1>4 DEF LogsAgree, HearInv, HearParts, Heard, ReviewIds
<1> QED
  BY <1>3, <1>5 DEF HearParts
-----------------------------------------------------------------------------
(* Steps outside of a session.                                             *)

LEMMA SettlesHears ==
  ASSUME HearInv, Settles
  PROVE  HearParts'
<1>1. HearParts /\ TypeInv /\ srv' = srv /\ col' = col
  BY DEF HearInv, AgreeInv, LogInv, SessionInv, ReviewInv, Settles
<1>2. ASSUME NEW d \in Clients
      PROVE  LogsAgree(d)'
  <2>1. LogsAgree(d)
    BY <1>1 DEF HearParts
  <2>2. ASSUME Owns(d)', InSession(d)'
        PROVE  /\ Owns(d) /\ InSession(d) /\ UNCHANGED <<srv, work, sess>>
               /\ col'[d] = col[d] /\ wcol'[d] = wcol[d] /\ pc'[d] = pc[d] /\ st'[d] = st[d]
    <3>1. ~NoActiveSession
      BY <1>1, <2>2, Typed DEF NoActiveSession, NoSession, Owns
    <3>2. UNCHANGED <<work, sess>>
      BY <3>1 DEF Settles
    <3>3. wcol'[d] = wcol[d] /\ pc'[d] = pc[d] /\ st'[d] = st[d]
      BY <2>2 DEF Settles
    <3> QED
      BY <1>1, <2>2, <3>2, <3>3 DEF Owns, InSession
  <2>3. UNCHANGED <<work, sess>> => Remaining' = Remaining
    BY DEF Remaining, ChunkableIds, PendingObjects, PendingReviews, Present, IsPending
  <2> QED
    BY <1>1, <2>1, <2>2, <2>3 DEF LogsAgree, Heard, ReviewIds
<1> QED
  BY <1>2 DEF HearParts

LEMMA ChangeHears ==
  ASSUME HearInv, NEW c \in Clients, Alone(c), UNCHANGED srv, ~InSession(c)',
         \A d \in Clients \ {c} : Owns(d)' => UNCHANGED <<work, sess>>,
         col'[c].scm = srv.scm => Heard(col'[c], srv, col'[c].usn)
  PROVE  HearParts'
<1>1. ASSUME NEW d \in Clients, d # c
      PROVE  LogsAgree(d)'
  BY <1>1, OthersHear
<1>2. LogsAgree(c)'
  BY DEF LogsAgree, Heard, ReviewIds
<1> QED
  BY <1>1, <1>2 DEF HearParts

LEMMA ChangesHear ==
  ASSUME HearInv, NEW c \in Clients, Changes(c), [Next]_vars
  PROVE  HearParts'
<1>1. /\ Alone(c) /\ ~InSession(c)' /\ UNCHANGED <<srv, work, sess>>
      /\ \/ col'[c].scm = Now
         \/ col'[c].scm = col[c].scm /\ col'[c].usn = col[c].usn
  BY DEF Changes, InSession
<1>2. ReviewInv /\ clock \in Nat /\ srv.scm \in Nat /\ srv.scm <= clock /\ LogsAgree(c)
  BY Typed, FieldTypes DEF HearInv, AgreeInv, LogInv, SessionInv, ReviewInv, Stamps, HearParts
<1>3. Now # srv.scm
  BY <1>2 DEF Now
<1>4. col'[c].scm = col[c].scm => ReviewIds(col[c]) \subseteq ReviewIds(col'[c])
  <2>1. KeepsReviews \/ UNCHANGED vars
    BY <1>2, ReviewStep
  <2> QED
    BY <2>1 DEF KeepsReviews, vars
<1>5. col'[c].scm = srv.scm => Heard(col'[c], srv, col'[c].usn)
  BY <1>1, <1>2, <1>3, <1>4 DEF LogsAgree, Heard
<1> QED
  BY <1>1, <1>5, ChangeHears

LEMMA SanityFailedHears ==
  ASSUME HearInv, NEW c \in Clients, SanityFailed(c)
  PROVE  HearParts'
<1>1. TypeInv /\ Stamps /\ Alone(c)
  BY StepsAreAlone DEF HearInv, AgreeInv, LogInv, SessionInv, ReviewInv, Proceed
<1> DEFINE k == [col[c] EXCEPT !.scm = Now]
<1>2. /\ col'[c] = k /\ pc'[c] = "idle" /\ sess' \in {sess, NoSession} /\ srv' = srv /\ Owns(c)
  BY <1>1 DEF SanityFailed, TypeInv, TypeOK
<1>3. col[c] \in Collection("device") /\ clock \in Nat /\ srv.scm <= clock /\ Now = clock + 1
      /\ srv.scm \in Nat
  BY <1>1, Typed, FieldTypes DEF Stamps, Now
<1>4. k.scm = clock + 1
  BY <1>3 DEF Collection
<1> HIDE DEF k
<1>5. \A d \in Clients \ {c} : ~Owns(d)'
  BY <1>1, <1>2, Typed DEF Owns, NoSession
<1> QED
  BY <1>1, <1>2, <1>3, <1>4, <1>5, ChangeHears DEF InSession

LEMMA EndHears ==
  ASSUME HearInv, NEW c \in Clients, Alone(c), ~InSession(c)', sess' = NoSession,
         col'[c].scm = srv'.scm => Heard(col'[c], srv', col'[c].usn),
         \A d \in Clients \ {c} : col[d].scm = srv'.scm => Heard(col[d], srv', col[d].usn)
  PROVE  HearParts'
<1>1. \A d \in Clients : ~Owns(d)'
  <2>1. TypeInv
    BY DEF HearInv, AgreeInv, LogInv, SessionInv, ReviewInv
  <2> QED
    BY <2>1, Typed DEF Owns, NoSession
<1>2. ASSUME NEW d \in Clients, d # c
      PROVE  LogsAgree(d)'
  BY <1>1, <1>2, OthersHear
<1>3. LogsAgree(c)'
  BY <1>1 DEF LogsAgree, Heard, ReviewIds
<1> QED
  BY <1>2, <1>3 DEF HearParts

LEMMA UploadHears ==
  ASSUME HearInv, NEW c \in Clients, Upload(c)
  PROVE  HearParts'
<1>1. TypeInv /\ Directions /\ Alone(c)
  BY StepsAreAlone DEF HearInv, AgreeInv, LogInv, SessionInv, ReviewInv, Proceed
<1>2. /\ pc[c] = "uploading" /\ col' = col /\ srv' = col[c] /\ sess' = NoSession /\ pc'[c] = "idle"
  BY <1>1 DEF Upload, NoActiveSession, Goto, TypeInv, TypeOK
<1>3. \A d \in Clients \ {c} : col[d].scm # srv'.scm
  BY <1>1, <1>2 DEF Directions
<1>4. Heard(col'[c], srv', col'[c].usn)
  BY <1>2 DEF Heard, ReviewIds
<1> QED
  BY <1>1, <1>2, <1>3, <1>4, EndHears DEF InSession

LEMMA DownloadHears ==
  ASSUME HearInv, NEW c \in Clients, Download(c) \/ DownloadLost(c)
  PROVE  HearParts'
<1>1. TypeInv /\ Alone(c) /\ HearParts
  BY StepsAreAlone DEF HearInv, AgreeInv, LogInv, SessionInv, ReviewInv, Proceed, Fault
<1>2. /\ pc[c] = "full" /\ sess' = NoSession /\ pc'[c] = "idle" /\ clock \in Nat
      /\ srv' = [srv EXCEPT !.usn = srv.usn + 1, !.mod = Now]
  BY <1>1, Typed DEF Download, DownloadLost, ServeDownload, NoActiveSession, TypeInv, TypeOK
<1>3. srv'.scm = srv.scm /\ srv'.log = srv.log /\ srv' \in Collection("server")
  <2> DEFINE u == srv.usn + 1
             n == Now
  <2>1. u \in Nat /\ n \in Nat /\ srv' = [srv EXCEPT !.usn = u, !.mod = n] /\ srv \in Collection("server")
    BY <1>1, <1>2, Typed, FieldTypes DEF Now
  <2> HIDE DEF u, n
  <2> QED
    BY <2>1 DEF Collection
<1>4. \A d \in Clients : col[d].scm = srv'.scm => Heard(col[d], srv', col[d].usn)
  BY <1>1, <1>3 DEF HearParts, LogsAgree, Heard
<1>5. CASE DownloadLost(c)
  <2>1. col' = col
    BY <1>5 DEF DownloadLost
  <2> QED
    BY <1>1, <1>2, <1>4, <2>1, EndHears DEF InSession
<1>6. CASE Download(c)
  <2> DEFINE l == [srv' EXCEPT !.ls = srv'.mod]
  <2>1. col'[c] = l
    BY <1>1, <1>6 DEF Download, TypeInv, TypeOK
  <2>2. l.log = srv'.log
    BY <1>3 DEF Collection
  <2> HIDE DEF l
  <2>3. Heard(l, srv', l.usn)
    BY <2>2 DEF Heard, ReviewIds
  <2> QED
    BY <1>1, <1>2, <1>4, <2>1, <2>3, EndHears DEF InSession
<1> QED
  BY <1>5, <1>6

LEMMA FinishHears ==
  ASSUME HearInv, NEW c \in Clients, Finish(c) \/ FinishLost(c) \/ FinishCrash(c)
  PROVE  HearParts'
<1>1. TypeInv /\ HearParts /\ Stamps /\ SessionParts /\ Alone(c) /\ LogInv
  BY StepsAreAlone DEF HearInv, AgreeInv, LogInv, SessionInv, ReviewInv, Proceed, Fault
<1>2. /\ pc[c] = "finish" /\ Owns(c) /\ InSession(c) /\ sess' = NoSession /\ pc'[c] = "idle"
  BY <1>1 DEF Finish, FinishLost, FinishCrash, NoActiveSession, RollBack, TypeInv, TypeOK, InSession
<1>3. srv'.scm = srv.scm /\ srv'.log = work.log
  <2>1. srv' = Committed(work) \/ srv' = Stamped(Committed(work))
    BY DEF Finish, FinishLost, FinishCrash
  <2> QED
    BY <1>1, <2>1, CommittedIs DEF LogInv
<1>4. LogAt(col[c], wcol[c], work, srv, pc[c], st[c], Remaining.log)
  BY <1>1, <1>2 DEF HearParts, LogsAgree
<1>5. ASSUME NEW d \in Clients, col[d].scm = srv'.scm
      PROVE  Heard(col[d], srv', col[d].usn)
  <2>1. Heard(col[d], srv, col[d].usn) /\ col[d].usn <= srv.usn
    BY <1>1, <1>3, <1>5 DEF HearParts, LogsAgree, SessionParts, Behind
  <2>2. \A r \in work.log : r \in srv.log \/ r.usn = srv.usn
    BY <1>4 DEF LogAt
  <2> QED
    BY <1>3, <2>1, <2>2 DEF Heard
<1>6. CASE FinishLost(c) \/ FinishCrash(c)
  <2>1. col' = col
    BY <1>6 DEF FinishLost, FinishCrash, RollBack
  <2> QED
    BY <1>1, <1>2, <1>5, <2>1, EndHears DEF InSession
<1>7. CASE Finish(c)
  <2> DEFINE l == [wcol[c] EXCEPT !.usn = st[c].susn + 1, !.mod = Now, !.ls = Now]
  <2>1. wcol[c] \in Collection("device") /\ col'[c] = l
    BY <1>1, <1>7, Typed DEF Finish, TypeInv, TypeOK
  <2>2. l.log = wcol[c].log
    BY <2>1 DEF Collection
  <2> HIDE DEF l
  <2>3. ReviewIds(work) \subseteq ReviewIds(wcol[c])
    BY <1>2, <1>4 DEF LogAt
  <2>4. Heard(l, srv', l.usn)
    BY <1>3, <2>2, <2>3 DEF Heard, ReviewIds
  <2> QED
    BY <1>1, <1>2, <1>5, <2>1, <2>4, EndHears DEF InSession
<1> QED
  BY <1>6, <1>7
-----------------------------------------------------------------------------

LEMMA HearStep ==
  ASSUME HearInv, Timely, [Next]_vars
  PROVE  HearParts'
<1>0. SessionInv
  BY DEF HearInv, AgreeInv, LogInv
<1>1. CASE UNCHANGED vars \/ ServerCrash
  BY <1>1, IdleSettles, SettlesHears
<1>2. ASSUME NEW c \in Clients, Local(c) \/ Meta(c) \/ Proceed(c) \/ Fault(c)
      PROVE  HearParts'
  <2>1. CASE Local(c) \/ ChooseUpload(c)
    BY <1>0, <2>1, LocalChanges, ChooseUploadChanges, ChangesHear
  <2>2. CASE Meta(c)
    BY <1>0, <2>2, MetaSettles, SettlesHears
  <2>3. CASE Start(c) \/ SendGraves(c) \/ ApplyRemoteGraves(c)
    BY <2>3, StartHears, EarlyHears
  <2>4. CASE SendChanges(c) \/ PullChunk(c) \/ PushChunk(c) \/ SanityCheck(c) \/ SanityFailed(c)
    BY <2>4, SendChangesHears, PullChunkHears, PushChunkHears, SanityCheckHears, SanityFailedHears
  <2>5. CASE Finish(c) \/ FinishLost(c) \/ FinishCrash(c)
    BY <2>5, FinishHears
  <2>6. CASE GiveUp(c) \/ CancelFull(c)
    <3>1. Alone(c)
      BY <1>0, <1>2, StepsAreAlone DEF SessionInv, ReviewInv
    <3> QED
      BY <1>0, <2>6, <3>1, EndsSettle, SettlesHears
  <2>7. CASE Upload(c) \/ Download(c) \/ DownloadLost(c)
    BY <2>7, UploadHears, DownloadHears
  <2> QED
    BY <1>2, <2>1, <2>2, <2>3, <2>4, <2>5, <2>6, <2>7 DEF Proceed, Fault, Conflict, Fail
<1> QED
  BY <1>1, <1>2 DEF Next

LEMMA HearInit == Init => HearParts
<1> SUFFICES ASSUME Init PROVE HearParts
  OBVIOUS
<1>1. srv.log = {}
  BY DEF Init, Downloaded, Uploaded
<1>2. \A c \in Clients : pc[c] = "idle"
  BY DEF Init
<1> QED
  BY <1>1, <1>2 DEF HearParts, LogsAgree, Heard, InSession

LEMMA HearAlways ==
  ASSUME Timely
  PROVE  Spec => []HearInv
<1>1. Init => HearInv
  BY LogInvInit, AgreeInit, HearInit DEF HearInv, AgreeInv
<1>2. HearInv /\ [Next]_vars => HearInv'
  BY LogInvStep, AgreeStep, HearStep DEF HearInv, AgreeInv
<1> QED
  BY <1>1, <1>2, PTL DEF Spec
-----------------------------------------------------------------------------

(* No change falls between two usns, whatever sessions, failures and full   *)
(* syncs came before: what a device has that the server lacks is marked     *)
(* pending, and what the server has that the device lacks carries a usn     *)
(* that the device's next `start` asks for.                                 *)
THEOREM NothingIsMissed ==
  ASSUME Timely
  PROVE  Spec => []NothingMissed
<1>1. Spec => []HearInv
  BY HearAlways
<1>2. HearInv => NothingMissed
  <2> SUFFICES ASSUME HearInv, NEW c \in Clients, col[c].scm = srv.scm
               PROVE  /\ \A o \in Objects : \/ col[c].obj[o].ver = srv.obj[o].ver
                                            \/ WillBeSent(col[c], o)
                                            \/ WillBeFetched(col[c], o)
                      /\ \A r \in srv.log : r.id \in ReviewIds(col[c]) \/ r.usn >= col[c].usn
                      /\ \A r \in col[c].log : r.id \in ReviewIds(srv) \/ r.usn = Pending
    BY DEF NothingMissed
  <2>1. /\ SessionParts /\ LogsAgree(c) /\ \A o \in Objects : Agrees(col[c], srv, col[c].usn, o)
    BY DEF HearInv, HearParts, AgreeInv, AgreeParts, DeviceAgrees, CommitAt, LogInv, SessionInv
  <2>2. ASSUME NEW o \in Objects
        PROVE  \/ col[c].obj[o].ver = srv.obj[o].ver
               \/ WillBeSent(col[c], o)
               \/ WillBeFetched(col[c], o)
    BY <2>1 DEF Agrees, Same, NewRow, WillBeSent, WillBeFetched
  <2>3. \A r \in srv.log : r.id \in ReviewIds(col[c]) \/ r.usn >= col[c].usn
    BY <2>1 DEF LogsAgree, Heard
  <2>4. \A r \in col[c].log : r.id \in ReviewIds(srv) \/ r.usn = Pending
    BY <2>1 DEF SessionParts, ReviewsKnown
  <2> QED
    BY <2>2, <2>3, <2>4
<1> QED
  BY <1>1, <1>2, PTL

(* A log has one entry to an id.                                            *)
LEMMA LogSize ==
  ASSUME NEW k, NEW n, Fine(k.log, n)
  PROVE  Cardinality(k.log) = Cardinality(ReviewIds(k))
<1> DEFINE L == k.log
           T == ReviewIds(k)
           f == [r \in L |-> r.id]
<1>1. IsFiniteSet(L) /\ \A r, s \in L : r.id = s.id => r = s
  BY DEF Fine
<1>2. (\A r \in L : r.id \in T) /\ \A i \in T : \E r \in L : r.id = i
  BY DEF ReviewIds
<1>3. f \in [L -> T] /\ \A r \in L : f[r] = r.id
  BY <1>2
<1> HIDE DEF f, T, L
<1>4. f \in Surjection(L, T)
  BY <1>2, <1>3 DEF Surjection
<1>5. f \in Injection(L, T)
  BY <1>1, <1>3 DEF Injection, IsInjective
<1>6. Cardinality(T) = Cardinality(L)
  BY <1>1, <1>4, <1>5, FS_Surjection
<1> QED
  BY <1>6 DEF L, T

(* Every sync that gets as far as the sanity check passes it: the two sides *)
(* hold the same number of cards, decks and reviews, and nothing on either  *)
(* is left to send.                                                         *)
THEOREM SanityAlwaysHolds ==
  ASSUME Timely
  PROVE  Spec => []SanityHolds
<1>1. Spec => []HearInv
  BY HearAlways
<1>2. HearInv => SanityHolds
  <2> SUFFICES ASSUME HearInv, NEW c \in Clients, pc[c] = "sanity", Owns(c)
               PROVE  ~HasPending(wcol[c]) /\ Sane(c)
    BY DEF SanityHolds
  <2>1. /\ AgreeInv /\ LogsFine /\ SessionParts /\ TypeInv /\ InSession(c)
        /\ LogAt(col[c], wcol[c], work, srv, pc[c], st[c], Remaining.log)
    BY DEF HearInv, HearParts, LogsAgree, AgreeInv, LogInv, SessionInv, ReviewInv, InSession
  <2>2. \A o \in Objects : wcol[c].grave[o] # Pending /\ Merged(wcol[c], work, o)
    BY <2>1, OpenFacts DEF ObjAt
  <2>3. /\ ReviewIds(work) \subseteq ReviewIds(wcol[c])
        /\ \A r \in wcol[c].log : r.usn # Pending
    BY <2>1 DEF LogAt
  <2>4. ReviewIds(wcol[c]) = ReviewIds(work)
    <3>1. ReviewsArrive(c) /\ col[c].scm = srv.scm
      BY <2>1, OpenFacts DEF SessionParts, Arriving
    <3> QED
      BY <2>3, <3>1 DEF ReviewsArrive, ReviewIds
  <2>5. ~HasPending(wcol[c])
    BY <2>2, <2>3 DEF HasPending, PendingGraves, PendingObjects, PendingReviews, IsPending, Merged
  <2>6. ~HasPending(work)
    BY <2>1, Typed, NothingPendingOnServer
  <2>7. Cardinality(wcol[c].log) = Cardinality(work.log)
    <3>1. Cardinality(wcol[c].log) = Cardinality(ReviewIds(wcol[c]))
      BY <2>1, LogSize DEF LogsFine
    <3>2. Cardinality(work.log) = Cardinality(ReviewIds(work))
      BY <2>1, LogSize DEF LogsFine
    <3> QED
      BY <2>4, <3>1, <3>2
  <2>8. \A S \in SUBSET Objects : {o \in S : Present(wcol[c], o)} = {o \in S : Present(work, o)}
    BY <2>2 DEF Merged, Same, Present
  <2>9. Counts(wcol[c]) = Counts(work)
    <3>1. Cards \in SUBSET Objects /\ Decks \in SUBSET Objects
      BY DEF Objects
    <3> QED
      BY <2>7, <2>8, <3>1 DEF Counts
  <2> QED
    BY <2>5, <2>6, <2>9 DEF Sane
<1> QED
  BY <1>1, <1>2, PTL

-----------------------------------------------------------------------------
(* Stamps: equal ones mean equal collections.                              *)

(* The options travel with the decks, from the side changed last.           *)
OptionsAgree(c) ==
  Owns(c) /\ InSession(c) => /\ sess.newer = st[c].newer
                             /\ pc[c] \notin {"graves", "changes"} => wcol[c].conf = work.conf
OptionParts == \A c \in Clients : OptionsAgree(c)

Alike(k, s) == /\ \A o \in Objects : k.obj[o].ver = s.obj[o].ver
               /\ ReviewIds(k) = ReviewIds(s) /\ k.conf = s.conf

(* No two changes have one stamp, and the one chosen for an upload is       *)
(* nobody else's.                                                           *)
ModParts ==
  /\ srv.mod <= clock
  /\ \A c \in Clients : /\ col[c].mod <= clock
                        /\ col[c].mod = srv.mod => Alike(col[c], srv)
                        /\ pc[c] = "uploading" => \A d \in Clients \ {c} : col[d].mod # col[c].mod
SyncInv == HearInv /\ OptionParts /\ ModParts

LEMMA SyncFacts ==
  ASSUME SyncInv
  PROVE  /\ HearInv /\ AgreeInv /\ LogInv /\ SessionInv /\ SessionParts /\ TypeInv /\ LogsFine
         /\ clock \in Nat /\ srv.mod \in Nat /\ \A c \in Clients : col[c].mod \in Nat
  BY Typed, FieldTypes DEF SyncInv, HearInv, AgreeInv, LogInv, SessionInv, ReviewInv

LEMMA RequestSyncs ==
  ASSUME SyncInv, NEW c \in Clients, SessionStep(c), sess'.newer = sess.newer, st'[c].newer = st[c].newer,
         Owns(c) => (pc'[c] \notin {"graves", "changes"} => wcol'[c].conf = work'.conf)
  PROVE  OptionParts' /\ ModParts'
<1>1. OptionParts /\ ModParts
  BY DEF SyncInv
<1>2. ASSUME NEW d \in Clients
      PROVE  OptionsAgree(d)'
  <2>1. CASE d = c
    BY <1>1, <2>1 DEF OptionParts, OptionsAgree, SessionStep, Owns
  <2>2. CASE d # c
    <3>1. wcol'[d] = wcol[d] /\ pc'[d] = pc[d] /\ st'[d] = st[d]
      BY <2>2 DEF SessionStep, Alone
    <3>2. Owns(d)' => Owns(d) /\ UNCHANGED <<work, sess>>
      BY <2>2 DEF SessionStep, Owns
    <3> QED
      BY <1>1, <3>1, <3>2 DEF OptionParts, OptionsAgree, InSession
  <2> QED
    BY <2>1, <2>2
<1>3. ModParts'
  <2>1. \A d \in Clients : pc'[d] = "uploading" => pc[d] = "uploading"
    BY DEF SessionStep, Alone, InSession
  <2> QED
    BY <1>1, <2>1 DEF ModParts, SessionStep, Alike, ReviewIds
<1> QED
  BY <1>2, <1>3 DEF OptionParts

LEMMA SendGravesSyncs ==
  ASSUME SyncInv, NEW c \in Clients, SendGraves(c) \/ ApplyRemoteGraves(c) \/ SanityCheck(c)
  PROVE  OptionParts' /\ ModParts'
<1>1. TypeInv /\ OptionParts
  BY SyncFacts DEF SyncInv
<1>2. /\ UNCHANGED <<clock, srv, sess, col>> /\ InSession(c) /\ InSession(c)'
      /\ st'[c].susn = st[c].susn /\ st'[c].cusn = st[c].cusn /\ st'[c].newer = st[c].newer
      /\ work'.usn = work.usn /\ (Owns(c) \/ work' = work)
      /\ pc'[c] \notin {"graves", "changes"}
           => pc[c] \notin {"graves", "changes"} /\ UNCHANGED <<work, wcol>>
  <2>1. CASE SendGraves(c)
    <3>1. PICK t \in GraveChunks(st[c].graves) : /\ work' = ApplyGraves(work, t, sess.usn)
                                                 /\ st' = [st EXCEPT ![c].graves = @ \ t]
      BY <2>1 DEF SendGraves
    <3>2. work'.usn = work.usn
      BY <1>1, <3>1, ApplyGravesIs, Typed DEF SameStamps
    <3>3. st'[c].susn = st[c].susn /\ st'[c].cusn = st[c].cusn /\ st'[c].newer = st[c].newer
      BY <1>1, <3>1, Typed DEF TypeInv, TypeOK, State
    <3> QED
      BY <2>1, <3>2, <3>3 DEF SendGraves, InSession
  <2>2. CASE ApplyRemoteGraves(c) \/ SanityCheck(c)
    BY <1>1, <2>2 DEF ApplyRemoteGraves, SanityCheck, server, Goto, TypeInv, TypeOK, InSession
  <2> QED
    BY <2>1, <2>2
<1>3. SessionStep(c)
  BY <1>1, <1>2, StepsAreAlone DEF SessionStep, Proceed
<1>4. Owns(c) => (pc'[c] \notin {"graves", "changes"} => wcol'[c].conf = work'.conf)
  BY <1>1, <1>2 DEF OptionParts, OptionsAgree
<1> QED
  BY <1>2, <1>3, <1>4, RequestSyncs

LEMMA SendChangesSyncs ==
  ASSUME SyncInv, NEW c \in Clients, SendChanges(c)
  PROVE  OptionParts' /\ ModParts'
<1>1. TypeInv /\ OptionParts
  BY SyncFacts DEF SyncInv
<1>2. /\ pc[c] = "changes" /\ pc'[c] = "pull" /\ Owns(c) /\ UNCHANGED <<clock, srv, sess, col, st>>
      /\ work'.usn = work.usn
  BY <1>1, SendChangesIs
<1>3. InSession(c) /\ SessionStep(c)
  BY <1>1, <1>2, StepsAreAlone DEF SessionStep, InSession, Proceed
<1> DEFINE mine == PendingObjects(wcol[c], Decks, Pending)
           sent == MarkObjects(wcol[c], mine, {}, st[c].susn)
           theirs == PendingObjects(work, Decks, sess.cusn)
           push == Rows(sent, mine)
           pull == Rows(work, theirs)
           there == MergeUnchunked(work, push)
           here == MergeUnchunked(sent, pull)
<1>4. /\ st[c].susn \in Nat /\ wcol[c] \in Collection("device") /\ sess.cusn \in Nat
      /\ work \in Collection("server") /\ mine \in SUBSET Objects /\ theirs \in SUBSET Objects
  BY <1>1, Typed DEF PendingObjects, Objects
<1>5. sent \in Collection("device") /\ there \in Collection("server")
  BY <1>4, MarkObjectsType, SentRowsType, MergeUnchunkedType
<1>6. here \in Collection("device")
  <2>1. Rows(work, theirs) \in [theirs -> RowsOf("device")]
    BY <1>4, RowsType, ServerIsDevice
  <2> QED
    BY <1>4, <1>5, <2>1, MergeUnchunkedType
<1>7. /\ work' = IF st[c].newer THEN Conf(there, sent.conf) ELSE there
      /\ wcol'[c] = IF sess.newer THEN here ELSE Conf(here, work.conf)
  BY <1>1 DEF SendChanges, TypeInv, TypeOK
<1>8. sent.conf = wcol[c].conf
  <2>1. sent = MarkObjects(wcol[c], mine, {}, st[c].susn)
    OBVIOUS
  <2> HIDE DEF sent, mine
  <2> QED
    BY <1>4, <2>1, MarkObjectsIs
<1> HIDE DEF mine, sent, theirs, push, pull
<1>9. there.conf = work.conf /\ here.conf = sent.conf
  BY <1>4, <1>5, MergeUnchunkedIs
<1> HIDE DEF there, here
<1>10. /\ work'.conf = IF st[c].newer THEN sent.conf ELSE there.conf
       /\ wcol'[c].conf = IF sess.newer THEN here.conf ELSE work.conf
  BY <1>5, <1>6, <1>7, ConfIs
<1>11. sess.newer = st[c].newer
  BY <1>1, <1>2, <1>3 DEF OptionParts, OptionsAgree
<1> QED
  BY <1>2, <1>3, <1>9, <1>10, <1>11, RequestSyncs

LEMMA PullChunkSyncs ==
  ASSUME SyncInv, NEW c \in Clients, PullChunk(c)
  PROVE  OptionParts' /\ ModParts'
<1>1. TypeInv /\ OptionParts
  BY SyncFacts DEF SyncInv
<1>2. PICK t \in Chunks(Remaining) :
        /\ pc[c] = "pull" /\ Owns(c) /\ UNCHANGED <<clock, srv, work, col>>
        /\ sess' = [sess EXCEPT !.chunking = TRUE, !.ids = Rest(Remaining, t)]
        /\ wcol' = [wcol EXCEPT ![c] = MergeChunk(@, Rows(work, t.objs), t.log, Pending)]
        /\ IF IsLast(t)
           THEN /\ Goto(c, "push")
                /\ st' = [st EXCEPT ![c].ids = ChunkableIds(wcol'[c], Pending)]
           ELSE UNCHANGED <<pc, st>>
  BY DEF PullChunk, Remaining
<1>3. /\ wcol[c] \in Collection("device")
      /\ wcol'[c] = MergeChunk(wcol[c], Rows(work, t.objs), t.log, Pending)
      /\ sess'.owner = sess.owner /\ sess'.usn = sess.usn /\ sess'.cusn = sess.cusn
      /\ sess'.newer = sess.newer /\ pc'[c] \in {"pull", "push"}
      /\ st'[c].susn = st[c].susn /\ st'[c].cusn = st[c].cusn /\ st'[c].newer = st[c].newer
  BY <1>1, <1>2, Typed DEF Goto, TypeInv, TypeOK, State, Session
<1>4. wcol'[c].conf = wcol[c].conf
  BY <1>3, MergeChunkIs
<1>5. InSession(c) /\ SessionStep(c)
  BY <1>1, <1>2, <1>3, StepsAreAlone DEF SessionStep, InSession, Proceed
<1> QED
  BY <1>1, <1>2, <1>3, <1>4, <1>5, RequestSyncs DEF OptionParts, OptionsAgree

LEMMA PushChunkSyncs ==
  ASSUME SyncInv, NEW c \in Clients, PushChunk(c)
  PROVE  OptionParts' /\ ModParts'
<1>1. TypeInv /\ OptionParts /\ wcol[c] \in Collection("device") /\ work \in Collection("server")
  BY SyncFacts, Typed DEF SyncInv
<1>2. PICK t \in Chunks(st[c].ids) :
        LET sent == MarkObjects(wcol[c], t.objs, t.log, st[c].susn)
            reviews == {[r EXCEPT !.usn = st[c].susn] : r \in t.log}
        IN /\ wcol' = [wcol EXCEPT ![c] = sent]
           /\ work' = MergeChunk(work, Rows(sent, t.objs), reviews, sess.cusn)
           /\ st' = [st EXCEPT ![c].ids = Rest(@, t)]
           /\ pc' = IF IsLast(t) THEN [pc EXCEPT ![c] = "sanity"] ELSE pc
  BY DEF PushChunk
<1> DEFINE sent == MarkObjects(wcol[c], t.objs, t.log, st[c].susn)
           reviews == Marked(t.log, st[c].susn)
           rows == Rows(sent, t.objs)
<1>3. /\ pc[c] = "push" /\ Owns(c) /\ UNCHANGED <<clock, srv, sess, col>>
      /\ wcol'[c] = sent /\ work' = MergeChunk(work, rows, reviews, sess.cusn)
      /\ pc'[c] \in {"push", "sanity"}
      /\ st'[c].susn = st[c].susn /\ st'[c].cusn = st[c].cusn /\ st'[c].newer = st[c].newer
  BY <1>1, <1>2, Typed DEF PushChunk, TypeInv, TypeOK, State, Marked
<1>4. sent.conf = wcol[c].conf
  BY <1>1, MarkObjectsIs
<1> HIDE DEF sent, reviews, rows
<1>5. work'.conf = work.conf /\ work'.usn = work.usn
  BY <1>1, <1>3, MergeChunkIs DEF SameStamps
<1>6. InSession(c) /\ SessionStep(c)
  BY <1>1, <1>3, <1>5, StepsAreAlone DEF SessionStep, InSession, Proceed
<1> QED
  BY <1>1, <1>3, <1>4, <1>5, <1>6, RequestSyncs DEF OptionParts, OptionsAgree

LEMMA StartSyncs ==
  ASSUME SyncInv, NEW c \in Clients, Start(c)
  PROVE  OptionParts' /\ ModParts'
<1>1. TypeInv /\ Alone(c) /\ OptionParts /\ ModParts
  BY SyncFacts, StepsAreAlone DEF SyncInv, Proceed
<1>2. /\ UNCHANGED <<clock, srv, col>> /\ pc'[c] = "graves" /\ sess'.owner = c
      /\ sess'.newer = st[c].newer /\ st'[c].newer = st[c].newer
  <2>1. st[c] \in State
    BY <1>1, Typed
  <2> QED
    BY <1>1, <2>1 DEF Start, Goto, TypeInv, TypeOK, State, NoSession
<1>3. ASSUME NEW d \in Clients
      PROVE  OptionsAgree(d)'
  BY <1>2 DEF OptionsAgree, Owns
<1>4. ModParts'
  <2>1. \A d \in Clients : pc'[d] = "uploading" => pc[d] = "uploading"
    BY <1>1, <1>2 DEF Alone
  <2> QED
    BY <1>1, <1>2, <2>1 DEF ModParts, Alike, ReviewIds
<1> QED
  BY <1>3, <1>4 DEF OptionParts

LEMMA SettlesSyncs ==
  ASSUME SyncInv, Settles
  PROVE  OptionParts' /\ ModParts'
<1>1. OptionParts /\ ModParts /\ TypeInv /\ UNCHANGED <<clock, srv, col>>
  BY SyncFacts DEF SyncInv, Settles
<1>2. ASSUME NEW d \in Clients, Owns(d)', InSession(d)'
      PROVE  OptionsAgree(d)'
  <2>1. ~NoActiveSession
    BY <1>1, <1>2, Typed DEF NoActiveSession, NoSession, Owns
  <2>2. UNCHANGED <<work, sess>>
    BY <2>1 DEF Settles
  <2>3. wcol'[d] = wcol[d] /\ pc'[d] = pc[d] /\ st'[d] = st[d]
    BY <1>2 DEF Settles
  <2> QED
    BY <1>1, <1>2, <2>2, <2>3 DEF OptionParts, OptionsAgree, Owns, InSession
<1>3. ModParts'
  <2>1. \A d \in Clients : pc'[d] = "uploading" => pc[d] = "uploading"
    BY DEF Settles
  <2> QED
    BY <1>1, <2>1 DEF ModParts, Alike, ReviewIds
<1> QED
  BY <1>2, <1>3 DEF OptionParts, OptionsAgree
-----------------------------------------------------------------------------
(* A device changes its collection.                                        *)

LEMMA ChangeSyncs ==
  ASSUME SyncInv, NEW c \in Clients, Alone(c), UNCHANGED srv, clock' = clock + 1, ~InSession(c)',
         \A d \in Clients \ {c} : Owns(d)' => UNCHANGED <<work, sess>>,
         \/ col'[c].mod = clock + 1
         \/ pc'[c] = "idle" /\ col'[c].mod = col[c].mod /\ Alike(col'[c], col[c])
  PROVE  OptionParts' /\ ModParts'
<1>1. /\ OptionParts /\ ModParts /\ clock \in Nat /\ srv.mod \in Nat
      /\ \A d \in Clients : col[d].mod \in Nat
  BY SyncFacts DEF SyncInv
<1>2. \A d \in Clients \ {c} : /\ col'[d] = col[d] /\ wcol'[d] = wcol[d] /\ pc'[d] = pc[d]
                              /\ st'[d] = st[d]
  BY DEF Alone
<1>3. ASSUME NEW d \in Clients
      PROVE  OptionsAgree(d)'
  <2>1. CASE d = c
    BY <2>1 DEF OptionsAgree
  <2>2. CASE d # c
    <3>1. Owns(d)' => Owns(d) /\ UNCHANGED <<work, sess>>
      BY <2>2 DEF Owns
    <3> QED
      BY <1>1, <1>2, <2>2, <3>1 DEF OptionParts, OptionsAgree, InSession
  <2> QED
    BY <2>1, <2>2
<1>4. ASSUME NEW d \in Clients
      PROVE  /\ col'[d].mod <= clock'
             /\ col'[d].mod = srv.mod => Alike(col'[d], srv)
             /\ pc'[d] = "uploading" => \A e \in Clients \ {d} : col'[e].mod # col'[d].mod
  <2>1. col[d].mod <= clock /\ srv.mod <= clock /\ (col[d].mod = srv.mod => Alike(col[d], srv))
    BY <1>1 DEF ModParts
  <2>2. col'[d].mod <= clock' /\ (col'[d].mod = srv.mod => Alike(col'[d], srv))
    <3>1. CASE d = c
      BY <1>1, <2>1, <3>1 DEF Alike
    <3>2. CASE d # c
      BY <1>1, <1>2, <2>1, <3>2
    <3> QED
      BY <3>1, <3>2
  <2>3. ASSUME pc'[d] = "uploading", NEW e \in Clients \ {d}
        PROVE  col'[e].mod # col'[d].mod
    <3>1. col[e].mod <= clock /\ col[e].mod \in Nat /\ col[d].mod \in Nat
      BY <1>1 DEF ModParts
    <3>2. CASE d = c
      BY <1>1, <1>2, <2>3, <3>1, <3>2
    <3>3. CASE d # c
      <4>1. pc[d] = "uploading" /\ col[e].mod # col[d].mod /\ col'[d] = col[d]
        BY <1>1, <1>2, <2>3, <3>3 DEF ModParts
      <4>2. col'[e].mod \in {col[e].mod, clock + 1}
        BY <1>2
      <4> QED
        BY <1>1, <2>1, <3>1, <4>1, <4>2
    <3> QED
      BY <3>2, <3>3
  <2> QED
    BY <2>2, <2>3
<1>5. ModParts'
  <2>1. srv.mod <= clock'
    BY <1>1 DEF ModParts
  <2> QED
    BY <1>4, <2>1 DEF ModParts, Alike, ReviewIds
<1> QED
  BY <1>3, <1>5 DEF OptionParts

LEMMA LocalSyncs ==
  ASSUME SyncInv, NEW c \in Clients, Local(c)
  PROVE  OptionParts' /\ ModParts'
<1>1. /\ Alone(c) /\ pc[c] = "idle" /\ TypeInv /\ clock \in Nat
      /\ \E k \in Collection("device") : Commit(c, k)
  <2>1. TypeInv /\ Alone(c) /\ clock \in Nat /\ col[c] \in Collection("device") /\ Now \in Nat
    BY SyncFacts, StepsAreAlone, Typed DEF Now
  <2>2. \A o \in Objects : Touch(col[c], o) \in Collection("device")
    BY <2>1 DEF Touch, Collection, Usns
  <2>3. ASSUME NEW o \in Objects, Create(c, o) \/ Edit(c, o) \/ Delete(c, o)
        PROVE  \E k \in Collection("device") : Commit(c, k)
    <3>1. ApplyGraves(col[c], {o}, Pending) \in Collection("device")
      BY <2>1, ApplyGravesType DEF Usns
    <3> QED
      BY <2>2, <2>3, <3>1 DEF Create, Edit, Delete
  <2>4. ASSUME NEW o \in Cards, Answer(c, o)
        PROVE  \E k \in Collection("device") : Commit(c, k)
    <3> DEFINE m == Touch(col[c], o)
               n == Now
               l == [m EXCEPT !.log = @ \cup {[id |-> n, usn |-> Pending]}]
    <3>1. m \in Collection("device") /\ n \in Nat /\ Commit(c, l)
      BY <2>1, <2>2, <2>4 DEF Answer, Objects
    <3>2. l = [m EXCEPT !.log = @ \cup {[id |-> n, usn |-> Pending]}]
      OBVIOUS
    <3> HIDE DEF m, n, l
    <3>3. l \in Collection("device")
      BY <3>1, <3>2 DEF Collection, Usns
    <3> QED
      BY <3>1, <3>3
  <2>5. ASSUME SetConfig(c) \/ ChangeSchema(c)
        PROVE  \E k \in Collection("device") : Commit(c, k)
    <3> DEFINE n == Now
               l == [col[c] EXCEPT !.scm = n]
    <3>1. Conf(col[c], n) \in Collection("device") /\ l \in Collection("device")
      BY <2>1, ConfType DEF Collection
    <3>2. Commit(c, Conf(col[c], n)) \/ Commit(c, l)
      BY <2>5 DEF SetConfig, ChangeSchema
    <3> HIDE DEF l, n
    <3> QED
      BY <3>1, <3>2
  <2> QED
    BY <2>1, <2>3, <2>4, <2>5 DEF Local, Create, Edit, Delete, Answer, SetConfig, ChangeSchema
<1>2. PICK k \in Collection("device") : Commit(c, k)
  BY <1>1
<1> DEFINE n == Now
           l == [k EXCEPT !.mod = n]
<1>3. /\ col'[c] = l /\ pc'[c] = "idle" /\ UNCHANGED <<srv, work, sess>> /\ clock' = n
      /\ n = clock + 1
  BY <1>1, <1>2 DEF Commit, server, TypeInv, TypeOK, Now
<1>4. l.mod = n
  BY DEF Collection
<1> HIDE DEF l, n
<1> QED
  BY <1>1, <1>3, <1>4, ChangeSyncs DEF InSession

LEMMA ChooseUploadSyncs ==
  ASSUME SyncInv, NEW c \in Clients, ChooseUpload(c)
  PROVE  OptionParts' /\ ModParts'
<1> DEFINE l == ForUpload(col[c])
<1>1. col[c] \in Collection("device") /\ clock \in Nat /\ Alone(c) /\ TypeInv
  BY SyncFacts, Typed, StepsAreAlone DEF Proceed
<1>2. /\ col'[c] = l /\ UNCHANGED <<srv, work, sess>> /\ pc'[c] = "uploading" /\ clock' = Now
  BY <1>1 DEF ChooseUpload, server, TypeInv, TypeOK, Goto
<1>3. l.mod = Now
  BY <1>1, ForUploadIs
<1> HIDE DEF l
<1> QED
  BY <1>1, <1>2, <1>3, ChangeSyncs DEF InSession, Now

LEMMA SanityFailedSyncs ==
  ASSUME SyncInv, NEW c \in Clients, SanityFailed(c)
  PROVE  OptionParts' /\ ModParts'
<1>1. TypeInv /\ Alone(c) /\ col[c] \in Collection("device") /\ clock \in Nat
  BY SyncFacts, StepsAreAlone, Typed DEF Proceed
<1> DEFINE n == Now
           k == [col[c] EXCEPT !.scm = n]
<1>2. /\ col'[c] = k /\ pc'[c] = "idle" /\ sess' \in {sess, NoSession} /\ srv' = srv /\ Owns(c)
      /\ clock' = n /\ n = clock + 1
  BY <1>1 DEF SanityFailed, TypeInv, TypeOK, Now
<1>3. k.mod = col[c].mod /\ k.obj = col[c].obj /\ k.log = col[c].log /\ k.conf = col[c].conf
  BY <1>1 DEF Collection
<1> HIDE DEF k, n
<1>4. \A d \in Clients \ {c} : ~Owns(d)'
  BY <1>1, <1>2, Typed DEF Owns, NoSession
<1>5. Alike(k, col[c])
  BY <1>3 DEF Alike, ReviewIds
<1> QED
  BY <1>1, <1>2, <1>3, <1>4, <1>5, ChangeSyncs DEF InSession
-----------------------------------------------------------------------------
(* The server's collection is replaced.                                    *)

LEMMA EndSyncs ==
  ASSUME SyncInv, NEW c \in Clients, Alone(c), pc'[c] = "idle", sess' = NoSession,
         clock' \in {clock, clock + 1}, srv'.mod <= clock', col'[c].mod <= clock',
         col'[c].mod = srv'.mod => Alike(col'[c], srv'),
         \A d \in Clients \ {c} : col[d].mod # srv'.mod,
         col'[c].mod \in {col[c].mod, clock + 1}
  PROVE  OptionParts' /\ ModParts'
<1>1. /\ ModParts /\ clock \in Nat /\ TypeInv
      /\ \A d \in Clients : col[d].mod \in Nat
  BY SyncFacts DEF SyncInv
<1>2. \A d \in Clients \ {c} : col'[d] = col[d] /\ pc'[d] = pc[d]
  BY DEF Alone
<1>3. OptionParts'
  BY <1>1, Typed DEF OptionParts, OptionsAgree, Owns, NoSession
<1>4. ASSUME NEW d \in Clients
      PROVE  /\ col'[d].mod <= clock'
             /\ col'[d].mod = srv'.mod => Alike(col'[d], srv')
             /\ pc'[d] = "uploading" => \A e \in Clients \ {d} : col'[e].mod # col'[d].mod
  <2>1. col[d].mod <= clock
    BY <1>1 DEF ModParts
  <2>2. col'[d].mod <= clock' /\ (col'[d].mod = srv'.mod => Alike(col'[d], srv'))
    BY <1>1, <1>2, <2>1
  <2>3. ASSUME pc'[d] = "uploading", NEW e \in Clients \ {d}
        PROVE  col'[e].mod # col'[d].mod
    <3>1. d # c /\ pc[d] = "uploading" /\ col'[d] = col[d] /\ col[e].mod # col[d].mod
      BY <1>1, <1>2, <2>3 DEF ModParts
    <3>2. col'[e].mod \in {col[e].mod, clock + 1}
      BY <1>2
    <3> QED
      BY <1>1, <2>1, <3>1, <3>2
  <2> QED
    BY <2>2, <2>3
<1> QED
  BY <1>3, <1>4 DEF ModParts, Alike, ReviewIds

LEMMA UploadSyncs ==
  ASSUME SyncInv, NEW c \in Clients, Upload(c)
  PROVE  OptionParts' /\ ModParts'
<1>1. TypeInv /\ Alone(c) /\ ModParts
  BY SyncFacts, StepsAreAlone DEF SyncInv, Proceed
<1>2. /\ pc[c] = "uploading" /\ clock' = clock /\ col' = col /\ srv' = col[c] /\ sess' = NoSession
      /\ pc'[c] = "idle"
  BY <1>1 DEF Upload, NoActiveSession, Goto, TypeInv, TypeOK
<1>3. Alike(col[c], col[c]) /\ col[c].mod <= clock /\ \A d \in Clients \ {c} : col[d].mod # col[c].mod
  BY <1>1, <1>2 DEF ModParts, Alike
<1> QED
  BY <1>1, <1>2, <1>3, EndSyncs

LEMMA DownloadSyncs ==
  ASSUME SyncInv, NEW c \in Clients, Download(c) \/ DownloadLost(c)
  PROVE  OptionParts' /\ ModParts'
<1>1. /\ TypeInv /\ Alone(c) /\ ModParts /\ clock \in Nat /\ srv.mod \in Nat
      /\ \A d \in Clients : col[d].mod \in Nat
  BY SyncFacts, StepsAreAlone DEF SyncInv, Proceed, Fault
<1> DEFINE u == srv.usn + 1
           n == Now
           m == [srv EXCEPT !.usn = u, !.mod = n]
           l == [m EXCEPT !.ls = m.mod]
<1>2. /\ sess' = NoSession /\ pc'[c] = "idle" /\ clock' = n /\ srv' = m
      /\ n = clock + 1 /\ u \in Nat /\ srv \in Collection("server")
  BY <1>1, Typed, FieldTypes DEF Download, DownloadLost, ServeDownload, NoActiveSession, TypeInv, TypeOK, Now
<1>3. col'[c] = l \/ col' = col
  BY <1>1 DEF Download, DownloadLost, TypeInv, TypeOK, ServeDownload
<1>4. m.mod = n
  <2> HIDE DEF u, n
  <2> QED
    BY <1>2 DEF Collection
<1>5. l.mod = m.mod /\ l.obj = m.obj /\ l.log = m.log /\ l.conf = m.conf
  <2>1. m \in Collection("server")
    <3>1. n \in Nat
      BY <1>1, <1>2
    <3> HIDE DEF u, n
    <3> QED
      BY <1>2, <3>1 DEF Collection
  <2> HIDE DEF m
  <2> QED
    BY <2>1 DEF Collection
<1> HIDE DEF u, n, m, l
<1>6. Alike(l, m)
  BY <1>5 DEF Alike, ReviewIds
<1>7. \A d \in Clients : col[d].mod <= clock
  BY <1>1 DEF ModParts
<1>8. \A d \in Clients : col[d].mod # srv'.mod
  BY <1>1, <1>2, <1>4, <1>7
<1>9. CASE col'[c] = l
  BY <1>1, <1>2, <1>4, <1>5, <1>6, <1>8, <1>9, EndSyncs
<1>10. CASE col' = col
  BY <1>1, <1>2, <1>4, <1>7, <1>8, <1>10, EndSyncs
<1> QED
  BY <1>3, <1>9, <1>10

LEMMA StampedIs ==
  ASSUME TypeInv, NEW l, l = Stamped(Committed(work))
  PROVE  l.mod = Now /\ l.conf = work.conf
<1> DEFINE n == Now
           k == Committed(work)
<1>1. work \in Collection("server") /\ k \in Collection("server")
  BY Typed, CommittedType
<1>2. k.conf = work.conf
  <2> DEFINE u == work.usn + 1
  <2>1. k = [work EXCEPT !.usn = u, !.ls = n]
    BY DEF Committed
  <2> HIDE DEF u, k, n
  <2> QED
    BY <1>1, <2>1 DEF Collection
<1>3. l = [k EXCEPT !.mod = n]
  BY DEF Stamped
<1> HIDE DEF k
<1>4. l.mod = n /\ l.conf = k.conf
  <2> HIDE DEF n
  <2> QED
    BY <1>1, <1>3 DEF Collection
<1> QED
  BY <1>2, <1>4

(* At the end of a session the two savepoints hold the same.                *)
LEMMA FinishedAlike ==
  ASSUME SyncInv, Timely, NEW c \in Clients, pc[c] = "finish", Owns(c)
  PROVE  Alike(wcol[c], work)
<1>1. /\ AgreeInv /\ SessionParts /\ OptionParts /\ HearParts /\ InSession(c)
  BY SyncFacts DEF SyncInv, HearInv, InSession
<1>2. \A o \in Objects : wcol[c].obj[o].ver = work.obj[o].ver
  BY <1>1, OpenFacts DEF ObjAt, Merged, Same
<1>3. ReviewIds(wcol[c]) = ReviewIds(work)
  <2>1. ReviewsArrive(c) /\ col[c].scm = srv.scm
    BY <1>1, OpenFacts DEF SessionParts, Arriving
  <2>2. ReviewIds(work) \subseteq ReviewIds(wcol[c]) /\ \A r \in wcol[c].log : r.usn # Pending
    BY <1>1 DEF HearParts, LogsAgree, LogAt
  <2> QED
    BY <2>1, <2>2 DEF ReviewsArrive, ReviewIds
<1>4. wcol[c].conf = work.conf
  BY <1>1 DEF OptionParts, OptionsAgree
<1> QED
  BY <1>2, <1>3, <1>4 DEF Alike

LEMMA FinishSyncs ==
  ASSUME SyncInv, Timely, NEW c \in Clients, Finish(c) \/ FinishLost(c)
  PROVE  OptionParts' /\ ModParts'
<1>1. /\ TypeInv /\ Alone(c) /\ ModParts /\ clock \in Nat /\ Stamps /\ SessionInv
      /\ \A d \in Clients : col[d].mod \in Nat
  BY SyncFacts, StepsAreAlone DEF SyncInv, Proceed, Fault, SessionInv, ReviewInv
<1> DEFINE m == Stamped(Committed(work))
           l == [wcol[c] EXCEPT !.usn = st[c].susn + 1, !.mod = Now, !.ls = Now]
<1>2. /\ sess' = NoSession /\ pc'[c] = "idle" /\ clock' = Now /\ srv' = m /\ Now = clock + 1
      /\ pc[c] = "finish" /\ Owns(c) /\ (col'[c] = l \/ col' = col)
  BY <1>1 DEF Finish, FinishLost, NoActiveSession, RollBack, TypeInv, TypeOK, Now
<1>3. m.mod = Now /\ m.conf = work.conf /\ m.obj = work.obj /\ m.log = work.log
  BY <1>1, StampedIs, CommittedIs
<1>4. l.mod = Now /\ l.conf = wcol[c].conf /\ l.obj = wcol[c].obj /\ l.log = wcol[c].log
  <2> DEFINE u == st[c].susn + 1
             n == Now
             k == wcol[c]
  <2>1. k \in Collection("device") /\ l = [k EXCEPT !.usn = u, !.mod = n, !.ls = n]
    BY <1>1, Typed
  <2> HIDE DEF u, n, l, k
  <2> QED
    <3>1. l.mod = n /\ l.conf = k.conf /\ l.obj = k.obj /\ l.log = k.log
      BY <2>1 DEF Collection
    <3> QED
      BY <3>1 DEF k, n
<1> HIDE DEF m, l
<1>5. Alike(l, m)
  BY <1>2, <1>3, <1>4, FinishedAlike DEF Alike, ReviewIds
<1>6. \A d \in Clients : col[d].mod <= clock
  BY <1>1 DEF ModParts
<1>7. \A d \in Clients : col[d].mod # srv'.mod
  BY <1>1, <1>2, <1>3, <1>6
<1>8. CASE col'[c] = l
  BY <1>1, <1>2, <1>3, <1>4, <1>5, <1>7, <1>8, EndSyncs
<1>9. CASE col' = col
  BY <1>1, <1>2, <1>3, <1>6, <1>7, <1>9, EndSyncs
<1> QED
  BY <1>2, <1>8, <1>9
-----------------------------------------------------------------------------

LEMMA SyncStep ==
  ASSUME SyncInv, Timely, "finish_crash" \notin Events, [Next]_vars
  PROVE  OptionParts' /\ ModParts'
<1>0. SessionInv /\ ReviewInv /\ TypeInv
  BY SyncFacts DEF SessionInv, ReviewInv
<1>1. CASE UNCHANGED vars \/ ServerCrash
  BY <1>1, IdleSettles, SettlesSyncs
<1>2. ASSUME NEW c \in Clients, Local(c) \/ Meta(c) \/ Proceed(c) \/ Fault(c)
      PROVE  OptionParts' /\ ModParts'
  <2>1. CASE Local(c) \/ ChooseUpload(c) \/ SanityFailed(c)
    BY <2>1, LocalSyncs, ChooseUploadSyncs, SanityFailedSyncs
  <2>2. CASE Meta(c)
    BY <1>0, <2>2, MetaSettles, SettlesSyncs
  <2>3. CASE Start(c) \/ SendGraves(c) \/ ApplyRemoteGraves(c) \/ SanityCheck(c)
    BY <2>3, StartSyncs, SendGravesSyncs
  <2>4. CASE SendChanges(c) \/ PullChunk(c) \/ PushChunk(c)
    BY <2>4, SendChangesSyncs, PullChunkSyncs, PushChunkSyncs
  <2>5. CASE Finish(c) \/ FinishLost(c)
    BY <2>5, FinishSyncs
  <2>6. CASE GiveUp(c) \/ CancelFull(c)
    BY <1>0, <1>2, <2>6, StepsAreAlone, EndsSettle, SettlesSyncs
  <2>7. CASE Upload(c) \/ Download(c) \/ DownloadLost(c)
    BY <2>7, UploadSyncs, DownloadSyncs
  <2>8. ~FinishCrash(c)
    BY DEF FinishCrash
  <2> QED
    BY <1>2, <2>1, <2>2, <2>3, <2>4, <2>5, <2>6, <2>7, <2>8 DEF Proceed, Fault, Conflict, Fail
<1> QED
  BY <1>1, <1>2 DEF Next

LEMMA SyncInit == Init => OptionParts /\ ModParts
<1> SUFFICES ASSUME Init PROVE OptionParts /\ ModParts
  OBVIOUS
<1>1. /\ Uploaded.mod = 1 /\ Fresh.mod = 0 /\ Uploaded.log = {}
      /\ Downloaded.mod = 2 /\ Downloaded.obj = Uploaded.obj /\ Downloaded.log = {}
      /\ Downloaded.conf = 1
  BY DEF Uploaded, Fresh, Downloaded
<1>2. srv.mod = 2 /\ srv.obj = Downloaded.obj /\ srv.log = {} /\ srv.conf = 1 /\ clock = 2
  BY <1>1 DEF Init, Downloaded, Uploaded
<1>3. \A c \in Clients : col[c] \in {Uploaded, Downloaded, Fresh} /\ pc[c] = "idle"
  BY DEF Init
<1>4. OptionParts
  BY <1>3 DEF OptionParts, OptionsAgree, InSession
<1>5. ModParts
  BY <1>1, <1>2, <1>3 DEF ModParts, Alike, ReviewIds
<1> QED
  BY <1>4, <1>5

LEMMA SyncAlways ==
  ASSUME Timely, "finish_crash" \notin Events
  PROVE  Spec => []SyncInv
<1>1. Init => SyncInv
  BY LogInvInit, AgreeInit, HearInit, SyncInit DEF SyncInv, HearInv, AgreeInv
<1>2. SyncInv /\ [Next]_vars => SyncInv'
  BY LogInvStep, AgreeStep, HearStep, SyncStep DEF SyncInv, HearInv, AgreeInv
<1> QED
  BY <1>1, <1>2, PTL DEF Spec

(* "Your collection is up to date" is true: a device whose stamp in `meta`  *)
(* equals the server's has the server's cards, decks, reviews and options,  *)
(* after any interleaving of edits, sessions, faults and full syncs.        *)
THEOREM DevicesConverge ==
  ASSUME Timely, "finish_crash" \notin Events
  PROVE  Spec => []Converged
<1>1. Spec => []SyncInv
  BY SyncAlways
<1>2. SyncInv => Converged
  <2> SUFFICES ASSUME SyncInv, NEW c \in Clients, col[c].mod = srv.mod
               PROVE  Content(col[c]) = Content(srv)
    BY DEF Converged
  <2>1. Alike(col[c], srv)
    BY DEF SyncInv, ModParts
  <2>2. [o \in Objects |-> col[c].obj[o].ver] = [o \in Objects |-> srv.obj[o].ver]
    BY <2>1 DEF Alike
  <2> QED
    BY <2>1, <2>2 DEF Alike, Content
<1> QED
  BY <1>1, <1>2, PTL
=============================================================================
