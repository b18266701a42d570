--------------------------- MODULE ServiceProofs ---------------------------
(***************************************************************************)
(* What the whole service promises on top of AvatarsProofs: what it takes  *)
(* over from the queue, what a refused upload leaves behind, and that one  *)
(* worker never shows a mixed picture.                                     *)
(***************************************************************************)
EXTENDS AvatarsProofs, BudgetProofs

-----------------------------------------------------------------------------
\* The service, seen from its tasks, is the ledger of module TaskLedger: uploads that
\* were queued end as done or dead, and only an outage after a failure loses one.
THEOREM ServiceKeepsLedger == Spec => LedgerSpec
  BY ImplementsQueue, ImplementsLedger, PTL

\* Handle never works on an upload that is already recorded in processed_messages, with
\* one worker or without faults.
THEOREM UploadsProcessedOnce == Spec => []NoRework
  BY ImplementsQueue, ProcessedOnce, PTL

\* However often storage, images or the broker fail, an upload is attempted a bounded number
\* of times: every call of Handle that fails is an attempt of the queue.
THEOREM UploadRetriesAreBounded == Spec => []RetryBudget
  BY ImplementsQueue, RetriesAreBounded, PTL

-----------------------------------------------------------------------------
(***************************************************************************)
(* Refused uploads.  The object of an upload exists only after its Upload, *)
(* and a row waits for it only after its UpsertAvatar; where the cleanup   *)
(* does not undo one of these, the history says which call failed.         *)
(***************************************************************************)
WaitsFor(u, m) ==
    /\ avatars[u] # None
    /\ avatars[u].messageID = m
    /\ avatars[u].status = "pending"

CleanInv ==
    \A m \in Messages :
        /\ upload[m] \in {"new", "stage"} => m \notin staged
        /\ upload[m] \in {"fail", "500"} /\ m \in staged => m \in leaked
        /\ upload[m] \in {"new", "stage", "upsert"} => ~WaitsFor(UserOf[m], m)
        /\ upload[m] \in {"unstage", "500"} /\ WaitsFor(UserOf[m], m) => m \in unwritten

\* Nothing has been refused before the first upload.
LEMMA CleanInit == Init => CleanInv
  <1>1. \A m \in Messages : UserOf[m] \in Users
    BY AvatarsAssumption
  <1> QED
    BY <1>1 DEF Init, CleanInv, WaitsFor

\* A row that waits for an upload after a statement waited for it before, unless the
\* statement is the upload's own UpsertAvatar.
LEMMA StatementsWait ==
    ASSUME TypeOK, NEW u \in Users, NEW m \in Messages, NEW v \in Users,
           avatars'[u] # None, avatars'[u].messageID = m, avatars'[u].status = "pending"
    PROVE  /\ \A s \in Statuses \ {"pending"} :
                avatars' = UpdateAvatarStatus(avatars, v, s) => u # v /\ WaitsFor(u, m)
           /\ \A n \in Messages : avatars' = MarkAvatarReady(avatars, v, n) => WaitsFor(u, m)
           /\ avatars' = DeleteAvatarRow(avatars, v) => WaitsFor(u, m)
           /\ \A n \in Messages \ {m} : avatars' = UpsertAvatar(avatars, v, n) => WaitsFor(u, m)
           /\ avatars' = avatars => WaitsFor(u, m)
  <1> USE DEF TypeOK, WaitsFor
  <1>1. ASSUME NEW s \in Statuses \ {"pending"}, avatars' = UpdateAvatarStatus(avatars, v, s)
        PROVE  u # v /\ WaitsFor(u, m)
    BY <1>1, AvatarsAssumption DEF UpdateAvatarStatus, Row
  <1>2. ASSUME NEW n \in Messages, avatars' = MarkAvatarReady(avatars, v, n)
        PROVE  WaitsFor(u, m)
    BY <1>2 DEF MarkAvatarReady, Row
  <1>3. ASSUME avatars' = DeleteAvatarRow(avatars, v) PROVE WaitsFor(u, m)
    BY <1>3 DEF DeleteAvatarRow
  <1>4. ASSUME NEW n \in Messages \ {m}, avatars' = UpsertAvatar(avatars, v, n)
        PROVE  WaitsFor(u, m)
    BY <1>4 DEF UpsertAvatar
  <1> QED
    BY <1>1, <1>2, <1>3, <1>4

\* A step of no upload, which stages nothing and makes no row wait, preserves it.
LEMMA CleanKept ==
    ASSUME CleanInv, upload' = upload, leaked' = leaked, staged' \subseteq staged,
           \A m \in Messages : WaitsFor(UserOf[m], m)' =>
               WaitsFor(UserOf[m], m) /\ (m \in unwritten => m \in unwritten')
    PROVE  CleanInv'
  BY DEF CleanInv

\* So does a step of an upload, for the others.
LEMMA CleanOthers ==
    ASSUME CleanInv, TypeOK, NEW m \in Messages, NEW label, UploadGoto(m, label),
           \A n \in Messages \ {m} :
               /\ n \in staged' => n \in staged
               /\ n \in leaked => n \in leaked'
               /\ n \in unwritten => n \in unwritten'
               /\ WaitsFor(UserOf[n], n)' => WaitsFor(UserOf[n], n),
           /\ label \in {"new", "stage"} => m \notin staged'
           /\ label \in {"fail", "500"} /\ m \in staged' => m \in leaked'
           /\ label \in {"new", "stage", "upsert"} => ~WaitsFor(UserOf[m], m)'
           /\ label \in {"unstage", "500"} /\ WaitsFor(UserOf[m], m)' => m \in unwritten'
    PROVE  CleanInv'
  <1>1. upload'[m] = label /\ \A n \in Messages \ {m} : upload'[n] = upload[n]
    BY DEF UploadGoto, TypeOK
  <1>2. (UserOf[m])' = UserOf[m]
    OBVIOUS
  <1> SUFFICES ASSUME NEW n \in Messages
               PROVE  /\ upload'[n] \in {"new", "stage"} => n \notin staged'
                      /\ upload'[n] \in {"fail", "500"} /\ n \in staged' => n \in leaked'
                      /\ upload'[n] \in {"new", "stage", "upsert"} => ~WaitsFor(UserOf[n], n)'
                      /\ upload'[n] \in {"unstage", "500"} /\ WaitsFor(UserOf[n], n)' =>
                           n \in unwritten'
    BY DEF CleanInv
  <1>3. CASE n = m
    BY <1>1, <1>3
  <1>4. CASE n # m
    BY <1>1, <1>4 DEF CleanInv
  <1> QED
    BY <1>3, <1>4

\* The steps of an upload preserve the invariant.
LEMMA UploadsClean ==
    ASSUME TypeOK, CleanInv, NEW m \in Messages, StartUpload(m) \/ UploadAvatar(m)
    PROVE  CleanInv'
  <1>u. \A n \in Messages : UserOf[n] \in Users
    BY AvatarsAssumption
  <1>s. "failed" \in Statuses \ {"pending"}
    BY DEF Statuses
  <1>1. ASSUME avatars' = avatars PROVE \A n \in Messages : WaitsFor(UserOf[n], n)' = WaitsFor(UserOf[n], n)
    BY <1>1 DEF WaitsFor
  <1>2. CASE StartUpload(m)
    BY <1>1, <1>2, CleanOthers DEF StartUpload, storeVars, serviceVars, CleanInv
  <1>3. CASE StageUpload(m)
    <2>1. PICK o \in Outcomes :
            /\ staged' = If(o, staged \union {m}, staged)
            /\ leaked' = IF o = "lost" THEN leaked \union {m} ELSE leaked
            /\ UploadGoto(m, IF o = "ok" THEN "upsert" ELSE "500")
      BY <1>3 DEF StageUpload
    <2>2. upload[m] = "stage" /\ avatars' = avatars /\ unwritten' = unwritten
      BY <1>3 DEF StageUpload, serviceVars
    <2>3. m \notin staged /\ ~WaitsFor(UserOf[m], m)
      BY <2>2 DEF CleanInv
    <2> QED
      BY <1>1, <2>1, <2>2, <2>3, CleanOthers DEF If, Effective, Outcomes
  <1>4. CASE SaveMetadata(m)
    <2>1. PICK o \in Outcomes :
            /\ avatars' = If(o, UpsertAvatar(avatars, UserOf[m], m), avatars)
            /\ IF o = "lost" THEN StatusLeft(m) ELSE UNCHANGED unwritten
            /\ UploadGoto(m, IF o = "ok" THEN "publish" ELSE "unstage")
      BY <1>4 DEF SaveMetadata
    <2>2. upload[m] = "upsert" /\ staged' = staged /\ leaked' = leaked
      BY <1>4 DEF SaveMetadata
    <2>3. \A n \in Messages \ {m} : WaitsFor(UserOf[n], n)' => WaitsFor(UserOf[n], n)
      <3> SUFFICES ASSUME NEW n \in Messages \ {m}, WaitsFor(UserOf[n], n)'
                   PROVE  WaitsFor(UserOf[n], n)
        OBVIOUS
      <3>1. /\ avatars'[UserOf[n]] # None
            /\ avatars'[UserOf[n]].messageID = n
            /\ avatars'[UserOf[n]].status = "pending"
        BY DEF WaitsFor
      <3> QED
        BY <2>1, <3>1, <1>u, StatementsWait DEF If
    <2>4. o = "err" => ~WaitsFor(UserOf[m], m)'
      BY <1>1, <2>1, <2>2 DEF If, Effective, CleanInv
    <2> QED
      BY <2>1, <2>2, <2>3, <2>4, CleanOthers DEF StatusLeft, Outcomes
  <1>5. CASE Enqueue(m)
    <2>1. PICK label \in {"202", "unstageUnqueued"} : UploadGoto(m, label)
      BY <1>5 DEF Enqueue
    <2>2. UNCHANGED <<avatars, staged, leaked, unwritten>>
      BY <1>5 DEF Enqueue, storeVars, serviceVars
    <2> QED
      BY <1>1, <2>1, <2>2, CleanOthers
  <1>6. CASE Unstage(m)
    <2>1. PICK o \in Outcomes :
            /\ staged' = If(o, staged \ {m}, staged)
            /\ leaked' = If(o, leaked, leaked \union {m})
      BY <1>6 DEF Unstage
    <2>2. /\ UploadGoto(m, IF upload[m] = "unstage" THEN "500" ELSE "fail")
          /\ UNCHANGED <<avatars, unwritten>>
      BY <1>6 DEF Unstage, serviceVars
    <2> QED
      BY <1>1, <2>1, <2>2, CleanOthers DEF If, CleanInv
  <1>7. CASE FailUpload(m)
    <2>1. PICK o \in Outcomes :
            /\ avatars' = If(o, UpdateAvatarStatus(avatars, UserOf[m], "failed"), avatars)
            /\ IF Effective(o) THEN UNCHANGED unwritten ELSE StatusLeft(m)
      BY <1>7 DEF FailUpload
    <2>2. /\ upload[m] = "fail" /\ UploadGoto(m, "500")
          /\ staged' = staged /\ leaked' = leaked
      BY <1>7 DEF FailUpload
    <2>3. \A n \in Messages : WaitsFor(UserOf[n], n)' =>
            WaitsFor(UserOf[n], n) /\ (Effective(o) => UserOf[n] # UserOf[m])
      <3> SUFFICES ASSUME NEW n \in Messages, WaitsFor(UserOf[n], n)'
                   PROVE  WaitsFor(UserOf[n], n) /\ (Effective(o) => UserOf[n] # UserOf[m])
        OBVIOUS
      <3>1. /\ avatars'[UserOf[n]] # None
            /\ avatars'[UserOf[n]].messageID = n
            /\ avatars'[UserOf[n]].status = "pending"
        BY DEF WaitsFor
      <3> QED
        BY <2>1, <3>1, <1>u, <1>s, StatementsWait DEF If
    <2>4. m \in staged => m \in leaked
      BY <2>2 DEF CleanInv
    <2> QED
      BY <2>1, <2>2, <2>3, <2>4, CleanOthers DEF StatusLeft
  <1> QED
    BY <1>2, <1>3, <1>4, <1>5, <1>6, <1>7 DEF UploadAvatar

\* Handle preserves it: what it takes off the history it has written.
LEMMA HandleClean ==
    ASSUME TypeOK, QueueInv, CleanInv, NEW w \in Workers, Handle(w)
    PROVE  CleanInv'
  <1>u. \A m \in Messages : UserOf[m] \in Users
    BY AvatarsAssumption
  <1>s. {"processing", "failed"} \subseteq Statuses \ {"pending"}
    BY DEF Statuses
  <1>1. /\ upload' = upload /\ leaked' = leaked
        /\ staged' \subseteq staged
        /\ pc[w] = "handle"
    BY DEF Handle, SetProcessing, DownloadAndProcess, PutOriginal, PutThumb, SetReady, Cleanup,
           SetFailed, Handling, storeVars, uploadVars, If
  <1>2. Message(w) \in Messages /\ User(w) \in Users
    BY <1>1, HandledMessage
  <1>3. \/ unwritten \subseteq unwritten'
        \/ /\ unwritten' = unwritten \ {Message(w)}
           /\ \/ avatars' = UpdateAvatarStatus(avatars, User(w), "failed")
              \/ avatars' = MarkAvatarReady(avatars, User(w), Message(w))
    BY DEF Handle, SetProcessing, DownloadAndProcess, PutOriginal, PutThumb, SetReady, Cleanup,
           SetFailed, StatusLeft, StatusWritten, If
  <1>4. \/ avatars' = avatars
        \/ avatars' = UpdateAvatarStatus(avatars, User(w), "processing")
        \/ avatars' = MarkAvatarReady(avatars, User(w), Message(w))
        \/ avatars' = UpdateAvatarStatus(avatars, User(w), "failed")
    BY DEF Handle, SetProcessing, DownloadAndProcess, PutOriginal, PutThumb, SetReady, Cleanup,
           SetFailed, storeVars, If
  <1> SUFFICES ASSUME NEW m \in Messages, WaitsFor(UserOf[m], m)'
               PROVE  WaitsFor(UserOf[m], m) /\ (m \in unwritten => m \in unwritten')
    BY <1>1, CleanKept
  <1>5. /\ avatars'[UserOf[m]] # None
        /\ avatars'[UserOf[m]].messageID = m
        /\ avatars'[UserOf[m]].status = "pending"
    BY DEF WaitsFor
  <1>6. WaitsFor(UserOf[m], m)
    BY <1>2, <1>4, <1>5, <1>u, <1>s, StatementsWait
  <1>7. ASSUME m = Message(w), m \in unwritten PROVE m \in unwritten'
    <2>1. UserOf[m] = User(w)
      BY <1>7 DEF User
    <2>2. avatars' # UpdateAvatarStatus(avatars, User(w), "failed")
      BY <1>2, <1>5, <1>u, <1>s, <2>1, StatementsWait
    <2>3. avatars' # MarkAvatarReady(avatars, User(w), Message(w))
      BY <1>2, <1>5, <2>1 DEF MarkAvatarReady, TypeOK, Row
    <2> QED
      BY <1>3, <1>7, <2>2, <2>3
  <1> QED
    BY <1>3, <1>6, <1>7

\* Every step preserves the invariant.
LEMMA CleanStep == TypeOK /\ QueueInv /\ CleanInv /\ [Next]_vars => CleanInv'
  <1> SUFFICES ASSUME TypeOK, QueueInv, CleanInv, [Next]_vars PROVE CleanInv'
    OBVIOUS
  <1>1. ASSUME NEW m \in Messages, StartUpload(m) \/ UploadAvatar(m) PROVE CleanInv'
    BY <1>1, UploadsClean
  <1>2. ASSUME NEW d \in Deletes, DeleteRow(d) PROVE CleanInv'
    <2>1. DeleteUser[d] \in Users /\ \A m \in Messages : UserOf[m] \in Users
      BY AvatarsAssumption
    <2>2. avatars' = DeleteAvatarRow(avatars, DeleteUser[d]) \/ avatars' = avatars
      BY <1>2 DEF DeleteRow, If
    <2>3. ASSUME NEW m \in Messages, WaitsFor(UserOf[m], m)' PROVE WaitsFor(UserOf[m], m)
      <3>1. /\ avatars'[UserOf[m]] # None
            /\ avatars'[UserOf[m]].messageID = m
            /\ avatars'[UserOf[m]].status = "pending"
        BY <2>3 DEF WaitsFor
      <3> QED
        BY <2>1, <2>2, <3>1, StatementsWait
    <2> QED
      BY <1>2, <2>3, CleanKept DEF DeleteRow, uploadVars, serviceVars
  <1>3. ASSUME NEW d \in Deletes, ReadRow(d) \/ DeleteObject(d) PROVE CleanInv'
    <2>1. UNCHANGED <<avatars, upload, leaked, unwritten>> /\ staged' \subseteq staged
      BY <1>3 DEF ReadRow, DeleteObject, storeVars, uploadVars, serviceVars
    <2> QED
      BY <2>1, CleanKept DEF WaitsFor
  <1>4. CASE ApiRestart
    <2>1. /\ UNCHANGED <<avatars, staged, leaked, unwritten>>
          /\ \A m \in Messages : upload'[m] = upload[m] \/ upload'[m] = "killed"
      BY <1>4 DEF ApiRestart, storeVars, serviceVars
    <2> QED
      BY <2>1 DEF CleanInv, WaitsFor
  <1>5. ASSUME NEW w \in Workers, Handle(w) PROVE CleanInv'
    BY <1>5, HandleClean
  <1>6. ASSUME \/ \E m \in Messages : ClientGone(m)
               \/ \E w \in Workers : WorkerCrash(w)
               \/ QueueStep
               \/ UNCHANGED vars
        PROVE  CleanInv'
    <2>1. UNCHANGED <<storeVars, upload, leaked, unwritten>>
      BY <1>6 DEF ClientGone, WorkerCrash, QueueStep, vars, avatarVars, uploadVars, serviceVars
    <2> QED
      BY <2>1, CleanKept DEF WaitsFor, storeVars
  <1> QED
    BY <1>1, <1>2, <1>3, <1>4, <1>5, <1>6 DEF Next, DeleteAvatar

\* Nothing of a refused upload is queued, however many calls fail, and what it leaves in
\* the object store or in the table is what one of its own calls left: an Upload or an
\* UpsertAvatar that took effect although it returned an error, or a cleanup that failed.
THEOREM RefusalsLeaveNothing == Spec => []RefusedLeavesNothing
  <1>1. SourceInv /\ CleanInv => RefusedLeavesNothing
    BY DEF SourceInv, UploadInv, CleanInv, WaitsFor, RefusedLeavesNothing
  <1>2. Spec => []SourceInv
    BY SourceInit, SourceStep, TypeCorrect, QueueInvInService, PTL DEF Spec
  <1>3. Spec => []CleanInv
    BY CleanInit, CleanStep, TypeCorrect, QueueInvInService, PTL DEF Spec
  <1> QED
    BY <1>1, <1>2, <1>3, PTL

-----------------------------------------------------------------------------
(***************************************************************************)
(* One picture.  With one worker, a row is not ready while Handle may       *)
(* still overwrite the user's objects, since SetProcessing went before and *)
(* nobody else makes rows ready; and what SetReady names has been put.     *)
(***************************************************************************)
Shown(u) == avatars[u] # None /\ avatars[u].status = "ready"

RowsMatch ==
    \A u \in Users : Shown(u) /\ ~Purged(u) =>
        /\ avatars[u].image # None
        /\ original[u] = avatars[u].image
        /\ thumb[u] = avatars[u].image

HandsMatch ==
    \A w \in Workers :
        /\ step[w] \in {"download", "original", "thumb"} => ~Shown(User(w))
        /\ step[w] \in {"thumb", "ready"} => original[User(w)] = Message(w) \/ Purged(User(w))
        /\ step[w] = "ready" => thumb[User(w)] = Message(w) \/ Purged(User(w))

PictureInv == RowsMatch /\ HandsMatch

\* Nothing is shown and nothing is handled in the beginning.
LEMMA PictureInit == Init => PictureInv
  BY DEF Init, PictureInv, RowsMatch, HandsMatch, Shown

\* No statement but MarkAvatarReady makes a row ready, and none moves a ready one.
LEMMA StatementsShow ==
    ASSUME TypeOK, NEW u \in Users, NEW v \in Users, avatars'[u] # None,
           avatars'[u].status = "ready"
    PROVE  /\ \A s \in Statuses \ {"ready"} : avatars' = UpdateAvatarStatus(avatars, v, s)
                => Shown(u) /\ avatars'[u] = avatars[u]
           /\ avatars' = DeleteAvatarRow(avatars, v) => Shown(u) /\ avatars'[u] = avatars[u]
           /\ \A n \in Messages : avatars' = UpsertAvatar(avatars, v, n)
                => Shown(u) /\ avatars'[u] = avatars[u]
           /\ \A n \in Messages : avatars' = MarkAvatarReady(avatars, v, n)
                => \/ Shown(u) /\ avatars'[u] = avatars[u]
                   \/ u = v /\ avatars'[u].image = n
  <1> USE DEF TypeOK, Shown
  <1>1. ASSUME NEW s \in Statuses \ {"ready"}, avatars' = UpdateAvatarStatus(avatars, v, s)
        PROVE  Shown(u) /\ avatars'[u] = avatars[u]
    BY <1>1, AvatarsAssumption DEF UpdateAvatarStatus, Row
  <1>2. ASSUME avatars' = DeleteAvatarRow(avatars, v)
        PROVE  Shown(u) /\ avatars'[u] = avatars[u]
    BY <1>2 DEF DeleteAvatarRow
  <1>3. ASSUME NEW n \in Messages, avatars' = UpsertAvatar(avatars, v, n)
        PROVE  Shown(u) /\ avatars'[u] = avatars[u]
    BY <1>3 DEF UpsertAvatar
  <1>4. ASSUME NEW n \in Messages, avatars' = MarkAvatarReady(avatars, v, n)
        PROVE  \/ Shown(u) /\ avatars'[u] = avatars[u]
               \/ u = v /\ avatars'[u].image = n
    BY <1>4 DEF MarkAvatarReady, Row
  <1> QED
    BY <1>1, <1>2, <1>3, <1>4

\* What a step does to rows that are shown, when it makes none ready.
Unshown ==
    \A u \in Users : Shown(u)' => Shown(u) /\ avatars'[u] = avatars[u]

\* A DELETE that has read its row has read it for ever.
StillPurged == \A u \in Users : Purged(u) => Purged(u)'

\* What a step does to Handle, when it is not one of Handle's own.
HandleKept ==
    \A w \in Workers :
        \/ step'[w] = "processing"
        \/ step'[w] = step[w] /\ delivery'[w] = delivery[w] /\ pc[w] = "handle"

\* Such a step keeps the pictures, when it touches none or only those of a purged user.
LEMMA PictureKept ==
    ASSUME PictureInv, QueueInv, Unshown, StillPurged, HandleKept,
           \A u \in Users : \/ Purged(u)'
                            \/ original'[u] = original[u] /\ thumb'[u] = thumb[u]
    PROVE  PictureInv'
  <1>1. RowsMatch'
    BY DEF PictureInv, RowsMatch, Unshown, StillPurged, Shown
  <1>2. HandsMatch'
    <2> SUFFICES ASSUME NEW w \in Workers, step'[w] # "processing"
                 PROVE  /\ step'[w] \in {"download", "original", "thumb"} => ~Shown(User(w))'
                        /\ step'[w] \in {"thumb", "ready"} =>
                             (original[User(w)] = Message(w) \/ Purged(User(w)))'
                        /\ step'[w] = "ready" =>
                             (thumb[User(w)] = Message(w) \/ Purged(User(w)))'
      BY DEF HandsMatch
    <2>1. step'[w] = step[w] /\ delivery'[w] = delivery[w] /\ pc[w] = "handle"
      BY DEF HandleKept
    <2>2. User(w)' = User(w) /\ Message(w)' = Message(w) /\ User(w) \in Users
      BY <2>1, HandledMessage DEF User, Message
    <2>3. Shown(User(w))' => Shown(User(w))
      BY <2>2 DEF Unshown, Shown
    <2>4. Purged(User(w)) => Purged(User(w))'
      BY <2>2 DEF StillPurged, Purged
    <2>5. \/ Purged(User(w))'
          \/ original'[User(w)] = original[User(w)] /\ thumb'[User(w)] = thumb[User(w)]
      BY <2>2 DEF Purged
    <2> QED
      BY <2>1, <2>2, <2>3, <2>4, <2>5 DEF PictureInv, HandsMatch
  <1> QED
    BY <1>1, <1>2 DEF PictureInv

\* The API's steps touch neither Handle nor the objects of a user who was not deleted.
LEMMA ApiPictures ==
    ASSUME TypeOK, SourceInv,
           \/ \E m \in Messages : StartUpload(m) \/ UploadAvatar(m) \/ ClientGone(m)
           \/ \E d \in Deletes : DeleteAvatar(d)
           \/ ApiRestart
    PROVE  /\ Unshown /\ StillPurged /\ HandleKept
           /\ \A u \in Users : \/ Purged(u)'
                               \/ original'[u] = original[u] /\ thumb'[u] = thumb[u]
  <1>u. \A m \in Messages : UserOf[m] \in Users
    BY AvatarsAssumption
  <1>d. \A d \in Deletes : DeleteUser[d] \in Users
    BY AvatarsAssumption
  <1>s. "failed" \in Statuses \ {"ready"}
    BY DEF Statuses
  <1>1. ASSUME NEW m \in Messages, StartUpload(m) \/ UploadAvatar(m) \/ ClientGone(m)
        PROVE  /\ UNCHANGED <<original, thumb, row, step, pc, delivery>>
               /\ \/ avatars' = avatars
                  \/ avatars' = UpsertAvatar(avatars, UserOf[m], m)
                  \/ avatars' = UpdateAvatarStatus(avatars, UserOf[m], "failed")
    BY <1>1
       DEF StartUpload, UploadAvatar, StageUpload, SaveMetadata, Enqueue, Unstage, FailUpload,
           ClientGone, PublishAvatarProcess, PublisherLost, If, queueVars, consumerVars,
           storeVars, removeVars, serviceVars
  <1>2. ASSUME NEW d \in Deletes, DeleteAvatar(d)
        PROVE  /\ UNCHANGED <<step, pc, delivery>>
               /\ \/ avatars' = avatars
                  \/ avatars' = DeleteAvatarRow(avatars, DeleteUser[d])
               /\ \A e \in Deletes : row[e] # None => row'[e] # None
               /\ \A u \in Users \ {DeleteUser[d]} :
                    original'[u] = original[u] /\ thumb'[u] = thumb[u]
               /\ \/ UNCHANGED <<original, thumb>>
                  \/ row'[d] # None
    <2>1. CASE ReadRow(d)
      BY <2>1 DEF ReadRow, TypeOK, queueVars, consumerVars, storeVars, serviceVars
    <2>2. CASE DeleteObject(d)
      BY <2>2 DEF DeleteObject, SourceInv, OwnerInv, TypeOK, queueVars, consumerVars, serviceVars
    <2>3. CASE DeleteRow(d)
      BY <2>3 DEF DeleteRow, If, queueVars, consumerVars, serviceVars
    <2> QED
      BY <1>2, <2>1, <2>2, <2>3 DEF DeleteAvatar
  <1>3. CASE ApiRestart
    BY <1>3, <1>u
       DEF ApiRestart, PublisherRestart, Unshown, StillPurged, HandleKept, Purged, Shown,
           SourceInv, StepInv, queueVars, consumerVars, storeVars, serviceVars
  <1>4. CASE \E m \in Messages : StartUpload(m) \/ UploadAvatar(m) \/ ClientGone(m)
    <2> PICK m \in Messages : StartUpload(m) \/ UploadAvatar(m) \/ ClientGone(m)
      BY <1>4
    <2>1. Unshown
      <3> SUFFICES ASSUME NEW u \in Users, avatars'[u] # None, avatars'[u].status = "ready"
                   PROVE  Shown(u) /\ avatars'[u] = avatars[u]
        BY DEF Unshown, Shown
      <3>1. CASE avatars' = avatars
        BY <3>1 DEF Shown
      <3>2. CASE avatars' # avatars
        BY <3>2, <1>1, <1>u, <1>s, StatementsShow
      <3> QED
        BY <3>1, <3>2
    <2> QED
      BY <1>1, <2>1 DEF StillPurged, Purged, HandleKept, SourceInv, StepInv
  <1>5. CASE \E d \in Deletes : DeleteAvatar(d)
    <2> PICK d \in Deletes : DeleteAvatar(d)
      BY <1>5
    <2>1. Unshown
      <3> SUFFICES ASSUME NEW u \in Users, avatars'[u] # None, avatars'[u].status = "ready"
                   PROVE  Shown(u) /\ avatars'[u] = avatars[u]
        BY DEF Unshown, Shown
      <3>1. CASE avatars' = avatars
        BY <3>1 DEF Shown
      <3>2. CASE avatars' # avatars
        BY <3>2, <1>2, <1>d, StatementsShow
      <3> QED
        BY <3>1, <3>2
    <2>2. StillPurged
      BY <1>2 DEF StillPurged, Purged
    <2>3. HandleKept
      BY <1>2 DEF HandleKept, SourceInv, StepInv
    <2>4. \A u \in Users : \/ Purged(u)'
                           \/ original'[u] = original[u] /\ thumb'[u] = thumb[u]
      BY <1>2 DEF Purged
    <2> QED
      BY <2>1, <2>2, <2>3, <2>4
  <1> QED
    BY <1>3, <1>4, <1>5

\* Handle, when its worker is the only one.
LEMMA HandlePictures ==
    ASSUME TypeOK, QueueInv, SourceInv, PictureInv, \A w, x \in Workers : w = x,
           NEW w \in Workers, Handle(w)
    PROVE  PictureInv'
  <1>1. Message(w) \in Messages /\ User(w) \in Users /\ pc[w] = "handle"
    <2>1. pc[w] = "handle"
      BY DEF Handle, SetProcessing, DownloadAndProcess, PutOriginal, PutThumb, SetReady,
             Cleanup, SetFailed, Handling
    <2> QED
      BY <2>1, HandledMessage
  <1>2. \A x \in Workers : x = w
    OBVIOUS
  <1>p. \A u \in Users : Purged(u)' <=> Purged(u)
    <2>1. row' = row
      BY DEF Handle, SetProcessing, DownloadAndProcess, PutOriginal, PutThumb, SetReady,
             Cleanup, SetFailed, removeVars
    <2> QED
      BY <2>1 DEF Purged
  <1>s. {"processing", "failed"} \subseteq Statuses \ {"ready"}
    BY DEF Statuses
  <1>3. ASSUME NEW s \in {"processing", "failed"},
               avatars' = avatars \/ avatars' = UpdateAvatarStatus(avatars, User(w), s)
        PROVE  Unshown
    <2> SUFFICES ASSUME NEW u \in Users, avatars'[u] # None, avatars'[u].status = "ready"
                 PROVE  Shown(u) /\ avatars'[u] = avatars[u]
      BY DEF Unshown, Shown
    <2>1. CASE avatars' = avatars
      BY <2>1 DEF Shown
    <2>2. CASE avatars' # avatars
      BY <2>2, <1>3, <1>1, <1>s, StatementsShow
    <2> QED
      BY <2>1, <2>2
  <1>k. ASSUME Unshown, UNCHANGED <<original, thumb>>, step'[w] = "processing"
        PROVE  PictureInv'
    <2>1. HandleKept /\ StillPurged
      BY <1>k, <1>2, <1>p DEF HandleKept, StillPurged
    <2> QED
      BY <1>k, <2>1, PictureKept
  <1>4. CASE SetProcessing(w)
    <2>1. PICK o \in Outcomes :
            /\ avatars' = If(o, UpdateAvatarStatus(avatars, User(w), "processing"), avatars)
            /\ IF o = "ok" THEN Advance(w, "download") ELSE HandleReturns(w, TRUE)
      BY <1>4 DEF SetProcessing
    <2>2. Unshown /\ UNCHANGED <<original, thumb>>
      <3>1. avatars' = avatars \/ avatars' = UpdateAvatarStatus(avatars, User(w), "processing")
        BY <2>1 DEF If
      <3> QED
        BY <1>4, <3>1, <1>3 DEF SetProcessing
    <2>3. CASE o # "ok"
      BY <2>1, <2>2, <2>3, <1>k DEF HandleReturns, TypeOK
    <2>4. CASE o = "ok"
      <3>1. avatars' = UpdateAvatarStatus(avatars, User(w), "processing")
        BY <2>1, <2>4 DEF If, Effective
      <3>2. step' = [step EXCEPT ![w] = "download"] /\ User(w)' = User(w)
        BY <2>1, <2>4 DEF Advance, queueVars, consumerVars, User, Message
      <3>3. ~Shown(User(w))'
        BY <3>1, <3>2, <1>1 DEF UpdateAvatarStatus, Shown, TypeOK
      <3>4. HandsMatch'
        BY <3>2, <3>3, <1>2 DEF HandsMatch, TypeOK
      <3>5. RowsMatch'
        BY <2>2, <1>p DEF PictureInv, RowsMatch, Unshown, Shown
      <3> QED
        BY <3>4, <3>5 DEF PictureInv
    <2> QED
      BY <2>3, <2>4
  <1>5. CASE DownloadAndProcess(w)
    <2>1. /\ UNCHANGED <<avatars, original, thumb, row>>
          /\ step[w] = "download"
          /\ \E label \in {"original", "failed"} : Advance(w, label)
      BY <1>5 DEF DownloadAndProcess, Handling, storeVars, removeVars
    <2>2. User(w)' = User(w) /\ step'[w] \in {"original", "failed"}
      BY <2>1 DEF Advance, queueVars, consumerVars, User, Message, TypeOK
    <2> QED
      BY <2>1, <2>2, <1>1, <1>2, <1>p DEF PictureInv, RowsMatch, HandsMatch, Shown
  <1>6. CASE PutOriginal(w)
    <2>1. /\ UNCHANGED <<avatars, thumb>>
          /\ step[w] = "original"
          /\ \/ /\ original' = [original EXCEPT ![User(w)] = Message(w)]
                /\ Advance(w, "thumb")
             \/ /\ original' \in {original, [original EXCEPT ![User(w)] = Message(w)]}
                /\ Advance(w, "failed")
      BY <1>6 DEF PutOriginal, Handling, If, Effective
    <2>2. User(w)' = User(w) /\ Message(w)' = Message(w)
      BY <2>1 DEF Advance, queueVars, consumerVars, User, Message
    <2>3. ~Shown(User(w))
      BY <2>1 DEF PictureInv, HandsMatch
    <2>4. RowsMatch'
      BY <2>1, <2>3, <1>p DEF PictureInv, RowsMatch, Shown, TypeOK
    <2>5. HandsMatch'
      BY <2>1, <2>2, <2>3, <1>1, <1>2 DEF HandsMatch, Advance, Shown, TypeOK
    <2> QED
      BY <2>4, <2>5 DEF PictureInv
  <1>7. CASE PutThumb(w)
    <2>1. /\ UNCHANGED <<avatars, original>>
          /\ step[w] = "thumb"
          /\ \/ /\ thumb' = [thumb EXCEPT ![User(w)] = Message(w)]
                /\ Advance(w, "ready")
             \/ /\ thumb' \in {thumb, [thumb EXCEPT ![User(w)] = Message(w)]}
                /\ Advance(w, "failed")
      BY <1>7 DEF PutThumb, Handling, If, Effective
    <2>2. User(w)' = User(w) /\ Message(w)' = Message(w)
      BY <2>1 DEF Advance, queueVars, consumerVars, User, Message
    <2>3. ~Shown(User(w)) /\ (original[User(w)] = Message(w) \/ Purged(User(w)))
      BY <2>1 DEF PictureInv, HandsMatch
    <2>4. RowsMatch'
      BY <2>1, <2>3, <1>p DEF PictureInv, RowsMatch, Shown, TypeOK
    <2>p. Purged(User(w)) <=> Purged(User(w))'
      BY <1>p, <1>1, <2>2 DEF Purged
    <2>5. HandsMatch'
      BY <2>1, <2>2, <2>3, <2>p, <1>1, <1>2 DEF HandsMatch, Advance, Shown, TypeOK
    <2> QED
      BY <2>4, <2>5 DEF PictureInv
  <1>8. CASE SetReady(w)
    <2>1. /\ UNCHANGED <<original, thumb>>
          /\ step[w] = "ready"
          /\ step'[w] \in {"processing", "cleanup"}
          /\ avatars' = avatars \/ avatars' = MarkAvatarReady(avatars, User(w), Message(w))
      BY <1>8 DEF SetReady, Handling, If, Advance, HandleReturns, TypeOK
    <2>2. \/ Purged(User(w))
          \/ original[User(w)] = Message(w) /\ thumb[User(w)] = Message(w)
      BY <2>1 DEF PictureInv, HandsMatch
    <2>3. RowsMatch'
      <3> SUFFICES ASSUME NEW u \in Users, avatars'[u] # None, avatars'[u].status = "ready",
                          ~Purged(u)
                   PROVE  /\ avatars'[u].image # None
                          /\ original[u] = avatars'[u].image
                          /\ thumb[u] = avatars'[u].image
        BY <2>1, <1>p DEF RowsMatch, Shown
      <3>1. CASE avatars' = avatars
        BY <3>1 DEF PictureInv, RowsMatch, Shown
      <3>2. CASE avatars' # avatars
        <4>1. \/ Shown(u) /\ avatars'[u] = avatars[u]
              \/ u = User(w) /\ avatars'[u].image = Message(w)
          BY <3>2, <2>1, <1>1, StatementsShow
        <4> QED
          BY <4>1, <2>2, <1>1, AvatarsAssumption DEF PictureInv, RowsMatch, Shown
      <3> QED
        BY <3>1, <3>2
    <2>4. HandsMatch'
      BY <2>1, <1>2 DEF HandsMatch
    <2> QED
      BY <2>3, <2>4 DEF PictureInv
  <1>9. CASE Cleanup(w)
    BY <1>9, <1>3, <1>k DEF Cleanup, HandleReturns, TypeOK
  <1>10. CASE SetFailed(w)
    <2>1. /\ avatars' = avatars \/ avatars' = UpdateAvatarStatus(avatars, User(w), "failed")
          /\ UNCHANGED <<original, thumb>>
          /\ step'[w] = "processing"
      BY <1>10 DEF SetFailed, HandleReturns, If, TypeOK
    <2> QED
      BY <2>1, <1>3, <1>k
  <1> QED
    BY <1>4, <1>5, <1>6, <1>7, <1>8, <1>9, <1>10 DEF Handle

\* Every step preserves the invariant.
LEMMA PictureStep ==
    ASSUME \A w, x \in Workers : w = x
    PROVE  TypeOK /\ QueueInv /\ SourceInv /\ PictureInv /\ [Next]_vars => PictureInv'
  <1> SUFFICES ASSUME TypeOK, QueueInv, SourceInv, PictureInv, [Next]_vars
               PROVE  PictureInv'
    OBVIOUS
  <1>1. CASE \/ \E m \in Messages : StartUpload(m) \/ UploadAvatar(m) \/ ClientGone(m)
             \/ \E d \in Deletes : DeleteAvatar(d)
             \/ ApiRestart
    BY <1>1, ApiPictures, PictureKept
  <1>2. CASE \E w \in Workers : Handle(w)
    BY <1>2, HandlePictures
  <1>3. CASE \/ \E w \in Workers : WorkerCrash(w)
             \/ QueueStep
             \/ UNCHANGED vars
    <2>1. UNCHANGED <<avatars, original, thumb, row>>
      BY <1>3 DEF WorkerCrash, QueueStep, vars, avatarVars, storeVars, removeVars
    <2>2. HandleKept
      <3>1. CASE \E w \in Workers : WorkerCrash(w)
        BY <3>1 DEF WorkerCrash, Crash, Return, HandleKept, SourceInv, StepInv, TypeOK,
           QueueTypeOK
      <3>2. CASE QueueStep
        BY <3>2, QueueSteps DEF QueueStep, avatarVars, serviceVars, HandleKept, SourceInv,
           StepInv, TypeOK
      <3>3. CASE UNCHANGED vars
        BY <3>3 DEF vars, queueVars, consumerVars, avatarVars, serviceVars, HandleKept,
           SourceInv, StepInv
      <3> QED
        BY <1>3, <3>1, <3>2, <3>3
    <2>3. Unshown /\ StillPurged
      BY <2>1 DEF Unshown, StillPurged, Shown, Purged
    <2> QED
      BY <2>1, <2>2, <2>3, PictureKept
  <1> QED
    BY <1>1, <1>2, <1>3 DEF Next

\* With the one worker of the deployment, what GET returns with status ready is one
\* picture, for any number of users, uploads, retries, restarts and failed calls.
THEOREM OneWorkerOnePicture ==
    ASSUME \A w, x \in Workers : w = x
    PROVE  Spec => []ReadyIsOnePicture
  <1>1. PictureInv => ReadyIsOnePicture
    BY AvatarsAssumption
       DEF PictureInv, RowsMatch, Shown, ReadyIsOnePicture, ToResponse
  <1>2. Spec => []SourceInv
    BY SourceInit, SourceStep, TypeCorrect, QueueInvInService, PTL DEF Spec
  <1>3. Spec => []PictureInv
    BY PictureInit, PictureStep, <1>2, TypeCorrect, QueueInvInService, PTL DEF Spec
  <1> QED
    BY <1>1, <1>3, PTL
=============================================================================
