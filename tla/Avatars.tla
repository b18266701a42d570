------------------------------ MODULE Avatars ------------------------------
(***************************************************************************)
(* The avatar service: the upload and delete handlers of the API           *)
(* (src/internal/handler), the worker's Service.Handle                     *)
(* (src/internal/worker) as the DeliveryHandler of module Queue, the       *)
(* avatars table (module Storage) and the object store                     *)
(* (src/internal/objectstore) they share.                                  *)
(*                                                                         *)
(* Each upload request that passes validation has its own message id, so   *)
(* the request is named by the message.  Every call to the database or to  *)
(* the object store is one step, and requests and workers interleave       *)
(* between calls.                                                          *)
(***************************************************************************)
EXTENDS Queue, Sequences, Storage

CONSTANTS
    Users,
    UserOf,          \* the user each upload is for
    Corrupt,         \* uploads that processor.Process rejects
    Deletes,         \* DELETE requests
    DeleteUser,      \* the user each DELETE is for
    Overlapping,     \* TRUE: a user may send an upload before the last is answered
    CallFaultKinds,  \* what may go wrong: "db", "s3", "client", "api"
    MaxCallFaults    \* bound: how often it may

ASSUME AvatarsAssumption ==
    /\ UserOf \in [Messages -> Users]
    /\ Corrupt \subseteq Messages
    /\ DeleteUser \in [Deletes -> Users]
    /\ Overlapping \in BOOLEAN
    /\ MaxCallFaults \in Nat
    /\ None \notin Messages
    /\ None \notin Row(Messages)

VARIABLES
    avatars,       \* the avatars table
    staged,        \* uploads whose staging object exists
    original,      \* per user, the upload whose pixels avatars/<user>/original.png holds
    thumb,         \* the same for avatars/<user>/thumb.png
    upload,        \* where UploadAvatar stands, per upload
    gone,          \* uploads whose client has disconnected: the request context is done
    leaked,        \* history: uploads whose staging object a failed call left behind
    remove,        \* where DeleteAvatar stands, per DELETE request
    row,           \* the row DeleteAvatar has read, None before
    keys,          \* the object keys DeleteAvatar has yet to delete
    step,          \* where Service.Handle stands, per worker
    completed,     \* history: uploads for which MarkAvatarReady ran
    unwritten,     \* history: uploads whose latest failed write of the row was not made up for
    callFaults     \* number of faults so far

storeVars == <<avatars, staged, original, thumb>>
uploadVars == <<upload, gone, leaked>>
removeVars == <<remove, row, keys>>
serviceVars == <<step, completed, unwritten>>
avatarVars == <<storeVars, uploadVars, removeVars, serviceVars, callFaults>>
vars == <<queueVars, avatarVars>>

(***************************************************************************)
(* Calls: like Answers of Queue, with a budget of their own.               *)
(***************************************************************************)
CallFault(kind) ==
    /\ kind \in CallFaultKinds
    /\ callFaults < MaxCallFaults
    /\ callFaults' = callFaults + 1

Returns(kind, cancelled, o) ==
    \/ o = "ok" /\ ~cancelled /\ UNCHANGED callFaults
    \/ o # "ok" /\ cancelled /\ UNCHANGED callFaults
    \/ o # "ok" /\ ~cancelled /\ CallFault(kind)

If(o, new, old) == IF Effective(o) THEN new ELSE old

\* History only, read by no action.  The request or the attempt at m ends with a call
\* that failed where the status was to be written, and nothing sets the status after it.
StatusLeft(m) == unwritten' = unwritten \union {m}
StatusWritten(m) == unwritten' = unwritten \ {m}

(***************************************************************************)
(* UploadAvatar: objects.Upload, UpsertAvatar, PublishAvatarProcess, and   *)
(* the cleanup when one of them fails.                                     *)
(***************************************************************************)
UploadGoto(m, label) == upload' = [upload EXCEPT ![m] = label]

Answered == {"202", "500", "killed"}

StartUpload(m) ==
    /\ upload[m] = "new"
    /\ Overlapping \/ \A n \in Messages : UserOf[n] = UserOf[m] => upload[n] \in Answered \union {"new"}
    /\ UploadGoto(m, "stage")
    /\ UNCHANGED <<queueVars, storeVars, gone, leaked, removeVars, serviceVars, callFaults>>

StageUpload(m) ==
    /\ upload[m] = "stage"
    /\ \E o \in Outcomes :
         /\ Returns("s3", m \in gone, o)
         /\ staged' = If(o, staged \union {m}, staged)
         /\ leaked' = IF o = "lost" THEN leaked \union {m} ELSE leaked
         /\ UploadGoto(m, IF o = "ok" THEN "upsert" ELSE "500")
    /\ UNCHANGED <<queueVars, avatars, original, thumb, gone, removeVars, serviceVars>>

SaveMetadata(m) ==
    /\ upload[m] = "upsert"
    /\ \E o \in Outcomes :
         /\ Returns("db", m \in gone, o)
         /\ avatars' = If(o, UpsertAvatar(avatars, UserOf[m], m), avatars)
         /\ IF o = "lost" THEN StatusLeft(m) ELSE UNCHANGED unwritten
         /\ UploadGoto(m, IF o = "ok" THEN "publish" ELSE "unstage")
    /\ UNCHANGED <<queueVars, staged, original, thumb, gone, leaked, removeVars, step, completed>>

\* Publish returns an error on a closed channel.  It returns nil both when the message
\* reaches the broker and when the connection dies with the message in its buffer.
Enqueue(m) ==
    /\ upload[m] = "publish"
    /\ \/ PublishAvatarProcess(m) /\ UploadGoto(m, "202")
       \/ PublisherLost /\ UploadGoto(m, "202")
       \/ publisher = "closed" /\ UploadGoto(m, "unstageUnqueued") /\ UNCHANGED queueVars
    /\ UNCHANGED <<storeVars, gone, leaked, removeVars, serviceVars, callFaults>>

\* Mutation of Unstage: the row of an upload that was not queued stays pending.
UnstageOnly(m) ==
    /\ upload[m] \in {"unstage", "unstageUnqueued"}
    /\ \E o \in Outcomes :
         /\ Returns("s3", m \in gone, o)
         /\ staged' = If(o, staged \ {m}, staged)
         /\ leaked' = If(o, leaked, leaked \union {m})
    /\ UploadGoto(m, "500")
    /\ UNCHANGED <<queueVars, avatars, original, thumb, gone, removeVars, serviceVars>>

\* The cleanup's errors are ignored.
Unstage(m) ==
    /\ upload[m] \in {"unstage", "unstageUnqueued"}
    /\ \E o \in Outcomes :
         /\ Returns("s3", m \in gone, o)
         /\ staged' = If(o, staged \ {m}, staged)
         /\ leaked' = If(o, leaked, leaked \union {m})
    /\ UploadGoto(m, IF upload[m] = "unstage" THEN "500" ELSE "fail")
    /\ UNCHANGED <<queueVars, avatars, original, thumb, gone, removeVars, serviceVars>>

FailUpload(m) ==
    /\ upload[m] = "fail"
    /\ \E o \in Outcomes :
         /\ Returns("db", m \in gone, o)
         /\ avatars' = If(o, UpdateAvatarStatus(avatars, UserOf[m], "failed"), avatars)
         /\ IF Effective(o) THEN UNCHANGED unwritten ELSE StatusLeft(m)
    /\ UploadGoto(m, "500")
    /\ UNCHANGED <<queueVars, staged, original, thumb, gone, leaked, removeVars, step, completed>>

\* The client disconnects: net/http cancels the request's context.
ClientGone(m) ==
    /\ upload[m] \notin Answered \union {"new"}
    /\ m \notin gone
    /\ CallFault("client")
    /\ gone' = gone \union {m}
    /\ UNCHANGED <<queueVars, storeVars, upload, leaked, removeVars, serviceVars>>

UploadAvatar(m) ==
    \/ StageUpload(m)
    \/ SaveMetadata(m)
    \/ Enqueue(m)
    \/ Unstage(m)
    \/ FailUpload(m)

(***************************************************************************)
(* DeleteAvatar: GetAvatar, objects.Delete of the keys the row names,      *)
(* DeleteAvatar of the row.                                                *)
(***************************************************************************)
RemoveGoto(d, label) == remove' = [remove EXCEPT ![d] = label]

\* Client.Delete skips empty keys.
ObjectKeys(r) ==
    (IF r.stagingKey = None THEN <<>> ELSE <<"staging">>)
    \o (IF r.image = None THEN <<>> ELSE <<"original", "thumb">>)

AfterKeys(ks) == IF ks = <<>> THEN "row" ELSE "files"

ReadRow(d) ==
    /\ remove[d] = "new"
    /\ \E o \in {"ok", "err"} :
         /\ Returns("db", FALSE, o)
         /\ \/ o = "err" /\ RemoveGoto(d, "500") /\ UNCHANGED <<row, keys>>
            \/ /\ o = "ok"
               /\ avatars[DeleteUser[d]] = None
               /\ RemoveGoto(d, "404")
               /\ UNCHANGED <<row, keys>>
            \/ /\ o = "ok"
               /\ avatars[DeleteUser[d]] # None
               /\ row' = [row EXCEPT ![d] = avatars[DeleteUser[d]]]
               /\ keys' = [keys EXCEPT ![d] = ObjectKeys(avatars[DeleteUser[d]])]
               /\ RemoveGoto(d, AfterKeys(ObjectKeys(avatars[DeleteUser[d]])))
    /\ UNCHANGED <<queueVars, storeVars, uploadVars, serviceVars>>

\* Mutation of DeleteObject: errors are ignored, as in the cleanups.
DeleteObjectAnyway(d) ==
    /\ remove[d] = "files"
    /\ keys[d] # <<>>
    /\ \E o \in Outcomes :
         /\ Returns("s3", FALSE, o)
         /\ LET key == Head(keys[d])
                u == DeleteUser[d]
            IN /\ staged' = IF key = "staging" /\ Effective(o)
                              THEN staged \ {row[d].stagingKey} ELSE staged
               /\ original' = IF key = "original" /\ Effective(o)
                                THEN [original EXCEPT ![u] = None] ELSE original
               /\ thumb' = IF key = "thumb" /\ Effective(o)
                             THEN [thumb EXCEPT ![u] = None] ELSE thumb
         /\ keys' = [keys EXCEPT ![d] = Tail(@)]
         /\ RemoveGoto(d, AfterKeys(Tail(keys[d])))
    /\ UNCHANGED <<queueVars, avatars, uploadVars, row, serviceVars>>

\* One iteration of Client.Delete's loop over the keys; an error ends the loop.
DeleteObject(d) ==
    /\ remove[d] = "files"
    /\ keys[d] # <<>>
    /\ \E o \in Outcomes :
         /\ Returns("s3", FALSE, o)
         /\ LET key == Head(keys[d])
                u == DeleteUser[d]
            IN /\ staged' = IF key = "staging" /\ Effective(o)
                              THEN staged \ {row[d].stagingKey} ELSE staged
               /\ original' = IF key = "original" /\ Effective(o)
                                THEN [original EXCEPT ![u] = None] ELSE original
               /\ thumb' = IF key = "thumb" /\ Effective(o)
                             THEN [thumb EXCEPT ![u] = None] ELSE thumb
         /\ keys' = [keys EXCEPT ![d] = Tail(@)]
         /\ RemoveGoto(d, IF o = "ok" THEN AfterKeys(Tail(keys[d])) ELSE "500")
    /\ UNCHANGED <<queueVars, avatars, uploadVars, row, serviceVars>>

DeleteRow(d) ==
    /\ remove[d] = "row"
    /\ \E o \in Outcomes :
         /\ Returns("db", FALSE, o)
         /\ avatars' = If(o, DeleteAvatarRow(avatars, DeleteUser[d]), avatars)
         /\ RemoveGoto(d, CASE o # "ok" -> "500"
                            [] o = "ok" /\ avatars[DeleteUser[d]] = None -> "404"
                            [] o = "ok" /\ avatars[DeleteUser[d]] # None -> "204")
    /\ UNCHANGED <<queueVars, staged, original, thumb, uploadVars, row, keys, serviceVars>>

\* GetAvatar changes nothing.  toResponse presigns the URLs of the original and of the
\* thumbnail only for a ready row; picture stands for both and for the metadata.
ToResponse(r) ==
    [status |-> r.status, picture |-> IF r.status = "ready" THEN r.image ELSE None]

DeleteAvatar(d) == ReadRow(d) \/ DeleteObject(d) \/ DeleteRow(d)

\* The API process ends and a new one starts: its requests are cut off where they
\* stand, and the new process has a new channel.
ApiRestart ==
    /\ \/ PublisherRestart /\ UNCHANGED callFaults
       \/ UNCHANGED queueVars /\ publisher = "open" /\ CallFault("api")
    /\ upload' = [m \in Messages |->
                    IF upload[m] \in Answered \union {"new"} THEN upload[m] ELSE "killed"]
    /\ remove' = [d \in Deletes |->
                    IF remove[d] \in {"files", "row"} THEN "killed" ELSE remove[d]]
    /\ UNCHANGED <<storeVars, gone, leaked, row, keys, serviceVars>>

(***************************************************************************)
(* Service.Handle, between Deliver and HandlerReturns of Queue.            *)
(***************************************************************************)
Message(w) == delivery[w].id
User(w) == UserOf[Message(w)]

Advance(w, label) ==
    /\ step' = [step EXCEPT ![w] = label]
    /\ UNCHANGED queueVars

\* Mutation of HandleReturns: the delivery is settled without MarkProcessed or a retry.
HandleReturnsSettled(w, failed) ==
    /\ pc[w] = "handle"
    /\ Goto(w, "ack")
    /\ step' = [step EXCEPT ![w] = "processing"]
    /\ UNCHANGED <<brokerVars, stopping, processed, historyVars, faults>>

\* Handle returns; the next call of it starts at its first step.
HandleReturns(w, failed) ==
    /\ HandlerReturns(w, failed)
    /\ step' = [step EXCEPT ![w] = "processing"]

Handling(w, label) == pc[w] = "handle" /\ step[w] = label

\* A cancelled worker context fails every call of Handle.
ServiceCall(w, kind, o) == Returns(kind, w \in stopping, o)

\* Mutation of SetProcessing: the status is not touched before the work is done.
SetProcessingSkipped(w) ==
    /\ Handling(w, "processing")
    /\ Advance(w, "download")
    /\ UNCHANGED <<storeVars, uploadVars, removeVars, completed, unwritten, callFaults>>

SetProcessing(w) ==
    /\ Handling(w, "processing")
    /\ \E o \in Outcomes :
         /\ ServiceCall(w, "db", o)
         /\ avatars' = If(o, UpdateAvatarStatus(avatars, User(w), "processing"), avatars)
         /\ IF o = "ok"
              THEN Advance(w, "download") /\ UNCHANGED unwritten
              ELSE HandleReturns(w, TRUE) /\ StatusLeft(Message(w))
    /\ UNCHANGED <<staged, original, thumb, uploadVars, removeVars, completed>>

\* Download and processor.Process: a missing or undecodable source sets the status.
DownloadAndProcess(w) ==
    /\ Handling(w, "download")
    /\ \E o \in {"ok", "err"} :
         /\ ServiceCall(w, "s3", o)
         /\ Advance(w, IF o = "ok" /\ Message(w) \in staged \ Corrupt
                         THEN "original" ELSE "failed")
    /\ UNCHANGED <<storeVars, uploadVars, removeVars, completed, unwritten>>

PutOriginal(w) ==
    /\ Handling(w, "original")
    /\ \E o \in Outcomes :
         /\ ServiceCall(w, "s3", o)
         /\ original' = If(o, [original EXCEPT ![User(w)] = Message(w)], original)
         /\ Advance(w, IF o = "ok" THEN "thumb" ELSE "failed")
    /\ UNCHANGED <<avatars, staged, thumb, uploadVars, removeVars, completed, unwritten>>

PutThumb(w) ==
    /\ Handling(w, "thumb")
    /\ \E o \in Outcomes :
         /\ ServiceCall(w, "s3", o)
         /\ thumb' = If(o, [thumb EXCEPT ![User(w)] = Message(w)], thumb)
         /\ Advance(w, IF o = "ok" THEN "ready" ELSE "failed")
    /\ UNCHANGED <<avatars, staged, original, uploadVars, removeVars, completed, unwritten>>

\* An error of MarkAvatarReady is returned without setting the status to failed.
SetReady(w) ==
    /\ Handling(w, "ready")
    /\ \E o \in Outcomes :
         /\ ServiceCall(w, "db", o)
         /\ avatars' = If(o, MarkAvatarReady(avatars, User(w), Message(w)), avatars)
         /\ completed' = If(o, completed \union {Message(w)}, completed)
         /\ IF Effective(o) THEN StatusWritten(Message(w)) ELSE StatusLeft(Message(w))
         /\ IF o = "ok" THEN Advance(w, "cleanup") ELSE HandleReturns(w, TRUE)
    /\ UNCHANGED <<staged, original, thumb, uploadVars, removeVars>>

Cleanup(w) ==
    /\ Handling(w, "cleanup")
    /\ \E o \in Outcomes :
         /\ ServiceCall(w, "s3", o)
         /\ staged' = If(o, staged \ {Message(w)}, staged)
    /\ HandleReturns(w, FALSE)
    /\ UNCHANGED <<avatars, original, thumb, uploadVars, removeVars, completed, unwritten>>

\* Mutation of SetFailed: the failed attempt also removes its source.
SetFailedUnstages(w) ==
    /\ Handling(w, "failed")
    /\ \E o \in Outcomes :
         /\ ServiceCall(w, "db", o)
         /\ avatars' = If(o, UpdateAvatarStatus(avatars, User(w), "failed"), avatars)
         /\ IF Effective(o) THEN StatusWritten(Message(w)) ELSE StatusLeft(Message(w))
    /\ staged' = staged \ {Message(w)}
    /\ HandleReturns(w, TRUE)
    /\ UNCHANGED <<original, thumb, uploadVars, removeVars, completed>>

\* Mutation of SetFailed: the status is not written.
SetFailedSilently(w) ==
    /\ Handling(w, "failed")
    /\ HandleReturns(w, TRUE)
    /\ UNCHANGED <<storeVars, uploadVars, removeVars, completed, unwritten, callFaults>>

SetFailed(w) ==
    /\ Handling(w, "failed")
    /\ \E o \in Outcomes :
         /\ ServiceCall(w, "db", o)
         /\ avatars' = If(o, UpdateAvatarStatus(avatars, User(w), "failed"), avatars)
         /\ IF Effective(o) THEN StatusWritten(Message(w)) ELSE StatusLeft(Message(w))
    /\ HandleReturns(w, TRUE)
    /\ UNCHANGED <<staged, original, thumb, uploadVars, removeVars, completed>>

Handle(w) ==
    \/ SetProcessing(w)
    \/ DownloadAndProcess(w)
    \/ PutOriginal(w)
    \/ PutThumb(w)
    \/ SetReady(w)
    \/ Cleanup(w)
    \/ SetFailed(w)

\* A crash also forgets where Handle stood.
WorkerCrash(w) ==
    /\ Crash(w)
    /\ step' = [step EXCEPT ![w] = "processing"]
    /\ UNCHANGED <<storeVars, uploadVars, removeVars, completed, unwritten, callFaults>>

\* The steps of the queue that concern no handler.
QueueStep ==
    /\ \/ \E w \in Workers :
            Consumer(w) \/ ConsumeReturns(w) \/ Shutdown(w) \/ ConnectionLost(w)
       \/ \E q \in RetryQueues : Expire(q)
       \/ PublisherLost
       \/ BrokerRestart
    /\ UNCHANGED avatarVars

-----------------------------------------------------------------------------
Init ==
    /\ QueueInit
    /\ avatars = [u \in Users |-> None]
    /\ staged = {}
    /\ original = [u \in Users |-> None]
    /\ thumb = [u \in Users |-> None]
    /\ upload = [m \in Messages |-> "new"]
    /\ gone = {}
    /\ leaked = {}
    /\ remove = [d \in Deletes |-> "new"]
    /\ row = [d \in Deletes |-> None]
    /\ keys = [d \in Deletes |-> <<>>]
    /\ step = [w \in Workers |-> "processing"]
    /\ completed = {}
    /\ unwritten = {}
    /\ callFaults = 0

Next ==
    \/ \E m \in Messages : StartUpload(m) \/ UploadAvatar(m) \/ ClientGone(m)
    \/ \E d \in Deletes : DeleteAvatar(d)
    \/ ApiRestart
    \/ \E w \in Workers : Handle(w) \/ WorkerCrash(w)
    \/ QueueStep

Spec == Init /\ [][Next]_vars

(***************************************************************************)
(* Fairness: a request that was started runs on, a worker goroutine runs   *)
(* on, and the broker delivers and expires; nothing makes a client send a  *)
(* request or a fault happen.                                              *)
(***************************************************************************)
Fairness ==
    /\ \A m \in Messages : WF_vars(UploadAvatar(m))
    /\ \A w \in Workers :
         /\ WF_vars(Handle(w))
         /\ WF_vars(Consumer(w) /\ UNCHANGED avatarVars)
         /\ SF_vars(ConsumeReturns(w) /\ UNCHANGED avatarVars)
    /\ \A q \in RetryQueues : WF_vars(Expire(q) /\ UNCHANGED avatarVars)

FairSpec == Spec /\ Fairness

-----------------------------------------------------------------------------
(***************************************************************************)
(* Properties.                                                             *)
(***************************************************************************)

\* Type invariant.
TypeOK ==
    /\ QueueTypeOK
    /\ avatars \in [Users -> Row(Messages) \union {None}]
    /\ staged \subseteq Messages
    /\ original \in [Users -> Messages \union {None}]
    /\ thumb \in [Users -> Messages \union {None}]
    /\ upload \in [Messages -> {"new", "stage", "upsert", "publish", "unstage",
                                "unstageUnqueued", "fail"} \union Answered]
    /\ gone \subseteq Messages
    /\ leaked \subseteq Messages
    /\ remove \in [Deletes -> {"new", "files", "row", "204", "404", "500", "killed"}]
    /\ row \in [Deletes -> Row(Messages) \union {None}]
    /\ keys \in [Deletes -> Seq({"staging", "original", "thumb"})]
    /\ step \in [Workers -> {"processing", "download", "original", "thumb", "ready",
                             "cleanup", "failed"}]
    /\ completed \subseteq Messages
    /\ unwritten \subseteq Messages
    /\ callFaults \in Nat

\* A DELETE of the user got past reading the row, so it may have removed objects.
Purged(u) == \E d \in Deletes : DeleteUser[d] = u /\ row[d] # None

\* What GET returns with status ready can be fetched and is one picture: the original,
\* the thumbnail and the metadata come from the same upload, although a user's uploads
\* share both objects, retries reorder them and any call may fail or take effect
\* unnoticed (Handle sets "processing" before it overwrites anything).  It needs the
\* single worker of the default deployment; a DELETE removes objects first.
ReadyIsOnePicture ==
    \A u \in Users :
        avatars[u] # None /\ ~Purged(u) =>
            LET response == ToResponse(avatars[u])
            IN /\ response.status = "ready" => response.picture # None
               /\ response.picture # None =>
                    original[u] = response.picture /\ thumb[u] = response.picture

\* The bytes of a queued upload are there until MarkAvatarReady has run for it: no
\* cleanup of a request, of another worker or of a retry removes the staging object
\* that a queued message still needs.  Only a DELETE of the user does.
SourceKept ==
    \A m \in published : m \in staged \union completed \/ Purged(UserOf[m])

\* A 500 of UploadAvatar means that nothing will be processed, and what it leaves behind
\* is only what one of its own calls left: a staging object whose Upload took effect
\* although it returned an error (there is no cleanup after it) or whose Delete failed, and
\* a row that waits for this upload whose UpsertAvatar took effect although it returned an
\* error (the cleanup leaves the row alone) or whose UpdateAvatarStatus failed.
RefusedLeavesNothing ==
    \A m \in Messages :
        upload[m] = "500" =>
            /\ m \notin published
            /\ m \in staged => m \in leaked
            /\ LET a == avatars[UserOf[m]]
               IN a # None /\ a.messageID = m /\ a.status = "pending" => m \in unwritten

\* Nothing is going on for the user: no request, no queued message, no delivery.
Quiet(u) ==
    /\ \A m \in Messages : UserOf[m] = u => upload[m] \in Answered \union {"new"}
    /\ \A c \in copies : UserOf[c.id] # u \/ c.queue = QueueDLQ
    /\ \A w \in Workers : pc[w] # "receive" => UserOf[delivery[w].id] # u

\* Uploads of the user that were queued and cannot be decoded.
Undecodable(u) == {m \in published \intersect Corrupt : UserOf[m] = u}

\* The last upload wins: without faults, with one worker and a user who waits for each
\* answer, the picture that remains when all work is done is the last one uploaded, as
\* the row, the objects and message_id say.  Its status is ready, unless an upload that
\* cannot be decoded was queued too: its retry, which may come after the last upload is
\* done, sets the status of the user's row to failed (Handle writes by user).  A last
\* upload that cannot be decoded always leaves the status failed.
LastUploadWins ==
    (faults = 0 /\ callFaults = 0 /\ restarts = 0) =>
        \A u \in Users :
            avatars[u] # None /\ Quiet(u) /\ ~Purged(u) =>
                LET m == avatars[u].messageID
                IN /\ m \in Corrupt => avatars[u].status = "failed"
                   /\ m \notin Corrupt =>
                        /\ <<avatars[u].image, original[u], thumb[u]>> = <<m, m, m>>
                        /\ m \notin staged
                        /\ \/ avatars[u].status = "ready"
                           \/ avatars[u].status = "failed" /\ Undecodable(u) # {}

\* Waiting for a worker, as GET shows it.
Waiting(u) == avatars[u] # None /\ avatars[u].status \in {"pending", "processing"}

\* Why a row may wait for ever.  The upload that wrote a pending row was cut off (the API
\* died between UpsertAvatar and Publish), refused with the row left as it was, or lost
\* on its way to the broker; or a task of the user, for a pending row that of the row's
\* own upload, was lost by the broker or has ended as dead after an attempt whose write of
\* the status failed.
AccountedFor(u) ==
    LET m == avatars[u].messageID
    IN \/ /\ avatars[u].status = "pending"
          /\ \/ upload[m] = "killed"
             \/ upload[m] = "500" /\ m \in unwritten
             \/ upload[m] = "202" /\ m \notin published
       \/ \E n \in published \ processed :
            /\ UserOf[n] = u
            /\ avatars[u].status = "pending" => n = m
            /\ \/ restarts > 0 /\ \A c \in copies : c.id # n
               \/ n \in unwritten /\ \E c \in copies : c.id = n /\ c.queue = QueueDLQ

\* No row is forgotten: when nothing is going on for a user any more, pending and
\* processing remain for the reasons above only.  An upload that overtakes another, a
\* cleanup that writes into the row of a newer upload (FailUpload), an error of
\* MarkAvatarReady that leaves the status alone: none of them alone strands a row.
NoRowForgotten ==
    \A u \in Users : Waiting(u) /\ Quiet(u) => AccountedFor(u)

\* Reprocessing is harmless: when an upload was made ready once and is still the
\* user's last, a redelivery of its message does not turn it into a failed one.
IdempotentProcessing ==
    \A u \in Users :
        /\ avatars[u] # None
        /\ avatars[u].messageID \in completed
        /\ Quiet(u)
        /\ ~Purged(u)
        => avatars[u].status # "failed"

\* A DELETE of a finished avatar is complete, concurrent DELETEs and DELETEs that failed
\* half-way (the loop of Client.Delete stops at the first error) included: a 204 for a
\* ready row whose upload is the only one queued so far, and was processed at the first
\* attempt, leaves neither a row nor a picture of the user, and without faults no staging
\* object either.
DeleteReadyLeavesNothing ==
    (faults = 0 /\ restarts = 0) =>
        \A d \in Deletes :
            LET u == DeleteUser[d]
            IN /\ remove[d] = "204"
               /\ row[d].status = "ready"
               /\ failures[row[d].image] = 0
               /\ \A m \in Messages \ {row[d].image} : UserOf[m] = u => upload[m] = "new"
               /\ Quiet(u)
               => /\ avatars[u] = None
                  /\ original[u] = None
                  /\ thumb[u] = None
                  /\ callFaults = 0 => row[d].image \notin staged

\* A DELETE answered with 204 leaves no file of the user once all work is done.
DeletedLeavesNothing ==
    \A d \in Deletes :
        LET u == DeleteUser[d]
        IN remove[d] = "204" /\ avatars[u] = None /\ Quiet(u) =>
             original[u] = None /\ thumb[u] = None

\* A status that says "wait" does not last, whatever crashes, signals, lost connections
\* and failed calls there are, unless it is accounted for.
StatusSettles ==
    \A u \in Users : Waiting(u) ~> (~Waiting(u) \/ AccountedFor(u))
=============================================================================
