--------------------------- MODULE AvatarsProofs ---------------------------
(***************************************************************************)
(* The whole service implements the queue protocol, so the theorems of     *)
(* QueueProofs hold of it with worker.Service.Handle as the handler; and   *)
(* the bytes of a queued upload outlive every cleanup.                     *)
(***************************************************************************)
EXTENDS Avatars, QueueProofs

-----------------------------------------------------------------------------
(***************************************************************************)
(* Refinement: forgetting the handlers, every step is a step of the queue  *)
(* or leaves the queue alone.                                              *)
(***************************************************************************)

\* The API's steps, seen from the queue.
LEMMA ApiSteps ==
    /\ \A m \in Messages :
         StartUpload(m) \/ UploadAvatar(m) \/ ClientGone(m) => [QueueNext]_queueVars
    /\ \A d \in Deletes : DeleteAvatar(d) => UNCHANGED queueVars
    /\ ApiRestart => [QueueNext]_queueVars
  <1>1. ASSUME NEW m \in Messages, StartUpload(m) \/ UploadAvatar(m) \/ ClientGone(m)
        PROVE  [QueueNext]_queueVars
    <2>1. CASE Enqueue(m)
      BY <2>1 DEF Enqueue, QueueNext, Environment
    <2>2. CASE StartUpload(m) \/ ClientGone(m)
      BY <2>2 DEF StartUpload, ClientGone
    <2>3. CASE StageUpload(m) \/ SaveMetadata(m) \/ Unstage(m) \/ FailUpload(m)
      BY <2>3 DEF StageUpload, SaveMetadata, Unstage, FailUpload
    <2> QED
      BY <1>1, <2>1, <2>2, <2>3 DEF UploadAvatar
  <1>2. ASSUME NEW d \in Deletes, DeleteAvatar(d) PROVE UNCHANGED queueVars
    BY <1>2 DEF DeleteAvatar, ReadRow, DeleteObject, DeleteRow
  <1>3. ApiRestart => [QueueNext]_queueVars
    BY DEF ApiRestart, QueueNext
  <1> QED
    BY <1>1, <1>2, <1>3

\* A step of Handle leaves the queue alone or is its HandlerReturns.
LEMMA HandleSteps ==
    ASSUME NEW w \in Workers, Handle(w)
    PROVE  UNCHANGED queueVars \/ \E failed \in BOOLEAN : HandlerReturns(w, failed)
  <1>1. CASE SetProcessing(w)
    BY <1>1 DEF SetProcessing, Advance, HandleReturns
  <1>2. CASE DownloadAndProcess(w) \/ PutOriginal(w) \/ PutThumb(w)
    BY <1>2 DEF DownloadAndProcess, PutOriginal, PutThumb, Advance
  <1>3. CASE SetReady(w)
    BY <1>3 DEF SetReady, Advance, HandleReturns
  <1>4. CASE Cleanup(w) \/ SetFailed(w)
    BY <1>4 DEF Cleanup, SetFailed, HandleReturns
  <1> QED
    BY <1>1, <1>2, <1>3, <1>4 DEF Handle

\* Every step of the service is a step of the queue or leaves its variables alone.
LEMMA StepRefines == [Next]_vars => [QueueNext]_queueVars
  <1> SUFFICES ASSUME [Next]_vars PROVE [QueueNext]_queueVars
    OBVIOUS
  <1>1. CASE UNCHANGED vars
    BY <1>1 DEF vars
  <1>2. CASE \E m \in Messages : StartUpload(m) \/ UploadAvatar(m) \/ ClientGone(m)
    BY <1>2, ApiSteps
  <1>3. CASE (\E d \in Deletes : DeleteAvatar(d)) \/ ApiRestart
    BY <1>3, ApiSteps
  <1>4. CASE \E w \in Workers : Handle(w)
    BY <1>4, HandleSteps DEF QueueNext
  <1>5. CASE \E w \in Workers : WorkerCrash(w)
    BY <1>5 DEF WorkerCrash, QueueNext, Environment
  <1>6. CASE QueueStep
    BY <1>6 DEF QueueStep, QueueNext, Environment
  <1> QED
    BY <1>1, <1>2, <1>3, <1>4, <1>5, <1>6 DEF Next

\* The service with its real handler implements the queue protocol.
THEOREM ImplementsQueue == Spec => QueueSpec
  <1>1. Init => QueueInit
    BY DEF Init
  <1> QED
    BY <1>1, StepRefines, PTL DEF Spec, QueueSpec

\* Hence the service loses no upload task, whatever Handle and the requests do.
THEOREM NoUploadTaskLost == Spec => []LossOnlyByRestart
  BY ImplementsQueue, NoTaskLost, PTL

\* The queue's invariant in the service.
LEMMA QueueInvInService == Spec => []QueueInv
  BY ImplementsQueue, QueueInvariant, PTL

-----------------------------------------------------------------------------
(***************************************************************************)
(* Type correctness.                                                       *)
(***************************************************************************)
Table == [Users -> Row(Messages) \union {None}]

\* The SQL statements keep the table well formed.
LEMMA TableTypes ==
    ASSUME NEW table \in Table, NEW u \in Users
    PROVE  /\ \A m \in Messages : UpsertAvatar(table, u, m) \in Table
           /\ \A s \in Statuses : UpdateAvatarStatus(table, u, s) \in Table
           /\ \A m \in Messages : MarkAvatarReady(table, u, m) \in Table
           /\ DeleteAvatarRow(table, u) \in Table
  <1>1. ASSUME NEW m \in Messages PROVE UpsertAvatar(table, u, m) \in Table
    BY DEF UpsertAvatar, Table, Row, Statuses
  <1>2. ASSUME NEW s \in Statuses PROVE UpdateAvatarStatus(table, u, s) \in Table
    BY DEF UpdateAvatarStatus, Table, Row
  <1>3. ASSUME NEW m \in Messages PROVE MarkAvatarReady(table, u, m) \in Table
    BY DEF MarkAvatarReady, Table, Row, Statuses
  <1>4. DeleteAvatarRow(table, u) \in Table
    BY DEF DeleteAvatarRow, Table
  <1> QED
    BY <1>1, <1>2, <1>3, <1>4

\* The keys that DeleteAvatar goes through.
LEMMA KeyTypes ==
    \A r \in Row(Messages) : ObjectKeys(r) \in Seq({"staging", "original", "thumb"})
  <1> DEFINE Kinds == {"staging", "original", "thumb"}
  <1> SUFFICES ASSUME NEW r \in Row(Messages) PROVE ObjectKeys(r) \in Seq(Kinds)
    OBVIOUS
  <1> DEFINE front == IF r.stagingKey = None THEN <<>> ELSE <<"staging">>
             back == IF r.image = None THEN <<>> ELSE <<"original", "thumb">>
  <1>1. front \in Seq(Kinds)
    <2>1. <<>> \in Seq(Kinds) /\ <<"staging">> \in Seq(Kinds)
      OBVIOUS
    <2> QED
      BY <2>1
  <1>2. back \in Seq(Kinds)
    <2>1. <<>> \in Seq(Kinds) /\ <<"original", "thumb">> \in Seq(Kinds)
      OBVIOUS
    <2> QED
      BY <2>1
  <1>3. ObjectKeys(r) = front \o back
    BY DEF ObjectKeys
  <1> HIDE DEF front, back
  <1> QED
    BY <1>1, <1>2, <1>3

\* The service starts in the right types.
LEMMA TypeInit == Init => TypeOK
  <1> SUFFICES ASSUME Init PROVE TypeOK
    OBVIOUS
  <1>1. QueueTypeOK
    BY QueueInvInit DEF Init, QueueInv
  <1> QED
    BY <1>1 DEF Init, TypeOK, Answered

\* While a worker handles a delivery, it holds a message of some user.
LEMMA HandledMessage ==
    ASSUME QueueInv, NEW w \in Workers, pc[w] = "handle"
    PROVE  Message(w) \in Messages /\ User(w) \in Users
  <1>1. Message(w) \in Messages
    BY CopyTypes DEF QueueInv, HoldInv, Message
  <1> QED
    BY <1>1, AvatarsAssumption DEF User

\* Every step of the requests, of Handle and of the queue keeps the types.
LEMMA TypeStep ==
    TypeOK /\ QueueInv /\ QueueInv' /\ [Next]_vars => TypeOK'
  <1> SUFFICES ASSUME TypeOK, QueueInv, QueueInv', [Next]_vars PROVE TypeOK'
    OBVIOUS
  <1>q. QueueTypeOK'
    BY DEF QueueInv
  <1>t. avatars \in Table
    BY DEF TypeOK, Table
  <1>s. {"pending", "processing", "ready", "failed"} = Statuses
    BY DEF Statuses
  <1> USE AvatarsAssumption
  <1>1. ASSUME NEW m \in Messages, StartUpload(m) PROVE TypeOK'
    BY <1>1, <1>q DEF StartUpload, UploadGoto, TypeOK, storeVars, removeVars, serviceVars
  <1>2. ASSUME NEW m \in Messages, StageUpload(m) PROVE TypeOK'
    BY <1>2, <1>q DEF StageUpload, Returns, CallFault, If, UploadGoto, TypeOK, Answered,
       removeVars, serviceVars
  <1>3. ASSUME NEW m \in Messages, SaveMetadata(m) PROVE TypeOK'
    <2>1. avatars' \in Table
      <3>1. UserOf[m] \in Users
        OBVIOUS
      <3>2. UpsertAvatar(avatars, UserOf[m], m) \in Table
        BY <1>t, <3>1, TableTypes
      <3> QED
        BY <1>3, <1>t, <3>2 DEF SaveMetadata, If
    <2>2. /\ upload' \in [Messages -> {"new", "stage", "upsert", "publish", "unstage",
                                      "unstageUnqueued", "fail"} \union Answered]
          /\ callFaults' \in Nat
      BY <1>3 DEF SaveMetadata, UploadGoto, Returns, CallFault, TypeOK
    <2>3. unwritten' \subseteq Messages
      BY <1>3 DEF SaveMetadata, StatusLeft, TypeOK
    <2> QED
      BY <1>3, <1>q, <2>1, <2>2, <2>3 DEF SaveMetadata, TypeOK, Table, removeVars
  <1>4. ASSUME NEW m \in Messages, Enqueue(m) PROVE TypeOK'
    BY <1>4, <1>q DEF Enqueue, UploadGoto, TypeOK, Answered, storeVars, removeVars,
       serviceVars
  <1>5. ASSUME NEW m \in Messages, Unstage(m) PROVE TypeOK'
    BY <1>5, <1>q DEF Unstage, Returns, CallFault, If, UploadGoto, TypeOK, Answered,
       removeVars, serviceVars
  <1>6. ASSUME NEW m \in Messages, FailUpload(m) PROVE TypeOK'
    <2>1. UpdateAvatarStatus(avatars, UserOf[m], "failed") \in Table
      BY <1>t, <1>s, TableTypes
    <2>2. avatars' \in Table
      BY <1>6, <1>t, <2>1 DEF FailUpload, If
    <2>3. unwritten' \subseteq Messages
      BY <1>6 DEF FailUpload, StatusLeft, TypeOK
    <2>4. /\ upload' \in [Messages -> {"new", "stage", "upsert", "publish", "unstage",
                                      "unstageUnqueued", "fail"} \union Answered]
          /\ callFaults' \in Nat
      BY <1>6 DEF FailUpload, UploadGoto, Returns, CallFault, TypeOK, Answered
    <2> QED
      BY <1>6, <1>q, <2>2, <2>3, <2>4 DEF FailUpload, TypeOK, Table, removeVars
  <1>7. ASSUME NEW m \in Messages, ClientGone(m) PROVE TypeOK'
    BY <1>7, <1>q DEF ClientGone, CallFault, TypeOK, storeVars, removeVars, serviceVars
  <1>8. ASSUME NEW d \in Deletes, ReadRow(d) PROVE TypeOK'
    <2>1. DeleteUser[d] \in Users
      OBVIOUS
    <2>2. avatars[DeleteUser[d]] # None =>
            /\ avatars[DeleteUser[d]] \in Row(Messages)
            /\ ObjectKeys(avatars[DeleteUser[d]]) \in Seq({"staging", "original", "thumb"})
      BY <2>1, KeyTypes DEF TypeOK
    <2>3. row' \in [Deletes -> Row(Messages) \union {None}]
      BY <1>8, <2>2 DEF ReadRow, TypeOK
    <2>4. keys' \in [Deletes -> Seq({"staging", "original", "thumb"})]
      BY <1>8, <2>2 DEF ReadRow, TypeOK
    <2>5. remove' \in [Deletes -> {"new", "files", "row", "204", "404", "500", "killed"}]
      BY <1>8 DEF ReadRow, RemoveGoto, AfterKeys, TypeOK
    <2>6. callFaults' \in Nat
      BY <1>8 DEF ReadRow, Returns, CallFault, TypeOK
    <2> QED
      BY <1>8, <1>q, <2>3, <2>4, <2>5, <2>6
         DEF ReadRow, TypeOK, storeVars, uploadVars, serviceVars
  <1>9. ASSUME NEW d \in Deletes, DeleteObject(d) PROVE TypeOK'
    <2>1. keys' \in [Deletes -> Seq({"staging", "original", "thumb"})]
      <3>1. keys[d] \in Seq({"staging", "original", "thumb"}) /\ keys[d] # <<>>
        BY <1>9 DEF DeleteObject, TypeOK
      <3>2. Tail(keys[d]) \in Seq({"staging", "original", "thumb"})
        BY <3>1
      <3> QED
        BY <1>9, <3>2 DEF DeleteObject, TypeOK
    <2>2. remove' \in [Deletes -> {"new", "files", "row", "204", "404", "500", "killed"}]
      BY <1>9 DEF DeleteObject, RemoveGoto, AfterKeys, TypeOK
    <2>3. staged' \subseteq Messages
      BY <1>9 DEF DeleteObject, TypeOK
    <2>4. original' \in [Users -> Messages \union {None}]
      BY <1>9 DEF DeleteObject, TypeOK
    <2>5. thumb' \in [Users -> Messages \union {None}]
      BY <1>9 DEF DeleteObject, TypeOK
    <2>6. callFaults' \in Nat
      BY <1>9 DEF DeleteObject, Returns, CallFault, TypeOK
    <2> QED
      BY <1>9, <1>q, <2>1, <2>2, <2>3, <2>4, <2>5, <2>6
         DEF DeleteObject, TypeOK, uploadVars, serviceVars
  <1>10. ASSUME NEW d \in Deletes, DeleteRow(d) PROVE TypeOK'
    <2>1. avatars' \in Table
      <3>1. DeleteUser[d] \in Users
        OBVIOUS
      <3>2. DeleteAvatarRow(avatars, DeleteUser[d]) \in Table
        BY <1>t, <3>1, TableTypes
      <3> QED
        BY <1>10, <1>t, <3>2 DEF DeleteRow, If
    <2>2. remove' \in [Deletes -> {"new", "files", "row", "204", "404", "500", "killed"}]
      BY <1>10 DEF DeleteRow, RemoveGoto, TypeOK
    <2>3. callFaults' \in Nat
      BY <1>10 DEF DeleteRow, Returns, CallFault, TypeOK
    <2> QED
      BY <1>10, <1>q, <2>1, <2>2, <2>3 DEF DeleteRow, TypeOK, Table, uploadVars, serviceVars
  <1>11. ASSUME ApiRestart PROVE TypeOK'
    BY <1>11, <1>q DEF ApiRestart, CallFault, TypeOK, Answered, storeVars, serviceVars
  <1>12. ASSUME NEW w \in Workers, Handle(w) PROVE TypeOK'
    <2>1. CASE SetProcessing(w)
      <3>1. Message(w) \in Messages /\ User(w) \in Users
        BY <2>1, HandledMessage DEF SetProcessing, Handling
      <3>2. UpdateAvatarStatus(avatars, User(w), "processing") \in Table
        BY <1>t, <1>s, <3>1, TableTypes
      <3>3. avatars' \in Table
        BY <2>1, <1>t, <3>2 DEF SetProcessing, If
      <3>4. step' \in [Workers -> {"processing", "download", "original", "thumb", "ready",
                                  "cleanup", "failed"}]
        BY <2>1 DEF SetProcessing, Advance, HandleReturns, TypeOK
      <3>5. callFaults' \in Nat
        BY <2>1 DEF SetProcessing, ServiceCall, Returns, CallFault, TypeOK
      <3>6. unwritten' \subseteq Messages
        BY <2>1, <3>1 DEF SetProcessing, StatusLeft, TypeOK
      <3> QED
        BY <2>1, <1>q, <3>3, <3>4, <3>5, <3>6
           DEF SetProcessing, TypeOK, Table, uploadVars, removeVars
    <2>2. CASE DownloadAndProcess(w)
      BY <2>2, <1>q
         DEF DownloadAndProcess, ServiceCall, Returns, CallFault, Advance, TypeOK,
             storeVars, uploadVars, removeVars
    <2>3. CASE PutOriginal(w) \/ PutThumb(w)
      <3>1. Message(w) \in Messages /\ User(w) \in Users
        BY <2>3, HandledMessage DEF PutOriginal, PutThumb, Handling
      <3>2. /\ original' \in [Users -> Messages \union {None}]
            /\ thumb' \in [Users -> Messages \union {None}]
        <4>1. /\ [original EXCEPT ![User(w)] = Message(w)] \in [Users -> Messages \union {None}]
              /\ [thumb EXCEPT ![User(w)] = Message(w)] \in [Users -> Messages \union {None}]
          BY <3>1 DEF TypeOK
        <4>2. /\ original' \in {original, [original EXCEPT ![User(w)] = Message(w)]}
              /\ thumb' \in {thumb, [thumb EXCEPT ![User(w)] = Message(w)]}
          BY <2>3 DEF PutOriginal, PutThumb, If
        <4> QED
          BY <4>1, <4>2 DEF TypeOK
      <3>3. step' \in [Workers -> {"processing", "download", "original", "thumb", "ready",
                                  "cleanup", "failed"}]
        BY <2>3 DEF PutOriginal, PutThumb, Advance, TypeOK
      <3>4. callFaults' \in Nat
        BY <2>3 DEF PutOriginal, PutThumb, ServiceCall, Returns, CallFault, TypeOK
      <3> QED
        BY <2>3, <1>q, <3>2, <3>3, <3>4
           DEF PutOriginal, PutThumb, TypeOK, uploadVars, removeVars
    <2>4. CASE SetReady(w)
      <3>1. Message(w) \in Messages /\ User(w) \in Users
        BY <2>4, HandledMessage DEF SetReady, Handling
      <3>2. MarkAvatarReady(avatars, User(w), Message(w)) \in Table
        BY <1>t, <1>s, <3>1, TableTypes
      <3>3. avatars' \in Table
        BY <2>4, <1>t, <3>2 DEF SetReady, If
      <3>4. step' \in [Workers -> {"processing", "download", "original", "thumb", "ready",
                                  "cleanup", "failed"}]
        BY <2>4 DEF SetReady, Advance, HandleReturns, TypeOK
      <3>5. callFaults' \in Nat
        BY <2>4 DEF SetReady, ServiceCall, Returns, CallFault, TypeOK
      <3>6. completed' \subseteq Messages
        BY <2>4, <3>1 DEF SetReady, If, TypeOK
      <3>7. unwritten' \subseteq Messages
        BY <2>4, <3>1 DEF SetReady, StatusLeft, StatusWritten, TypeOK
      <3> QED
        BY <2>4, <1>q, <3>3, <3>4, <3>5, <3>6, <3>7
           DEF SetReady, TypeOK, Table, uploadVars, removeVars
    <2>5. CASE Cleanup(w)
      BY <2>5, <1>q
         DEF Cleanup, ServiceCall, Returns, CallFault, If, HandleReturns, TypeOK,
             uploadVars, removeVars
    <2>6. CASE SetFailed(w)
      <3>1. Message(w) \in Messages /\ User(w) \in Users
        BY <2>6, HandledMessage DEF SetFailed, Handling
      <3>2. UpdateAvatarStatus(avatars, User(w), "failed") \in Table
        BY <1>t, <1>s, <3>1, TableTypes
      <3>3. avatars' \in Table
        BY <2>6, <1>t, <3>2 DEF SetFailed, If
      <3>4. step' \in [Workers -> {"processing", "download", "original", "thumb", "ready",
                                  "cleanup", "failed"}]
        BY <2>6 DEF SetFailed, HandleReturns, TypeOK
      <3>5. callFaults' \in Nat
        BY <2>6 DEF SetFailed, ServiceCall, Returns, CallFault, TypeOK
      <3>6. unwritten' \subseteq Messages
        BY <2>6, <3>1 DEF SetFailed, StatusLeft, StatusWritten, TypeOK
      <3> QED
        BY <2>6, <1>q, <3>3, <3>4, <3>5, <3>6
           DEF SetFailed, TypeOK, Table, uploadVars, removeVars
    <2> QED
      BY <1>12, <2>1, <2>2, <2>3, <2>4, <2>5, <2>6 DEF Handle
  <1>13. ASSUME NEW w \in Workers, WorkerCrash(w) PROVE TypeOK'
    BY <1>13, <1>q DEF WorkerCrash, TypeOK, storeVars, uploadVars, removeVars
  <1>14. CASE QueueStep \/ UNCHANGED vars
    BY <1>14, <1>q
       DEF QueueStep, vars, avatarVars, TypeOK, storeVars, uploadVars, removeVars,
           serviceVars
  <1> QED
    BY <1>1, <1>2, <1>3, <1>4, <1>5, <1>6, <1>7, <1>8, <1>9, <1>10, <1>11, <1>12, <1>13,
       <1>14 DEF Next, UploadAvatar, DeleteAvatar

\* Type correctness of the whole service.
THEOREM TypeCorrect == Spec => []TypeOK
  BY TypeInit, TypeStep, QueueInvInService, PTL DEF Spec

-----------------------------------------------------------------------------
(***************************************************************************)
(* Sources are kept: the argument behind SourceKept.                        *)
(*                                                                         *)
(* A staging object is removed by three actions.  Unstage runs only for an *)
(* upload that was not queued (UploadInv); Cleanup only after              *)
(* MarkAvatarReady has run for the same message (StepInv); DeleteObject    *)
(* only for the user of the DELETE (OwnerInv), who then counts as purged.  *)
(***************************************************************************)
UploadInv ==
    /\ \A m \in published : upload[m] = "202"
    /\ \A m \in Messages : upload[m] \in {"upsert", "publish"} =>
         m \in staged \union completed \/ Purged(UserOf[m])

StepInv ==
    \A w \in Workers :
        /\ pc[w] # "handle" => step[w] = "processing"
        /\ step[w] = "cleanup" => delivery[w].id \in completed

OwnerInv ==
    /\ \A u \in Users : avatars[u] # None /\ avatars[u].stagingKey # None =>
         UserOf[avatars[u].stagingKey] = u
    /\ \A d \in Deletes : row[d] # None /\ row[d].stagingKey # None =>
         UserOf[row[d].stagingKey] = DeleteUser[d]
    /\ \A d \in Deletes : remove[d] = "files" => row[d] # None

SourceInv == UploadInv /\ StepInv /\ OwnerInv /\ SourceKept

\* The invariant holds before the first upload.
LEMMA SourceInit == Init => SourceInv
  BY DEF Init, QueueInit, SourceInv, UploadInv, StepInv, OwnerInv, SourceKept

\* The steps of the queue that leave step and delivery of a handling worker alone.
LEMMA QueueSteps ==
    ASSUME QueueStep, QueueTypeOK
    PROVE  /\ published' = published
           /\ UNCHANGED avatarVars
           /\ \A w \in Workers : pc[w] = "handle" => delivery'[w] = delivery[w]
           /\ \A w \in Workers : pc'[w] # "handle" => pc[w] # "handle"
  <1>1. UNCHANGED avatarVars
    BY DEF QueueStep
  <1>2. ASSUME NEW x \in Workers, Consumer(x) \/ ConsumeReturns(x)
        PROVE  /\ published' = published /\ pc[x] # "handle"
               /\ \A w \in Workers \ {x} : delivery'[w] = delivery[w] /\ pc'[w] = pc[w]
               /\ pc'[x] = "handle" => pc[x] = "decode"
    BY <1>2 DEF Consumer, Deliver, RejectMalformed, IsProcessed, SendToRetry, MarkProcessed,
       AckDelivery, ConsumeReturns, Return, Goto, historyVars, QueueTypeOK
  <1>3. ASSUME \/ \E x \in Workers : Shutdown(x) \/ ConnectionLost(x)
               \/ \E q \in RetryQueues : Expire(q)
               \/ PublisherLost
               \/ BrokerRestart
        PROVE  UNCHANGED <<published, pc, delivery>>
    BY <1>3 DEF Shutdown, ConnectionLost, Expire, PublisherLost, BrokerRestart, consumerVars,
       historyVars
  <1> QED
    BY <1>1, <1>2, <1>3 DEF QueueStep

\* Every step preserves the invariant.
LEMMA SourceStep ==
    TypeOK /\ QueueInv /\ SourceInv /\ [Next]_vars => SourceInv'
  <1> SUFFICES ASSUME TypeOK, QueueInv, SourceInv, [Next]_vars PROVE SourceInv'
    OBVIOUS
  <1> USE AvatarsAssumption
  <1>1. ASSUME NEW m \in Messages, StartUpload(m) PROVE SourceInv'
    <2>1. UploadInv'
      BY <1>1 DEF StartUpload, UploadGoto, SourceInv, UploadInv, StepInv, OwnerInv,
         Purged, QueueTypeOK, TypeOK, queueVars, brokerVars, consumerVars, historyVars,
         storeVars, removeVars, serviceVars
    <2>2. StepInv'
      BY <1>1 DEF StartUpload, UploadGoto, SourceInv, StepInv, QueueTypeOK, Effective,
         TypeOK, queueVars, brokerVars, consumerVars, historyVars, storeVars,
         removeVars, serviceVars
    <2>3. OwnerInv'
      BY <1>1 DEF StartUpload, UploadGoto, SourceInv, OwnerInv, TypeOK, queueVars,
         brokerVars, consumerVars, historyVars, storeVars, removeVars, serviceVars
    <2>4. SourceKept'
      BY <1>1 DEF StartUpload, UploadGoto, SourceInv, UploadInv, StepInv, OwnerInv,
         SourceKept, Purged, TypeOK, queueVars, brokerVars, consumerVars, historyVars,
         storeVars, removeVars, serviceVars
    <2> QED
      BY <2>1, <2>2, <2>3, <2>4 DEF SourceInv
  <1>2. ASSUME NEW m \in Messages, StageUpload(m) PROVE SourceInv'
    <2>1. UploadInv'
      BY <1>2 DEF StageUpload, UploadGoto, If, Effective, Outcomes, Answered, SourceInv,
         UploadInv, StepInv, OwnerInv, Purged, QueueTypeOK, TypeOK, queueVars,
         brokerVars, consumerVars, historyVars, storeVars, removeVars, serviceVars
    <2>2. StepInv'
      BY <1>2 DEF StageUpload, UploadGoto, If, Effective, Outcomes, Answered, SourceInv,
         StepInv, QueueTypeOK, Effective, TypeOK, queueVars, brokerVars, consumerVars,
         historyVars, storeVars, removeVars, serviceVars
    <2>3. OwnerInv'
      BY <1>2 DEF StageUpload, UploadGoto, If, Effective, Outcomes, Answered, SourceInv,
         OwnerInv, TypeOK, queueVars, brokerVars, consumerVars, historyVars, storeVars,
         removeVars, serviceVars
    <2>4. SourceKept'
      BY <1>2 DEF StageUpload, UploadGoto, If, Effective, Outcomes, Answered, SourceInv,
         UploadInv, StepInv, OwnerInv, SourceKept, Purged, TypeOK, queueVars,
         brokerVars, consumerVars, historyVars, storeVars, removeVars, serviceVars
    <2> QED
      BY <2>1, <2>2, <2>3, <2>4 DEF SourceInv
  <1>3. ASSUME NEW m \in Messages, SaveMetadata(m) PROVE SourceInv'
    <2>1. UploadInv'
      BY <1>3 DEF SaveMetadata, UploadGoto, If, UpsertAvatar, SourceInv, UploadInv,
         StepInv, OwnerInv, Purged, QueueTypeOK, TypeOK, queueVars, brokerVars,
         consumerVars, historyVars, storeVars, removeVars, serviceVars
    <2>2. StepInv'
      BY <1>3 DEF SaveMetadata, UploadGoto, If, UpsertAvatar, SourceInv, StepInv,
         QueueTypeOK, Effective, TypeOK, queueVars, brokerVars, consumerVars,
         historyVars, storeVars, removeVars, serviceVars
    <2>3. OwnerInv'
      BY <1>3 DEF SaveMetadata, UploadGoto, If, UpsertAvatar, SourceInv, OwnerInv,
         TypeOK, queueVars, brokerVars, consumerVars, historyVars, storeVars,
         removeVars, serviceVars
    <2>4. SourceKept'
      BY <1>3 DEF SaveMetadata, UploadGoto, If, UpsertAvatar, SourceInv, UploadInv,
         StepInv, OwnerInv, SourceKept, Purged, TypeOK, queueVars, brokerVars,
         consumerVars, historyVars, storeVars, removeVars, serviceVars
    <2> QED
      BY <2>1, <2>2, <2>3, <2>4 DEF SourceInv
  <1>4. ASSUME NEW m \in Messages, Enqueue(m) PROVE SourceInv'
    <2>1. UploadInv'
      <3>1. upload[m] = "publish" /\ m \notin published
        BY <1>4 DEF Enqueue, SourceInv, UploadInv
      <3>2. \/ published' = published \union {m} /\ UploadGoto(m, "202")
            \/ published' = published /\ (UploadGoto(m, "202") \/ UploadGoto(m, "unstageUnqueued"))
        BY <1>4 DEF Enqueue, PublishAvatarProcess, PublisherLost, queueVars, historyVars
      <3>3. published \subseteq Messages /\ UNCHANGED <<staged, completed, row>>
        BY <1>4 DEF Enqueue, TypeOK, QueueTypeOK, storeVars, serviceVars, removeVars
      <3> QED
        BY <3>1, <3>2, <3>3 DEF SourceInv, UploadInv, UploadGoto, Purged, TypeOK
    <2>2. StepInv'
      BY <1>4 DEF Enqueue, UploadGoto, PublishAvatarProcess, PublisherLost, SourceInv,
         StepInv, QueueTypeOK, Effective, TypeOK, queueVars, brokerVars, consumerVars,
         historyVars, storeVars, removeVars, serviceVars
    <2>3. OwnerInv'
      BY <1>4 DEF Enqueue, UploadGoto, PublishAvatarProcess, PublisherLost, SourceInv,
         OwnerInv, TypeOK, queueVars, brokerVars, consumerVars, historyVars, storeVars,
         removeVars, serviceVars
    <2>4. SourceKept'
      BY <1>4 DEF Enqueue, UploadGoto, PublishAvatarProcess, PublisherLost, SourceInv,
         UploadInv, StepInv, OwnerInv, SourceKept, Purged, TypeOK, queueVars,
         brokerVars, consumerVars, historyVars, storeVars, removeVars, serviceVars
    <2> QED
      BY <2>1, <2>2, <2>3, <2>4 DEF SourceInv
  <1>5. ASSUME NEW m \in Messages, Unstage(m) PROVE SourceInv'
    <2>1. UploadInv'
      BY <1>5 DEF Unstage, UploadGoto, If, SourceInv, UploadInv, StepInv, OwnerInv,
         Purged, QueueTypeOK, TypeOK, queueVars, brokerVars, consumerVars, historyVars,
         storeVars, removeVars, serviceVars
    <2>2. StepInv'
      BY <1>5 DEF Unstage, UploadGoto, If, SourceInv, StepInv, QueueTypeOK, Effective,
         TypeOK, queueVars, brokerVars, consumerVars, historyVars, storeVars,
         removeVars, serviceVars
    <2>3. OwnerInv'
      BY <1>5 DEF Unstage, UploadGoto, If, SourceInv, OwnerInv, TypeOK, queueVars,
         brokerVars, consumerVars, historyVars, storeVars, removeVars, serviceVars
    <2>4. SourceKept'
      BY <1>5 DEF Unstage, UploadGoto, If, SourceInv, UploadInv, StepInv, OwnerInv,
         SourceKept, Purged, TypeOK, queueVars, brokerVars, consumerVars, historyVars,
         storeVars, removeVars, serviceVars
    <2> QED
      BY <2>1, <2>2, <2>3, <2>4 DEF SourceInv
  <1>6. ASSUME NEW m \in Messages, FailUpload(m) PROVE SourceInv'
    <2>1. UploadInv'
      BY <1>6 DEF FailUpload, UploadGoto, If, UpdateAvatarStatus, SourceInv, UploadInv,
         StepInv, OwnerInv, Purged, QueueTypeOK, TypeOK, queueVars, brokerVars,
         consumerVars, historyVars, storeVars, removeVars, serviceVars
    <2>2. StepInv'
      BY <1>6 DEF FailUpload, UploadGoto, If, UpdateAvatarStatus, SourceInv, StepInv,
         QueueTypeOK, Effective, TypeOK, queueVars, brokerVars, consumerVars,
         historyVars, storeVars, removeVars, serviceVars
    <2>3. OwnerInv'
      BY <1>6 DEF FailUpload, UploadGoto, If, UpdateAvatarStatus, SourceInv, OwnerInv,
         TypeOK, queueVars, brokerVars, consumerVars, historyVars, storeVars,
         removeVars, serviceVars
    <2>4. SourceKept'
      BY <1>6 DEF FailUpload, UploadGoto, If, UpdateAvatarStatus, SourceInv, UploadInv,
         StepInv, OwnerInv, SourceKept, Purged, TypeOK, queueVars, brokerVars,
         consumerVars, historyVars, storeVars, removeVars, serviceVars
    <2> QED
      BY <2>1, <2>2, <2>3, <2>4 DEF SourceInv
  <1>7. ASSUME NEW m \in Messages, ClientGone(m) PROVE SourceInv'
    <2>1. UploadInv'
      BY <1>7 DEF ClientGone, SourceInv, UploadInv, StepInv, OwnerInv, Purged,
         QueueTypeOK, TypeOK, queueVars, brokerVars, consumerVars, historyVars,
         storeVars, removeVars, serviceVars
    <2>2. StepInv'
      BY <1>7 DEF ClientGone, SourceInv, StepInv, QueueTypeOK, Effective, TypeOK,
         queueVars, brokerVars, consumerVars, historyVars, storeVars, removeVars,
         serviceVars
    <2>3. OwnerInv'
      BY <1>7 DEF ClientGone, SourceInv, OwnerInv, TypeOK, queueVars, brokerVars,
         consumerVars, historyVars, storeVars, removeVars, serviceVars
    <2>4. SourceKept'
      BY <1>7 DEF ClientGone, SourceInv, UploadInv, StepInv, OwnerInv, SourceKept,
         Purged, TypeOK, queueVars, brokerVars, consumerVars, historyVars, storeVars,
         removeVars, serviceVars
    <2> QED
      BY <2>1, <2>2, <2>3, <2>4 DEF SourceInv
  <1>8. ASSUME NEW d \in Deletes, ReadRow(d) PROVE SourceInv'
    <2>a. /\ UNCHANGED <<queueVars, storeVars, uploadVars, serviceVars>>
          /\ \/ row' = row /\ remove'[d] # "files"
             \/ /\ avatars[DeleteUser[d]] # None
                /\ row' = [row EXCEPT ![d] = avatars[DeleteUser[d]]]
          /\ \A e \in Deletes \ {d} : remove'[e] = remove[e]
      BY <1>8 DEF ReadRow, RemoveGoto, TypeOK
    <2>b. DeleteUser[d] \in Users
      OBVIOUS
    <2>1. UploadInv'
      BY <2>a, <2>b DEF SourceInv, UploadInv, StepInv, OwnerInv, Purged, QueueTypeOK,
         TypeOK, queueVars, historyVars, consumerVars, storeVars, uploadVars,
         serviceVars
    <2>2. StepInv'
      BY <2>a, <2>b DEF SourceInv, StepInv, QueueTypeOK, Effective, TypeOK, queueVars,
         historyVars, consumerVars, storeVars, uploadVars, serviceVars
    <2>3. OwnerInv'
      <3>1. CASE row' = row /\ remove'[d] # "files"
        BY <2>a, <3>1 DEF SourceInv, OwnerInv, storeVars
      <3>2. CASE avatars[DeleteUser[d]] # None /\ row' = [row EXCEPT ![d] = avatars[DeleteUser[d]]]
        <4>1. \A e \in Deletes : row'[e] = IF e = d THEN avatars[DeleteUser[d]] ELSE row[e]
          BY <3>2 DEF TypeOK
        <4> QED
          BY <2>a, <2>b, <3>2, <4>1 DEF SourceInv, OwnerInv, storeVars
      <3> QED
        BY <2>a, <3>1, <3>2
    <2>4. SourceKept'
      BY <2>a, <2>b DEF SourceInv, UploadInv, StepInv, OwnerInv, SourceKept, Purged,
         TypeOK, queueVars, historyVars, consumerVars, storeVars, uploadVars,
         serviceVars
    <2> QED
      BY <2>1, <2>2, <2>3, <2>4 DEF SourceInv
  <1>9. ASSUME NEW d \in Deletes, DeleteObject(d) PROVE SourceInv'
    <2>1. UploadInv'
      BY <1>9 DEF DeleteObject, RemoveGoto, AfterKeys, SourceInv, UploadInv, StepInv,
         OwnerInv, Purged, QueueTypeOK, TypeOK, queueVars, historyVars, consumerVars,
         storeVars, uploadVars, serviceVars
    <2>2. StepInv'
      BY <1>9 DEF DeleteObject, RemoveGoto, AfterKeys, SourceInv, StepInv, QueueTypeOK,
         Effective, TypeOK, queueVars, historyVars, consumerVars, storeVars, uploadVars,
         serviceVars
    <2>3. OwnerInv'
      BY <1>9 DEF DeleteObject, RemoveGoto, AfterKeys, SourceInv, OwnerInv, TypeOK,
         queueVars, historyVars, consumerVars, storeVars, uploadVars, serviceVars
    <2>4. SourceKept'
      BY <1>9 DEF DeleteObject, RemoveGoto, AfterKeys, SourceInv, UploadInv, StepInv,
         OwnerInv, SourceKept, Purged, TypeOK, queueVars, historyVars, consumerVars,
         storeVars, uploadVars, serviceVars
    <2> QED
      BY <2>1, <2>2, <2>3, <2>4 DEF SourceInv
  <1>10. ASSUME NEW d \in Deletes, DeleteRow(d) PROVE SourceInv'
    <2>1. UploadInv'
      BY <1>10 DEF DeleteRow, RemoveGoto, If, DeleteAvatarRow, SourceInv, UploadInv,
         StepInv, OwnerInv, Purged, QueueTypeOK, TypeOK, queueVars, historyVars,
         consumerVars, storeVars, uploadVars, serviceVars
    <2>2. StepInv'
      BY <1>10 DEF DeleteRow, RemoveGoto, If, DeleteAvatarRow, SourceInv, StepInv,
         QueueTypeOK, Effective, TypeOK, queueVars, historyVars, consumerVars,
         storeVars, uploadVars, serviceVars
    <2>3. OwnerInv'
      BY <1>10 DEF DeleteRow, RemoveGoto, If, DeleteAvatarRow, SourceInv, OwnerInv,
         TypeOK, queueVars, historyVars, consumerVars, storeVars, uploadVars,
         serviceVars
    <2>4. SourceKept'
      BY <1>10 DEF DeleteRow, RemoveGoto, If, DeleteAvatarRow, SourceInv, UploadInv,
         StepInv, OwnerInv, SourceKept, Purged, TypeOK, queueVars, historyVars,
         consumerVars, storeVars, uploadVars, serviceVars
    <2> QED
      BY <2>1, <2>2, <2>3, <2>4 DEF SourceInv
  <1>11. ASSUME ApiRestart PROVE SourceInv'
    <2>1. UploadInv'
      BY <1>11 DEF ApiRestart, PublisherRestart, Answered, SourceInv, UploadInv,
         StepInv, OwnerInv, Purged, QueueTypeOK, TypeOK, queueVars, consumerVars,
         historyVars, storeVars, serviceVars
    <2>2. StepInv'
      BY <1>11 DEF ApiRestart, PublisherRestart, Answered, SourceInv, StepInv,
         QueueTypeOK, Effective, TypeOK, queueVars, consumerVars, historyVars,
         storeVars, serviceVars
    <2>3. OwnerInv'
      BY <1>11 DEF ApiRestart, PublisherRestart, Answered, SourceInv, OwnerInv, TypeOK,
         queueVars, consumerVars, historyVars, storeVars, serviceVars
    <2>4. SourceKept'
      BY <1>11 DEF ApiRestart, PublisherRestart, Answered, SourceInv, UploadInv,
         StepInv, OwnerInv, SourceKept, Purged, TypeOK, queueVars, consumerVars,
         historyVars, storeVars, serviceVars
    <2> QED
      BY <2>1, <2>2, <2>3, <2>4 DEF SourceInv
  <1>12. ASSUME NEW w \in Workers, SetProcessing(w) PROVE SourceInv'
    <2>1. UploadInv'
      BY HandledMessage, <1>12 DEF SetProcessing, Handling, If, Advance, HandleReturns,
         HandlerReturns, Goto, UpdateAvatarStatus, SourceInv, UploadInv, StepInv,
         OwnerInv, Purged, QueueTypeOK, TypeOK, queueVars, brokerVars, consumerVars,
         historyVars, storeVars, uploadVars, removeVars
    <2>2. StepInv'
      BY HandledMessage, <1>12 DEF SetProcessing, Handling, If, Advance, HandleReturns,
         HandlerReturns, Goto, UpdateAvatarStatus, SourceInv, StepInv, QueueTypeOK,
         Effective, TypeOK, queueVars, brokerVars, consumerVars, historyVars, storeVars,
         uploadVars, removeVars
    <2>3. OwnerInv'
      BY HandledMessage, <1>12 DEF SetProcessing, Handling, If, Advance, HandleReturns,
         HandlerReturns, Goto, UpdateAvatarStatus, SourceInv, OwnerInv, TypeOK,
         queueVars, brokerVars, consumerVars, historyVars, storeVars, uploadVars,
         removeVars
    <2>4. SourceKept'
      BY HandledMessage, <1>12 DEF SetProcessing, Handling, If, Advance, HandleReturns,
         HandlerReturns, Goto, UpdateAvatarStatus, SourceInv, UploadInv, StepInv,
         OwnerInv, SourceKept, Purged, TypeOK, queueVars, brokerVars, consumerVars,
         historyVars, storeVars, uploadVars, removeVars
    <2> QED
      BY <2>1, <2>2, <2>3, <2>4 DEF SourceInv
  <1>13. ASSUME NEW w \in Workers, DownloadAndProcess(w) PROVE SourceInv'
    <2>1. UploadInv'
      BY <1>13 DEF DownloadAndProcess, Handling, Advance, SourceInv, UploadInv, StepInv,
         OwnerInv, Purged, QueueTypeOK, TypeOK, queueVars, brokerVars, consumerVars,
         historyVars, storeVars, uploadVars, removeVars
    <2>2. StepInv'
      BY <1>13 DEF DownloadAndProcess, Handling, Advance, SourceInv, StepInv,
         QueueTypeOK, Effective, TypeOK, queueVars, brokerVars, consumerVars,
         historyVars, storeVars, uploadVars, removeVars
    <2>3. OwnerInv'
      BY <1>13 DEF DownloadAndProcess, Handling, Advance, SourceInv, OwnerInv, TypeOK,
         queueVars, brokerVars, consumerVars, historyVars, storeVars, uploadVars,
         removeVars
    <2>4. SourceKept'
      BY <1>13 DEF DownloadAndProcess, Handling, Advance, SourceInv, UploadInv, StepInv,
         OwnerInv, SourceKept, Purged, TypeOK, queueVars, brokerVars, consumerVars,
         historyVars, storeVars, uploadVars, removeVars
    <2> QED
      BY <2>1, <2>2, <2>3, <2>4 DEF SourceInv
  <1>14. ASSUME NEW w \in Workers, PutOriginal(w) PROVE SourceInv'
    <2>1. UploadInv'
      BY <1>14 DEF PutOriginal, Handling, Advance, SourceInv, UploadInv, StepInv,
         OwnerInv, Purged, QueueTypeOK, TypeOK, queueVars, brokerVars, consumerVars,
         historyVars, storeVars, uploadVars, removeVars
    <2>2. StepInv'
      BY <1>14 DEF PutOriginal, Handling, Advance, SourceInv, StepInv, QueueTypeOK,
         Effective, TypeOK, queueVars, brokerVars, consumerVars, historyVars, storeVars,
         uploadVars, removeVars
    <2>3. OwnerInv'
      BY <1>14 DEF PutOriginal, Handling, Advance, SourceInv, OwnerInv, TypeOK,
         queueVars, brokerVars, consumerVars, historyVars, storeVars, uploadVars,
         removeVars
    <2>4. SourceKept'
      BY <1>14 DEF PutOriginal, Handling, Advance, SourceInv, UploadInv, StepInv,
         OwnerInv, SourceKept, Purged, TypeOK, queueVars, brokerVars, consumerVars,
         historyVars, storeVars, uploadVars, removeVars
    <2> QED
      BY <2>1, <2>2, <2>3, <2>4 DEF SourceInv
  <1>15. ASSUME NEW w \in Workers, PutThumb(w) PROVE SourceInv'
    <2>1. UploadInv'
      BY <1>15 DEF PutThumb, Handling, Advance, SourceInv, UploadInv, StepInv, OwnerInv,
         Purged, QueueTypeOK, TypeOK, queueVars, brokerVars, consumerVars, historyVars,
         storeVars, uploadVars, removeVars
    <2>2. StepInv'
      BY <1>15 DEF PutThumb, Handling, Advance, SourceInv, StepInv, QueueTypeOK,
         Effective, TypeOK, queueVars, brokerVars, consumerVars, historyVars, storeVars,
         uploadVars, removeVars
    <2>3. OwnerInv'
      BY <1>15 DEF PutThumb, Handling, Advance, SourceInv, OwnerInv, TypeOK, queueVars,
         brokerVars, consumerVars, historyVars, storeVars, uploadVars, removeVars
    <2>4. SourceKept'
      BY <1>15 DEF PutThumb, Handling, Advance, SourceInv, UploadInv, StepInv, OwnerInv,
         SourceKept, Purged, TypeOK, queueVars, brokerVars, consumerVars, historyVars,
         storeVars, uploadVars, removeVars
    <2> QED
      BY <2>1, <2>2, <2>3, <2>4 DEF SourceInv
  <1>16. ASSUME NEW w \in Workers, SetReady(w) PROVE SourceInv'
    <2>1. UploadInv'
      BY HandledMessage, <1>16 DEF SetReady, Handling, If, Advance, HandleReturns,
         HandlerReturns, Goto, MarkAvatarReady, Message, SourceInv, UploadInv, StepInv,
         OwnerInv, Purged, QueueTypeOK, TypeOK, queueVars, brokerVars, consumerVars,
         historyVars, storeVars, uploadVars, removeVars
    <2>2. StepInv'
      BY HandledMessage, <1>16 DEF SetReady, Handling, If, Advance, HandleReturns,
         HandlerReturns, Goto, MarkAvatarReady, Message, SourceInv, StepInv,
         QueueTypeOK, Effective, TypeOK, queueVars, brokerVars, consumerVars,
         historyVars, storeVars, uploadVars, removeVars
    <2>3. OwnerInv'
      BY HandledMessage, <1>16 DEF SetReady, Handling, If, Advance, HandleReturns,
         HandlerReturns, Goto, MarkAvatarReady, Message, SourceInv, OwnerInv, TypeOK,
         queueVars, brokerVars, consumerVars, historyVars, storeVars, uploadVars,
         removeVars
    <2>4. SourceKept'
      BY HandledMessage, <1>16 DEF SetReady, Handling, If, Advance, HandleReturns,
         HandlerReturns, Goto, MarkAvatarReady, Message, SourceInv, UploadInv, StepInv,
         OwnerInv, SourceKept, Purged, TypeOK, queueVars, brokerVars, consumerVars,
         historyVars, storeVars, uploadVars, removeVars
    <2> QED
      BY <2>1, <2>2, <2>3, <2>4 DEF SourceInv
  <1>17. ASSUME NEW w \in Workers, Cleanup(w) PROVE SourceInv'
    <2>1. UploadInv'
      BY HandledMessage, <1>17 DEF Cleanup, Handling, If, HandleReturns, HandlerReturns,
         Goto, Message, SourceInv, UploadInv, StepInv, OwnerInv, Purged, QueueTypeOK,
         TypeOK, queueVars, brokerVars, consumerVars, historyVars, storeVars,
         uploadVars, removeVars
    <2>2. StepInv'
      BY HandledMessage, <1>17 DEF Cleanup, Handling, If, HandleReturns, HandlerReturns,
         Goto, Message, SourceInv, StepInv, QueueTypeOK, Effective, TypeOK, queueVars,
         brokerVars, consumerVars, historyVars, storeVars, uploadVars, removeVars
    <2>3. OwnerInv'
      BY HandledMessage, <1>17 DEF Cleanup, Handling, If, HandleReturns, HandlerReturns,
         Goto, Message, SourceInv, OwnerInv, TypeOK, queueVars, brokerVars,
         consumerVars, historyVars, storeVars, uploadVars, removeVars
    <2>4. SourceKept'
      BY HandledMessage, <1>17 DEF Cleanup, Handling, If, HandleReturns, HandlerReturns,
         Goto, Message, SourceInv, UploadInv, StepInv, OwnerInv, SourceKept, Purged,
         TypeOK, queueVars, brokerVars, consumerVars, historyVars, storeVars,
         uploadVars, removeVars
    <2> QED
      BY <2>1, <2>2, <2>3, <2>4 DEF SourceInv
  <1>18. ASSUME NEW w \in Workers, SetFailed(w) PROVE SourceInv'
    <2>1. UploadInv'
      BY HandledMessage, <1>18 DEF SetFailed, Handling, If, HandleReturns,
         HandlerReturns, Goto, UpdateAvatarStatus, SourceInv, UploadInv, StepInv,
         OwnerInv, Purged, QueueTypeOK, TypeOK, queueVars, brokerVars, consumerVars,
         historyVars, storeVars, uploadVars, removeVars
    <2>2. StepInv'
      BY HandledMessage, <1>18 DEF SetFailed, Handling, If, HandleReturns,
         HandlerReturns, Goto, UpdateAvatarStatus, SourceInv, StepInv, QueueTypeOK,
         Effective, TypeOK, queueVars, brokerVars, consumerVars, historyVars, storeVars,
         uploadVars, removeVars
    <2>3. OwnerInv'
      BY HandledMessage, <1>18 DEF SetFailed, Handling, If, HandleReturns,
         HandlerReturns, Goto, UpdateAvatarStatus, SourceInv, OwnerInv, TypeOK,
         queueVars, brokerVars, consumerVars, historyVars, storeVars, uploadVars,
         removeVars
    <2>4. SourceKept'
      BY HandledMessage, <1>18 DEF SetFailed, Handling, If, HandleReturns,
         HandlerReturns, Goto, UpdateAvatarStatus, SourceInv, UploadInv, StepInv,
         OwnerInv, SourceKept, Purged, TypeOK, queueVars, brokerVars, consumerVars,
         historyVars, storeVars, uploadVars, removeVars
    <2> QED
      BY <2>1, <2>2, <2>3, <2>4 DEF SourceInv
  <1>19. ASSUME NEW w \in Workers, WorkerCrash(w) PROVE SourceInv'
    <2>1. UploadInv'
      BY <1>19 DEF WorkerCrash, Crash, Return, SourceInv, UploadInv, StepInv, OwnerInv,
         Purged, QueueTypeOK, TypeOK, queueVars, brokerVars, consumerVars, historyVars,
         storeVars, uploadVars, removeVars
    <2>2. StepInv'
      BY <1>19 DEF WorkerCrash, Crash, Return, SourceInv, StepInv, QueueTypeOK,
         Effective, TypeOK, queueVars, brokerVars, consumerVars, historyVars, storeVars,
         uploadVars, removeVars
    <2>3. OwnerInv'
      BY <1>19 DEF WorkerCrash, Crash, Return, SourceInv, OwnerInv, TypeOK, queueVars,
         brokerVars, consumerVars, historyVars, storeVars, uploadVars, removeVars
    <2>4. SourceKept'
      BY <1>19 DEF WorkerCrash, Crash, Return, SourceInv, UploadInv, StepInv, OwnerInv,
         SourceKept, Purged, TypeOK, queueVars, brokerVars, consumerVars, historyVars,
         storeVars, uploadVars, removeVars
    <2> QED
      BY <2>1, <2>2, <2>3, <2>4 DEF SourceInv
  <1>20. CASE QueueStep
    <2>1. UNCHANGED <<avatars, staged, original, thumb, upload, gone, remove, row, keys, step,
                      completed, callFaults>>
      BY <1>20 DEF QueueStep, avatarVars, storeVars, uploadVars, removeVars, serviceVars
    <2>2. /\ published' = published
          /\ \A w \in Workers : pc[w] = "handle" => delivery'[w] = delivery[w]
          /\ \A w \in Workers : pc'[w] # "handle" => pc[w] # "handle"
      BY <1>20, QueueSteps DEF TypeOK
    <2>3. UploadInv'
      BY <2>1, <2>2 DEF SourceInv, UploadInv, Purged
    <2>4. StepInv'
      BY <2>1, <2>2 DEF SourceInv, StepInv
    <2>5. OwnerInv'
      BY <2>1 DEF SourceInv, OwnerInv
    <2>6. SourceKept'
      BY <2>1, <2>2 DEF SourceInv, SourceKept, Purged
    <2> QED
      BY <2>3, <2>4, <2>5, <2>6 DEF SourceInv
  <1>21. CASE UNCHANGED vars
    BY <1>21 DEF vars, queueVars, historyVars, consumerVars, avatarVars, storeVars,
       uploadVars, removeVars, serviceVars, SourceInv, UploadInv, StepInv, OwnerInv,
       SourceKept, Purged
  <1> QED
    BY <1>1, <1>2, <1>3, <1>4, <1>5, <1>6, <1>7, <1>8, <1>9, <1>10, <1>11, <1>12, <1>13,
       <1>14, <1>15, <1>16, <1>17, <1>18, <1>19, <1>20, <1>21
       DEF Next, UploadAvatar, DeleteAvatar, Handle

\* The bytes of a queued upload exist until MarkAvatarReady has run for it, unless the
\* user was deleted: no cleanup in UploadAvatar or Handle takes them away, however
\* requests, workers, retries and faults interleave.
THEOREM SourcesAreKept == Spec => []SourceKept
  <1>1. SourceInv => SourceKept
    BY DEF SourceInv
  <1> QED
    BY <1>1, SourceInit, SourceStep, TypeCorrect, QueueInvInService, PTL DEF Spec
=============================================================================
