----------------------------- MODULE RowProofs -----------------------------
(***************************************************************************)
(* What becomes of a user's row.                                           *)
(*                                                                         *)
(* No row is forgotten.  A pending row waits for its own upload, which no  *)
(* worker has touched (OwnInv, FreshInv): not processed, nobody past       *)
(* SetProcessing, and no attempt failed unless its write of the status     *)
(* failed too.  A processing row is being worked on, until a call fails or *)
(* a worker stops (BusyInv).  After that, one worker leaves a task behind  *)
(* that is not recorded as processed (UndoneInv): the row would have       *)
(* turned ready before MarkProcessed.  Where this task is dead, its last   *)
(* attempt could not write the status (DeadEndInv, UndoneInv).             *)
(*                                                                         *)
(* The two parts that follow show that a DELETE of a finished avatar is    *)
(* complete, and that the last upload wins.                                *)
(***************************************************************************)
EXTENDS ServiceProofs

Early == {"new", "stage", "upsert"}

NoFault == faults = 0 /\ callFaults = 0

OwnInv ==
    \A u \in Users : avatars[u] # None =>
        /\ UserOf[avatars[u].messageID] = u
        /\ upload[avatars[u].messageID] \notin Early

StopInv == stopping # {} => faults > 0

FreshInv ==
    \A u \in Users, m \in Messages : WaitsFor(u, m) =>
        /\ m \notin processed
        /\ failures[m] > 0 => m \in unwritten
        /\ \A w \in Workers : pc[w] # "receive" /\ Message(w) = m =>
             pc[w] # "mark" /\ step[w] = "processing"

InWork(u) == avatars[u] # None /\ avatars[u].status = "processing"

\* Handle has set the status of its user and will set it again.
AtWork(w) == pc[w] = "handle" /\ step[w] \notin {"processing", "cleanup"}

BusyInv ==
    NoFault => \A u \in Users : InWork(u) => \E w \in Workers : AtWork(w) /\ User(w) = u

\* Every copy of n is in the dead-letter queue, and there is one.
OnlyDead(n) ==
    /\ \E c \in copies : c.id = n
    /\ \A c \in copies : c.id = n => c.queue = QueueDLQ

DeadEndInv ==
    \A w \in Workers :
        /\ pc[w] \in {"decode", "handle"} => ~OnlyDead(Message(w))
        /\ pc[w] \in {"retry", "ack"} /\ InWork(User(w)) =>
             Message(w) \in unwritten \union processed

UndoneInv ==
    \A u \in Users : InWork(u) =>
        /\ \E n \in published \ processed :
             UserOf[n] = u /\ (OnlyDead(n) => n \in unwritten)
        /\ \A w \in Workers : pc[w] = "mark" \/ step[w] = "cleanup" => User(w) # u

RowInv == OwnInv /\ StopInv /\ FreshInv /\ BusyInv

-----------------------------------------------------------------------------
\* In the beginning there is no row.
LEMMA RowInit == Init => RowInv /\ DeadEndInv /\ UndoneInv
  BY DEF Init, QueueInit, RowInv, OwnInv, StopInv, FreshInv, BusyInv, DeadEndInv, UndoneInv,
         WaitsFor, InWork

\* What one SQL statement makes of a user's row.
LEMMA Statements ==
    ASSUME TypeOK, NEW u \in Users, NEW v \in Users, avatars'[u] # None
    PROVE  /\ avatars' = avatars \/ avatars' = DeleteAvatarRow(avatars, v) =>
                avatars'[u] = avatars[u]
           /\ \A n \in Messages : avatars' = UpsertAvatar(avatars, v, n) =>
                \/ avatars'[u] = avatars[u]
                \/ u = v /\ avatars'[u].messageID = n /\ avatars'[u].status = "pending"
           /\ \A s \in Statuses : avatars' = UpdateAvatarStatus(avatars, v, s) =>
                \/ u # v /\ avatars'[u] = avatars[u]
                \/ /\ u = v /\ avatars[u] # None
                   /\ avatars'[u].messageID = avatars[u].messageID
                   /\ avatars'[u].status = s
           /\ \A n \in Messages : avatars' = MarkAvatarReady(avatars, v, n) =>
                \/ u # v /\ avatars'[u] = avatars[u]
                \/ /\ u = v /\ avatars[u] # None
                   /\ avatars'[u].messageID = avatars[u].messageID
                   /\ avatars'[u].status = "ready"
  <1> USE DEF TypeOK
  <1>1. ASSUME avatars' = DeleteAvatarRow(avatars, v) PROVE avatars'[u] = avatars[u]
    BY <1>1 DEF DeleteAvatarRow
  <1>2. ASSUME NEW n \in Messages, avatars' = UpsertAvatar(avatars, v, n)
        PROVE  \/ avatars'[u] = avatars[u]
               \/ u = v /\ avatars'[u].messageID = n /\ avatars'[u].status = "pending"
    BY <1>2 DEF UpsertAvatar
  <1>3. ASSUME NEW s \in Statuses, avatars' = UpdateAvatarStatus(avatars, v, s)
        PROVE  \/ u # v /\ avatars'[u] = avatars[u]
               \/ /\ u = v /\ avatars[u] # None
                  /\ avatars'[u].messageID = avatars[u].messageID
                  /\ avatars'[u].status = s
    BY <1>3, AvatarsAssumption DEF UpdateAvatarStatus, Row
  <1>4. ASSUME NEW n \in Messages, avatars' = MarkAvatarReady(avatars, v, n)
        PROVE  \/ u # v /\ avatars'[u] = avatars[u]
               \/ /\ u = v /\ avatars[u] # None
                  /\ avatars'[u].messageID = avatars[u].messageID
                  /\ avatars'[u].status = "ready"
    BY <1>4, AvatarsAssumption DEF MarkAvatarReady, Row
  <1> QED
    BY <1>1, <1>2, <1>3, <1>4

Written(u, s) ==
    /\ avatars[u] # None
    /\ avatars'[u].messageID = avatars[u].messageID
    /\ avatars'[u].status = s

\* Who writes the rows, and what: a row is new, unchanged, or has a new status.
LEMMA RowSteps ==
    ASSUME TypeOK, QueueInv, [Next]_vars, NEW u \in Users, avatars'[u] # None
    PROVE  \/ avatars'[u] = avatars[u]
           \/ \E m \in Messages :
                /\ SaveMetadata(m) /\ u = UserOf[m]
                /\ avatars'[u].messageID = m /\ avatars'[u].status = "pending"
           \/ Written(u, "failed")
           \/ \E w \in Workers :
                /\ u = User(w)
                /\ \/ SetProcessing(w) /\ Written(u, "processing")
                   \/ SetReady(w) /\ Written(u, "ready")
  <1> USE DEF Written
  <1>u. \A m \in Messages : UserOf[m] \in Users
    BY AvatarsAssumption
  <1>d. \A d \in Deletes : DeleteUser[d] \in Users
    BY AvatarsAssumption
  <1>s. {"pending", "processing", "ready", "failed"} \subseteq Statuses
    BY DEF Statuses
  <1>1. ASSUME NEW m \in Messages, StartUpload(m) \/ UploadAvatar(m) \/ ClientGone(m)
        PROVE  \/ avatars' = avatars
               \/ SaveMetadata(m) /\ avatars' = UpsertAvatar(avatars, UserOf[m], m)
               \/ avatars' = UpdateAvatarStatus(avatars, UserOf[m], "failed")
    BY <1>1 DEF StartUpload, UploadAvatar, StageUpload, SaveMetadata, Enqueue, Unstage,
                FailUpload, ClientGone, If, storeVars
  <1>2. ASSUME NEW d \in Deletes, DeleteAvatar(d)
        PROVE  avatars' = avatars \/ avatars' = DeleteAvatarRow(avatars, DeleteUser[d])
    BY <1>2 DEF DeleteAvatar, ReadRow, DeleteObject, DeleteRow, If, storeVars
  <1>3. ASSUME NEW w \in Workers, Handle(w)
        PROVE  /\ pc[w] = "handle"
               /\ \/ avatars' = avatars
                  \/ /\ SetProcessing(w)
                     /\ avatars' = UpdateAvatarStatus(avatars, User(w), "processing")
                  \/ /\ SetReady(w)
                     /\ avatars' = MarkAvatarReady(avatars, User(w), Message(w))
                  \/ avatars' = UpdateAvatarStatus(avatars, User(w), "failed")
    BY <1>3 DEF Handle, SetProcessing, DownloadAndProcess, PutOriginal, PutThumb, SetReady,
                Cleanup, SetFailed, Handling, If, storeVars
  <1>4. ASSUME ApiRestart \/ (\E w \in Workers : WorkerCrash(w)) \/ QueueStep \/ UNCHANGED vars
        PROVE  avatars' = avatars
    BY <1>4 DEF ApiRestart, WorkerCrash, QueueStep, vars, avatarVars, storeVars
  <1>5. CASE \E m \in Messages : StartUpload(m) \/ UploadAvatar(m) \/ ClientGone(m)
    <2> PICK m \in Messages : StartUpload(m) \/ UploadAvatar(m) \/ ClientGone(m)
      BY <1>5
    <2> QED
      BY <1>1, <1>u, <1>s, Statements
  <1>6. CASE \E d \in Deletes : DeleteAvatar(d)
    BY <1>6, <1>2, <1>d, Statements
  <1>7. CASE \E w \in Workers : Handle(w)
    <2> PICK w \in Workers : Handle(w)
      BY <1>7
    <2>1. Message(w) \in Messages /\ User(w) \in Users
      BY <1>3, HandledMessage
    <2> QED
      BY <2>1, <1>3, <1>s, Statements
  <1> QED
    BY <1>4, <1>5, <1>6, <1>7 DEF Next

-----------------------------------------------------------------------------
\* The counters of faults never fall, only a fault cancels a worker's context, nothing
\* is unpublished, and a request does not go back.
LEMMA Onwards ==
    ASSUME TypeOK, TypeOK', [Next]_vars
    PROVE  /\ NoFault' => NoFault
           /\ stopping' \subseteq stopping \/ faults' > 0
           /\ faults > 0 => faults' > 0
           /\ published \subseteq published'
           /\ \A m \in Messages : upload[m] \notin Early => upload'[m] \notin Early
  <1>q. QueueTypeOK
    BY DEF TypeOK
  <1>1. faults' >= faults /\ (stopping' \subseteq stopping \/ faults' > 0)
    <2>1. ASSUME NEW w \in Workers,
                 \/ Consumer(w)
                 \/ \E failed \in BOOLEAN : HandlerReturns(w, failed)
                 \/ ConsumeReturns(w)
          PROVE  faults' >= faults /\ stopping' \subseteq stopping
      BY <2>1, <1>q
      DEF Consumer, Deliver, RejectMalformed, IsProcessed, SendToRetry, MarkProcessed,
          AckDelivery, HandlerReturns, ConsumeReturns, Answers, Fault, QueueTypeOK
    <2>2. CASE Environment
      BY <2>2, <1>q
      DEF Environment, PublisherLost, Expire, Shutdown, Crash, ConnectionLost, BrokerRestart,
          Fault, consumerVars, QueueTypeOK
    <2>3. CASE (\E m \in Messages : PublishAvatarProcess(m)) \/ PublisherRestart
      BY <2>3, <1>q DEF PublishAvatarProcess, PublisherRestart, consumerVars, QueueTypeOK
    <2>4. CASE UNCHANGED queueVars
      BY <2>4, <1>q DEF queueVars, consumerVars, QueueTypeOK
    <2> QED
      BY <2>1, <2>2, <2>3, <2>4, StepRefines DEF QueueNext
  <1>2. published \subseteq published'
    <2>1. ASSUME NEW w \in Workers,
                 \/ Consumer(w)
                 \/ \E failed \in BOOLEAN : HandlerReturns(w, failed)
                 \/ ConsumeReturns(w)
          PROVE  published' = published
      BY <2>1
      DEF Consumer, Deliver, RejectMalformed, IsProcessed, SendToRetry, MarkProcessed,
          AckDelivery, HandlerReturns, ConsumeReturns, historyVars
    <2>2. CASE Environment
      BY <2>2
      DEF Environment, PublisherLost, Expire, Shutdown, Crash, ConnectionLost, BrokerRestart,
          historyVars
    <2>3. CASE (\E m \in Messages : PublishAvatarProcess(m)) \/ PublisherRestart
      BY <2>3 DEF PublishAvatarProcess, PublisherRestart, historyVars
    <2>4. CASE UNCHANGED queueVars
      BY <2>4 DEF queueVars, historyVars
    <2> QED
      BY <2>1, <2>2, <2>3, <2>4, StepRefines DEF QueueNext
  <1>3. /\ callFaults' >= callFaults
        /\ \A m \in Messages : upload[m] \notin Early => upload'[m] \notin Early
    <2>1. ASSUME NEW m \in Messages, StartUpload(m) \/ UploadAvatar(m) \/ ClientGone(m)
          PROVE  callFaults' >= callFaults
      BY <2>1
      DEF StartUpload, UploadAvatar, StageUpload, SaveMetadata, Enqueue, Unstage, FailUpload,
          ClientGone, Returns, CallFault, TypeOK
    <2>2. ASSUME NEW m \in Messages, StartUpload(m) \/ UploadAvatar(m) \/ ClientGone(m)
          PROVE  \A n \in Messages : upload[n] \notin Early => upload'[n] \notin Early
      BY <2>2
      DEF StartUpload, UploadAvatar, StageUpload, SaveMetadata, Enqueue, Unstage, FailUpload,
          ClientGone, UploadGoto, Early, TypeOK
    <2>3. ASSUME NEW d \in Deletes, DeleteAvatar(d)
          PROVE  callFaults' >= callFaults /\ upload' = upload
      BY <2>3 DEF DeleteAvatar, ReadRow, DeleteObject, DeleteRow, Returns, CallFault, TypeOK,
                  uploadVars
    <2>4. CASE ApiRestart
      BY <2>4 DEF ApiRestart, CallFault, Answered, Early, TypeOK
    <2>5. ASSUME NEW w \in Workers, Handle(w)
          PROVE  callFaults' >= callFaults /\ upload' = upload
      <3>1. \E kind, o \in {"db", "s3", "ok", "err", "lost"} : ServiceCall(w, kind, o)
        BY <2>5
        DEF Handle, SetProcessing, DownloadAndProcess, PutOriginal, PutThumb, SetReady, Cleanup,
            SetFailed, Outcomes
      <3>2. callFaults' >= callFaults
        BY <3>1 DEF ServiceCall, Returns, CallFault, TypeOK
      <3>3. upload' = upload
        BY <2>5
        DEF Handle, SetProcessing, DownloadAndProcess, PutOriginal, PutThumb, SetReady, Cleanup,
            SetFailed, uploadVars
      <3> QED
        BY <3>2, <3>3
    <2>6. ASSUME (\E w \in Workers : WorkerCrash(w)) \/ QueueStep \/ UNCHANGED vars
          PROVE  callFaults' = callFaults /\ upload' = upload
      BY <2>6 DEF WorkerCrash, QueueStep, vars, avatarVars, uploadVars
    <2>7. callFaults \in Nat
      BY DEF TypeOK
    <2>8. CASE \E m \in Messages : StartUpload(m) \/ UploadAvatar(m) \/ ClientGone(m)
      BY <2>1, <2>2, <2>8
    <2> QED
      BY <2>3, <2>4, <2>5, <2>6, <2>7, <2>8 DEF Next
  <1>4. {faults, faults', callFaults, callFaults'} \subseteq Nat
    BY DEF QueueTypeOK, TypeOK
  <1>5. (NoFault' => NoFault) /\ (faults > 0 => faults' > 0)
    BY <1>1, <1>3, <1>4 DEF NoFault
  <1> QED
    BY <1>1, <1>2, <1>3, <1>5

\* Without faults the calls of Handle succeed.
LEMMA CallSucceeds ==
    ASSUME TypeOK, StopInv, NEW w \in Workers, NEW kind, NEW o,
           ServiceCall(w, kind, o), NoFault, callFaults' = 0
    PROVE  o = "ok"
  BY DEF ServiceCall, Returns, CallFault, StopInv, NoFault, TypeOK

\* Where a worker that holds a delivery came from.
LEMMA WorkerSteps ==
    ASSUME TypeOK, SourceInv, [Next]_vars, NEW w \in Workers, pc'[w] # "receive"
    PROVE  \/ pc[w] = "receive" /\ pc'[w] = "decode" /\ step'[w] = "processing"
           \/ /\ pc[w] # "receive" /\ delivery'[w] = delivery[w]
              /\ \/ Handle(w)
                 \/ pc'[w] = pc[w] /\ step'[w] = step[w]
                 \/ /\ pc[w] \notin {"handle", "receive"} /\ step[w] = "processing"
                    /\ step'[w] = "processing" /\ pc'[w] \notin {"mark", "retry"}
  <1>q. QueueTypeOK /\ StepInv
    BY DEF TypeOK, SourceInv
  <1>1. CASE \/ \E m \in Messages : StartUpload(m) \/ UploadAvatar(m) \/ ClientGone(m)
             \/ \E d \in Deletes : DeleteAvatar(d)
             \/ ApiRestart
    <2>1. UNCHANGED <<pc, delivery, step>>
      <3>1. ASSUME NEW m \in Messages, StartUpload(m) \/ UploadAvatar(m) \/ ClientGone(m)
            PROVE  UNCHANGED <<pc, delivery, step>>
        BY <3>1
        DEF StartUpload, UploadAvatar, StageUpload, SaveMetadata, Enqueue, Unstage,
            FailUpload, ClientGone, PublishAvatarProcess, PublisherLost, queueVars,
            consumerVars, serviceVars
      <3>2. ASSUME (\E d \in Deletes : DeleteAvatar(d)) \/ ApiRestart
            PROVE  UNCHANGED <<pc, delivery, step>>
        BY <3>2
        DEF DeleteAvatar, ReadRow, DeleteObject, DeleteRow, ApiRestart, PublisherRestart,
            queueVars, consumerVars, serviceVars
      <3> QED
        BY <1>1, <3>1, <3>2
    <2> QED
      BY <2>1
  <1>2. ASSUME NEW x \in Workers, x # w, Handle(x)
        PROVE  UNCHANGED <<pc[w], delivery[w], step[w]>>
    <2>1. UNCHANGED <<pc, delivery>> \/ \E failed \in BOOLEAN : HandlerReturns(x, failed)
      BY <1>2, HandleSteps DEF queueVars, consumerVars
    <2>2. pc'[w] = pc[w] /\ delivery'[w] = delivery[w]
      BY <1>2, <2>1, <1>q DEF HandlerReturns, Goto, QueueTypeOK
    <2>3. step'[w] = step[w]
      BY <1>2
      DEF Handle, SetProcessing, DownloadAndProcess, PutOriginal, PutThumb, SetReady, Cleanup,
          SetFailed, Advance, HandleReturns, TypeOK
    <2> QED
      BY <2>2, <2>3
  <1>3. ASSUME Handle(w) PROVE pc[w] = "handle" /\ delivery'[w] = delivery[w]
    <2>1. pc[w] = "handle"
      BY <1>3 DEF Handle, SetProcessing, DownloadAndProcess, PutOriginal, PutThumb, SetReady,
                  Cleanup, SetFailed, Handling
    <2>2. UNCHANGED delivery \/ \E failed \in BOOLEAN : HandlerReturns(w, failed)
      BY <1>3, HandleSteps DEF queueVars, consumerVars
    <2> QED
      BY <2>1, <2>2 DEF HandlerReturns, Goto
  <1>4. ASSUME NEW x \in Workers, WorkerCrash(x)
        PROVE  UNCHANGED <<pc[w], delivery[w], step[w]>>
    BY <1>4, <1>q DEF WorkerCrash, Crash, Return, QueueTypeOK, TypeOK
  <1>5. CASE QueueStep \/ UNCHANGED vars
    <2>s. step' = step
      BY <1>5 DEF QueueStep, vars, avatarVars, serviceVars
    <2>1. ASSUME NEW x \in Workers, Consumer(x) \/ ConsumeReturns(x)
          PROVE  \/ pc'[w] = pc[w] /\ delivery'[w] = delivery[w]
                 \/ pc[w] = "receive" /\ pc'[w] = "decode"
                 \/ /\ pc[w] \notin {"handle", "receive"} /\ delivery'[w] = delivery[w]
                    /\ pc'[w] \notin {"mark", "retry"}
      BY <2>1, <1>q
      DEF Consumer, Deliver, RejectMalformed, IsProcessed, SendToRetry, MarkProcessed,
          AckDelivery, ConsumeReturns, Return, Goto, QueueTypeOK
    <2>2. ASSUME \/ \E x \in Workers : Shutdown(x) \/ ConnectionLost(x)
                 \/ \E r \in RetryQueues : Expire(r)
                 \/ PublisherLost
                 \/ BrokerRestart
                 \/ UNCHANGED vars
          PROVE  UNCHANGED <<pc, delivery>>
      BY <2>2 DEF Shutdown, ConnectionLost, Expire, PublisherLost, BrokerRestart, vars,
                  queueVars, consumerVars
    <2> QED
      BY <1>5, <2>s, <2>1, <2>2, <1>q DEF QueueStep, StepInv
  <1> QED
    BY <1>1, <1>2, <1>3, <1>4, <1>5 DEF Next

-----------------------------------------------------------------------------
\* The message id of a row is that of an upload of its user which got as far as the row.
LEMMA OwnStep ==
    ASSUME TypeOK, TypeOK', QueueInv, OwnInv, [Next]_vars
    PROVE  OwnInv'
  <1> SUFFICES ASSUME NEW u \in Users, avatars'[u] # None
               PROVE  /\ UserOf[avatars'[u].messageID] = u
                      /\ upload'[avatars'[u].messageID] \notin Early
    BY DEF OwnInv
  <1>1. ASSUME avatars[u] # None, avatars'[u].messageID = avatars[u].messageID
        PROVE  /\ UserOf[avatars'[u].messageID] = u
               /\ upload'[avatars'[u].messageID] \notin Early
    <2>1. avatars[u].messageID \in Messages
      BY <1>1 DEF TypeOK, Row
    <2> QED
      BY <1>1, <2>1, Onwards DEF OwnInv
  <1>2. ASSUME NEW m \in Messages, SaveMetadata(m) PROVE upload'[m] \notin Early
    BY <1>2 DEF SaveMetadata, UploadGoto, Early, TypeOK
  <1> QED
    BY <1>1, <1>2, RowSteps DEF Written

\* What has not been published has not been touched.
LEMMA Untouched ==
    ASSUME KnownInv, BudgetInv, NEW m \in Messages, m \notin published
    PROVE  /\ m \notin processed
           /\ failures[m] = 0
           /\ \A w \in Workers : pc[w] # "receive" => Message(w) # m
  BY DEF KnownInv, BudgetInv, Message

\* Which tasks are recorded as processed, and which attempts fail.
LEMMA Outcome ==
    ASSUME TypeOK, [Next]_vars, NEW m \in Messages
    PROVE  /\ m \in processed' \ processed =>
                \E w \in Workers : pc[w] = "mark" /\ Message(w) = m
           /\ failures'[m] # failures[m] =>
                \E w \in Workers : Handle(w) /\ Message(w) = m /\ pc'[w] = "retry"
  <1>q. QueueTypeOK
    BY DEF TypeOK
  <1>1. ASSUME NEW w \in Workers, Handle(w)
        PROVE  /\ processed' = processed
               /\ failures'[m] # failures[m] => Message(w) = m /\ pc'[w] = "retry"
    <2>1. UNCHANGED <<processed, failures>> \/ \E failed \in BOOLEAN : HandlerReturns(w, failed)
      BY <1>1, HandleSteps DEF queueVars, historyVars
    <2> QED
      BY <2>1, <1>q DEF HandlerReturns, Goto, Message, QueueTypeOK
  <1>2. ASSUME NEW d \in Deletes, DeleteAvatar(d) PROVE UNCHANGED <<processed, failures>>
    BY <1>2 DEF DeleteAvatar, ReadRow, DeleteObject, DeleteRow, queueVars, historyVars
  <1>3. ASSUME NEW n \in Messages, StartUpload(n) \/ UploadAvatar(n) \/ ClientGone(n)
        PROVE  UNCHANGED <<processed, failures>>
    BY <1>3
    DEF StartUpload, UploadAvatar, StageUpload, SaveMetadata, Enqueue, Unstage, FailUpload,
        ClientGone, PublishAvatarProcess, PublisherLost, queueVars, historyVars
  <1>4. ASSUME ApiRestart \/ UNCHANGED vars PROVE UNCHANGED <<processed, failures>>
    BY <1>4 DEF ApiRestart, PublisherRestart, vars, queueVars, historyVars
  <1>5. ASSUME NEW w \in Workers, WorkerCrash(w) PROVE UNCHANGED <<processed, failures>>
    BY <1>5 DEF WorkerCrash, Crash, historyVars
  <1>6. CASE QueueStep
    <2>1. ASSUME NEW w \in Workers, Consumer(w) \/ ConsumeReturns(w)
          PROVE  /\ UNCHANGED failures
                 /\ m \in processed' \ processed => pc[w] = "mark" /\ Message(w) = m
      BY <2>1
      DEF Consumer, Deliver, RejectMalformed, IsProcessed, SendToRetry, MarkProcessed,
          AckDelivery, ConsumeReturns, historyVars, Message
    <2>2. ASSUME \/ \E w \in Workers : Shutdown(w) \/ ConnectionLost(w)
                 \/ \E r \in RetryQueues : Expire(r)
                 \/ PublisherLost
                 \/ BrokerRestart
          PROVE  UNCHANGED <<processed, failures>>
      BY <2>2 DEF Shutdown, ConnectionLost, Expire, PublisherLost, BrokerRestart, historyVars
    <2> QED
      BY <1>6, <2>1, <2>2 DEF QueueStep
  <1> QED
    BY <1>1, <1>2, <1>3, <1>4, <1>5, <1>6 DEF Next

\* Only Handle takes an upload off the history of failed writes, and only its own.
LEMMA WrittenSteps ==
    ASSUME TypeOK, [Next]_vars, NEW m \in unwritten, m \notin unwritten'
    PROVE  \E w \in Workers :
             /\ SetReady(w) \/ SetFailed(w)
             /\ Message(w) = m
             /\ \/ avatars' = UpdateAvatarStatus(avatars, User(w), "failed")
                \/ avatars' = MarkAvatarReady(avatars, User(w), m)
  <1>1. ASSUME NEW n \in Messages, StartUpload(n) \/ UploadAvatar(n) \/ ClientGone(n)
        PROVE  FALSE
    BY <1>1 DEF StartUpload, UploadAvatar, StageUpload, SaveMetadata, Enqueue, Unstage,
                FailUpload, ClientGone, StatusLeft, serviceVars
  <1>2. ASSUME \/ \E d \in Deletes : DeleteAvatar(d)
               \/ ApiRestart
               \/ \E w \in Workers : WorkerCrash(w)
               \/ QueueStep
               \/ UNCHANGED vars
        PROVE  FALSE
    BY <1>2 DEF DeleteAvatar, ReadRow, DeleteObject, DeleteRow, ApiRestart, WorkerCrash,
                QueueStep, vars, avatarVars, serviceVars
  <1>3. ASSUME NEW w \in Workers, Handle(w)
        PROVE  /\ SetReady(w) \/ SetFailed(w)
               /\ Message(w) = m
               /\ \/ avatars' = UpdateAvatarStatus(avatars, User(w), "failed")
                  \/ avatars' = MarkAvatarReady(avatars, User(w), m)
    BY <1>3 DEF Handle, SetProcessing, DownloadAndProcess, PutOriginal, PutThumb, SetReady,
                Cleanup, SetFailed, StatusLeft, StatusWritten, If
  <1> QED
    BY <1>1, <1>2, <1>3 DEF Next

\* A row stays pending only while nobody has got past SetProcessing for its upload, and
\* an attempt at it that failed has left the status alone.
LEMMA FreshStep ==
    ASSUME TypeOK, TypeOK', QueueInv, KnownInv, BudgetInv, SourceInv, RowInv, [Next]_vars
    PROVE  FreshInv'
  <1> SUFFICES ASSUME NEW u \in Users, NEW m \in Messages, WaitsFor(u, m)'
               PROVE  /\ m \notin processed'
                      /\ failures'[m] > 0 => m \in unwritten'
                      /\ \A w \in Workers : pc'[w] # "receive" /\ Message(w)' = m =>
                           pc'[w] # "mark" /\ step'[w] = "processing"
    BY DEF FreshInv
  <1>0. avatars'[u] # None /\ avatars'[u].messageID = m /\ avatars'[u].status = "pending"
    BY DEF WaitsFor
  <1>1. CASE SaveMetadata(m)
    <2>1. m \notin published /\ UNCHANGED queueVars /\ step' = step
      BY <1>1 DEF SaveMetadata, SourceInv, UploadInv, serviceVars
    <2>2. \A w \in Workers : pc[w] # "receive" => Message(w) # m
      BY <2>1, Untouched
    <2>3. \A w \in Workers : Message(w)' = Message(w)
      BY <2>1 DEF queueVars, consumerVars, Message
    <2> QED
      BY <2>1, <2>2, <2>3, Untouched DEF queueVars, consumerVars, historyVars
  <1>2. CASE ~SaveMetadata(m)
    <2>1. avatars'[u] = avatars[u] /\ WaitsFor(u, m)
      BY <1>0, <1>2, RowSteps DEF Written, WaitsFor
    <2>2. UserOf[m] = u
      BY <2>1 DEF RowInv, OwnInv, WaitsFor
    <2>3. /\ m \notin processed
          /\ failures[m] > 0 => m \in unwritten
          /\ \A w \in Workers : pc[w] # "receive" /\ Message(w) = m =>
               pc[w] # "mark" /\ step[w] = "processing"
      BY <2>1 DEF RowInv, FreshInv
    <2>4. ASSUME NEW w \in Workers, Handle(w), Message(w) = m
          PROVE  /\ pc'[w] = "retry" /\ step'[w] = "processing"
                 /\ m \in unwritten'
      <3>1. pc[w] = "handle"
        BY <2>4 DEF Handle, SetProcessing, DownloadAndProcess, PutOriginal, PutThumb, SetReady,
                    Cleanup, SetFailed, Handling
      <3>2. SetProcessing(w)
        BY <2>3, <2>4, <3>1
        DEF Handle, DownloadAndProcess, PutOriginal, PutThumb, SetReady, Cleanup, SetFailed,
            Handling
      <3>3. PICK o \in Outcomes :
              /\ ServiceCall(w, "db", o)
              /\ avatars' = If(o, UpdateAvatarStatus(avatars, User(w), "processing"), avatars)
              /\ IF o = "ok"
                   THEN Advance(w, "download") /\ UNCHANGED unwritten
                   ELSE HandleReturns(w, TRUE) /\ StatusLeft(Message(w))
        BY <3>2 DEF SetProcessing
      <3>4. User(w) = u
        BY <2>2, <2>4 DEF User
      <3>5. o = "err"
        <4> SUFFICES ASSUME o # "err" PROVE FALSE
          OBVIOUS
        <4>1. avatars' = UpdateAvatarStatus(avatars, User(w), "processing")
          BY <3>3 DEF If, Effective
        <4> QED
          BY <4>1, <3>4, <2>1, <1>0 DEF UpdateAvatarStatus, WaitsFor, TypeOK
      <3> QED
        BY <2>4, <3>1, <3>3, <3>5
        DEF HandleReturns, HandlerReturns, Goto, StatusLeft, TypeOK, QueueTypeOK
    <2>5. m \notin processed'
      BY <2>3, Outcome
    <2>6. failures'[m] > 0 => m \in unwritten'
      <3>1. CASE \E w \in Workers : Handle(w) /\ Message(w) = m
        BY <2>4, <3>1
      <3>2. CASE ~\E w \in Workers : Handle(w) /\ Message(w) = m
        <4>1. failures'[m] = failures[m]
          BY <3>2, Outcome
        <4>2. m \in unwritten => m \in unwritten'
          BY <3>2, WrittenSteps DEF Handle
        <4> QED
          BY <2>3, <4>1, <4>2
      <3> QED
        BY <3>1, <3>2
    <2>7. ASSUME NEW w \in Workers, pc'[w] # "receive", Message(w)' = m
          PROVE  pc'[w] # "mark" /\ step'[w] = "processing"
      <3>1. Message(w)' = Message(w) \/ delivery'[w] # delivery[w]
        BY DEF Message
      <3> QED
        BY <3>1, <2>3, <2>4, <2>7, WorkerSteps
    <2> QED
      BY <2>5, <2>6, <2>7
  <1> QED
    BY <1>1, <1>2

\* Without faults, Handle ends in one of its own steps only.
LEMMA HandleGoesOn ==
    ASSUME TypeOK, TypeOK', [Next]_vars, NoFault', NEW w \in Workers, pc[w] = "handle",
           ~Handle(w)
    PROVE  pc'[w] = "handle"
  <1>q. QueueTypeOK
    BY DEF TypeOK
  <1>1. ~\E x \in Workers : WorkerCrash(x)
    BY <1>q DEF WorkerCrash, Crash, Fault, NoFault, QueueTypeOK
  <1>2. ASSUME NEW x \in Workers, x # w, Handle(x) PROVE pc'[w] = pc[w]
    <2>1. UNCHANGED pc \/ \E failed \in BOOLEAN : HandlerReturns(x, failed)
      BY <1>2, HandleSteps DEF queueVars, consumerVars
    <2> QED
      BY <1>2, <2>1, <1>q DEF HandlerReturns, Goto, QueueTypeOK
  <1>3. ASSUME NEW m \in Messages, StartUpload(m) \/ UploadAvatar(m) \/ ClientGone(m)
        PROVE  UNCHANGED pc
    BY <1>3
    DEF StartUpload, UploadAvatar, StageUpload, SaveMetadata, Enqueue, Unstage, FailUpload,
        ClientGone, PublishAvatarProcess, PublisherLost, queueVars, consumerVars
  <1>4. ASSUME (\E d \in Deletes : DeleteAvatar(d)) \/ ApiRestart \/ UNCHANGED vars
        PROVE  UNCHANGED pc
    BY <1>4
    DEF DeleteAvatar, ReadRow, DeleteObject, DeleteRow, ApiRestart, PublisherRestart, vars,
        queueVars, consumerVars
  <1>5. CASE QueueStep
    BY <1>5, <1>q, QueueSteps
  <1> QED
    BY <1>1, <1>2, <1>3, <1>4, <1>5 DEF Next

\* Without faults, a row is processing only while some worker is at work on it, however
\* many workers there are: each sets the row to processing first and to something else last.
LEMMA BusyStep ==
    ASSUME TypeOK, TypeOK', QueueInv, SourceInv, RowInv, [Next]_vars
    PROVE  BusyInv'
  <1> SUFFICES ASSUME NoFault', NEW u \in Users, InWork(u)'
               PROVE  \E w \in Workers : AtWork(w)' /\ User(w)' = u
    BY DEF BusyInv
  <1>0. avatars'[u] # None /\ avatars'[u].status = "processing" /\ callFaults' = 0
    BY DEF InWork, NoFault
  <1>1. NoFault
    BY Onwards
  <1>2. ASSUME NEW w \in Workers, pc[w] = "handle" PROVE User(w)' = User(w) \/ pc'[w] = "receive"
    BY <1>2, WorkerSteps DEF User, Message
  <1>3. CASE avatars'[u] = avatars[u]
    <2>1. PICK w \in Workers : AtWork(w) /\ User(w) = u
      BY <1>0, <1>1, <1>3 DEF RowInv, BusyInv, InWork
    <2>2. CASE ~Handle(w)
      <3>1. pc'[w] = "handle" /\ step'[w] = step[w]
        BY <2>1, <2>2, HandleGoesOn, WorkerSteps DEF AtWork
      <3> QED
        BY <2>1, <3>1, <1>2 DEF AtWork
    <2>3. CASE DownloadAndProcess(w) \/ PutOriginal(w) \/ PutThumb(w)
      <3>1. /\ UNCHANGED <<pc, delivery>>
            /\ step'[w] \in {"original", "thumb", "ready", "failed"}
        BY <2>3 DEF DownloadAndProcess, PutOriginal, PutThumb, Advance, queueVars, consumerVars,
                    TypeOK
      <3> QED
        BY <2>1, <3>1 DEF AtWork, User, Message
    <2>4. CASE SetReady(w)
      <3>1. PICK o \in Outcomes :
              /\ ServiceCall(w, "db", o)
              /\ avatars' = If(o, MarkAvatarReady(avatars, User(w), Message(w)), avatars)
        BY <2>4 DEF SetReady
      <3>2. avatars' = MarkAvatarReady(avatars, User(w), Message(w))
        BY <1>0, <1>1, <3>1, CallSucceeds DEF RowInv, If, Effective
      <3> QED
        BY <3>2, <2>1, <1>0, <1>3 DEF MarkAvatarReady, TypeOK, Row
    <2>5. CASE SetFailed(w)
      <3>1. PICK o \in Outcomes :
              /\ ServiceCall(w, "db", o)
              /\ avatars' = If(o, UpdateAvatarStatus(avatars, User(w), "failed"), avatars)
        BY <2>5 DEF SetFailed
      <3>2. avatars' = UpdateAvatarStatus(avatars, User(w), "failed")
        BY <1>0, <1>1, <3>1, CallSucceeds DEF RowInv, If, Effective
      <3> QED
        BY <3>2, <2>1, <1>0, <1>3 DEF UpdateAvatarStatus, TypeOK, Row
    <2>6. ~SetProcessing(w) /\ ~Cleanup(w)
      BY <2>1 DEF SetProcessing, Cleanup, Handling, AtWork
    <2> QED
      BY <2>2, <2>3, <2>4, <2>5, <2>6 DEF Handle
  <1>4. ASSUME NEW w \in Workers, u = User(w), SetProcessing(w)
        PROVE  AtWork(w)' /\ User(w)' = u
    <2>1. PICK o \in Outcomes :
            /\ ServiceCall(w, "db", o)
            /\ IF o = "ok" THEN Advance(w, "download") ELSE HandleReturns(w, TRUE)
      BY <1>4 DEF SetProcessing
    <2>2. o = "ok"
      BY <1>0, <1>1, <2>1, CallSucceeds DEF RowInv
    <2> QED
      BY <1>4, <2>1, <2>2
      DEF SetProcessing, Handling, Advance, AtWork, User, Message, queueVars, consumerVars, TypeOK
  <1> QED
    BY <1>0, <1>3, <1>4, RowSteps DEF Written

\* The last live copy of a task goes when its delivery is acknowledged: after its copy for
\* the dead-letter queue was published, or because it is recorded as processed.
LEMMA DeadEnds ==
    ASSUME QueueInv, LedgerInv, Malformed = {}, [QueueNext]_queueVars, NEW n \in Messages,
           OnlyDead(n)', ~OnlyDead(n)
    PROVE  \E w \in Workers :
             /\ pc[w] # "receive" /\ pc'[w] = "receive"
             /\ Message(w) = n
             /\ pc[w] = "ack" \/ n \in processed
  <1>q. QueueTypeOK
    BY DEF QueueInv
  <1>1. ASSUME NEW w \in Workers, IsProcessed(w) \/ AckDelivery(w)
        PROVE  /\ pc[w] # "receive" /\ pc'[w] = "receive"
               /\ Message(w) = n
               /\ pc[w] = "ack" \/ n \in processed
    <2>1. copies' # copies
      BY DEF OnlyDead
    <2>2. /\ copies' = copies \ {delivery[w]}
          /\ pc'[w] = "receive"
          /\ \/ pc[w] = "ack"
             \/ pc[w] = "decode" /\ Message(w) \in processed
      BY <1>1, <1>q, <2>1
      DEF IsProcessed, AckDelivery, Ack, NackRequeue, Return, Message, QueueTypeOK
    <2>3. Message(w) = n
      BY <2>2 DEF OnlyDead, Message
    <2> QED
      BY <2>2, <2>3
  <1>2. ASSUME NEW w \in Workers, SendToRetry(w) PROVE FALSE
    <2>1. copies' # copies
      BY DEF OnlyDead
    <2>2. /\ w \in open /\ pc[w] = "retry"
          /\ copies' = copies \union {RetryCopy(delivery[w].id, RetryCount(delivery[w]) + 1)}
      BY <1>2, <2>1 DEF SendToRetry, NackRequeue
    <2>3. delivery[w] \in copies /\ delivery[w].queue = QueueProcessing
      BY <2>2 DEF LedgerInv, OpenInv, QueueInv, HoldInv
    <2>4. RetryCopy(delivery[w].id, RetryCount(delivery[w]) + 1).id = delivery[w].id
      BY DEF RetryCopy, CopyAt
    <2> QED
      BY <2>2, <2>3, <2>4, QueueNames DEF OnlyDead
  <1>3. ASSUME NEW w \in Workers,
               \/ Deliver(w) \/ MarkProcessed(w) \/ RejectMalformed(w) \/ ConsumeReturns(w)
               \/ \E failed \in BOOLEAN : HandlerReturns(w, failed)
        PROVE  FALSE
    <2>1. copies' = copies
      BY <1>3
      DEF Deliver, MarkProcessed, RejectMalformed, ConsumeReturns, HandlerReturns, NackRequeue,
          brokerVars
    <2> QED
      BY <2>1 DEF OnlyDead
  <1>4. ASSUME NEW r \in RetryQueues, Expire(r) PROVE FALSE
    <2>1. PICK c \in copies :
            IsHead(c, r) /\ copies' = (copies \ {c}) \union {DeadLettered(c)}
      BY <1>4 DEF Expire
    <2>2. c.queue = r /\ r # QueueDLQ
      BY <2>1, QueueNames DEF IsHead, Ready
    <2>3. DeadLettered(c).id = c.id /\ DeadLettered(c).queue # QueueDLQ
      BY <2>2, QueueNames, ExpiredFacts, <2>1, <1>4 DEF IsHead, Ready
    <2> QED
      BY <2>1, <2>2, <2>3 DEF OnlyDead
  <1>5. ASSUME NEW m \in Messages, PublishAvatarProcess(m) PROVE FALSE
    <2>1. /\ copies' = copies \union
               {CopyAt(Route(ExchangeDirect, RoutingUpload), m, 0, "persistent")}
          /\ CopyAt(Route(ExchangeDirect, RoutingUpload), m, 0, "persistent").queue # QueueDLQ
      BY <1>5
      DEF PublishAvatarProcess, CopyAt, Route, ExchangeDirect, ExchangeDefault, ExchangeDLX,
          RoutingUpload, QueueProcessing, QueueDLQ
    <2> QED
      BY <2>1 DEF OnlyDead
  <1>6. ASSUME BrokerRestart PROVE FALSE
    <2>1. \A c \in copies' : c \in copies /\ c.mode = "persistent"
      BY <1>6 DEF BrokerRestart
    <2>2. PICK c \in copies' : c.id = n /\ c.queue = QueueDLQ
      BY DEF OnlyDead
    <2> QED
      BY <2>1, <2>2 DEF LedgerInv, DeadInv
  <1>7. ASSUME \/ PublisherLost \/ PublisherRestart \/ UNCHANGED queueVars
               \/ \E w \in Workers : Shutdown(w) \/ Crash(w) \/ ConnectionLost(w)
        PROVE  FALSE
    <2>1. copies' = copies
      BY <1>7
      DEF PublisherLost, PublisherRestart, Shutdown, Crash, ConnectionLost, queueVars, brokerVars
    <2> QED
      BY <2>1 DEF OnlyDead
  <1> QED
    BY <1>1, <1>2, <1>3, <1>4, <1>5, <1>6, <1>7 DEF QueueNext, Consumer, Environment

\* A worker that takes a delivery holds a live copy.
LEMMA LiveDelivery ==
    ASSUME QueueInv', NEW w \in Workers, w \in unacked'
    PROVE  ~OnlyDead(Message(w))'
  BY QueueNames DEF QueueInv, HoldInv, OnlyDead, Message

\* The queue's steps of one worker, as far as the argument needs them.
LEMMA ConsumerSteps ==
    ASSUME QueueTypeOK, [QueueNext]_queueVars, NEW w \in Workers
    PROVE  /\ processed \subseteq processed'
           /\ pc[w] = "receive" /\ pc'[w] # "receive" => w \in unacked'
           /\ pc[w] # "receive" /\ pc'[w] = "handle" => pc[w] \in {"decode", "handle"}
           /\ pc[w] # "receive" /\ pc'[w] = "decode" => pc[w] = "decode"
           /\ pc'[w] = "retry" => pc[w] \in {"handle", "retry"}
           /\ pc'[w] = "ack" =>
                \/ pc[w] \in {"retry", "ack"}
                \/ pc[w] = "mark" /\ delivery[w].id \in processed'
  <1>1. ASSUME NEW x \in Workers,
               \/ Consumer(x)
               \/ \E failed \in BOOLEAN : HandlerReturns(x, failed)
               \/ ConsumeReturns(x)
        PROVE  /\ processed \subseteq processed'
               /\ pc[w] = "receive" /\ pc'[w] # "receive" => w \in unacked'
               /\ pc[w] # "receive" /\ pc'[w] = "handle" => pc[w] \in {"decode", "handle"}
               /\ pc[w] # "receive" /\ pc'[w] = "decode" => pc[w] = "decode"
               /\ pc'[w] = "retry" => pc[w] \in {"handle", "retry"}
               /\ pc'[w] = "ack" =>
                    \/ pc[w] \in {"retry", "ack"}
                    \/ pc[w] = "mark" /\ delivery[w].id \in processed'
    BY <1>1
    DEF Consumer, Deliver, RejectMalformed, IsProcessed, SendToRetry, MarkProcessed, AckDelivery,
        HandlerReturns, ConsumeReturns, Return, Goto, Effective, QueueTypeOK
  <1>2. ASSUME \/ \E m \in Messages : PublishAvatarProcess(m)
               \/ PublisherRestart
               \/ Environment
               \/ UNCHANGED queueVars
        PROVE  processed' = processed /\ (pc'[w] = pc[w] \/ pc'[w] = "receive")
    BY <1>2
    DEF PublishAvatarProcess, PublisherRestart, Environment, PublisherLost, Expire, Shutdown,
        Crash, ConnectionLost, BrokerRestart, Return, consumerVars, queueVars, QueueTypeOK
  <1> QED
    BY <1>1, <1>2 DEF QueueNext

\* What Handle leaves when it returns an error: a status, or an upload on the history.
LEMMA FailingReturn ==
    ASSUME TypeOK, QueueInv, NEW w \in Workers, Handle(w), pc'[w] = "retry", InWork(User(w))'
    PROVE  Message(w) \in unwritten'
  <1>1. pc[w] = "handle"
    BY DEF Handle, SetProcessing, DownloadAndProcess, PutOriginal, PutThumb, SetReady, Cleanup,
           SetFailed, Handling
  <1>2. User(w) \in Users
    BY <1>1, HandledMessage
  <1>3. CASE SetProcessing(w)
    BY <1>1, <1>3 DEF SetProcessing, Advance, queueVars, consumerVars, StatusLeft
  <1>4. CASE DownloadAndProcess(w) \/ PutOriginal(w) \/ PutThumb(w)
    BY <1>1, <1>4 DEF DownloadAndProcess, PutOriginal, PutThumb, Advance, queueVars, consumerVars
  <1>5. CASE SetReady(w)
    <2>1. PICK o \in Outcomes :
            /\ avatars' = If(o, MarkAvatarReady(avatars, User(w), Message(w)), avatars)
            /\ IF Effective(o) THEN StatusWritten(Message(w)) ELSE StatusLeft(Message(w))
      BY <1>5 DEF SetReady
    <2>2. avatars' # MarkAvatarReady(avatars, User(w), Message(w))
      <3> SUFFICES ASSUME avatars' = MarkAvatarReady(avatars, User(w), Message(w)) PROVE FALSE
        OBVIOUS
      <3>1. avatars'[User(w)] # None /\ avatars'[User(w)].status = "processing"
        <4>1. User(w)' = User(w)
          BY <1>1, <1>5, HandleSteps DEF User, Message, HandlerReturns, Goto, queueVars, consumerVars
        <4> QED
          BY <4>1 DEF InWork
      <3> QED
        BY <1>2, <3>1 DEF MarkAvatarReady, TypeOK, Row
    <2> QED
      BY <2>1, <2>2 DEF If, StatusLeft
  <1>6. CASE Cleanup(w)
    BY <1>1, <1>6 DEF Cleanup, HandleReturns, HandlerReturns, Goto, TypeOK, QueueTypeOK
  <1>7. CASE SetFailed(w)
    <2>1. PICK o \in Outcomes :
            /\ avatars' = If(o, UpdateAvatarStatus(avatars, User(w), "failed"), avatars)
            /\ IF Effective(o) THEN StatusWritten(Message(w)) ELSE StatusLeft(Message(w))
      BY <1>7 DEF SetFailed
    <2>2. avatars' # UpdateAvatarStatus(avatars, User(w), "failed")
      <3> SUFFICES ASSUME avatars' = UpdateAvatarStatus(avatars, User(w), "failed") PROVE FALSE
        OBVIOUS
      <3>1. avatars'[User(w)] # None /\ avatars'[User(w)].status = "processing"
        <4>1. User(w)' = User(w)
          BY <1>1, <1>7, HandleSteps DEF User, Message, HandlerReturns, Goto, queueVars, consumerVars
        <4> QED
          BY <4>1 DEF InWork
      <3> QED
        BY <1>2, <3>1 DEF UpdateAvatarStatus, TypeOK, Row
    <2> QED
      BY <2>1, <2>2 DEF If, StatusLeft
  <1> QED
    BY <1>3, <1>4, <1>5, <1>6, <1>7 DEF Handle

\* With one worker, the task it handles has a live copy or none, and the task of an attempt
\* that failed is on the history while the row is still processing.
LEMMA DeadEndStep ==
    ASSUME TypeOK, TypeOK', QueueInv, QueueInv', LedgerInv, NoRework, SourceInv, DeadEndInv,
           [Next]_vars, Malformed = {}, \A w, x \in Workers : w = x
    PROVE  DeadEndInv'
  <1> SUFFICES ASSUME NEW w \in Workers
               PROVE  /\ pc'[w] \in {"decode", "handle"} => ~OnlyDead(Message(w))'
                      /\ pc'[w] \in {"retry", "ack"} /\ InWork(User(w))' =>
                           Message(w)' \in unwritten' \union processed'
    BY DEF DeadEndInv
  <1>q. QueueTypeOK
    BY DEF TypeOK
  <1>1. ASSUME pc'[w] \in {"decode", "handle"}, pc[w] = "receive" PROVE ~OnlyDead(Message(w))'
    <2>1. w \in unacked'
      BY <1>1, <1>q, ConsumerSteps, StepRefines
    <2> QED
      BY <2>1, LiveDelivery
  <1>2. ASSUME pc'[w] \in {"decode", "handle"}, pc[w] # "receive" PROVE ~OnlyDead(Message(w))'
    <2>1. delivery'[w] = delivery[w] /\ pc[w] \in {"decode", "handle"}
      BY <1>2, <1>q, WorkerSteps, ConsumerSteps, StepRefines
    <2>2. Message(w)' = Message(w) /\ Message(w) \in Messages
      BY <1>2, <2>1, CopyTypes DEF Message, QueueInv, HoldInv
    <2>3. ~OnlyDead(Message(w))
      BY <2>1 DEF DeadEndInv
    <2>4. ASSUME OnlyDead(Message(w))' PROVE FALSE
      <3>1. PICK x \in Workers : pc'[x] = "receive"
        BY <2>2, <2>3, <2>4, DeadEnds, StepRefines
      <3> QED
        BY <1>2, <3>1
    <2> QED
      BY <2>4
  <1>3. ASSUME pc'[w] \in {"retry", "ack"}, InWork(User(w))'
        PROVE  Message(w)' \in unwritten' \union processed'
    <2>1. pc[w] # "receive" /\ delivery'[w] = delivery[w]
      BY <1>3, WorkerSteps
    <2>2. Message(w)' = Message(w) /\ User(w)' = User(w)
      BY <2>1 DEF Message, User
    <2>3. CASE Handle(w)
      <3>1. pc'[w] = "retry"
        <4>1. pc[w] = "handle"
          BY <2>3
          DEF Handle, SetProcessing, DownloadAndProcess, PutOriginal, PutThumb, SetReady,
              Cleanup, SetFailed, Handling
        <4> QED
          BY <4>1, <1>3, <1>q, ConsumerSteps, StepRefines
      <3> QED
        BY <1>3, <2>2, <2>3, <3>1, FailingReturn
    <2>4. CASE ~Handle(w) /\ pc[w] \in {"retry", "ack"}
      <3>1. ~Handle(w) /\ \A x \in Workers : ~Handle(x)
        BY <2>4
      <3>2. InWork(User(w))
        <4>1. User(w) \in Users
          BY <2>1, CopyTypes, AvatarsAssumption DEF User, Message, QueueInv, HoldInv
        <4> QED
          BY <1>3, <2>2, <3>1, <4>1, RowSteps
          DEF InWork, Written, Handle
      <3>3. Message(w) \in unwritten \union processed
        BY <2>4, <3>2 DEF DeadEndInv
      <3>4. Message(w) \in unwritten => Message(w) \in unwritten'
        BY <3>1, WrittenSteps DEF Handle
      <3> QED
        BY <2>2, <3>3, <3>4, <1>q, ConsumerSteps, StepRefines
    <2>5. CASE ~Handle(w) /\ pc[w] \notin {"retry", "ack"}
      BY <1>3, <2>1, <2>2, <2>5, <1>q, WorkerSteps, ConsumerSteps, StepRefines
      DEF Message
    <2> QED
      BY <2>3, <2>4, <2>5
  <1> QED
    BY <1>1, <1>2, <1>3

\* With one worker, a processing row has a task that is not recorded as processed: a live
\* one, a lost one, or one on the history.  The worker is not about to record it: SetReady
\* would have changed the row.
LEMMA UndoneStep ==
    ASSUME TypeOK, TypeOK', QueueInv, LedgerInv, NoRework, SourceInv, SourceInv', DeadEndInv,
           UndoneInv, [Next]_vars, Malformed = {}, \A w, x \in Workers : w = x
    PROVE  UndoneInv'
  <1> SUFFICES ASSUME NEW u \in Users, InWork(u)'
               PROVE  /\ \E n \in published' \ processed' :
                           UserOf[n] = u /\ (OnlyDead(n)' => n \in unwritten')
                      /\ \A w \in Workers : pc'[w] = "mark" \/ step'[w] = "cleanup" => User(w)' # u
    BY DEF UndoneInv
  <1>0. avatars'[u] # None /\ avatars'[u].status = "processing"
    BY DEF InWork
  <1>k. KnownInv
    BY DEF LedgerInv
  <1>1. CASE avatars'[u] = avatars[u]
    <2>1. InWork(u)
      BY <1>0, <1>1 DEF InWork
    <2>2. /\ \E n \in published \ processed :
               UserOf[n] = u /\ (OnlyDead(n) => n \in unwritten)
          /\ \A w \in Workers : pc[w] = "mark" \/ step[w] = "cleanup" => User(w) # u
      BY <2>1 DEF UndoneInv
    <2>3. PICK n \in published \ processed : UserOf[n] = u /\ (OnlyDead(n) => n \in unwritten)
      BY <2>2
    <2>n. n \in Messages
      BY DEF TypeOK, QueueTypeOK
    <2>4. n \in published' \ processed'
      BY <2>n, <2>2, <2>3, Onwards, Outcome DEF User
    <2>6. n \in unwritten => n \in unwritten'
      <3> SUFFICES ASSUME n \in unwritten, n \notin unwritten' PROVE FALSE
        OBVIOUS
      <3>1. PICK w \in Workers :
              /\ Message(w) = n
              /\ \/ avatars' = UpdateAvatarStatus(avatars, User(w), "failed")
                 \/ avatars' = MarkAvatarReady(avatars, User(w), n)
        BY WrittenSteps
      <3>2. User(w) = u
        BY <2>3, <3>1 DEF User
      <3>3. avatars' # UpdateAvatarStatus(avatars, User(w), "failed")
        BY <1>0, <3>2, Statements DEF Statuses
      <3>4. avatars' # MarkAvatarReady(avatars, User(w), n)
        BY <1>0, <2>n, <3>2, Statements
      <3> QED
        BY <3>1, <3>3, <3>4
    <2>7. ASSUME OnlyDead(n)', ~OnlyDead(n) PROVE n \in unwritten'
      <3>1. PICK w \in Workers : Message(w) = n /\ (pc[w] = "ack" \/ n \in processed)
        BY <2>n, <2>7, DeadEnds, StepRefines
      <3>2. pc[w] = "ack" /\ User(w) = u
        BY <2>3, <3>1 DEF User
      <3> QED
        BY <2>1, <2>3, <2>6, <3>1, <3>2 DEF DeadEndInv
    <2>5. ASSUME NEW w \in Workers, pc'[w] = "mark" \/ step'[w] = "cleanup"
          PROVE  User(w)' # u
      <3>1. pc'[w] # "receive"
        BY <2>5 DEF SourceInv, StepInv
      <3>2. CASE Handle(w)
        <4>1. User(w)' = User(w)
          BY <3>1, <3>2, WorkerSteps
          DEF User, Message, Handle, SetProcessing, DownloadAndProcess, PutOriginal, PutThumb,
              SetReady, Cleanup, SetFailed, Handling
        <4>2. pc[w] = "handle"
          BY <3>2
          DEF Handle, SetProcessing, DownloadAndProcess, PutOriginal, PutThumb,
              SetReady, Cleanup, SetFailed, Handling
        <4>3. CASE Cleanup(w)
          BY <4>1, <4>3, <2>2 DEF Cleanup, Handling
        <4>4. CASE SetReady(w)
          <5>1. PICK o \in Outcomes :
                  /\ avatars' = If(o, MarkAvatarReady(avatars, User(w), Message(w)), avatars)
                  /\ IF o = "ok" THEN Advance(w, "cleanup") ELSE HandleReturns(w, TRUE)
            BY <4>4 DEF SetReady
          <5>2. o = "ok"
            BY <5>1, <2>5 DEF HandleReturns, HandlerReturns, Goto, TypeOK, QueueTypeOK
          <5>3. avatars' = MarkAvatarReady(avatars, User(w), Message(w))
            BY <5>1, <5>2 DEF If, Effective
          <5> QED
            BY <5>3, <4>1, <1>0, <1>1 DEF MarkAvatarReady, TypeOK, Row
        <4>5. CASE SetProcessing(w) \/ SetFailed(w)
          BY <4>5, <2>5, <4>2
          DEF SetProcessing, SetFailed, HandleReturns, HandlerReturns, Goto, Advance, queueVars,
              consumerVars, TypeOK, QueueTypeOK
        <4>6. CASE DownloadAndProcess(w) \/ PutOriginal(w) \/ PutThumb(w)
          BY <4>6, <2>5, <4>2
          DEF DownloadAndProcess, PutOriginal, PutThumb, Advance, queueVars, consumerVars, TypeOK
        <4> QED
          BY <3>2, <4>3, <4>4, <4>5, <4>6 DEF Handle
      <3>3. CASE ~Handle(w)
        BY <3>1, <3>3, <2>2, <2>5, WorkerSteps DEF User, Message
      <3> QED
        BY <3>2, <3>3
    <2> QED
      BY <2>3, <2>4, <2>5, <2>6, <2>7
  <1>2. ASSUME NEW w \in Workers, u = User(w), SetProcessing(w)
        PROVE  /\ \E n \in published' \ processed' :
                    UserOf[n] = u /\ (OnlyDead(n)' => n \in unwritten')
               /\ \A x \in Workers : pc'[x] = "mark" \/ step'[x] = "cleanup" => User(x)' # u
    <2>1. pc[w] = "handle" /\ Workers = {w}
      BY <1>2 DEF SetProcessing, Handling
    <2>2. Message(w) \in published
      BY <1>k, <2>1 DEF KnownInv, Message
    <2>3. Message(w) \notin processed
      <3>1. Cardinality(Workers) = 1
        BY <2>1, FS_Singleton
      <3> QED
        BY <2>1, <3>1 DEF NoRework, Message
    <2>4. Message(w) \in published' \ processed'
      BY <2>1, <2>2, <2>3, HandledMessage, Onwards, Outcome
    <2>5. pc'[w] # "mark" /\ step'[w] # "cleanup"
      BY <1>2, <2>1
      DEF SetProcessing, HandleReturns, HandlerReturns, Goto, Advance, queueVars, consumerVars,
          TypeOK, QueueTypeOK
    <2>6. ~OnlyDead(Message(w)) /\ copies' = copies
      <3>1. copies' = copies
        BY <1>2
        DEF SetProcessing, Advance, HandleReturns, HandlerReturns, queueVars, brokerVars
      <3> QED
        BY <2>1, <3>1 DEF DeadEndInv
    <2>7. ~OnlyDead(Message(w))'
      <3>1. Message(w)' = Message(w)
        BY <1>2
        DEF SetProcessing, Advance, HandleReturns, HandlerReturns, Goto, Message, queueVars,
            consumerVars
      <3> QED
        BY <2>6, <3>1 DEF OnlyDead
    <2>8. ASSUME OnlyDead(Message(w)) PROVE FALSE
      BY <2>6, <2>8
    <2>9. \A n : n = Message(w) => (\A c \in copies' : c.id # n) \/ \E c \in copies' : c.id = n /\ c.queue # QueueDLQ
      BY <2>6 DEF OnlyDead
    <2>10. UserOf[Message(w)] = u
      BY <1>2 DEF User
    <2>11. ASSUME NEW n, n = Message(w) PROVE ~OnlyDead(n)'
      BY <2>9, <2>11 DEF OnlyDead
    <2> QED
      BY <2>1, <2>4, <2>5, <2>10, <2>11, <1>2 DEF User
  <1> QED
    BY <1>0, <1>1, <1>2, RowSteps DEF Written

-----------------------------------------------------------------------------
\* A quiet user's pending row is accounted for, for any number of workers: its upload was
\* cut off, refused, or lost on its way or by the broker, or it has used up its attempts.
LEMMA PendingAccounted ==
    ASSUME QueueInv, SourceInv, CleanInv, RowInv, TypeOK, Malformed = {},
           NEW u \in Users, avatars[u] # None, avatars[u].status = "pending", Quiet(u)
    PROVE  AccountedFor(u)
  <1> DEFINE m == avatars[u].messageID
  <1>1. m \in Messages /\ UserOf[m] = u /\ upload[m] \in Answered /\ WaitsFor(u, m)
    BY DEF TypeOK, Row, RowInv, OwnInv, Early, Quiet, WaitsFor
  <1> HIDE DEF m
  <1>2. CASE upload[m] # "202" \/ m \notin published
    BY <1>1, <1>2 DEF CleanInv, Answered, AccountedFor, TypeOK, m
  <1>3. CASE upload[m] = "202" /\ m \in published
    <2>1. m \notin processed /\ (failures[m] > 0 => m \in unwritten)
      BY <1>1 DEF RowInv, FreshInv
    <2>2. CASE \A c \in copies : c.id # m
      <3>1. restarts > 0
        BY <1>3, <2>1, <2>2 DEF QueueInv, LossOnlyByRestart
      <3> QED
        BY <1>1, <1>3, <2>1, <2>2, <3>1 DEF AccountedFor, m
    <2>3. CASE \E c \in copies : c.id = m
      <3> PICK c \in copies : c.id = m
        BY <2>3
      <3>1. UserOf[c.id] = u /\ c.queue = QueueDLQ
        BY <1>1 DEF Quiet
      <3>2. failures[m] >= 3
        BY <3>1 DEF QueueInv, EarnedInv, RetriesEarned
      <3>3. m \in unwritten
        BY <1>1, <2>1, <3>2 DEF TypeOK, QueueTypeOK
      <3> QED
        BY <1>1, <1>3, <2>1, <3>1, <3>3 DEF AccountedFor, m
    <2> QED
      BY <2>2, <2>3
  <1> QED
    BY <1>2, <1>3 DEF m

\* A quiet user's processing row is accounted for: with one worker, by the task it leaves;
\* without faults there is none.
LEMMA ProcessingAccounted ==
    ASSUME QueueInv, RowInv, TypeOK, NEW u \in Users, InWork(u), Quiet(u),
           NoFault \/ UndoneInv
    PROVE  AccountedFor(u)
  <1>1. ~NoFault
    BY DEF RowInv, BusyInv, AtWork, Quiet, User, Message
  <1>2. avatars[u].status # "pending"
    BY DEF InWork
  <1>3. PICK n \in published \ processed : UserOf[n] = u /\ (OnlyDead(n) => n \in unwritten)
    BY <1>1 DEF UndoneInv
  <1>4. CASE \A c \in copies : c.id # n
    <2>1. restarts > 0
      BY <1>3, <1>4 DEF QueueInv, LossOnlyByRestart
    <2> QED
      BY <1>2, <1>3, <1>4, <2>1 DEF AccountedFor
  <1>5. CASE \E c \in copies : c.id = n
    <2>1. \A c \in copies : c.id = n => c.queue = QueueDLQ
      BY <1>3 DEF Quiet
    <2>2. n \in unwritten
      BY <1>3, <1>5, <2>1 DEF OnlyDead
    <2> QED
      BY <1>2, <1>3, <1>5, <2>1, <2>2 DEF AccountedFor
  <1> QED
    BY <1>4, <1>5

\* The queue's facts that the argument uses, in the service.
LEMMA ServiceFacts ==
    Spec => [](TypeOK /\ QueueInv /\ LedgerInv /\ BudgetInv /\ NoRework /\ SourceInv /\ CleanInv)
  <1>1. Spec => []LedgerInv
    BY ImplementsQueue, LedgerInvariant, PTL
  <1>2. Spec => []BudgetInv
    BY ImplementsQueue, BudgetInvariant, PTL
  <1>3. Spec => []SourceInv
    BY SourceInit, SourceStep, TypeCorrect, QueueInvInService, PTL DEF Spec
  <1>4. Spec => []CleanInv
    BY CleanInit, CleanStep, TypeCorrect, QueueInvInService, PTL DEF Spec
  <1> QED
    BY <1>1, <1>2, <1>3, <1>4, TypeCorrect, QueueInvInService, UploadsProcessedOnce, PTL

\* Rows keep to the argument, for any number of workers.
LEMMA RowInvariant == Spec => []RowInv
  <1>1. /\ TypeOK /\ QueueInv /\ LedgerInv /\ BudgetInv /\ NoRework /\ SourceInv /\ CleanInv
        /\ TypeOK' /\ RowInv /\ [Next]_vars
        => RowInv'
    <2> SUFFICES ASSUME TypeOK, QueueInv, LedgerInv, BudgetInv, SourceInv, TypeOK', RowInv,
                        [Next]_vars
                 PROVE  RowInv'
      OBVIOUS
    <2>1. OwnInv /\ StopInv /\ KnownInv
      BY DEF RowInv, LedgerInv
    <2>2. StopInv'
      BY <2>1, Onwards DEF StopInv
    <2> QED
      BY <2>1, <2>2, OwnStep, FreshStep, BusyStep DEF RowInv
  <1> QED
    BY <1>1, RowInit, ServiceFacts, PTL DEF Spec

\* With one worker, no row is forgotten: whatever fails, a row that stays pending or
\* processing with nothing going on for its user is one of the cases AccountedFor lists:
\* an upload cut off, refused with its row left as it was, or not received, a task lost by
\* a broker restart, or a dead task whose last attempt could not write the status.
\* PublishAvatarProcess marshals its message, so none is malformed.
THEOREM OneWorkerForgetsNoRow ==
    ASSUME \A w, x \in Workers : w = x, Malformed = {}
    PROVE  Spec => []NoRowForgotten
  <1>1. ASSUME TypeOK, QueueInv, SourceInv, CleanInv, RowInv, UndoneInv PROVE NoRowForgotten
    BY <1>1, PendingAccounted, ProcessingAccounted DEF NoRowForgotten, Waiting, InWork
  <1>2. Spec => [](DeadEndInv /\ UndoneInv)
    <2>1. /\ TypeOK /\ QueueInv /\ LedgerInv /\ BudgetInv /\ NoRework /\ SourceInv /\ CleanInv
          /\ TypeOK' /\ QueueInv' /\ SourceInv' /\ DeadEndInv /\ UndoneInv /\ [Next]_vars
          => DeadEndInv' /\ UndoneInv'
      BY DeadEndStep, UndoneStep
    <2> QED
      BY <2>1, RowInit, ServiceFacts, PTL DEF Spec
  <1> QED
    BY <1>1, <1>2, RowInvariant, ServiceFacts, PTL

\* With any number of workers, no row is forgotten as long as no call has failed and no
\* worker has been stopped; the broker may restart and workers may overtake one another.
THEOREM WorkersForgetNoRow ==
    ASSUME Malformed = {}
    PROVE  Spec => [](faults = 0 /\ callFaults = 0 => NoRowForgotten)
  <1>1. ASSUME TypeOK, QueueInv, SourceInv, CleanInv, RowInv, faults = 0, callFaults = 0
        PROVE  NoRowForgotten
    BY <1>1, PendingAccounted, ProcessingAccounted DEF NoRowForgotten, Waiting, InWork, NoFault
  <1> QED
    BY <1>1, RowInvariant, ServiceFacts, PTL

-----------------------------------------------------------------------------
(***************************************************************************)
(* A DELETE of a finished avatar.  Without faults of the queue, an upload  *)
(* that was made ready and never failed has one copy, whose worker is past *)
(* MarkAvatarReady (OnceInv): two copies would mean a retry, and a worker  *)
(* that acknowledges without a retry has recorded the task.  So nobody     *)
(* brings back what the DELETE removes (PurgeInv).                         *)
(***************************************************************************)
Calm == faults = 0 /\ restarts = 0

AckedInv ==
    \A w \in Workers : pc[w] = "ack" =>
        delivery[w].id \in processed \/ failures[delivery[w].id] > 0

FinishedImage(r, u) ==
    r # None /\ r.status = "ready" =>
        r.image \in completed /\ UserOf[r.image] = u /\ r.stagingKey = None

ShownInv ==
    /\ completed \subseteq published
    /\ \A u \in Users : FinishedImage(avatars[u], u)
    /\ \A d \in Deletes : FinishedImage(row[d], DeleteUser[d])
    /\ \A d \in Deletes : remove[d] \in {"files", "row", "204"} => row[d] # None

CleaningUp(w) == pc[w] = "handle" /\ step[w] = "cleanup"

Held(x) == \A c \in copies : c.id = x => \E w \in unacked : delivery[w] = c

OnceInv ==
    Calm => \A x \in completed : failures[x] = 0 =>
        /\ Held(x)
        /\ \A w \in Workers : pc[w] # "receive" /\ Message(w) = x =>
             CleaningUp(w) \/ pc[w] \in {"mark", "ack"}
        /\ callFaults = 0 /\ x \in staged => \E w \in Workers : CleaningUp(w) /\ Message(w) = x

Alone(d) ==
    /\ row[d] # None /\ row[d].status = "ready"
    /\ failures[row[d].image] = 0
    /\ \A m \in Messages \ {row[d].image} : UserOf[m] = DeleteUser[d] => upload[m] = "new"

PurgeInv ==
    Calm => \A d \in Deletes : Alone(d) =>
        LET u == DeleteUser[d]
        IN /\ remove[d] = "files" =>
                \/ keys[d] = <<"original", "thumb">>
                \/ keys[d] = <<"thumb">> /\ original[u] = None
           /\ remove[d] \in {"row", "204"} => original[u] = None /\ thumb[u] = None
           /\ remove[d] = "204" => avatars[u] = None

DeletedInv == AckedInv /\ ShownInv /\ OnceInv /\ PurgeInv

-----------------------------------------------------------------------------
\* Nothing is shown and nothing is deleted in the beginning.
LEMMA DeletedInit == Init => DeletedInv
  BY DEF Init, QueueInit, DeletedInv, AckedInv, ShownInv, FinishedImage, OnceInv, PurgeInv, Alone

\* handleDelivery acknowledges what it has recorded or sent to a retry.
LEMMA AckedStep == QueueInv /\ AckedInv /\ [QueueNext]_queueVars => AckedInv'
  <1> SUFFICES ASSUME QueueInv, AckedInv, [QueueNext]_queueVars, NEW w \in Workers, pc'[w] = "ack"
               PROVE  delivery'[w].id \in processed' \/ failures'[delivery'[w].id] > 0
    BY DEF AckedInv
  <1>q. QueueTypeOK
    BY DEF QueueInv
  <1>1. ASSUME pc[w] = "ack", delivery'[w] = delivery[w], processed \subseteq processed',
               failures' = failures
        PROVE  delivery'[w].id \in processed' \/ failures'[delivery'[w].id] > 0
    BY <1>1 DEF AckedInv
  <1>2. ASSUME NEW x \in Workers, Consumer(x) \/ ConsumeReturns(x)
        PROVE  delivery'[w].id \in processed' \/ failures'[delivery'[w].id] > 0
    <2>1. CASE SendToRetry(x)
      <3>1. CASE x = w
        <4>1. pc[w] = "retry" /\ delivery'[w] = delivery[w] /\ failures' = failures
          BY <2>1, <3>1, <1>q DEF SendToRetry, Return, Goto, historyVars, QueueTypeOK
        <4>2. delivery[w] \in Copy
          BY <4>1 DEF QueueInv, HoldInv
        <4>3. failures[delivery[w].id] >= delivery[w].retry + 1
          BY <4>1 DEF QueueInv, EarnedInv
        <4> QED
          BY <4>1, <4>2, <4>3, <1>q, CopyTypes DEF QueueTypeOK
      <3>2. CASE x # w
        BY <2>1, <3>2, <1>1, <1>q DEF SendToRetry, Return, Goto, historyVars, QueueTypeOK
      <3> QED
        BY <3>1, <3>2
    <2>2. CASE MarkProcessed(x)
      BY <2>2, <1>1, <1>q
      DEF MarkProcessed, Return, Goto, Effective, Outcomes, historyVars, QueueTypeOK
    <2>3. CASE Deliver(x) \/ RejectMalformed(x) \/ IsProcessed(x) \/ AckDelivery(x)
               \/ ConsumeReturns(x)
      BY <2>3, <1>1, <1>q
      DEF Deliver, RejectMalformed, IsProcessed, AckDelivery, ConsumeReturns, Return, Goto,
          historyVars, QueueTypeOK
    <2> QED
      BY <1>2, <2>1, <2>2, <2>3 DEF Consumer
  <1>3. ASSUME NEW x \in Workers, NEW failed \in BOOLEAN, HandlerReturns(x, failed)
        PROVE  delivery'[w].id \in processed' \/ failures'[delivery'[w].id] > 0
    <2>1. /\ pc[w] = "ack" /\ delivery' = delivery /\ processed' = processed
          /\ failures' = failures \/ failures' = [failures EXCEPT ![delivery[x].id] = @ + 1]
      BY <1>3, <1>q DEF HandlerReturns, Goto, QueueTypeOK
    <2>2. delivery[w] \in Copy
      BY <2>1 DEF QueueInv, HoldInv
    <2> QED
      BY <2>1, <2>2, <1>1, <1>q, CopyTypes DEF AckedInv, QueueTypeOK
  <1>4. CASE (\E m \in Messages : PublishAvatarProcess(m)) \/ PublisherRestart
    BY <1>4, <1>1 DEF PublishAvatarProcess, PublisherRestart, consumerVars, historyVars
  <1>5. CASE Environment
    BY <1>5, <1>1, <1>q
    DEF Environment, PublisherLost, Expire, Shutdown, Crash, Return, ConnectionLost,
        BrokerRestart, QueueTypeOK, consumerVars, historyVars
  <1>6. CASE UNCHANGED queueVars
    BY <1>6, <1>1 DEF queueVars, consumerVars, historyVars
  <1> QED
    BY <1>2, <1>3, <1>4, <1>5, <1>6 DEF QueueNext

\* Without faults, a task all of whose copies are held stays so, and its workers move on to
\* the acknowledgement unless Handle fails: nobody else gets the task.
LEMMA HeldStep ==
    ASSUME QueueInv, HandsInv, [QueueNext]_queueVars, Calm', NEW x \in published, Held(x),
           \A w \in Workers : pc[w] # "receive" /\ delivery[w].id = x =>
                pc[w] \in {"handle", "mark", "ack"}
    PROVE  /\ Held(x)'
           /\ \A w \in Workers : pc'[w] # "receive" /\ delivery'[w].id = x =>
                /\ pc[w] # "receive" /\ delivery'[w] = delivery[w]
                /\ \/ pc'[w] = pc[w]
                   \/ pc[w] = "handle"
                   \/ pc[w] = "mark" /\ pc'[w] = "ack"
  <1> DEFINE Kept == \A w \in Workers : pc'[w] # "receive" /\ delivery'[w].id = x =>
                /\ pc[w] # "receive" /\ delivery'[w] = delivery[w]
                /\ \/ pc'[w] = pc[w]
                   \/ pc[w] = "handle"
                   \/ pc[w] = "mark" /\ pc'[w] = "ack"
  <1>q. QueueTypeOK
    BY DEF QueueInv
  <1>c. faults = 0 /\ restarts = 0 /\ open = Workers /\ stopping = {} /\ faults' = 0
    BY <1>q, FaultFree DEF Calm, HandsInv
  <1>f. \A kind : ~Fault(kind)
    BY <1>c DEF Fault
  <1>a. \A w \in Workers : \A outcome : Answers(w, outcome) => outcome = "ok"
    BY <1>c, <1>f DEF Answers
  <1>1. ASSUME UNCHANGED <<pc, delivery, unacked>>,
               \A c \in copies' : c.id = x => c \in copies
        PROVE  Held(x)' /\ Kept
    BY <1>1 DEF Held
  <1>2. ASSUME NEW v \in Workers, Deliver(v) PROVE Held(x)' /\ Kept
    <2>1. PICK c \in copies :
            /\ \A w \in unacked : delivery[w] # c
            /\ delivery' = [delivery EXCEPT ![v] = c]
      BY <1>2 DEF Deliver, IsHead, Ready
    <2>2. c.id # x
      BY <2>1 DEF Held
    <2>3. /\ pc[v] = "receive" /\ v \notin unacked /\ unacked \subseteq Workers
          /\ pc' = [pc EXCEPT ![v] = "decode"]
          /\ unacked' = unacked \union {v} /\ copies' = copies
      BY <1>2, <1>q DEF Deliver, QueueInv, HoldInv, QueueTypeOK
    <2>4. Held(x)'
      BY <2>1, <2>3, <1>q DEF Held, QueueTypeOK
    <2>5. Kept
      BY <2>1, <2>2, <2>3, <1>q DEF QueueTypeOK
    <2> QED
      BY <2>4, <2>5
  <1>3. ASSUME NEW v \in Workers, pc[v] # "receive", delivery[v].id # x,
               \A c \in copies' : c.id = x => c \in copies,
               unacked' = unacked \/ unacked' = unacked \ {v},
               \A w \in Workers \ {v} : pc'[w] = pc[w] /\ delivery'[w] = delivery[w],
               pc'[v] = "receive" \/ delivery'[v] = delivery[v]
        PROVE  Held(x)' /\ Kept
    <2>1. unacked \subseteq Workers
      BY <1>q DEF QueueTypeOK
    <2>2. Held(x)'
      <3> SUFFICES ASSUME NEW c \in copies', c.id = x
                   PROVE  \E w \in unacked' : delivery'[w] = c
        BY DEF Held
      <3>1. PICK w \in unacked : delivery[w] = c
        BY <1>3 DEF Held
      <3>2. w # v
        BY <1>3, <3>1
      <3> QED
        BY <1>3, <2>1, <3>1, <3>2
    <2>3. Kept
      BY <1>3
    <2> QED
      BY <2>2, <2>3
  <1>4. ASSUME NEW v \in Workers, RejectMalformed(v) \/ IsProcessed(v) \/ SendToRetry(v)
        PROVE  Held(x)' /\ Kept
    <2>1. pc[v] # "receive" /\ delivery[v].id # x
      BY <1>4 DEF RejectMalformed, IsProcessed, SendToRetry
    <2>2. delivery[v] \in Copy
      BY <2>1 DEF QueueInv, HoldInv
    <2>3. /\ DeadLettered(delivery[v]).id # x
          /\ RetryCopy(delivery[v].id, RetryCount(delivery[v]) + 1).id # x
      BY <2>1 DEF DeadLettered, RetryCopy, CopyAt
    <2>4. /\ \A c \in copies' : c.id = x => c \in copies
          /\ unacked' = unacked \/ unacked' = unacked \ {v}
          /\ \A w \in Workers \ {v} : pc'[w] = pc[w] /\ delivery'[w] = delivery[w]
          /\ pc'[v] = "receive" \/ delivery'[v] = delivery[v]
      <3>1. CASE RejectMalformed(v)
        BY <3>1, <2>3, <1>q DEF RejectMalformed, NackDrop, Return, QueueTypeOK
      <3>2. CASE IsProcessed(v)
        BY <3>2, <1>q DEF IsProcessed, NackRequeue, Ack, Return, Goto, QueueTypeOK
      <3>3. CASE SendToRetry(v)
        BY <3>3, <2>3, <1>q DEF SendToRetry, NackRequeue, Return, Goto, QueueTypeOK
      <3> QED
        BY <1>4, <3>1, <3>2, <3>3
    <2> HIDE DEF Kept
    <2> QED
      BY <2>1, <2>4, <1>3
  <1>5. ASSUME NEW v \in Workers, MarkProcessed(v) PROVE Held(x)' /\ Kept
    <2>1. /\ pc[v] = "mark" /\ pc' = [pc EXCEPT ![v] = "ack"]
          /\ UNCHANGED <<copies, unacked, delivery>>
      BY <1>5, <1>a DEF MarkProcessed, Goto
    <2> QED
      BY <2>1, <1>q DEF Held, QueueTypeOK
  <1>6. ASSUME NEW v \in Workers, AckDelivery(v) PROVE Held(x)' /\ Kept
    <2>1. /\ pc' = [pc EXCEPT ![v] = "receive"]
          /\ delivery' = [delivery EXCEPT ![v] = NoDelivery]
          /\ copies' = IF v \in unacked THEN copies \ {delivery[v]} ELSE copies
          /\ unacked' = unacked \ {v}
      BY <1>6 DEF AckDelivery, Ack, Return
    <2>2. Held(x)'
      <3> SUFFICES ASSUME NEW c \in copies', c.id = x
                   PROVE  \E w \in unacked' : delivery'[w] = c
        BY DEF Held
      <3>1. PICK w \in unacked : delivery[w] = c
        BY <2>1 DEF Held
      <3>2. w # v /\ w \in Workers
        BY <2>1, <3>1, <1>q DEF QueueTypeOK
      <3> QED
        BY <2>1, <3>1, <3>2, <1>q DEF QueueTypeOK
    <2>3. Kept
      BY <2>1, <1>q DEF QueueTypeOK
    <2> QED
      BY <2>2, <2>3
  <1>7. ASSUME NEW v \in Workers, NEW failed \in BOOLEAN, HandlerReturns(v, failed)
        PROVE  Held(x)' /\ Kept
    BY <1>7, <1>q DEF HandlerReturns, Goto, brokerVars, Held, QueueTypeOK
  <1>8. CASE \/ \E m \in Messages : PublishAvatarProcess(m)
             \/ PublisherRestart
             \/ \E v \in Workers : ConsumeReturns(v)
             \/ UNCHANGED queueVars
    <2>1. CASE \E m \in Messages : PublishAvatarProcess(m)
      <3> PICK m \in Messages : PublishAvatarProcess(m)
        BY <2>1
      <3>1. m # x
        BY DEF PublishAvatarProcess
      <3> QED
        BY <3>1, <1>1 DEF PublishAvatarProcess, CopyAt, consumerVars
    <2>2. CASE PublisherRestart \/ (\E v \in Workers : ConsumeReturns(v)) \/ UNCHANGED queueVars
      BY <2>2, <1>1 DEF PublisherRestart, ConsumeReturns, queueVars, brokerVars, consumerVars
    <2> QED
      BY <1>8, <2>1, <2>2
  <1>9. CASE Environment
    <2>1. PICK r \in RetryQueues : Expire(r)
      BY <1>9, <1>f, <1>q DEF Environment, PublisherLost, Shutdown, Crash, ConnectionLost,
                              BrokerRestart, Calm, QueueTypeOK
    <2>2. PICK c \in copies :
            /\ \A w \in unacked : delivery[w] # c
            /\ copies' = (copies \ {c}) \union {DeadLettered(c)}
      BY <2>1 DEF Expire, IsHead, Ready
    <2>3. c.id # x
      BY <2>2 DEF Held
    <2>4. DeadLettered(c).id # x
      BY <2>3 DEF DeadLettered, CopyAt
    <2> QED
      BY <2>1, <2>2, <2>4, <1>1 DEF Expire, consumerVars
  <1>11. ASSUME NEW v \in Workers, Consumer(v) PROVE Held(x)' /\ Kept
    <2> HIDE DEF Kept
    <2> QED
      BY <1>11, <1>2, <1>4, <1>5, <1>6 DEF Consumer
  <1> DEFINE G == Held(x)' /\ Kept
  <1>10. Held(x)' /\ Kept
    <2>1. /\ \A v \in Workers : Consumer(v) => G
          /\ \A v \in Workers, failed \in BOOLEAN : HandlerReturns(v, failed) => G
      BY <1>11, <1>7
    <2>2. /\ (\E m \in Messages : PublishAvatarProcess(m)) => G
          /\ PublisherRestart => G
          /\ (\E v \in Workers : ConsumeReturns(v)) => G
          /\ UNCHANGED queueVars => G
          /\ Environment => G
      BY <1>8, <1>9
    <2> HIDE DEF G
    <2>3. G
      BY <2>1, <2>2 DEF QueueNext
    <2> QED
      BY <2>3 DEF G
  <1> QED
    BY <1>10 DEF Kept

\* Failures are not forgotten, only SetReady completes an upload, and no request that was
\* started is new again.
LEMMA History ==
    ASSUME TypeOK, [Next]_vars, NEW m \in Messages
    PROVE  /\ failures'[m] = 0 => failures[m] = 0
           /\ m \in completed => m \in completed'
           /\ m \in completed' \ completed => \E w \in Workers : SetReady(w) /\ Message(w) = m
           /\ upload'[m] = "new" => upload[m] = "new"
  <1>q. QueueTypeOK
    BY DEF TypeOK
  <1>1. failures'[m] = 0 => failures[m] = 0
    <2>1. CASE UNCHANGED failures
      BY <2>1
    <2>2. CASE \E w \in Workers, failed \in BOOLEAN : HandlerReturns(w, failed)
      BY <2>2, <1>q DEF HandlerReturns, QueueTypeOK
    <2>3. ASSUME NEW w \in Workers, Consumer(w) \/ ConsumeReturns(w) PROVE UNCHANGED failures
      BY <2>3
      DEF Consumer, Deliver, RejectMalformed, IsProcessed, SendToRetry, MarkProcessed,
          AckDelivery, ConsumeReturns, historyVars
    <2>4. ASSUME \/ \E n \in Messages : PublishAvatarProcess(n)
                 \/ PublisherRestart \/ Environment \/ UNCHANGED queueVars
          PROVE  UNCHANGED failures
      BY <2>4
      DEF PublishAvatarProcess, PublisherRestart, Environment, PublisherLost, Expire, Shutdown,
          Crash, ConnectionLost, BrokerRestart, queueVars, historyVars
    <2> QED
      BY <2>1, <2>2, <2>3, <2>4, StepRefines DEF QueueNext
  <1>2. ASSUME NEW w \in Workers, Handle(w)
        PROVE  /\ m \in completed => m \in completed'
               /\ m \in completed' \ completed => SetReady(w) /\ Message(w) = m
               /\ upload' = upload
    BY <1>2
    DEF Handle, SetProcessing, DownloadAndProcess, PutOriginal, PutThumb, SetReady, Cleanup,
        SetFailed, If, uploadVars
  <1>3. ASSUME NEW n \in Messages, StartUpload(n) \/ UploadAvatar(n) \/ ClientGone(n)
        PROVE  completed' = completed /\ (upload'[m] = "new" => upload[m] = "new")
    BY <1>3
    DEF StartUpload, UploadAvatar, StageUpload, SaveMetadata, Enqueue, Unstage, FailUpload,
        ClientGone, UploadGoto, serviceVars, TypeOK
  <1>4. ASSUME (\E d \in Deletes : DeleteAvatar(d)) \/ ApiRestart
        PROVE  completed' = completed /\ (upload'[m] = "new" => upload[m] = "new")
    BY <1>4
    DEF DeleteAvatar, ReadRow, DeleteObject, DeleteRow, ApiRestart, uploadVars, serviceVars,
        TypeOK
  <1>5. ASSUME (\E w \in Workers : WorkerCrash(w)) \/ QueueStep \/ UNCHANGED vars
        PROVE  completed' = completed /\ upload' = upload
    BY <1>5 DEF WorkerCrash, QueueStep, vars, avatarVars, uploadVars, serviceVars
  <1> QED
    BY <1>1, <1>2, <1>3, <1>4, <1>5 DEF Next

\* What SetReady writes when it makes a row ready.
LEMMA MadeReady ==
    ASSUME TypeOK, QueueInv, NEW w \in Workers, SetReady(w), NEW u \in Users, u = User(w),
           Written(u, "ready")
    PROVE  \/ avatars'[u] = avatars[u]
           \/ /\ avatars'[u].image = Message(w) /\ avatars'[u].stagingKey = None
              /\ Message(w) \in completed'
  <1>1. PICK o \in Outcomes :
          /\ avatars' = If(o, MarkAvatarReady(avatars, User(w), Message(w)), avatars)
          /\ completed' = If(o, completed \union {Message(w)}, completed)
    BY DEF SetReady
  <1>2. CASE ~Effective(o)
    BY <1>1, <1>2 DEF If
  <1>3. CASE Effective(o)
    BY <1>1, <1>3 DEF If, MarkAvatarReady, Written, TypeOK, Row
  <1> QED
    BY <1>2, <1>3

\* Ready rows, and what DELETEs have read of them, name finished uploads of the user.
LEMMA ShownStep ==
    ASSUME TypeOK, TypeOK', QueueInv, KnownInv, ShownInv, [Next]_vars
    PROVE  ShownInv'
  <1>1. completed' \subseteq published'
    <2> SUFFICES ASSUME NEW m \in completed' PROVE m \in published'
      OBVIOUS
    <2>1. m \in Messages
      BY DEF TypeOK
    <2>2. CASE m \in completed
      BY <2>1, <2>2, Onwards DEF ShownInv
    <2>3. CASE m \notin completed
      <3>1. PICK w \in Workers : SetReady(w) /\ Message(w) = m
        BY <2>1, <2>3, History
      <3>2. m \in published
        BY <3>1 DEF SetReady, Handling, KnownInv, Message
      <3> QED
        BY <3>2, Onwards
    <2> QED
      BY <2>2, <2>3
  <1>2. ASSUME NEW u \in Users, avatars'[u] # None, avatars'[u].status = "ready"
        PROVE  /\ avatars'[u].image \in completed' /\ UserOf[avatars'[u].image] = u
               /\ avatars'[u].stagingKey = None
    <2>1. CASE avatars'[u] = avatars[u]
      <3>1. avatars[u].image \in completed /\ UserOf[avatars[u].image] = u
            /\ avatars[u].stagingKey = None
        BY <1>2, <2>1 DEF ShownInv, FinishedImage
      <3>2. avatars[u].image \in Messages
        BY <3>1 DEF TypeOK
      <3> QED
        BY <2>1, <3>1, <3>2, History
    <2>2. CASE avatars'[u] # avatars[u]
      <3>1. PICK w \in Workers : u = User(w) /\ SetReady(w) /\ Written(u, "ready")
        BY <1>2, <2>2, RowSteps DEF Written
      <3> QED
        BY <2>2, <3>1, MadeReady DEF User
    <2> QED
      BY <2>1, <2>2
  <1>3. \A u \in Users : FinishedImage(avatars[u], u)'
    BY <1>2 DEF FinishedImage
  <1>4. ASSUME NEW d \in Deletes
        PROVE  /\ row'[d] = row[d] \/ row'[d] = avatars[DeleteUser[d]]
               /\ remove'[d] \in {"files", "row", "204"} =>
                    row'[d] # None
    <2>1. CASE ReadRow(d)
      BY <2>1 DEF ReadRow, RemoveGoto, TypeOK
    <2>2. CASE DeleteObject(d)
      BY <2>2 DEF DeleteObject, ShownInv
    <2>3. CASE DeleteRow(d)
      BY <2>3 DEF DeleteRow, ShownInv
    <2>4. ASSUME NEW e \in Deletes, e # d, DeleteAvatar(e)
          PROVE  row'[d] = row[d] /\ remove'[d] = remove[d]
      BY <2>4 DEF DeleteAvatar, ReadRow, DeleteObject, DeleteRow, RemoveGoto, TypeOK
    <2>5. CASE ApiRestart
      BY <2>5 DEF ApiRestart, ShownInv, TypeOK
    <2>6. ASSUME \/ \E m \in Messages : StartUpload(m) \/ UploadAvatar(m) \/ ClientGone(m)
                 \/ \E w \in Workers : Handle(w) \/ WorkerCrash(w)
                 \/ QueueStep \/ UNCHANGED vars
          PROVE  UNCHANGED <<row, remove>>
      BY <2>6
      DEF StartUpload, UploadAvatar, StageUpload, SaveMetadata, Enqueue, Unstage, FailUpload,
          ClientGone, Handle, SetProcessing, DownloadAndProcess, PutOriginal, PutThumb,
          SetReady, Cleanup, SetFailed, WorkerCrash, QueueStep, vars, avatarVars, removeVars
    <2>7. remove[d] \in {"files", "row", "204"} => row[d] # None
      BY DEF ShownInv
    <2>8. CASE DeleteAvatar(d)
      BY <2>1, <2>2, <2>3, <2>7, <2>8 DEF DeleteAvatar, DeleteObject, DeleteRow, RemoveGoto, TypeOK
    <2> QED
      BY <2>4, <2>5, <2>6, <2>7, <2>8 DEF Next
  <1>5. ASSUME NEW d \in Deletes PROVE FinishedImage(row[d], DeleteUser[d])'
    <2>1. DeleteUser[d] \in Users
      BY AvatarsAssumption
    <2> PICK r : r = row'[d]
      OBVIOUS
    <2>2. FinishedImage(r, DeleteUser[d])
      <3>1. FinishedImage(row[d], DeleteUser[d]) /\ FinishedImage(avatars[DeleteUser[d]], DeleteUser[d])
        BY <2>1 DEF ShownInv
      <3> QED
        BY <1>4, <3>1
    <2>3. /\ r # None /\ r.status = "ready" =>
               r.image \in Messages /\ r.image \in completed /\ UserOf[r.image] = DeleteUser[d]
               /\ r.stagingKey = None
      BY <2>2 DEF FinishedImage, TypeOK
    <2>4. r # None /\ r.status = "ready" => r.image \in completed'
      BY <2>3, History
    <2> QED
      BY <2>3, <2>4 DEF FinishedImage
  <1> QED
    BY <1>1, <1>3, <1>4, <1>5 DEF ShownInv

\* A worker about to make an upload ready for the first time holds its only copy, when
\* nothing has failed: a second copy would be a retry or an acknowledged one.
LEMMA OnlyCopy ==
    ASSUME TypeOK, QueueInv, HandsInv, OpenInv, NoRework, AckedInv, Calm, NEW w \in Workers,
           pc[w] = "handle", failures[Message(w)] = 0
    PROVE  /\ Held(Message(w))
           /\ \A v \in Workers : pc[v] # "receive" /\ Message(v) = Message(w) => v = w
  <1>1. \A v \in Workers : pc[v] # "receive" => v \in unacked /\ delivery[v] \in copies
    BY DEF HandsInv, OpenInv, QueueInv, HoldInv, Calm
  <1>2. Message(w) \notin processed
    BY DEF NoRework, Calm, Message
  <1>3. ASSUME NEW c \in copies, c.id = Message(w) PROVE c = delivery[w]
    <2> SUFFICES ASSUME c # delivery[w] PROVE FALSE
      OBVIOUS
    <2>1. delivery[w] \in copies /\ delivery[w].id = Message(w)
      BY <1>1 DEF Message
    <2>2. PICK v \in unacked : pc[v] = "ack" /\ delivery[v] \in {c, delivery[w]}
      BY <1>3, <2>1 DEF HandsInv, Calm
    <2>3. v \in Workers /\ delivery[v].id = Message(w)
      BY <1>3, <2>1, <2>2 DEF TypeOK, QueueTypeOK
    <2> QED
      BY <1>2, <2>2, <2>3 DEF AckedInv, TypeOK, QueueTypeOK
  <1>4. Held(Message(w))
    BY <1>1, <1>3 DEF Held
  <1>5. ASSUME NEW v \in Workers, pc[v] # "receive", Message(v) = Message(w) PROVE v = w
    <2>1. delivery[v] = delivery[w]
      BY <1>1, <1>3, <1>5 DEF Message
    <2> QED
      BY <1>1, <1>5, <2>1 DEF QueueInv, HoldInv
  <1> QED
    BY <1>4, <1>5

\* Only StageUpload adds a staging object, and not that of a published upload.
LEMMA StagedOnce ==
    ASSUME SourceInv, [Next]_vars, NEW x \in published, x \in staged'
    PROVE  x \in staged
  <1>1. upload[x] # "stage"
    BY DEF SourceInv, UploadInv
  <1>2. ASSUME NEW m \in Messages, StartUpload(m) \/ UploadAvatar(m) \/ ClientGone(m)
        PROVE  x \in staged
    BY <1>1, <1>2
    DEF StartUpload, UploadAvatar, StageUpload, SaveMetadata, Enqueue, Unstage, FailUpload,
        ClientGone, If, storeVars
  <1>3. ASSUME \/ \E d \in Deletes : DeleteAvatar(d)
               \/ ApiRestart
               \/ \E w \in Workers : Handle(w) \/ WorkerCrash(w)
               \/ QueueStep
               \/ UNCHANGED vars
        PROVE  x \in staged
    BY <1>3
    DEF DeleteAvatar, ReadRow, DeleteObject, DeleteRow, ApiRestart, Handle, SetProcessing,
        DownloadAndProcess, PutOriginal, PutThumb, SetReady, Cleanup, SetFailed, WorkerCrash,
        QueueStep, vars, avatarVars, storeVars, If
  <1> QED
    BY <1>2, <1>3 DEF Next

\* A finished upload stays finished: nobody handles it again, and its object goes with the
\* cleanup that is under way.
LEMMA OnceStep ==
    ASSUME TypeOK, TypeOK', QueueInv, HandsInv, OpenInv, NoRework, SourceInv, StopInv, DeletedInv,
           [Next]_vars
    PROVE  OnceInv'
  <1> SUFFICES ASSUME Calm', NEW x \in completed', failures'[x] = 0
               PROVE  /\ Held(x)'
                      /\ \A w \in Workers : pc'[w] # "receive" /\ Message(w)' = x =>
                           CleaningUp(w)' \/ pc'[w] \in {"mark", "ack"}
                      /\ callFaults' = 0 /\ x \in staged' =>
                           \E w \in Workers : CleaningUp(w)' /\ Message(w)' = x
    BY DEF OnceInv
  <1>q. QueueTypeOK
    BY DEF TypeOK
  <1>0. x \in Messages /\ Calm /\ failures[x] = 0 /\ AckedInv
    <2>1. x \in Messages
      BY DEF TypeOK
    <2>2. Calm
      BY <1>q, FaultFree, StepRefines DEF Calm
    <2> QED
      BY <2>1, <2>2, History DEF DeletedInv
  <1>1. CASE x \notin completed
    <2>1. PICK w \in Workers : SetReady(w) /\ Message(w) = x
      BY <1>0, <1>1, History
    <2>2. pc[w] = "handle"
      BY <2>1 DEF SetReady, Handling
    <2>3. Advance(w, "cleanup")
      <3>1. PICK o \in Outcomes :
              IF o = "ok" THEN Advance(w, "cleanup") ELSE HandleReturns(w, TRUE)
        BY <2>1 DEF SetReady
      <3>2. o = "ok"
        BY <3>1, <2>1, <1>0, <1>q DEF HandleReturns, HandlerReturns, Message, QueueTypeOK
      <3> QED
        BY <3>1, <3>2
    <2>4. /\ Held(x)
          /\ \A v \in Workers : pc[v] # "receive" /\ Message(v) = x => v = w
      BY <1>0, <2>1, <2>2, OnlyCopy
    <2>5. UNCHANGED <<copies, unacked, pc, delivery>> /\ step'[w] = "cleanup"
      BY <2>3 DEF Advance, queueVars, brokerVars, consumerVars, TypeOK
    <2>6. Held(x)'
      BY <2>4, <2>5 DEF Held
    <2>7. \A v \in Workers : Message(v)' = Message(v)
      BY <2>5 DEF Message
    <2> QED
      BY <2>1, <2>2, <2>4, <2>5, <2>6, <2>7 DEF CleaningUp
  <1>2. CASE x \in completed
    <2>1. /\ Held(x)
          /\ \A w \in Workers : pc[w] # "receive" /\ Message(w) = x =>
               CleaningUp(w) \/ pc[w] \in {"mark", "ack"}
          /\ callFaults = 0 /\ x \in staged => \E w \in Workers : CleaningUp(w) /\ Message(w) = x
      BY <1>0, <1>2 DEF DeletedInv, OnceInv
    <2>2. x \in published
      BY <1>2 DEF DeletedInv, ShownInv
    <2>3. \A w \in Workers : pc[w] # "receive" /\ delivery[w].id = x =>
            pc[w] \in {"handle", "mark", "ack"}
      BY <2>1 DEF CleaningUp, Message
    <2>4. /\ Held(x)'
          /\ \A w \in Workers : pc'[w] # "receive" /\ delivery'[w].id = x =>
               /\ pc[w] # "receive" /\ delivery'[w] = delivery[w]
               /\ \/ pc'[w] = pc[w]
                  \/ pc[w] = "handle"
                  \/ pc[w] = "mark" /\ pc'[w] = "ack"
      BY <2>1, <2>2, <2>3, HeldStep, StepRefines
    <2>5. ASSUME NEW w \in Workers, CleaningUp(w), Handle(w) PROVE Cleanup(w) /\ pc'[w] = "mark"
      <3>1. Cleanup(w)
        BY <2>5
        DEF CleaningUp, Handle, SetProcessing, DownloadAndProcess, PutOriginal, PutThumb,
            SetReady, SetFailed, Handling
      <3> QED
        BY <3>1, <1>q DEF Cleanup, HandleReturns, HandlerReturns, Goto, QueueTypeOK
    <2>6. ASSUME NEW w \in Workers, pc'[w] # "receive", Message(w)' = x
          PROVE  CleaningUp(w)' \/ pc'[w] \in {"mark", "ack"}
      <3>1. /\ pc[w] # "receive" /\ delivery'[w] = delivery[w]
            /\ \/ pc'[w] = pc[w]
               \/ pc[w] = "handle"
               \/ pc[w] = "mark" /\ pc'[w] = "ack"
        BY <2>4, <2>6 DEF Message
      <3>2. CleaningUp(w) \/ pc[w] \in {"mark", "ack"}
        BY <2>1, <2>6, <3>1 DEF Message
      <3>3. CASE CleaningUp(w)
        BY <3>3, <2>5, <2>6, WorkerSteps DEF CleaningUp
      <3> QED
        BY <3>1, <3>2, <3>3
    <2>7. ASSUME callFaults' = 0, x \in staged'
          PROVE  \E w \in Workers : CleaningUp(w)' /\ Message(w)' = x
      <3>1. NoFault' /\ NoFault
        BY <1>0, <2>7, Onwards DEF NoFault, Calm
      <3>2. x \in staged
        BY <2>2, <2>7, StagedOnce
      <3>3. PICK w \in Workers : CleaningUp(w) /\ Message(w) = x
        BY <2>1, <3>1, <3>2 DEF NoFault
      <3>4. ~Handle(w)
        <4> SUFFICES ASSUME Handle(w) PROVE FALSE
          OBVIOUS
        <4>1. Cleanup(w)
          BY <3>3, <2>5
        <4>2. PICK o \in Outcomes :
                ServiceCall(w, "s3", o) /\ staged' = If(o, staged \ {Message(w)}, staged)
          BY <4>1 DEF Cleanup
        <4>3. o = "ok"
          BY <4>2, <3>1, <2>7, CallSucceeds
        <4> QED
          BY <4>2, <4>3, <3>3, <2>7 DEF If, Effective
      <3>5. pc'[w] = "handle"
        BY <3>1, <3>3, <3>4, HandleGoesOn DEF CleaningUp
      <3>6. step'[w] = step[w] /\ delivery'[w] = delivery[w]
        BY <3>3, <3>4, <3>5, WorkerSteps DEF CleaningUp
      <3> QED
        BY <3>3, <3>5, <3>6 DEF CleaningUp, Message
    <2> QED
      BY <2>4, <2>6, <2>7
  <1> QED
    BY <1>1, <1>2

\* What other requests and the worker do to the user of a DELETE that read a finished
\* avatar, while no other upload of the user has started: nothing comes back.
LEMMA NothingReturns ==
    ASSUME TypeOK, QueueInv, KnownInv, SourceInv, DeletedInv, Calm, [Next]_vars,
           NEW d \in Deletes, Alone(d)
    PROVE  LET u == DeleteUser[d]
           IN /\ original[u] = None => original'[u] = None
              /\ thumb[u] = None => thumb'[u] = None
              /\ avatars[u] = None => avatars'[u] = None
  <1> DEFINE u == DeleteUser[d]
             x == row[d].image
             Back == /\ original[u] = None => original'[u] = None
                     /\ thumb[u] = None => thumb'[u] = None
                     /\ avatars[u] = None => avatars'[u] = None
  <1>0. /\ u \in Users
        /\ x \in completed /\ x \in Messages /\ failures[x] = 0 /\ upload[x] = "202"
        /\ \A m \in Messages \ {x} : UserOf[m] = u => upload[m] = "new"
    BY AvatarsAssumption
    DEF DeletedInv, ShownInv, FinishedImage, Alone, SourceInv, UploadInv, TypeOK
  <1> HIDE DEF x
  <1>1. ASSUME NEW m \in Messages, SaveMetadata(m) PROVE Back
    <2>1. UserOf[m] # u
      BY <1>0, <1>1 DEF SaveMetadata
    <2>2. UserOf[m] \in Users
      BY AvatarsAssumption
    <2> QED
      BY <1>0, <1>1, <2>1, <2>2 DEF SaveMetadata, If, UpsertAvatar, TypeOK
  <1>2. ASSUME NEW m \in Messages, FailUpload(m) PROVE Back
    BY <1>0, <1>2, AvatarsAssumption DEF FailUpload, If, UpdateAvatarStatus, TypeOK
  <1>3. ASSUME NEW m \in Messages,
               StartUpload(m) \/ StageUpload(m) \/ Enqueue(m) \/ Unstage(m) \/ ClientGone(m)
        PROVE  Back
    BY <1>3 DEF StartUpload, StageUpload, Enqueue, Unstage, ClientGone, storeVars
  <1>4. ASSUME NEW e \in Deletes, DeleteAvatar(e) PROVE Back
    <2>1. CASE ReadRow(e)
      BY <2>1 DEF ReadRow, storeVars
    <2>2. CASE DeleteObject(e)
      BY <2>2, <1>0, AvatarsAssumption DEF DeleteObject, TypeOK
    <2>3. CASE DeleteRow(e)
      BY <2>3, <1>0, AvatarsAssumption DEF DeleteRow, If, DeleteAvatarRow, TypeOK
    <2> QED
      BY <1>4, <2>1, <2>2, <2>3 DEF DeleteAvatar
  <1>5. ASSUME NEW w \in Workers, Handle(w) PROVE Back
    <2>1. /\ pc[w] = "handle"
          /\ Message(w) \in published
      BY <1>5
      DEF Handle, SetProcessing, DownloadAndProcess, PutOriginal, PutThumb, SetReady,
          Cleanup, SetFailed, Handling, KnownInv, Message
    <2>2. upload[Message(w)] = "202" /\ Message(w) \in Messages /\ User(w) \in Users
      BY <2>1, HandledMessage DEF SourceInv, UploadInv
    <2>3. CASE User(w) = u
      <3>1. Message(w) = x
        BY <1>0, <2>2, <2>3 DEF User
      <3>2. step[w] = "cleanup"
        BY <1>0, <2>1, <3>1 DEF DeletedInv, OnceInv, CleaningUp
      <3>3. Cleanup(w)
        BY <1>5, <3>2
        DEF Handle, SetProcessing, DownloadAndProcess, PutOriginal, PutThumb, SetReady,
            SetFailed, Handling
      <3> QED
        BY <3>3 DEF Cleanup
    <2>4. CASE User(w) # u
      <3>1. /\ original' = original \/ original' = [original EXCEPT ![User(w)] = Message(w)]
            /\ thumb' = thumb \/ thumb' = [thumb EXCEPT ![User(w)] = Message(w)]
            /\ \/ avatars' = avatars
               \/ \E s \in {"processing", "failed"} :
                    avatars' = UpdateAvatarStatus(avatars, User(w), s)
               \/ avatars' = MarkAvatarReady(avatars, User(w), Message(w))
        BY <1>5
        DEF Handle, SetProcessing, DownloadAndProcess, PutOriginal, PutThumb, SetReady,
            Cleanup, SetFailed, If, storeVars
      <3> QED
        BY <3>1, <2>2, <2>4, <1>0 DEF UpdateAvatarStatus, MarkAvatarReady, TypeOK
    <2> QED
      BY <2>3, <2>4
  <1>6. ASSUME \/ ApiRestart
               \/ \E w \in Workers : WorkerCrash(w)
               \/ QueueStep
               \/ UNCHANGED vars
        PROVE  Back
    BY <1>6 DEF ApiRestart, WorkerCrash, QueueStep, vars, avatarVars, storeVars
  <1> HIDE DEF Back
  <1>7. Back
    <2>1. CASE \E m \in Messages : StartUpload(m) \/ UploadAvatar(m) \/ ClientGone(m)
      BY <2>1, <1>1, <1>2, <1>3 DEF UploadAvatar
    <2> QED
      BY <2>1, <1>4, <1>5, <1>6 DEF Next
  <1> QED
    BY <1>7 DEF Back

\* Where a DELETE that has read its row goes from there.
LEMMA RemoveSteps ==
    ASSUME TypeOK, [Next]_vars, NEW d \in Deletes
    PROVE  \/ UNCHANGED <<row[d], keys[d], remove[d]>>
           \/ ReadRow(d) \/ DeleteObject(d) \/ DeleteRow(d)
           \/ UNCHANGED <<row[d], keys[d]>> /\ remove'[d] = "killed"
  <1>1. ASSUME NEW e \in Deletes, e # d, DeleteAvatar(e)
        PROVE  UNCHANGED <<row[d], keys[d], remove[d]>>
    BY <1>1 DEF DeleteAvatar, ReadRow, DeleteObject, DeleteRow, RemoveGoto, TypeOK
  <1>2. CASE ApiRestart
    BY <1>2 DEF ApiRestart, TypeOK
  <1>3. ASSUME NEW m \in Messages, StartUpload(m) \/ UploadAvatar(m) \/ ClientGone(m)
        PROVE  UNCHANGED <<row[d], keys[d], remove[d]>>
    BY <1>3
    DEF StartUpload, UploadAvatar, StageUpload, SaveMetadata, Enqueue, Unstage, FailUpload,
        ClientGone, removeVars
  <1>4. ASSUME \/ \E w \in Workers : Handle(w) \/ WorkerCrash(w)
               \/ QueueStep
               \/ UNCHANGED vars
        PROVE  UNCHANGED <<row[d], keys[d], remove[d]>>
    BY <1>4
    DEF Handle, SetProcessing, DownloadAndProcess, PutOriginal, PutThumb, SetReady, Cleanup,
        SetFailed, WorkerCrash, QueueStep, vars, avatarVars, removeVars
  <1> QED
    BY <1>1, <1>2, <1>3, <1>4 DEF Next, DeleteAvatar

\* The DELETE removes the original, then the thumbnail, then the row.
LEMMA PurgeStep ==
    ASSUME TypeOK, TypeOK', QueueInv, KnownInv, SourceInv, DeletedInv, ShownInv', [Next]_vars
    PROVE  PurgeInv'
  <1> SUFFICES ASSUME Calm', NEW d \in Deletes, Alone(d)', NEW u, u = DeleteUser[d]
               PROVE  /\ remove'[d] = "files" =>
                           \/ keys'[d] = <<"original", "thumb">>
                           \/ keys'[d] = <<"thumb">> /\ original'[u] = None
                      /\ remove'[d] \in {"row", "204"} => original'[u] = None /\ thumb'[u] = None
                      /\ remove'[d] = "204" => avatars'[u] = None
    BY DEF PurgeInv
  <1>c. Calm
    BY FaultFree, StepRefines DEF Calm, TypeOK
  <1>u. u \in Users
    BY AvatarsAssumption
  <1>1. ASSUME row'[d] = row[d]
        PROVE  /\ Alone(d)
               /\ remove[d] = "files" =>
                    \/ keys[d] = <<"original", "thumb">>
                    \/ keys[d] = <<"thumb">> /\ original[u] = None
               /\ remove[d] \in {"row", "204"} => original[u] = None /\ thumb[u] = None
               /\ remove[d] = "204" => avatars[u] = None
               /\ original[u] = None => original'[u] = None
               /\ thumb[u] = None => thumb'[u] = None
               /\ avatars[u] = None => avatars'[u] = None
    <2> PICK x : x = row[d].image
      OBVIOUS
    <2>1. /\ row[d] # None /\ row[d].status = "ready" /\ failures'[x] = 0
          /\ \A m \in Messages \ {x} : UserOf[m] = u => upload'[m] = "new"
      BY <1>1 DEF Alone
    <2>2. x \in Messages
      BY <2>1 DEF DeletedInv, ShownInv, FinishedImage, TypeOK
    <2>3. failures[x] = 0 /\ \A m \in Messages \ {x} : UserOf[m] = u => upload[m] = "new"
      BY <2>1, <2>2, History
    <2>4. Alone(d)
      BY <2>1, <2>3 DEF Alone
    <2> QED
      BY <2>4, <1>c, NothingReturns DEF DeletedInv, PurgeInv
  <1>2. CASE ReadRow(d)
    <2>1. CASE row'[d] = avatars[u] /\ remove'[d] = AfterKeys(ObjectKeys(avatars[u]))
               /\ keys'[d] = ObjectKeys(avatars[u])
      <3>1. avatars[u].stagingKey = None /\ avatars[u].image \in Messages
        <4>1. avatars[u] # None /\ avatars[u].status = "ready"
          BY <2>1 DEF Alone
        <4> QED
          BY <4>1, <1>u DEF DeletedInv, ShownInv, FinishedImage, TypeOK
      <3>2. ObjectKeys(avatars[u]) = <<"original", "thumb">>
        <4>1. <<>> \o <<"original", "thumb">> = <<"original", "thumb">>
          OBVIOUS
        <4>2. avatars[u].image # None
          BY <3>1, AvatarsAssumption
        <4> QED
          BY <3>1, <4>1, <4>2 DEF ObjectKeys
      <3>3. remove'[d] = "files"
        <4>1. <<"original", "thumb">> # <<>>
          OBVIOUS
        <4> QED
          BY <2>1, <3>2, <4>1 DEF AfterKeys
      <3> QED
        BY <2>1, <3>2, <3>3
    <2>2. CASE remove'[d] \in {"404", "500"}
      BY <2>2
    <2>3. \/ row'[d] = avatars[u] /\ remove'[d] = AfterKeys(ObjectKeys(avatars[u]))
             /\ keys'[d] = ObjectKeys(avatars[u])
          \/ remove'[d] \in {"404", "500"}
      BY <1>2 DEF ReadRow, RemoveGoto, TypeOK
    <2> QED
      BY <2>1, <2>2, <2>3
  <1>3. CASE DeleteObject(d)
    <2>1. row'[d] = row[d] /\ remove[d] = "files"
      BY <1>3 DEF DeleteObject
    <2>2. \/ keys[d] = <<"original", "thumb">>
          \/ keys[d] = <<"thumb">> /\ original[u] = None /\ original'[u] = None
      BY <2>1, <1>1
    <2>3. PICK o \in Outcomes :
            /\ original' = IF Head(keys[d]) = "original" /\ Effective(o)
                             THEN [original EXCEPT ![u] = None] ELSE original
            /\ thumb' = IF Head(keys[d]) = "thumb" /\ Effective(o)
                          THEN [thumb EXCEPT ![u] = None] ELSE thumb
            /\ keys' = [keys EXCEPT ![d] = Tail(@)]
            /\ RemoveGoto(d, IF o = "ok" THEN AfterKeys(Tail(keys[d])) ELSE "500")
      BY <1>3 DEF DeleteObject
    <2>4. CASE o # "ok"
      BY <2>3, <2>4 DEF RemoveGoto, TypeOK
    <2>5. CASE o = "ok" /\ keys[d] = <<"original", "thumb">>
      <3>1. Head(keys[d]) = "original" /\ Tail(keys[d]) = <<"thumb">> /\ <<"thumb">> # <<>>
        BY <2>5
      <3>2. remove'[d] = "files" /\ keys'[d] = <<"thumb">>
        BY <2>3, <2>5, <3>1 DEF RemoveGoto, AfterKeys, TypeOK
      <3>3. original'[u] = None
        BY <2>3, <2>5, <3>1, <1>u DEF Effective, TypeOK
      <3> QED
        BY <3>2, <3>3
    <2>6. CASE o = "ok" /\ keys[d] = <<"thumb">>
      <3>1. Head(keys[d]) = "thumb" /\ Tail(keys[d]) = <<>>
        BY <2>6
      <3>2. remove'[d] = "row"
        BY <2>3, <2>6, <3>1 DEF RemoveGoto, AfterKeys, TypeOK
      <3>3. thumb'[u] = None
        BY <2>3, <2>6, <3>1, <1>u DEF Effective, TypeOK
      <3>4. original'[u] = None
        <4>1. <<"thumb">> # <<"original", "thumb">>
          OBVIOUS
        <4> QED
          BY <2>2, <2>6, <4>1
      <3> QED
        BY <3>2, <3>3, <3>4
    <2> QED
      BY <2>2, <2>4, <2>5, <2>6
  <1>4. CASE DeleteRow(d)
    <2>1. row'[d] = row[d] /\ remove[d] = "row"
      BY <1>4 DEF DeleteRow
    <2>2. PICK o \in Outcomes :
            /\ avatars' = If(o, DeleteAvatarRow(avatars, u), avatars)
            /\ RemoveGoto(d, CASE o # "ok" -> "500"
                               [] o = "ok" /\ avatars[u] = None -> "404"
                               [] o = "ok" /\ avatars[u] # None -> "204")
      BY <1>4 DEF DeleteRow
    <2>3. /\ remove'[d] \in {"500", "404", "204"}
          /\ remove'[d] = "204" => o = "ok"
      BY <2>2 DEF RemoveGoto, TypeOK
    <2>4. o = "ok" => avatars'[u] = None
      BY <2>2, <1>u DEF If, Effective, DeleteAvatarRow, TypeOK
    <2> QED
      BY <2>1, <2>3, <2>4, <1>1
  <1>5. CASE UNCHANGED <<row[d], keys[d], remove[d]>>
    BY <1>5, <1>1
  <1>6. CASE UNCHANGED <<row[d], keys[d]>> /\ remove'[d] = "killed"
    BY <1>6
  <1> QED
    BY <1>2, <1>3, <1>4, <1>5, <1>6, RemoveSteps

\* The argument for DELETE, in the service.
LEMMA DeletedInvariant == Spec => [](HandsInv /\ OpenInv /\ DeletedInv)
  <1>1. Spec => [](HandsInv /\ OpenInv)
    <2>1. LedgerInv => OpenInv
      BY DEF LedgerInv
    <2> QED
      BY <2>1, ImplementsQueue, LedgerInvariant, HandsInvariant, PTL
  <1>2. /\ TypeOK /\ QueueInv /\ LedgerInv /\ BudgetInv /\ NoRework /\ SourceInv /\ CleanInv
        /\ TypeOK' /\ HandsInv /\ OpenInv /\ RowInv /\ DeletedInv /\ [Next]_vars
        => DeletedInv'
    <2> SUFFICES ASSUME TypeOK, QueueInv, LedgerInv, NoRework, SourceInv, TypeOK', HandsInv,
                        OpenInv, RowInv, DeletedInv, [Next]_vars
                 PROVE  DeletedInv'
      OBVIOUS
    <2>1. StopInv /\ AckedInv /\ ShownInv /\ KnownInv
      BY DEF RowInv, DeletedInv, LedgerInv
    <2>2. AckedInv'
      BY <2>1, AckedStep, StepRefines
    <2>3. ShownInv'
      BY <2>1, ShownStep
    <2> QED
      BY <2>1, <2>2, <2>3, OnceStep, PurgeStep DEF DeletedInv
  <1> QED
    BY <1>1, <1>2, DeletedInit, RowInvariant, ServiceFacts, PTL DEF Spec

\* A 204 for the finished avatar of the user's only upload leaves no row and no picture,
\* whatever other DELETEs do and wherever they fail, and without faults no staging object.
THEOREM DeletesAreComplete == Spec => []DeleteReadyLeavesNothing
  <1>1. ASSUME TypeOK, DeletedInv PROVE DeleteReadyLeavesNothing
    <2> USE <1>1
    <2> SUFFICES ASSUME Calm, NEW d \in Deletes, NEW u, u = DeleteUser[d],
                        remove[d] = "204", row[d].status = "ready", failures[row[d].image] = 0,
                        \A m \in Messages \ {row[d].image} : UserOf[m] = u => upload[m] = "new",
                        Quiet(u)
                 PROVE  /\ avatars[u] = None /\ original[u] = None /\ thumb[u] = None
                        /\ callFaults = 0 => row[d].image \notin staged
      BY DEF DeleteReadyLeavesNothing, Calm
    <2>1. Alone(d)
      BY DEF Alone, DeletedInv, ShownInv
    <2>2. row[d].image \in completed /\ UserOf[row[d].image] = u
      BY <2>1 DEF Alone, DeletedInv, ShownInv, FinishedImage
    <2>3. callFaults = 0 => row[d].image \notin staged
      BY <2>2 DEF DeletedInv, OnceInv, CleaningUp, Quiet, Message
    <2> QED
      BY <2>1, <2>3 DEF DeletedInv, PurgeInv
  <1> QED
    BY <1>1, DeletedInvariant, ServiceFacts, PTL

-----------------------------------------------------------------------------
(***************************************************************************)
(* The last upload wins.  While all is well, an upload that can be decoded *)
(* is never retried (SoundInv), so the tasks of a user reach the worker in *)
(* the order in which the user's requests put them into the queue, and the *)
(* row is that of the last one (SmoothInv): as long as the task of an      *)
(* older upload is in the queue, nobody has touched the last one           *)
(* (OrderInv), and afterwards nobody overwrites the picture that the last  *)
(* one has written (EndInv).  Only tasks that cannot be decoded come back  *)
(* later, and all they write is the status: processing, and failed in the  *)
(* end.                                                                    *)
(***************************************************************************)
AllWell == NoFault /\ restarts = 0

Active(m) == upload[m] \notin Answered \union {"new"}

LastUpload(u) == avatars[u].messageID

\* The users in question: they have a row, and no DELETE has read it.
Owns(u) == avatars[u] # None /\ ~Purged(u)

AloneInv ==
    \A m, n \in Messages : UserOf[m] = UserOf[n] /\ Active(m) /\ Active(n) => m = n

DecodedInv ==
    /\ processed \subseteq completed
    /\ completed \intersect Corrupt = {}
    /\ \A w \in Workers :
         /\ pc[w] = "mark" => Message(w) \in completed
         /\ step[w] \in {"original", "thumb", "ready"} => Message(w) \notin Corrupt

SmoothInv ==
    AllWell =>
        /\ publisher = "open" /\ gone = {}
        /\ \A m \in Messages :
             /\ upload[m] \in {"new", "stage", "upsert", "publish", "202"}
             /\ upload[m] = "202" => m \in published
             /\ upload[m] = "publish" /\ ~Purged(UserOf[m]) =>
                  Owns(UserOf[m]) /\ LastUpload(UserOf[m]) = m

SoundInv ==
    AllWell => \A n \in Messages \ Corrupt : ~Purged(UserOf[n]) =>
        /\ failures[n] = 0
        /\ \A w \in Workers : pc[w] # "receive" /\ Message(w) = n =>
             pc[w] # "retry" /\ step[w] # "failed"

\* The task of an older upload of the user, which can be decoded.
Overtaken(c, u) == UserOf[c.id] = u /\ c.id \notin Corrupt /\ c.id # LastUpload(u)

Unbegun(m) ==
    m \notin completed /\ failures[m] = 0 /\ \A w \in Workers : pc[w] # "receive" => Message(w) # m

OrderInv ==
    AllWell => \A u \in Users : Owns(u) => \A c \in copies : Overtaken(c, u) =>
        /\ Unbegun(LastUpload(u))
        /\ \A d \in copies : d.id = LastUpload(u) => c.pos < d.pos

\* Handle is about to find, or has found, that it cannot decode an upload of the user.
Failing(w, u) == pc[w] = "handle" /\ step[w] \in {"download", "failed"} /\ User(w) = u

\* The status of the user's row is failed, or is about to be.
Spoilt(u) == avatars[u].status = "failed" \/ \E w \in Workers : Failing(w, u)

Pictured(u, m) == avatars[u].image = m /\ original[u] = m /\ thumb[u] = m

EndInv ==
    AllWell => \A u \in Users : Owns(u) =>
        LET m == LastUpload(u)
        IN /\ m \in Corrupt /\ failures[m] > 0 => Spoilt(u)
           /\ m \in completed =>
                /\ Pictured(u, m)
                /\ avatars[u].status = "ready" \/ (Undecodable(u) # {} /\ Spoilt(u))

LastInv == AloneInv /\ DecodedInv /\ SmoothInv /\ SoundInv /\ OrderInv /\ EndInv

-----------------------------------------------------------------------------
\* Before the first upload there is nothing to overtake.
LEMMA LastInit == Init => LastInv
  BY DEF Init, QueueInit, LastInv, AloneInv, Active, DecodedInv, SmoothInv, SoundInv, OrderInv,
         EndInv, Owns

\* What is well has been well.
LEMMA WellBefore ==
    ASSUME TypeOK, TypeOK', [Next]_vars, AllWell'
    PROVE  AllWell /\ faults' = 0 /\ callFaults' = 0
  <1>1. faults' = 0 /\ callFaults' = 0 /\ restarts' = 0
    BY DEF AllWell, NoFault
  <1>2. NoFault
    BY Onwards DEF AllWell
  <1> QED
    BY <1>1, <1>2, FaultFree, StepRefines DEF AllWell, TypeOK

\* A DELETE that has read its row has read it for ever.
LEMMA PurgedStays ==
    ASSUME TypeOK, ShownInv, [Next]_vars, NEW u \in Users, Purged(u)
    PROVE  Purged(u)'
  <1>1. PICK d \in Deletes : DeleteUser[d] = u /\ row[d] # None
    BY DEF Purged
  <1>2. CASE ReadRow(d)
    BY <1>1, <1>2 DEF ReadRow, Purged, TypeOK
  <1>3. CASE DeleteObject(d) \/ DeleteRow(d) \/ row'[d] = row[d]
    BY <1>1, <1>3 DEF DeleteObject, DeleteRow, Purged
  <1> QED
    BY <1>2, <1>3, RemoveSteps

\* A statement that writes a row does not remove one.
LEMMA RowsRemain ==
    ASSUME TypeOK, NEW u \in Users, NEW v \in Users, avatars[u] # None
    PROVE  /\ \A m \in Messages : UpsertAvatar(avatars, v, m)[u] # None
           /\ \A s \in Statuses : UpdateAvatarStatus(avatars, v, s)[u] # None
           /\ \A m \in Messages : MarkAvatarReady(avatars, v, m)[u] # None
  <1>1. ASSUME NEW m \in Messages PROVE UpsertAvatar(avatars, v, m)[u] # None
    <2>1. [status |-> "pending", stagingKey |-> m, image |-> None, messageID |-> m]
             \in Row(Messages)
      BY DEF Row, Statuses
    <2> QED
      BY <2>1, AvatarsAssumption DEF UpsertAvatar, TypeOK
  <1>2. ASSUME NEW s \in Statuses PROVE UpdateAvatarStatus(avatars, v, s)[u] # None
    <2>1. avatars[u] \in Row(Messages) /\ avatars[u] # None
      BY DEF TypeOK
    <2>2. [avatars[u] EXCEPT !.status = s] \in Row(Messages)
      BY <2>1 DEF Row
    <2>3. [avatars[u] EXCEPT !.status = s] # None
      BY <2>2, AvatarsAssumption
    <2>4. UpdateAvatarStatus(avatars, v, s)[u] \in {avatars[u], [avatars[u] EXCEPT !.status = s]}
      BY DEF UpdateAvatarStatus, TypeOK
    <2> QED
      BY <2>1, <2>3, <2>4
  <1>3. ASSUME NEW m \in Messages PROVE MarkAvatarReady(avatars, v, m)[u] # None
    <2> DEFINE r == [avatars[u] EXCEPT !.status = "ready", !.stagingKey = None, !.image = m]
    <2>1. avatars[u] \in Row(Messages) /\ avatars[u] # None
      BY DEF TypeOK
    <2>2. r \in Row(Messages)
      BY <2>1 DEF Row, Statuses
    <2>3. r # None
      BY <2>2, AvatarsAssumption
    <2>4. MarkAvatarReady(avatars, v, m)[u] \in {avatars[u], r}
      BY DEF MarkAvatarReady, TypeOK
    <2> QED
      BY <2>1, <2>3, <2>4
  <1> QED
    BY <1>1, <1>2, <1>3

\* Only a DELETE that has read the row removes it.
LEMMA RowLeaves ==
    ASSUME TypeOK, QueueInv, ShownInv, [Next]_vars, NEW u \in Users, avatars[u] # None,
           avatars'[u] = None
    PROVE  Purged(u)
  <1>1. ASSUME NEW d \in Deletes, DeleteRow(d) PROVE Purged(u)
    <2>1. row[d] # None
      BY <1>1 DEF DeleteRow, ShownInv
    <2>2. DeleteUser[d] = u
      BY <1>1, AvatarsAssumption DEF DeleteRow, If, DeleteAvatarRow, TypeOK
    <2> QED
      BY <2>1, <2>2 DEF Purged
  <1>2. ASSUME NEW m \in Messages, StartUpload(m) \/ UploadAvatar(m) \/ ClientGone(m) PROVE FALSE
    <2>1. \/ avatars' = avatars
          \/ avatars' = UpsertAvatar(avatars, UserOf[m], m)
          \/ avatars' = UpdateAvatarStatus(avatars, UserOf[m], "failed")
      BY <1>2
      DEF StartUpload, UploadAvatar, StageUpload, SaveMetadata, Enqueue, Unstage, FailUpload,
          ClientGone, If, storeVars
    <2>2. UserOf[m] \in Users /\ "failed" \in Statuses
      BY AvatarsAssumption DEF Statuses
    <2> QED
      BY <2>1, <2>2, RowsRemain
  <1>3. ASSUME NEW w \in Workers, Handle(w) PROVE FALSE
    <2>1. \/ avatars' = avatars
          \/ \E s \in {"processing", "failed"} :
               avatars' = UpdateAvatarStatus(avatars, User(w), s)
          \/ avatars' = MarkAvatarReady(avatars, User(w), Message(w))
      BY <1>3
      DEF Handle, SetProcessing, DownloadAndProcess, PutOriginal, PutThumb, SetReady,
          Cleanup, SetFailed, If, storeVars
    <2>2. /\ Message(w) \in Messages /\ User(w) \in Users
          /\ {"processing", "failed"} \subseteq Statuses
      <3>1. pc[w] = "handle"
        BY <1>3
        DEF Handle, SetProcessing, DownloadAndProcess, PutOriginal, PutThumb, SetReady,
            Cleanup, SetFailed, Handling
      <3> QED
        BY <3>1, HandledMessage DEF Statuses
    <2> QED
      BY <2>1, <2>2, RowsRemain
  <1>4. ASSUME \/ \E d \in Deletes : ReadRow(d) \/ DeleteObject(d)
               \/ ApiRestart
               \/ \E w \in Workers : WorkerCrash(w)
               \/ QueueStep
               \/ UNCHANGED vars
        PROVE  FALSE
    BY <1>4
    DEF ReadRow, DeleteObject, ApiRestart, WorkerCrash, QueueStep, vars, avatarVars, storeVars
  <1> QED
    BY <1>1, <1>2, <1>3, <1>4 DEF Next, DeleteAvatar

\* A row belongs to the upload it belonged to, or to the one that has just been saved.
LEMMA OwnerSteps ==
    ASSUME TypeOK, QueueInv, ShownInv, [Next]_vars, NEW u \in Users, Owns(u)'
    PROVE  /\ ~Purged(u)
           /\ \/ Owns(u) /\ LastUpload(u)' = LastUpload(u)
              \/ \E m \in Messages : SaveMetadata(m) /\ u = UserOf[m] /\ LastUpload(u)' = m
  <1>1. ~Purged(u)
    BY PurgedStays DEF Owns
  <1>2. avatars'[u] # None
    BY DEF Owns
  <1> QED
    BY <1>1, <1>2, RowSteps DEF Owns, LastUpload, Written

\* What Handle does when its calls succeed.
LEMMA HandleWell ==
    ASSUME TypeOK, StopInv, AllWell, callFaults' = 0, NEW w \in Workers, Handle(w)
    PROVE  /\ pc[w] = "handle"
           /\ \/ /\ step[w] = "processing" /\ Advance(w, "download")
                 /\ avatars' = UpdateAvatarStatus(avatars, User(w), "processing")
                 /\ UNCHANGED <<original, thumb, completed>>
              \/ /\ step[w] = "download" /\ UNCHANGED <<avatars, original, thumb, completed>>
                 /\ Advance(w, IF Message(w) \in staged \ Corrupt THEN "original" ELSE "failed")
              \/ /\ step[w] = "original" /\ Advance(w, "thumb")
                 /\ original' = [original EXCEPT ![User(w)] = Message(w)]
                 /\ UNCHANGED <<avatars, thumb, completed>>
              \/ /\ step[w] = "thumb" /\ Advance(w, "ready")
                 /\ thumb' = [thumb EXCEPT ![User(w)] = Message(w)]
                 /\ UNCHANGED <<avatars, original, completed>>
              \/ /\ step[w] = "ready" /\ Advance(w, "cleanup")
                 /\ avatars' = MarkAvatarReady(avatars, User(w), Message(w))
                 /\ completed' = completed \union {Message(w)}
                 /\ UNCHANGED <<original, thumb>>
              \/ /\ step[w] = "cleanup" /\ HandleReturns(w, FALSE)
                 /\ UNCHANGED <<avatars, original, thumb, completed>>
              \/ /\ step[w] = "failed" /\ HandleReturns(w, TRUE)
                 /\ avatars' = UpdateAvatarStatus(avatars, User(w), "failed")
                 /\ UNCHANGED <<original, thumb, completed>>
  <1>n. NoFault
    BY DEF AllWell
  <1>e. Effective("ok")
    BY DEF Effective
  <1>1. CASE SetProcessing(w)
    <2>1. PICK o \in Outcomes :
            /\ ServiceCall(w, "db", o)
            /\ avatars' = If(o, UpdateAvatarStatus(avatars, User(w), "processing"), avatars)
            /\ IF o = "ok" THEN Advance(w, "download") ELSE HandleReturns(w, TRUE)
      BY <1>1 DEF SetProcessing
    <2>2. o = "ok"
      BY <1>n, <2>1, CallSucceeds
    <2> QED
      BY <1>1, <1>e, <2>1, <2>2 DEF SetProcessing, Handling, If
  <1>2. CASE DownloadAndProcess(w)
    <2>1. PICK o \in {"ok", "err"} :
            /\ ServiceCall(w, "s3", o)
            /\ Advance(w, IF o = "ok" /\ Message(w) \in staged \ Corrupt
                            THEN "original" ELSE "failed")
      BY <1>2 DEF DownloadAndProcess
    <2>2. o = "ok"
      BY <1>n, <2>1, CallSucceeds
    <2> QED
      BY <1>2, <2>1, <2>2 DEF DownloadAndProcess, Handling, storeVars
  <1>3. CASE PutOriginal(w)
    <2>1. PICK o \in Outcomes :
            /\ ServiceCall(w, "s3", o)
            /\ original' = If(o, [original EXCEPT ![User(w)] = Message(w)], original)
            /\ Advance(w, IF o = "ok" THEN "thumb" ELSE "failed")
      BY <1>3 DEF PutOriginal
    <2>2. o = "ok"
      BY <1>n, <2>1, CallSucceeds
    <2> QED
      BY <1>3, <1>e, <2>1, <2>2 DEF PutOriginal, Handling, If
  <1>4. CASE PutThumb(w)
    <2>1. PICK o \in Outcomes :
            /\ ServiceCall(w, "s3", o)
            /\ thumb' = If(o, [thumb EXCEPT ![User(w)] = Message(w)], thumb)
            /\ Advance(w, IF o = "ok" THEN "ready" ELSE "failed")
      BY <1>4 DEF PutThumb
    <2>2. o = "ok"
      BY <1>n, <2>1, CallSucceeds
    <2> QED
      BY <1>4, <1>e, <2>1, <2>2 DEF PutThumb, Handling, If
  <1>5. CASE SetReady(w)
    <2>1. PICK o \in Outcomes :
            /\ ServiceCall(w, "db", o)
            /\ avatars' = If(o, MarkAvatarReady(avatars, User(w), Message(w)), avatars)
            /\ completed' = If(o, completed \union {Message(w)}, completed)
            /\ IF o = "ok" THEN Advance(w, "cleanup") ELSE HandleReturns(w, TRUE)
      BY <1>5 DEF SetReady
    <2>2. o = "ok"
      BY <1>n, <2>1, CallSucceeds
    <2> QED
      BY <1>5, <1>e, <2>1, <2>2 DEF SetReady, Handling, If
  <1>6. CASE Cleanup(w)
    BY <1>6 DEF Cleanup, Handling
  <1>7. CASE SetFailed(w)
    <2>1. PICK o \in Outcomes :
            /\ ServiceCall(w, "db", o)
            /\ avatars' = If(o, UpdateAvatarStatus(avatars, User(w), "failed"), avatars)
      BY <1>7 DEF SetFailed
    <2>2. o = "ok"
      BY <1>n, <2>1, CallSucceeds
    <2> QED
      BY <1>7, <1>e, <2>1, <2>2 DEF SetFailed, Handling, If
  <1> QED
    BY <1>1, <1>2, <1>3, <1>4, <1>5, <1>6, <1>7 DEF Handle

\* A copy comes into the queues at their tail: as a new task, or as one that has failed.
LEMMA NewCopies ==
    ASSUME QueueInv, Malformed = {}, [QueueNext]_queueVars, NEW c \in copies', c \notin copies
    PROVE  /\ c.pos = nextPos
           /\ (\E m \in Messages : PublishAvatarProcess(m) /\ c.id = m) \/ failures[c.id] > 0
  <1>q. QueueTypeOK
    BY DEF QueueInv
  <1>1. ASSUME NEW m \in Messages, PublishAvatarProcess(m) PROVE c.pos = nextPos /\ c.id = m
    BY <1>1 DEF PublishAvatarProcess, CopyAt
  <1>2. ASSUME NEW w \in Workers, SendToRetry(w) PROVE c.pos = nextPos /\ failures[c.id] > 0
    <2>1. pc[w] = "retry"
      BY <1>2 DEF SendToRetry
    <2>2. delivery[w] \in Copy /\ failures[delivery[w].id] >= delivery[w].retry + 1
      BY <2>1 DEF QueueInv, HoldInv, EarnedInv
    <2>3. c = RetryCopy(delivery[w].id, RetryCount(delivery[w]) + 1)
      BY <1>2 DEF SendToRetry, NackRequeue
    <2>4. c.pos = nextPos /\ c.id = delivery[w].id
      BY <2>3 DEF RetryCopy, CopyAt
    <2>5. delivery[w].retry \in Nat /\ failures[delivery[w].id] \in Nat
      BY <2>2, <1>q DEF Copy, QueueTypeOK
    <2> QED
      BY <2>2, <2>4, <2>5
  <1>3. ASSUME NEW w \in Workers,
               \/ Deliver(w) \/ RejectMalformed(w) \/ IsProcessed(w) \/ MarkProcessed(w)
               \/ AckDelivery(w) \/ ConsumeReturns(w)
               \/ \E failed \in BOOLEAN : HandlerReturns(w, failed)
        PROVE  FALSE
    BY <1>3
    DEF Deliver, RejectMalformed, IsProcessed, MarkProcessed, AckDelivery, ConsumeReturns,
        HandlerReturns, Ack, NackRequeue, brokerVars
  <1>4. ASSUME NEW q \in RetryQueues, Expire(q) PROVE c.pos = nextPos /\ failures[c.id] > 0
    <2>1. PICK d \in copies : d.queue = q /\ copies' = (copies \ {d}) \union {DeadLettered(d)}
      BY <1>4 DEF Expire, IsHead, Ready
    <2>2. c = DeadLettered(d)
      BY <2>1
    <2>3. d \in Copy
      BY <1>q DEF QueueTypeOK
    <2>4. failures[d.id] >= d.retry /\ d.retry >= 1
      BY <2>1 DEF QueueInv, EarnedInv, RetriesEarned, RetryQueues
    <2>5. d.retry \in Nat /\ failures[d.id] \in Nat
      BY <2>3, <1>q DEF Copy, QueueTypeOK
    <2>6. c.pos = nextPos /\ c.id = d.id
      BY <2>2 DEF DeadLettered, CopyAt
    <2> QED
      BY <2>4, <2>5, <2>6
  <1>5. ASSUME \/ PublisherRestart \/ UNCHANGED queueVars
               \/ PublisherLost \/ BrokerRestart
               \/ \E w \in Workers : Shutdown(w) \/ Crash(w) \/ ConnectionLost(w)
        PROVE  FALSE
    BY <1>5
    DEF PublisherRestart, PublisherLost, BrokerRestart, Shutdown, Crash, ConnectionLost,
        queueVars, brokerVars
  <1> QED
    BY <1>1, <1>2, <1>3, <1>4, <1>5 DEF QueueNext, Consumer, Environment

-----------------------------------------------------------------------------
\* A user who waits for each answer has one request at a time.
LEMMA AloneStep ==
    ASSUME TypeOK, AloneInv, [Next]_vars, Overlapping = FALSE
    PROVE  AloneInv'
  <1>1. ASSUME NEW k \in Messages, StartUpload(k) PROVE AloneInv'
    <2>1. /\ \A n \in Messages : UserOf[n] = UserOf[k] => ~Active(n)
          /\ upload' = [upload EXCEPT ![k] = "stage"]
      BY <1>1 DEF StartUpload, UploadGoto, Active
    <2>2. \A n \in Messages \ {k} : Active(n)' <=> Active(n)
      BY <2>1 DEF Active, TypeOK
    <2> SUFFICES ASSUME NEW m \in Messages, NEW n \in Messages, UserOf[m] = UserOf[n],
                        Active(m)', Active(n)'
                 PROVE  m = n
      BY DEF AloneInv
    <2> QED
      BY <2>1, <2>2 DEF AloneInv
  <1>2. ASSUME \A m \in Messages : Active(m)' => Active(m) PROVE AloneInv'
    BY <1>2 DEF AloneInv
  <1>3. ASSUME NEW k \in Messages, UploadAvatar(k) PROVE \A m \in Messages : Active(m)' => Active(m)
    BY <1>3
    DEF UploadAvatar, StageUpload, SaveMetadata, Enqueue, Unstage, FailUpload, UploadGoto,
        Active, Answered, TypeOK
  <1>4. ASSUME \/ \E m \in Messages : ClientGone(m)
               \/ \E d \in Deletes : DeleteAvatar(d)
               \/ ApiRestart
               \/ \E w \in Workers : Handle(w) \/ WorkerCrash(w)
               \/ QueueStep
               \/ UNCHANGED vars
        PROVE  \A m \in Messages : Active(m)' => Active(m)
    <2>1. CASE ApiRestart
      BY <2>1 DEF ApiRestart, Active, Answered
    <2>2. CASE ~ApiRestart
      <3>1. upload' = upload
        BY <1>4, <2>2
        DEF ClientGone, DeleteAvatar, ReadRow, DeleteObject, DeleteRow, Handle, SetProcessing,
            DownloadAndProcess, PutOriginal, PutThumb, SetReady, Cleanup, SetFailed,
            WorkerCrash, QueueStep, vars, avatarVars, uploadVars
      <3> QED
        BY <3>1 DEF Active
    <2> QED
      BY <2>1, <2>2
  <1> QED
    BY <1>1, <1>2, <1>3, <1>4 DEF Next

\* What is recorded as processed was made ready, and what is made ready could be decoded.
LEMMA DecodedStep ==
    ASSUME TypeOK, TypeOK', SourceInv, SourceInv', DecodedInv, [Next]_vars
    PROVE  DecodedInv'
  <1>s. /\ processed' \subseteq Messages /\ completed \subseteq Messages /\ StepInv /\ StepInv'
        /\ completed' \subseteq Messages
    BY DEF TypeOK, QueueTypeOK, SourceInv
  <1>1. processed' \subseteq completed'
    <2> SUFFICES ASSUME NEW m \in processed' PROVE m \in completed'
      OBVIOUS
    <2>1. m \in completed
      BY <1>s, Outcome DEF DecodedInv
    <2> QED
      BY <1>s, <2>1, History
  <1>2. completed' \intersect Corrupt = {}
    <2> SUFFICES ASSUME NEW m \in completed', m \notin completed PROVE m \notin Corrupt
      BY DEF DecodedInv
    <2>1. PICK w \in Workers : SetReady(w) /\ Message(w) = m
      BY <1>s, History
    <2> QED
      BY <2>1 DEF SetReady, Handling, DecodedInv
  <1>3. ASSUME NEW w \in Workers, pc'[w] = "mark" PROVE Message(w)' \in completed'
    <2>1. /\ pc[w] # "receive" /\ delivery'[w] = delivery[w]
          /\ Handle(w) \/ pc[w] = "mark"
      BY <1>3, WorkerSteps
    <2>2. Message(w) \in completed
      <3>1. CASE pc[w] = "mark"
        BY <3>1 DEF DecodedInv
      <3>2. CASE Handle(w)
        <4>1. step[w] = "cleanup"
          BY <3>2, <1>3
          DEF Handle, SetProcessing, DownloadAndProcess, PutOriginal, PutThumb, SetReady,
              Cleanup, SetFailed, HandleReturns, HandlerReturns, Goto, Advance, Handling,
              queueVars, consumerVars, TypeOK, QueueTypeOK
        <4> QED
          BY <4>1, <1>s DEF StepInv, Message
      <3> QED
        BY <2>1, <3>1, <3>2
    <2>3. Message(w)' = Message(w)
      BY <2>1 DEF Message
    <2> QED
      BY <1>s, <2>2, <2>3, History
  <1>4. ASSUME NEW w \in Workers, step'[w] \in {"original", "thumb", "ready"}
        PROVE  Message(w)' \notin Corrupt
    <2>1. pc'[w] # "receive"
      BY <1>4, <1>s DEF StepInv
    <2>2. /\ delivery'[w] = delivery[w]
          /\ Handle(w) \/ step'[w] = step[w]
      BY <1>4, <2>1, WorkerSteps
    <2>3. Message(w) \notin Corrupt
      <3>1. CASE step'[w] = step[w]
        BY <1>4, <3>1 DEF DecodedInv
      <3>2. CASE Handle(w)
        <4>1. CASE DownloadAndProcess(w)
          BY <4>1, <1>4 DEF DownloadAndProcess, Advance, TypeOK
        <4>2. CASE SetProcessing(w) \/ SetReady(w) \/ Cleanup(w) \/ SetFailed(w)
          BY <4>2, <1>4 DEF SetProcessing, SetReady, Cleanup, SetFailed, HandleReturns, Advance,
                            TypeOK
        <4>3. CASE PutOriginal(w) \/ PutThumb(w)
          BY <4>3 DEF PutOriginal, PutThumb, Handling, DecodedInv
        <4> QED
          BY <3>2, <4>1, <4>2, <4>3 DEF Handle
      <3> QED
        BY <2>2, <3>1, <3>2
    <2> QED
      BY <2>2, <2>3 DEF Message
  <1> QED
    BY <1>1, <1>2, <1>3, <1>4 DEF DecodedInv

\* While all is well, uploads reach the queue in the order in which they write the row.
LEMMA SmoothStep ==
    ASSUME TypeOK, TypeOK', QueueInv, SourceInv, ShownInv, AloneInv, SmoothInv, [Next]_vars
    PROVE  SmoothInv'
  <1> SUFFICES ASSUME AllWell'
               PROVE  /\ publisher' = "open" /\ gone' = {}
                      /\ \A m \in Messages :
                           /\ upload'[m] \in {"new", "stage", "upsert", "publish", "202"}
                           /\ upload'[m] = "202" => m \in published'
                           /\ upload'[m] = "publish" /\ ~Purged(UserOf[m])' =>
                                Owns(UserOf[m])' /\ LastUpload(UserOf[m])' = m
    BY DEF SmoothInv
  <1>w. AllWell /\ faults' = 0 /\ callFaults' = 0 /\ restarts' = 0
    BY WellBefore DEF AllWell
  <1>q. QueueTypeOK /\ callFaults \in Nat
    BY DEF TypeOK
  <1>0. /\ publisher = "open" /\ gone = {}
        /\ \A m \in Messages :
             /\ upload[m] \in {"new", "stage", "upsert", "publish", "202"}
             /\ upload[m] = "202" => m \in published
    BY <1>w DEF SmoothInv
  <1>p. publisher' = "open"
    <2>1. CASE \/ \E w \in Workers : Consumer(w) \/ ConsumeReturns(w)
               \/ \E w \in Workers, failed \in BOOLEAN : HandlerReturns(w, failed)
      BY <1>0, <2>1
      DEF Consumer, Deliver, RejectMalformed, IsProcessed, SendToRetry, MarkProcessed,
          AckDelivery, ConsumeReturns, HandlerReturns, brokerVars
    <2>2. CASE Environment
      BY <1>0, <1>w, <1>q, <2>2
      DEF Environment, PublisherLost, Expire, Shutdown, Crash, ConnectionLost, BrokerRestart,
          Fault, AllWell, NoFault, brokerVars, QueueTypeOK
    <2>3. CASE (\E m \in Messages : PublishAvatarProcess(m)) \/ PublisherRestart
               \/ UNCHANGED queueVars
      BY <1>0, <2>3 DEF PublishAvatarProcess, PublisherRestart, queueVars, brokerVars
    <2> QED
      BY <2>1, <2>2, <2>3, StepRefines DEF QueueNext
  <1>k. ~\E m \in Messages : ClientGone(m)
    BY <1>w, <1>q DEF ClientGone, CallFault
  <1>a. ~ApiRestart
    BY <1>0, <1>w, <1>q DEF ApiRestart, CallFault, PublisherRestart
  <1>g. gone' = {}
    <2>1. ASSUME NEW m \in Messages, StartUpload(m) \/ UploadAvatar(m) PROVE gone' = gone
      BY <2>1 DEF StartUpload, UploadAvatar, StageUpload, SaveMetadata, Enqueue, Unstage, FailUpload
    <2>2. ASSUME \/ \E d \in Deletes : DeleteAvatar(d)
                 \/ \E w \in Workers : Handle(w) \/ WorkerCrash(w)
                 \/ QueueStep
                 \/ UNCHANGED vars
          PROVE  gone' = gone
      BY <2>2
      DEF DeleteAvatar, ReadRow, DeleteObject, DeleteRow, Handle, SetProcessing,
          DownloadAndProcess, PutOriginal, PutThumb, SetReady, Cleanup, SetFailed,
          WorkerCrash, QueueStep, vars, avatarVars, uploadVars
    <2> QED
      BY <1>0, <1>k, <1>a, <2>1, <2>2 DEF Next
  <1>r. ASSUME NEW k \in Messages, NEW kind, NEW o, Returns(kind, k \in gone, o)
        PROVE  o = "ok"
    BY <1>0, <1>w, <1>q, <1>r DEF Returns, CallFault
  <1>u. ASSUME NEW k \in Messages, StartUpload(k) \/ UploadAvatar(k)
        PROVE  \/ StartUpload(k) /\ upload' = [upload EXCEPT ![k] = "stage"]
               \/ StageUpload(k) /\ upload' = [upload EXCEPT ![k] = "upsert"]
               \/ /\ SaveMetadata(k) /\ upload' = [upload EXCEPT ![k] = "publish"]
                  /\ avatars' = UpsertAvatar(avatars, UserOf[k], k)
               \/ /\ Enqueue(k) /\ upload' = [upload EXCEPT ![k] = "202"]
                  /\ k \in published'
    <2>1. CASE StageUpload(k)
      <3>1. PICK o \in Outcomes :
              /\ Returns("s3", k \in gone, o)
              /\ UploadGoto(k, IF o = "ok" THEN "upsert" ELSE "500")
        BY <2>1 DEF StageUpload
      <3> QED
        BY <2>1, <3>1, <1>r DEF UploadGoto
    <2>2. CASE SaveMetadata(k)
      <3>1. PICK o \in Outcomes :
              /\ Returns("db", k \in gone, o)
              /\ avatars' = If(o, UpsertAvatar(avatars, UserOf[k], k), avatars)
              /\ UploadGoto(k, IF o = "ok" THEN "publish" ELSE "unstage")
        BY <2>2 DEF SaveMetadata
      <3>2. o = "ok"
        BY <3>1, <1>r
      <3> QED
        BY <2>2, <3>1, <3>2 DEF UploadGoto, If, Effective
    <2>3. CASE Enqueue(k)
      BY <2>3, <1>0, <1>p DEF Enqueue, UploadGoto, PublishAvatarProcess, PublisherLost
    <2>4. ~Unstage(k) /\ ~FailUpload(k)
      BY <1>0 DEF Unstage, FailUpload
    <2>5. StartUpload(k) => upload' = [upload EXCEPT ![k] = "stage"]
      BY DEF StartUpload, UploadGoto
    <2> QED
      BY <1>u, <2>1, <2>2, <2>3, <2>4, <2>5 DEF UploadAvatar
  <1>e. ASSUME ~\E k \in Messages : StartUpload(k) \/ UploadAvatar(k)
        PROVE  upload' = upload
    BY <1>e, <1>k, <1>a
    DEF Next, DeleteAvatar, ReadRow, DeleteObject, DeleteRow, Handle, SetProcessing,
        DownloadAndProcess, PutOriginal, PutThumb, SetReady, Cleanup, SetFailed,
        WorkerCrash, QueueStep, vars, avatarVars, uploadVars
  <1>1. ASSUME NEW m \in Messages
        PROVE  /\ upload'[m] \in {"new", "stage", "upsert", "publish", "202"}
               /\ upload'[m] = "202" => m \in published'
               /\ upload'[m] = "publish" => upload[m] = "publish" \/ SaveMetadata(m)
    <2>1. CASE ~\E k \in Messages : StartUpload(k) \/ UploadAvatar(k)
      BY <1>0, <1>e, <2>1, Onwards
    <2>2. ASSUME NEW k \in Messages, StartUpload(k) \/ UploadAvatar(k)
          PROVE  /\ upload'[m] \in {"new", "stage", "upsert", "publish", "202"}
                 /\ upload'[m] = "202" => m \in published'
                 /\ upload'[m] = "publish" => upload[m] = "publish" \/ SaveMetadata(m)
      <3>1. published \subseteq published'
        BY Onwards
      <3>2. CASE k = m
        <4>1. \/ upload'[m] \in {"stage", "upsert"}
              \/ upload'[m] = "publish" /\ SaveMetadata(m)
              \/ upload'[m] = "202" /\ m \in published'
          <5>1. upload \in [Messages -> {"new", "stage", "upsert", "publish", "202"}]
            BY <1>0 DEF TypeOK
          <5> QED
            BY <1>u, <2>2, <3>2, <5>1
        <4> QED
          BY <4>1
      <3>3. CASE k # m
        <4>1. upload'[m] = upload[m]
          <5>1. \E r : upload' = [upload EXCEPT ![k] = r]
            BY <1>u, <2>2
          <5> QED
            BY <3>3, <5>1 DEF TypeOK
        <4> QED
          BY <1>0, <3>1, <4>1
      <3> QED
        BY <3>2, <3>3
    <2> QED
      BY <2>1, <2>2
  <1>2. ASSUME NEW m \in Messages, upload'[m] = "publish", ~Purged(UserOf[m])'
        PROVE  Owns(UserOf[m])' /\ LastUpload(UserOf[m])' = m
    <2> PICK u \in Users : u = UserOf[m]
      BY AvatarsAssumption
    <2>1. CASE SaveMetadata(m)
      <3>1. avatars' = UpsertAvatar(avatars, u, m)
        <4>1. UploadAvatar(m)
          BY <2>1 DEF UploadAvatar
        <4> QED
          BY <1>0, <1>u, <2>1, <4>1 DEF SaveMetadata, StartUpload, StageUpload, Enqueue
      <3>2. avatars'[u] # None /\ avatars'[u].messageID = m
        <4>1. avatars'[u] = [status |-> "pending", stagingKey |-> m, image |-> None,
                             messageID |-> m]
          BY <3>1 DEF UpsertAvatar, TypeOK
        <4>2. avatars'[u] \in Row(Messages)
          BY <4>1 DEF Row, Statuses
        <4> QED
          BY <4>1, <4>2, AvatarsAssumption
      <3> QED
        BY <1>2, <3>2 DEF Owns, LastUpload
    <2>2. CASE ~SaveMetadata(m)
      <3>1. upload[m] = "publish"
        BY <1>1, <1>2, <2>2
      <3>2. Owns(u) /\ LastUpload(u) = m
        BY <1>2, <1>w, <3>1, PurgedStays DEF SmoothInv
      <3>3. avatars'[u] # None
        BY <3>2, RowLeaves DEF Owns
      <3>4. Owns(u)'
        BY <1>2, <3>3 DEF Owns
      <3>5. ASSUME NEW k \in Messages, SaveMetadata(k), UserOf[k] = u PROVE k = m
        BY <3>1, <3>5 DEF SaveMetadata, AloneInv, Active, Answered
      <3> QED
        BY <2>2, <3>2, <3>4, <3>5, OwnerSteps
    <2> QED
      BY <2>1, <2>2
  <1> QED
    BY <1>p, <1>g, <1>1, <1>2

\* Without faults a worker that has a delivery owns a copy in the broker.
LEMMA OwnedCopies ==
    ASSUME QueueInv, HandsInv, OpenInv, AllWell, NEW w \in Workers, pc[w] # "receive"
    PROVE  w \in unacked /\ delivery[w] \in copies /\ Message(w) \in Messages
  <1>1. w \in unacked /\ delivery[w] \in copies
    BY DEF AllWell, NoFault, HandsInv, OpenInv, QueueInv, HoldInv
  <1> QED
    BY <1>1 DEF Message, QueueInv, QueueTypeOK, Copy

\* While all is well, an upload that can be decoded succeeds at its first attempt: its
\* source is there, for only the attempt that succeeded removes it.
LEMMA SoundStep ==
    ASSUME TypeOK, TypeOK', QueueInv, KnownInv, SourceInv, StopInv, ShownInv, OnceInv, SoundInv,
           [Next]_vars
    PROVE  SoundInv'
  <1> SUFFICES ASSUME AllWell', NEW n \in Messages \ Corrupt, ~Purged(UserOf[n])'
               PROVE  /\ failures'[n] = 0
                      /\ \A w \in Workers : pc'[w] # "receive" /\ Message(w)' = n =>
                           pc'[w] # "retry" /\ step'[w] # "failed"
    BY DEF SoundInv
  <1>w. AllWell /\ callFaults' = 0
    BY WellBefore
  <1>p. ~Purged(UserOf[n])
    BY PurgedStays, AvatarsAssumption
  <1>0. /\ failures[n] = 0
        /\ \A w \in Workers : pc[w] # "receive" /\ Message(w) = n =>
             pc[w] # "retry" /\ step[w] # "failed"
    BY <1>w, <1>p DEF SoundInv
  <1>h. ASSUME NEW w \in Workers, Handle(w), Message(w) = n
        PROVE  pc'[w] # "retry" /\ step'[w] # "failed"
    <2>1. pc[w] = "handle"
      BY <1>w, <1>h, HandleWell
    <2>2. step[w] # "failed"
      BY <1>0, <1>h, <2>1
    <2>3. step[w] = "download" => n \in staged \ Corrupt
      <3>1. n \in staged \union completed
        BY <1>h, <1>p, <2>1 DEF KnownInv, Message, SourceInv, SourceKept
      <3>2. n \in completed => step[w] = "cleanup"
        BY <1>0, <1>w, <1>h, <2>1 DEF OnceInv, Calm, AllWell, NoFault, CleaningUp
      <3> QED
        BY <3>1, <3>2
    <2>4. \/ \E label \in {"download", "original", "thumb", "ready", "cleanup"} : Advance(w, label)
          \/ HandleReturns(w, FALSE)
      BY <1>w, <1>h, <2>2, <2>3, HandleWell
    <2> QED
      BY <2>1, <2>4
      DEF Advance, HandleReturns, HandlerReturns, Goto, queueVars, consumerVars, TypeOK,
          QueueTypeOK
  <1>1. failures'[n] = 0
    BY <1>0, <1>h, Outcome
  <1>2. ASSUME NEW w \in Workers, pc'[w] # "receive", Message(w)' = n
        PROVE  pc'[w] # "retry" /\ step'[w] # "failed"
    <2>1. delivery'[w] = delivery[w] => Message(w) = n
      BY <1>2 DEF Message
    <2> QED
      BY <1>0, <1>h, <1>2, <2>1, WorkerSteps
  <1> QED
    BY <1>1, <1>2

\* Only a request that is about to publish puts a new task into the queue, and only the
\* broker's delivery gives a worker something to do.
LEMMA NewTasks ==
    ASSUME TypeOK, [Next]_vars
    PROVE  /\ \A k \in Messages : k \in published' \ published => upload[k] = "publish"
           /\ \A w \in Workers : pc[w] = "receive" /\ pc'[w] # "receive" => Deliver(w)
  <1>q. QueueTypeOK
    BY DEF TypeOK
  <1>1. ASSUME NEW k \in Messages, k \in published' \ published PROVE upload[k] = "publish"
    <2>1. ASSUME NEW m \in Messages, StartUpload(m) \/ UploadAvatar(m) \/ ClientGone(m)
          PROVE  upload[k] = "publish"
      BY <1>1, <2>1
      DEF StartUpload, UploadAvatar, StageUpload, SaveMetadata, Enqueue, Unstage, FailUpload,
          ClientGone, PublishAvatarProcess, PublisherLost, queueVars, historyVars
    <2>2. ASSUME \/ \E d \in Deletes : DeleteAvatar(d)
                 \/ ApiRestart
                 \/ \E w \in Workers : WorkerCrash(w)
                 \/ UNCHANGED vars
          PROVE  published' = published
      BY <2>2
      DEF DeleteAvatar, ReadRow, DeleteObject, DeleteRow, ApiRestart, PublisherRestart,
          WorkerCrash, Crash, vars, queueVars, historyVars
    <2>3. ASSUME NEW w \in Workers, Handle(w) PROVE published' = published
      BY <2>3, HandleSteps DEF HandlerReturns, queueVars, historyVars
    <2> QED
      BY <1>1, <1>q, <2>1, <2>2, <2>3, QueueSteps DEF Next
  <1>2. ASSUME NEW w \in Workers, pc[w] = "receive", pc'[w] # "receive" PROVE Deliver(w)
    <2>1. ASSUME NEW x \in Workers, Consumer(x) \/ ConsumeReturns(x) PROVE Deliver(w)
      BY <1>2, <1>q, <2>1
      DEF Consumer, Deliver, RejectMalformed, IsProcessed, SendToRetry, MarkProcessed,
          AckDelivery, ConsumeReturns, Return, Goto, QueueTypeOK
    <2>2. ASSUME NEW x \in Workers, NEW failed \in BOOLEAN, HandlerReturns(x, failed) PROVE FALSE
      BY <1>2, <1>q, <2>2 DEF HandlerReturns, Goto, QueueTypeOK
    <2>3. ASSUME Environment \/ PublisherRestart \/ UNCHANGED queueVars PROVE FALSE
      BY <1>2, <1>q, <2>3
      DEF Environment, PublisherLost, Expire, Shutdown, Crash, ConnectionLost, BrokerRestart,
          PublisherRestart, Return, queueVars, consumerVars, QueueTypeOK
    <2>4. ASSUME NEW m \in Messages, PublishAvatarProcess(m) PROVE FALSE
      BY <1>2, <2>4 DEF PublishAvatarProcess, consumerVars
    <2> QED
      BY <2>1, <2>2, <2>3, <2>4, StepRefines DEF QueueNext
  <1> QED
    BY <1>1, <1>2

\* The upload whose row has just been written is not in the queue yet.
LEMMA JustSaved ==
    ASSUME TypeOK, KnownInv, BudgetInv, SourceInv, ShownInv, NEW m \in Messages, SaveMetadata(m)
    PROVE  Unbegun(m)' /\ \A d \in copies' : d.id # m
  <1>1. m \notin published /\ UNCHANGED <<queueVars, step, completed>>
    BY DEF SaveMetadata, SourceInv, UploadInv, serviceVars
  <1>2. UNCHANGED <<copies, pc, delivery, failures>>
    BY <1>1 DEF queueVars, brokerVars, consumerVars, historyVars
  <1>3. Unbegun(m)
    BY <1>1, Untouched DEF ShownInv, Unbegun
  <1>4. \A d \in copies : d.id # m
    BY <1>1 DEF KnownInv
  <1> QED
    BY <1>1, <1>2, <1>3, <1>4 DEF Unbegun, Message

\* Nobody touches the last upload of a user while an older one is in the queue: positions
\* are those of the uploads, and the one worker takes the head of the queue.
LEMMA OrderStep ==
    ASSUME TypeOK, TypeOK', QueueInv, KnownInv, BudgetInv, SourceInv, ShownInv, SmoothInv,
           SoundInv, OwnInv, OrderInv, [Next]_vars, Malformed = {}, \A w, x \in Workers : w = x
    PROVE  OrderInv'
  <1> SUFFICES ASSUME AllWell', NEW u \in Users, Owns(u)', NEW c \in copies', Overtaken(c, u)'
               PROVE  /\ Unbegun(LastUpload(u))'
                      /\ \A d \in copies' : d.id = LastUpload(u)' => c.pos < d.pos
    BY DEF OrderInv
  <1>w. AllWell
    BY WellBefore
  <1>q. QueueTypeOK
    BY DEF TypeOK
  <1>1. ASSUME NEW m \in Messages, SaveMetadata(m), LastUpload(u)' = m
        PROVE  /\ Unbegun(LastUpload(u))'
               /\ \A d \in copies' : d.id = LastUpload(u)' => c.pos < d.pos
    BY <1>1, JustSaved DEF Unbegun, Message
  <1>2. CASE Owns(u) /\ LastUpload(u)' = LastUpload(u)
    <2> PICK m \in Messages : m = LastUpload(u)
      BY <1>2 DEF Owns, LastUpload, TypeOK, Row
    <2>c. UserOf[c.id] = u /\ c.id \in Messages \ Corrupt /\ c.id # m
      BY <1>2 DEF Overtaken, TypeOK, QueueTypeOK, Copy
    <2>f. failures[c.id] = 0 /\ ~Purged(u)
      BY <1>2, <1>w, <2>c DEF Owns, SoundInv
    <2>1. c \in copies
      <3> SUFFICES ASSUME c \notin copies PROVE FALSE
        OBVIOUS
      <3>1. PICK k \in Messages : PublishAvatarProcess(k) /\ c.id = k
        BY <2>f, NewCopies, StepRefines
      <3>2. upload[k] = "publish"
        BY <3>1, NewTasks DEF PublishAvatarProcess
      <3> QED
        BY <1>w, <2>c, <2>f, <3>1, <3>2 DEF SmoothInv
    <2>2. Unbegun(m) /\ \A d \in copies : d.id = m => c.pos < d.pos
      BY <1>2, <1>w, <2>c, <2>1 DEF OrderInv, Overtaken
    <2>3. ASSUME NEW d \in copies', d.id = m PROVE c.pos < d.pos
      BY <2>1, <2>2, <2>3, NewCopies, StepRefines DEF QueueInv, PosInv
    <2>4. \A w \in Workers : Handle(w) => Message(w) # m
      BY <2>2
      DEF Unbegun, Handle, SetProcessing, DownloadAndProcess, PutOriginal, PutThumb, SetReady,
          Cleanup, SetFailed, Handling
    <2>5. m \notin completed' /\ failures'[m] = 0
      BY <2>2, <2>4, History, Outcome DEF Unbegun, Handle
    <2>6. ASSUME NEW w \in Workers, pc'[w] # "receive", Message(w)' = m PROVE FALSE
      <3>1. pc[w] = "receive"
        BY <2>2, <2>6, WorkerSteps DEF Unbegun, Message
      <3>2. Deliver(w)
        BY <2>6, <3>1, NewTasks
      <3>3. PICK d \in copies : IsHead(d, QueueProcessing) /\ delivery'[w] = d
        BY <3>2, <1>q DEF Deliver, QueueTypeOK
      <3>4. c.queue = QueueProcessing
        BY <2>c, <2>f, <2>1, <1>q
        DEF QueueInv, EarnedInv, RetriesEarned, QueueTypeOK, Copy, Queues
      <3>5. c \in Ready(QueueProcessing)
        BY <2>1, <3>1, <3>4, <1>q DEF Ready, QueueInv, HoldInv, QueueTypeOK
      <3>6. d.pos <= c.pos /\ c.pos < d.pos
        BY <2>2, <2>6, <3>3, <3>5 DEF IsHead, Message
      <3> QED
        BY <2>1, <3>6, <1>q DEF QueueTypeOK, Copy
    <2> QED
      BY <1>2, <2>3, <2>5, <2>6 DEF Unbegun
  <1> QED
    BY <1>1, <1>2, OwnerSteps

\* While all is well, SaveMetadata succeeds.
LEMMA SavesWell ==
    ASSUME TypeOK, SmoothInv, AllWell, callFaults' = 0, NEW k \in Messages, SaveMetadata(k)
    PROVE  LastUpload(UserOf[k])' = k
  <1>1. PICK o \in Outcomes :
          /\ Returns("db", k \in gone, o)
          /\ avatars' = If(o, UpsertAvatar(avatars, UserOf[k], k), avatars)
    BY DEF SaveMetadata
  <1>2. o = "ok"
    BY <1>1 DEF Returns, CallFault, SmoothInv, TypeOK
  <1>3. avatars' = UpsertAvatar(avatars, UserOf[k], k)
    BY <1>1, <1>2 DEF If, Effective
  <1> QED
    BY <1>3, AvatarsAssumption DEF UpsertAvatar, LastUpload, TypeOK

\* Only requests of the user and workers at work for it change its row and its objects.
LEMMA OthersLeave ==
    ASSUME TypeOK, QueueInv, SourceInv, StopInv, SmoothInv, AllWell, callFaults' = 0, [Next]_vars,
           NEW u \in Users, ~Purged(u)', ~Purged(u), ShownInv,
           \A k \in Messages : SaveMetadata(k) => UserOf[k] # u,
           \A w \in Workers : Handle(w) /\ User(w) = u => step[w] = "cleanup"
    PROVE  UNCHANGED <<avatars[u], original[u], thumb[u]>>
  <1>1. ASSUME NEW m \in Messages, StartUpload(m) \/ UploadAvatar(m) \/ ClientGone(m)
        PROVE  UNCHANGED <<avatars[u], original[u], thumb[u]>>
    <2>1. ~FailUpload(m)
      BY DEF FailUpload, SmoothInv
    <2>2. CASE SaveMetadata(m)
      <3>1. UserOf[m] \in Users \ {u}
        BY <2>2, AvatarsAssumption
      <3> QED
        BY <2>2, <3>1 DEF SaveMetadata, If, UpsertAvatar, TypeOK
    <2>3. CASE StartUpload(m) \/ StageUpload(m) \/ Enqueue(m) \/ Unstage(m) \/ ClientGone(m)
      BY <2>3 DEF StartUpload, StageUpload, Enqueue, Unstage, ClientGone, storeVars
    <2> QED
      BY <1>1, <2>1, <2>2, <2>3 DEF UploadAvatar
  <1>2. ASSUME NEW d \in Deletes, DeleteAvatar(d)
        PROVE  UNCHANGED <<avatars[u], original[u], thumb[u]>>
    <2>1. CASE ReadRow(d)
      BY <2>1 DEF ReadRow, storeVars
    <2>2. CASE DeleteObject(d) \/ DeleteRow(d)
      <3>1. DeleteUser[d] \in Users \ {u}
        BY <2>2, AvatarsAssumption DEF DeleteObject, DeleteRow, ShownInv, Purged
      <3>2. CASE DeleteObject(d)
        BY <3>1, <3>2 DEF DeleteObject, TypeOK
      <3>3. CASE DeleteRow(d)
        BY <3>1, <3>3 DEF DeleteRow, If, DeleteAvatarRow, TypeOK
      <3> QED
        BY <2>2, <3>2, <3>3
    <2> QED
      BY <1>2, <2>1, <2>2 DEF DeleteAvatar
  <1>3. ASSUME NEW w \in Workers, Handle(w)
        PROVE  UNCHANGED <<avatars[u], original[u], thumb[u]>>
    <2>1. pc[w] = "handle"
      BY <1>3, HandleWell
    <2>2. Message(w) \in Messages /\ User(w) \in Users
      BY <2>1, HandledMessage
    <2>3. CASE User(w) = u
      BY <1>3, <2>3, HandleWell
    <2>4. CASE User(w) # u
      <3>1. /\ original' = original \/ original' = [original EXCEPT ![User(w)] = Message(w)]
            /\ thumb' = thumb \/ thumb' = [thumb EXCEPT ![User(w)] = Message(w)]
            /\ \/ avatars' = avatars
               \/ \E s \in {"processing", "failed"} :
                    avatars' = UpdateAvatarStatus(avatars, User(w), s)
               \/ avatars' = MarkAvatarReady(avatars, User(w), Message(w))
        BY <1>3, HandleWell
      <3> QED
        BY <2>2, <2>4, <3>1 DEF UpdateAvatarStatus, MarkAvatarReady, TypeOK
    <2> QED
      BY <2>3, <2>4
  <1>4. ASSUME \/ ApiRestart
               \/ \E w \in Workers : WorkerCrash(w)
               \/ QueueStep
               \/ UNCHANGED vars
        PROVE  UNCHANGED <<avatars[u], original[u], thumb[u]>>
    BY <1>4 DEF ApiRestart, WorkerCrash, QueueStep, vars, avatarVars, storeVars
  <1> QED
    BY <1>1, <1>2, <1>3, <1>4 DEF Next

\* What an upload that cannot be decoded leaves: its last attempt writes failed, and those
\* of other such uploads do the same; one that can be decoded would have come first.
LEMMA FailedStep ==
    ASSUME TypeOK, TypeOK', QueueInv, SourceInv, HandsInv, OpenInv, OwnInv, StopInv, ShownInv,
           DecodedInv, OrderInv, EndInv, [Next]_vars, AllWell', AllWell, callFaults' = 0,
           NEW u \in Users, Owns(u), LastUpload(u)' = LastUpload(u),
           \A k \in Messages : SaveMetadata(k) => UserOf[k] # u,
           LastUpload(u) \in Corrupt, failures'[LastUpload(u)] > 0, avatars'[u] # None
    PROVE  Spoilt(u)'
  <1> USE DEF Spoilt
  <1> PICK m \in Messages : m = LastUpload(u)
    BY DEF Owns, LastUpload, TypeOK, Row
  <1>f. ASSUME NEW w \in Workers, User(w) = u,
               avatars' = UpdateAvatarStatus(avatars, User(w), "failed")
        PROVE  avatars'[u].status = "failed"
    BY <1>f DEF UpdateAvatarStatus, Owns, TypeOK, Row
  <1>1. CASE failures[m] = 0
    <2>1. PICK w \in Workers : Handle(w) /\ Message(w) = m /\ pc'[w] = "retry"
      BY <1>1, Outcome
    <2>2. User(w) = u
      BY <2>1 DEF User, OwnInv, Owns, LastUpload
    <2>3. avatars' = UpdateAvatarStatus(avatars, User(w), "failed")
      <3>1. pc[w] = "handle" /\ pc'[w] = "retry"
        BY <2>1, HandleWell
      <3>2. \A label : ~Advance(w, label)
        BY <3>1 DEF Advance, queueVars, consumerVars
      <3>3. ~HandleReturns(w, FALSE)
        BY <3>1 DEF HandleReturns, HandlerReturns, Goto, TypeOK, QueueTypeOK
      <3> QED
        BY <2>1, <3>2, <3>3, HandleWell
    <2> QED
      BY <1>f, <2>2, <2>3
  <1>2. CASE failures[m] # 0
    <2>1. avatars[u].status = "failed" \/ \E w \in Workers : Failing(w, u)
      <3>1. failures[m] > 0
        BY <1>2 DEF TypeOK, QueueTypeOK
      <3>2. LastUpload(u) \in Corrupt /\ failures[LastUpload(u)] > 0 =>
              avatars[u].status = "failed" \/ \E w \in Workers : Failing(w, u)
        BY DEF EndInv
      <3> QED
        BY <3>1, <3>2
    <2>2. ASSUME NEW w \in Workers, Handle(w), User(w) = u
          PROVE  avatars'[u].status = "failed" \/ Failing(w, u)'
      <3>1. pc[w] = "handle"
        BY <2>2, HandleWell
      <3>2. delivery[w] \in copies
        BY <3>1, OwnedCopies
      <3>3. Message(w) \in Corrupt
        BY <1>2, <2>2, <3>2 DEF OrderInv, Overtaken, Unbegun, Message, User
      <3>4. step[w] \notin {"original", "thumb", "ready", "cleanup"}
        BY <3>3 DEF DecodedInv, SourceInv, StepInv, Message
      <3>5. CASE Advance(w, "download") \/ Advance(w, "failed")
        BY <2>2, <3>1, <3>5 DEF Advance, Failing, User, Message, queueVars, consumerVars, TypeOK
      <3>6. \/ Advance(w, "download") \/ Advance(w, "failed")
            \/ avatars' = UpdateAvatarStatus(avatars, User(w), "failed")
        BY <2>2, <3>3, <3>4, HandleWell
      <3> QED
        BY <1>f, <2>2, <3>5, <3>6
    <2>3. CASE \A w \in Workers : Handle(w) => User(w) # u
      <3>1. avatars'[u] = avatars[u] \/ avatars'[u].status = "failed"
        BY <2>3, RowSteps DEF Handle, Written
      <3>2. ASSUME NEW w \in Workers, Failing(w, u) PROVE Failing(w, u)'
        <4>1. ~Handle(w) /\ NoFault'
          BY <2>3, <3>2 DEF Failing, AllWell
        <4>2. pc'[w] = "handle"
          BY <3>2, <4>1, HandleGoesOn DEF Failing
        <4> QED
          BY <3>2, <4>1, <4>2, WorkerSteps DEF Failing, User, Message
      <3> QED
        BY <2>1, <3>1, <3>2
    <2> QED
      BY <2>2, <2>3
  <1> QED
    BY <1>1, <1>2

\* What the last upload leaves once it was made ready: the tasks of the older ones that can
\* be decoded are gone, its own worker only cleans up, and the others write the status only.
LEMMA FinishedStep ==
    ASSUME TypeOK, TypeOK', QueueInv, KnownInv, SourceInv, HandsInv, OpenInv, OwnInv, StopInv,
           ShownInv, OnceInv, PictureInv, DecodedInv, SmoothInv, SoundInv, OrderInv, EndInv,
           [Next]_vars, AllWell', AllWell, callFaults' = 0, NEW u \in Users, Owns(u), Owns(u)',
           LastUpload(u)' = LastUpload(u),
           \A k \in Messages : SaveMetadata(k) => UserOf[k] # u,
           LastUpload(u) \in completed'
    PROVE  /\ Pictured(u, LastUpload(u))'
           /\ avatars'[u].status = "ready" \/ (Undecodable(u)' # {} /\ Spoilt(u)')
  <1> USE DEF Spoilt, Pictured
  <1> PICK m \in Messages : m = LastUpload(u)
    BY DEF Owns, LastUpload, TypeOK, Row
  <1>1. CASE m \in completed
    <2>1. /\ avatars[u].image = m /\ original[u] = m /\ thumb[u] = m
          /\ avatars[u].status = "ready" \/ (Undecodable(u) # {} /\ Spoilt(u))
      BY <1>1 DEF EndInv
    <2>2. m \notin Corrupt
      BY <1>1 DEF DecodedInv
    <2>3. ASSUME NEW w \in Workers, Handle(w), User(w) = u, Message(w) \notin Corrupt
          PROVE  step[w] = "cleanup"
      <3>1. pc[w] = "handle"
        BY <2>3, HandleWell
      <3>2. delivery[w] \in copies
        BY <3>1, OwnedCopies
      <3>3. Message(w) = m
        BY <1>1, <2>3, <3>2 DEF OrderInv, Overtaken, Unbegun, Message, User
      <3>4. failures[m] = 0
        BY <2>2, <2>3, <3>3 DEF SoundInv, Owns, User
      <3> QED
        BY <1>1, <3>1, <3>3, <3>4 DEF OnceInv, Calm, AllWell, NoFault, CleaningUp
    <2>4. Undecodable(u) \subseteq Undecodable(u)'
      BY Onwards DEF Undecodable
    <2>5. CASE \E w \in Workers : Handle(w) /\ User(w) = u /\ Message(w) \in Corrupt
      <3> PICK w \in Workers : Handle(w) /\ User(w) = u /\ Message(w) \in Corrupt
        BY <2>5
      <3>1. pc[w] = "handle" /\ step[w] \notin {"original", "thumb", "ready", "cleanup"}
        BY HandleWell DEF DecodedInv, SourceInv, StepInv, Message
      <3>2. Message(w) \in Undecodable(u)
        <4>1. Message(w) \in published
          BY <3>1 DEF KnownInv, Message
        <4> QED
          BY <4>1 DEF Undecodable, User
      <3>3. /\ UNCHANGED <<original, thumb>>
            /\ \/ avatars' = UpdateAvatarStatus(avatars, User(w), "failed")
               \/ /\ \/ avatars' = avatars
                     \/ avatars' = UpdateAvatarStatus(avatars, User(w), "processing")
                  /\ Advance(w, "download") \/ Advance(w, "failed")
        BY <3>1, HandleWell
      <3>4. avatars'[u].image = avatars[u].image
        BY <3>3 DEF UpdateAvatarStatus, Owns, TypeOK, Row
      <3>5. ASSUME avatars' = UpdateAvatarStatus(avatars, User(w), "failed")
            PROVE  avatars'[u].status = "failed"
        BY <3>5 DEF UpdateAvatarStatus, Owns, TypeOK, Row
      <3>6. ASSUME Advance(w, "download") \/ Advance(w, "failed") PROVE Failing(w, u)'
        BY <3>1, <3>6 DEF Advance, Failing, User, Message, queueVars, consumerVars, TypeOK
      <3> QED
        BY <2>1, <2>4, <3>2, <3>3, <3>4, <3>5, <3>6
    <2>6. CASE \A w \in Workers : Handle(w) /\ User(w) = u => step[w] = "cleanup"
      <3>1. UNCHANGED <<avatars[u], original[u], thumb[u]>>
        BY <2>6, OthersLeave DEF Owns
      <3>2. ASSUME NEW w \in Workers, Failing(w, u) PROVE Failing(w, u)'
        <4>1. ~Handle(w) /\ NoFault'
          BY <2>6, <3>2 DEF Failing, AllWell
        <4>2. pc'[w] = "handle"
          BY <3>2, <4>1, HandleGoesOn DEF Failing
        <4> QED
          BY <3>2, <4>1, <4>2, WorkerSteps DEF Failing, User, Message
      <3> QED
        BY <2>1, <2>4, <3>1, <3>2
    <2> QED
      BY <2>3, <2>5, <2>6
  <1>2. CASE m \notin completed
    <2>1. PICK w \in Workers : SetReady(w) /\ Message(w) = m
      BY <1>2, History
    <2>2. Handle(w) /\ step[w] = "ready"
      BY <2>1 DEF Handle, SetReady, Handling
    <2>3. avatars' = MarkAvatarReady(avatars, User(w), m) /\ UNCHANGED <<original, thumb>>
      BY <2>1, <2>2, HandleWell
    <2>4. User(w) = u
      BY <2>1 DEF User, OwnInv, Owns, LastUpload
    <2>5. original[u] = m /\ thumb[u] = m
      BY <2>1, <2>2, <2>4 DEF PictureInv, HandsMatch, Owns
    <2>6. avatars'[u].status = "ready" /\ avatars'[u].image = m
      BY <2>3, <2>4 DEF MarkAvatarReady, Owns, TypeOK, Row
    <2> QED
      BY <2>3, <2>5, <2>6
  <1> QED
    BY <1>1, <1>2

\* So the row and the objects end up as the last upload leaves them.
LEMMA EndStep ==
    ASSUME TypeOK, TypeOK', QueueInv, KnownInv, BudgetInv, SourceInv, HandsInv, OpenInv, OwnInv,
           StopInv, ShownInv, OnceInv, PictureInv, DecodedInv, SmoothInv, SoundInv, OrderInv,
           EndInv, [Next]_vars
    PROVE  EndInv'
  <1> DEFINE Good(u) == /\ Pictured(u, LastUpload(u))
                        /\ avatars[u].status = "ready" \/ (Undecodable(u) # {} /\ Spoilt(u))
  <1> SUFFICES ASSUME AllWell', NEW u \in Users, Owns(u)'
               PROVE  /\ LastUpload(u)' \in Corrupt /\ failures'[LastUpload(u)'] > 0 => Spoilt(u)'
                      /\ LastUpload(u)' \in completed' => Good(u)'
    BY DEF EndInv
  <1>w. AllWell /\ callFaults' = 0
    BY WellBefore
  <1>1. ASSUME NEW k \in Messages, SaveMetadata(k), UserOf[k] = u
        PROVE  failures'[LastUpload(u)'] = 0 /\ LastUpload(u)' \notin completed'
    BY <1>1, <1>w, SavesWell, JustSaved DEF Unbegun
  <1>2. ASSUME \A k \in Messages : SaveMetadata(k) => UserOf[k] # u
        PROVE  /\ LastUpload(u)' \in Corrupt /\ failures'[LastUpload(u)'] > 0 => Spoilt(u)'
               /\ LastUpload(u)' \in completed' => Good(u)'
    <2>1. Owns(u) /\ LastUpload(u)' = LastUpload(u)
      BY <1>2, OwnerSteps
    <2>2. avatars'[u] # None
      BY DEF Owns
    <2>3. LastUpload(u)' \in Corrupt /\ failures'[LastUpload(u)'] > 0 => Spoilt(u)'
      BY <1>2, <1>w, <2>1, <2>2, FailedStep
    <2>4. ASSUME LastUpload(u)' \in completed' PROVE Good(u)'
      <3>1. /\ Pictured(u, LastUpload(u))'
            /\ avatars'[u].status = "ready" \/ (Undecodable(u)' # {} /\ Spoilt(u)')
        BY <1>2, <1>w, <2>1, <2>4, FinishedStep
      <3> QED
        BY <3>1
    <2> QED
      BY <2>3, <2>4
  <1> HIDE DEF Good
  <1>3. CASE \E k \in Messages : SaveMetadata(k) /\ UserOf[k] = u
    <2>1. failures'[LastUpload(u)'] = 0 /\ LastUpload(u)' \notin completed'
      BY <1>1, <1>3
    <2> QED
      BY <2>1
  <1> QED
    BY <1>2, <1>3

\* Every step keeps the argument.
LEMMA LastStep ==
    ASSUME \A w, x \in Workers : w = x, Overlapping = FALSE, Malformed = {}
    PROVE  /\ TypeOK /\ QueueInv /\ LedgerInv /\ BudgetInv /\ NoRework /\ SourceInv /\ CleanInv
           /\ HandsInv /\ OpenInv /\ RowInv /\ DeletedInv /\ PictureInv
           /\ TypeOK' /\ SourceInv' /\ LastInv /\ [Next]_vars
           => LastInv'
  <1> SUFFICES ASSUME TypeOK, QueueInv, LedgerInv, BudgetInv, SourceInv, HandsInv, OpenInv, RowInv,
                      DeletedInv, PictureInv, TypeOK', SourceInv', LastInv, [Next]_vars
               PROVE  LastInv'
    OBVIOUS
  <1>1. /\ OwnInv /\ StopInv /\ ShownInv /\ OnceInv /\ KnownInv
        /\ AloneInv /\ DecodedInv /\ SmoothInv /\ SoundInv /\ OrderInv /\ EndInv
    BY DEF RowInv, DeletedInv, LastInv, LedgerInv
  <1>2. AloneInv' /\ DecodedInv'
    BY <1>1, AloneStep, DecodedStep
  <1>3. SmoothInv'
    BY <1>1, SmoothStep
  <1>4. SoundInv'
    BY <1>1, SoundStep
  <1>5. OrderInv'
    BY <1>1, OrderStep
  <1>6. EndInv'
    BY <1>1, EndStep
  <1> QED
    BY <1>2, <1>3, <1>4, <1>5, <1>6 DEF LastInv

\* With one worker and a user who waits for each answer, the last upload wins, while no
\* call fails and nothing restarts: its picture is what the row and the objects hold, and
\* its status is ready, or failed where an upload that cannot be decoded was queued too.  A
\* task that is in no queue any more was processed, for a dead letter has failed, and of the
\* tasks that fail none touches the picture.
THEOREM OneWorkerLastUploadWins ==
    ASSUME \A w, x \in Workers : w = x, Overlapping = FALSE, Malformed = {}
    PROVE  Spec => []LastUploadWins
  <1>1. ASSUME TypeOK, QueueInv, OwnInv, OnceInv, DecodedInv, SmoothInv, SoundInv, EndInv
        PROVE  LastUploadWins
    <2> USE <1>1
    <2> SUFFICES ASSUME AllWell, NEW u \in Users, Owns(u), Quiet(u)
                 PROVE  LET m == LastUpload(u)
                        IN /\ m \in Corrupt => avatars[u].status = "failed"
                           /\ m \notin Corrupt =>
                                /\ <<avatars[u].image, original[u], thumb[u]>> = <<m, m, m>>
                                /\ m \notin staged
                                /\ \/ avatars[u].status = "ready"
                                   \/ avatars[u].status = "failed" /\ Undecodable(u) # {}
      BY DEF LastUploadWins, AllWell, NoFault, Owns, LastUpload
    <2> PICK m \in Messages : m = LastUpload(u)
      BY DEF Owns, LastUpload, TypeOK, Row
    <2>1. UserOf[m] = u /\ m \in published
      BY DEF OwnInv, Owns, LastUpload, Early, Quiet, Answered, SmoothInv
    <2>2. m \in processed \/ failures[m] > 0
      <3>1. \A c \in copies : c.id = m => c.queue = QueueDLQ
        BY <2>1 DEF Quiet
      <3>2. m \in processed \/ \E c \in copies : c.id = m
        BY <2>1 DEF QueueInv, LossOnlyByRestart, AllWell
      <3>3. ASSUME NEW c \in copies, c.id = m, c.queue = QueueDLQ PROVE failures[m] > 0
        BY <3>3 DEF QueueInv, EarnedInv, RetriesEarned, TypeOK, QueueTypeOK
      <3> QED
        BY <3>1, <3>2, <3>3
    <2>f. \A w \in Workers : ~Failing(w, u)
      BY DEF Failing, Quiet, User, Message
    <2>3. ASSUME m \in Corrupt PROVE avatars[u].status = "failed"
      <3>1. failures[m] > 0
        BY <2>2, <2>3 DEF DecodedInv
      <3> QED
        BY <2>3, <2>f, <3>1 DEF EndInv, Spoilt
    <2>4. ASSUME m \notin Corrupt
          PROVE  /\ avatars[u].image = m /\ original[u] = m /\ thumb[u] = m
                 /\ m \notin staged
                 /\ \/ avatars[u].status = "ready"
                    \/ avatars[u].status = "failed" /\ Undecodable(u) # {}
      <3>1. failures[m] = 0
        BY <2>1, <2>4 DEF SoundInv, Owns
      <3>2. m \in completed
        BY <2>2, <3>1 DEF DecodedInv
      <3>3. m \notin staged
        BY <2>1, <3>1, <3>2 DEF OnceInv, Calm, AllWell, NoFault, CleaningUp, Quiet, Message
      <3> QED
        BY <2>f, <3>2, <3>3 DEF EndInv, Spoilt, Pictured
    <2> QED
      BY <2>3, <2>4
  <1>2. Spec => []PictureInv
    BY PictureInit, PictureStep, ServiceFacts, PTL DEF Spec
  <1>3. Spec => []LastInv
    BY <1>2, LastInit, LastStep, DeletedInvariant, RowInvariant, ServiceFacts, PTL DEF Spec
  <1>4. RowInv /\ DeletedInv /\ LastInv =>
          OwnInv /\ OnceInv /\ DecodedInv /\ SmoothInv /\ SoundInv /\ EndInv
    BY DEF RowInv, DeletedInv, LastInv
  <1> QED
    BY <1>1, <1>3, <1>4, DeletedInvariant, RowInvariant, ServiceFacts, PTL
=============================================================================
