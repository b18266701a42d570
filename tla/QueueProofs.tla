---------------------------- MODULE QueueProofs ----------------------------
(***************************************************************************)
(* What the consumer's ordering of publish, mark and acknowledge           *)
(* guarantees, proved for any number of messages, workers and faults.      *)
(*                                                                         *)
(* The inductive invariant QueueInv has five parts.  HoldInv ties pc,      *)
(* delivery and unacked together; PosInv says positions grow; EarnedInv    *)
(* counts the failures behind each retry copy; AckInv is the core of the   *)
(* argument: a worker that is about to acknowledge leaves behind a row in  *)
(* processed_messages or a copy that was queued later than its own.        *)
(* "Later" is what makes it inductive: two workers may be about to         *)
(* acknowledge copies of the same message, and neither may rely on the     *)
(* copy the other is about to remove.                                      *)
(***************************************************************************)
EXTENDS Queue, FiniteSetTheorems, TLAPS

HoldInv ==
    /\ \A w \in Workers : pc[w] = "receive" \/ delivery[w] \in Copy
    /\ \A w \in unacked :
         /\ pc[w] # "receive"
         /\ w \in open
         /\ delivery[w] \in copies
         /\ delivery[w].queue = QueueProcessing
    /\ \A w, x \in unacked : delivery[w] = delivery[x] => w = x

PosInv ==
    /\ \A c \in copies : c.pos < nextPos
    /\ \A w \in Workers : pc[w] # "receive" => delivery[w].pos < nextPos

EarnedInv ==
    /\ RetriesEarned
    /\ \A c \in copies : c.mode = "transient" /\ c.id \notin Malformed => failures[c.id] > 0
    /\ \A c \in copies : c.id \in Malformed => c.mode = "persistent"
    /\ \A w \in Workers : pc[w] # "receive" =>
         failures[delivery[w].id] >= delivery[w].retry
    /\ \A w \in Workers : pc[w] \in {"handle", "retry", "mark", "ack"} =>
         delivery[w].id \notin Malformed
    /\ \A w \in Workers : pc[w] = "retry" =>
         failures[delivery[w].id] >= delivery[w].retry + 1

AckInv ==
    \A w \in Workers : pc[w] = "ack" =>
        \/ delivery[w].id \in processed
        \/ \E c \in copies : c.id = delivery[w].id /\ c.pos > delivery[w].pos
        \/ restarts > 0 /\ failures[delivery[w].id] > 0

QueueInv == QueueTypeOK /\ HoldInv /\ PosInv /\ EarnedInv /\ AckInv /\ LossOnlyByRestart

-----------------------------------------------------------------------------
\* The fields of a copy.
LEMMA CopyTypes ==
    \A c \in Copy : /\ c.pos \in Nat /\ c.id \in Messages /\ c.retry \in 0..2
                    /\ c.queue \in Queues /\ c.mode \in Modes
  BY DEF Copy

\* The queues are distinct.
LEMMA QueueNames ==
    /\ QueueProcessing \notin RetryQueues
    /\ QueueDLQ \notin RetryQueues
    /\ QueueProcessing # QueueDLQ
    /\ QueueRetry30s \in RetryQueues
    /\ QueueRetry2m \in RetryQueues
  BY DEF RetryQueues, QueueProcessing, QueueRetry30s, QueueRetry2m, QueueDLQ

\* A freshly queued copy is a copy, at the next position.
LEMMA CopyAtFacts ==
    ASSUME nextPos \in Nat, NEW q \in Queues, NEW m \in Messages, NEW r \in 0..2,
           NEW p \in Modes
    PROVE  /\ CopyAt(q, m, r, p) \in Copy
           /\ CopyAt(q, m, r, p).pos = nextPos
           /\ CopyAt(q, m, r, p).queue = q
           /\ CopyAt(q, m, r, p).id = m
           /\ CopyAt(q, m, r, p).retry = r
           /\ CopyAt(q, m, r, p).mode = p
  BY DEF CopyAt, Copy

\* What PublishAvatarProcess queues (the binding of Declare for uploads).
LEMMA PublishedFacts ==
    ASSUME nextPos \in Nat, NEW m \in Messages
    PROVE  LET c == CopyAt(Route(ExchangeDirect, RoutingUpload), m, 0, "persistent")
           IN c \in Copy /\ c.pos = nextPos /\ c.id = m /\ c.retry = 0
              /\ c.mode = "persistent"
              /\ c.queue = QueueProcessing
  <1>1. Route(ExchangeDirect, RoutingUpload) = QueueProcessing
    BY DEF Route, ExchangeDefault, ExchangeDirect, ExchangeDLX, RoutingUpload, RoutingRetry,
           RoutingDLQ
  <1>2. QueueProcessing \in Queues /\ "persistent" \in Modes
    BY DEF Queues, Modes
  <1> QED
    BY <1>1, <1>2, CopyAtFacts

\* Where the dead-letter arguments of the queues lead.
LEMMA DeadLetterRoutes ==
    /\ DeadLetterQueue(QueueProcessing) = QueueDLQ
    /\ \A q \in RetryQueues : DeadLetterQueue(q) = QueueProcessing
  BY DEF DeadLetterQueue, Route, ExchangeDefault, ExchangeDirect, ExchangeDLX, RoutingUpload,
         RoutingRetry, RoutingDLQ, RetryQueues, QueueProcessing, QueueRetry30s, QueueRetry2m

\* Dead-lettering moves a copy to the tail of another queue and keeps the rest.
LEMMA DeadLetteredFacts ==
    ASSUME nextPos \in Nat, NEW c \in Copy, c.queue # QueueDLQ
    PROVE  LET d == DeadLettered(c)
           IN /\ d \in Copy
              /\ d.pos = nextPos
              /\ d.id = c.id
              /\ d.retry = c.retry
              /\ d.mode = c.mode
              /\ c.queue = QueueProcessing => d.queue = QueueDLQ
              /\ c.queue \in RetryQueues => d.queue = QueueProcessing
  <1>1. c.queue \in Queues /\ c.id \in Messages /\ c.retry \in 0..2 /\ c.mode \in Modes
    BY DEF Copy
  <1>2. c.queue = QueueProcessing \/ c.queue \in RetryQueues
    BY <1>1 DEF Queues, RetryQueues
  <1>3. DeadLetterQueue(c.queue) \in Queues
    BY <1>2, DeadLetterRoutes DEF Queues
  <1> QED
    BY <1>1, <1>2, <1>3, DeadLetterRoutes, CopyAtFacts DEF DeadLettered

\* What SendToRetry queues for each retry count.
LEMMA RetryCopyFacts ==
    ASSUME nextPos \in Nat, NEW m \in Messages, NEW r \in 1..3
    PROVE  LET c == RetryCopy(m, r)
           IN /\ c \in Copy
              /\ c.pos = nextPos
              /\ c.id = m
              /\ c.mode = "transient"
              /\ c.retry <= r
              /\ c.queue = QueueRetry30s => c.retry = 1
              /\ c.queue = QueueRetry2m => c.retry = 2
              /\ c.queue = QueueDLQ => r = 3
  <1>1. /\ Route(ExchangeDefault, QueueRetry30s) = QueueRetry30s
        /\ Route(ExchangeDefault, QueueRetry2m) = QueueRetry2m
        /\ Route(ExchangeDLX, RoutingDLQ) = QueueDLQ
    BY DEF Route, ExchangeDefault, ExchangeDirect, ExchangeDLX, RoutingUpload, RoutingRetry,
           RoutingDLQ
  <1>2. /\ QueueRetry30s \in Queues /\ QueueRetry2m \in Queues /\ QueueDLQ \in Queues
        /\ QueueRetry30s # QueueRetry2m /\ QueueRetry30s # QueueDLQ /\ QueueRetry2m # QueueDLQ
        /\ "transient" \in Modes
    BY DEF Queues, QueueRetry30s, QueueRetry2m, QueueDLQ, Modes
  <1>3. CASE r = 1
    <2>1. RetryCopy(m, r) = CopyAt(QueueRetry30s, m, 1, "transient")
      BY <1>1, <1>3 DEF RetryCopy
    <2> QED
      BY <1>2, <1>3, <2>1, CopyAtFacts
  <1>4. CASE r = 2
    <2>1. RetryCopy(m, r) = CopyAt(QueueRetry2m, m, 2, "transient")
      BY <1>1, <1>4 DEF RetryCopy
    <2> QED
      BY <1>2, <1>4, <2>1, CopyAtFacts
  <1>5. CASE r = 3
    <2>1. RetryCopy(m, r) = CopyAt(QueueDLQ, m, 0, "transient")
      BY <1>1, <1>5 DEF RetryCopy
    <2> QED
      BY <1>2, <1>5, <2>1, CopyAtFacts
  <1> QED
    BY <1>3, <1>4, <1>5

\* Every step of the queue preserves the invariant.
LEMMA QueueInvStep ==
    QueueInv /\ [QueueNext]_queueVars => QueueInv'
  <1> SUFFICES ASSUME QueueInv, [QueueNext]_queueVars PROVE QueueInv'
    OBVIOUS
  <1> USE DEF QueueInv
  <1>1. ASSUME NEW m \in Messages, PublishAvatarProcess(m) PROVE QueueInv'
    <2>a. PICK new \in Copy :
             /\ copies' = copies \union {new}
             /\ new.pos = nextPos /\ new.id = m /\ new.retry = 0
             /\ new.queue = QueueProcessing /\ new.mode = "persistent"
      BY <1>1, PublishedFacts DEF PublishAvatarProcess, QueueTypeOK
    <2>b. /\ nextPos' = nextPos + 1
          /\ published' = published \union {m}
          /\ UNCHANGED <<unacked, publisher, open, restarts, stopping, pc, delivery,
                         processed, failures, faults>>
      BY <1>1 DEF PublishAvatarProcess, consumerVars
    <2>1. QueueTypeOK'
      BY <2>a, <2>b DEF QueueTypeOK
    <2>2. HoldInv'
      BY <2>a, <2>b DEF HoldInv
    <2>3. PosInv'
      BY <2>a, <2>b, CopyTypes DEF QueueTypeOK, HoldInv, PosInv
    <2>4. EarnedInv'
      BY <2>a, <2>b, QueueNames DEF QueueTypeOK, EarnedInv, RetriesEarned
    <2>5. AckInv'
      BY <2>a, <2>b DEF AckInv
    <2>6. LossOnlyByRestart'
      BY <2>a, <2>b DEF LossOnlyByRestart
    <2> QED
      BY <2>1, <2>2, <2>3, <2>4, <2>5, <2>6
  <1>2. ASSUME PublisherRestart PROVE QueueInv'
    BY <1>2 DEF PublisherRestart, QueueTypeOK, HoldInv, PosInv, EarnedInv, RetriesEarned,
       AckInv, LossOnlyByRestart, consumerVars, historyVars
  <1>3. ASSUME NEW w \in Workers, Deliver(w) PROVE QueueInv'
    <2>1. QueueTypeOK'
      BY <1>3 DEF Deliver, QueueTypeOK, historyVars
    <2>2. HoldInv'
      BY <1>3 DEF Deliver, IsHead, Ready, QueueTypeOK, HoldInv
    <2>3. PosInv'
      BY <1>3 DEF Deliver, QueueTypeOK, PosInv
    <2>4. EarnedInv'
      BY <1>3 DEF Deliver, QueueTypeOK, EarnedInv, RetriesEarned, historyVars
    <2>5. AckInv'
      BY <1>3 DEF Deliver, AckInv, historyVars
    <2>6. LossOnlyByRestart'
      BY <1>3 DEF Deliver, LossOnlyByRestart, historyVars
    <2> QED
      BY <2>1, <2>2, <2>3, <2>4, <2>5, <2>6
  <1>4. ASSUME NEW w \in Workers, RejectMalformed(w) PROVE QueueInv'
    <2>a. delivery[w] \in Copy /\ (w \in unacked => delivery[w].queue # QueueDLQ)
      BY <1>4 DEF RejectMalformed, HoldInv, QueueProcessing, QueueDLQ
    <2>b. PICK new : w \in unacked =>
             /\ new = DeadLettered(delivery[w]) /\ new \in Copy
             /\ new.pos = nextPos /\ new.id = delivery[w].id
             /\ new.retry = delivery[w].retry /\ new.mode = delivery[w].mode
             /\ new.queue = QueueDLQ
      BY <2>a, DeadLetteredFacts DEF QueueTypeOK, HoldInv
    <2>1. QueueTypeOK'
      BY <2>b, <1>4 DEF RejectMalformed, NackDrop, Return, QueueTypeOK, historyVars
    <2>2. HoldInv'
      BY <1>4 DEF RejectMalformed, NackDrop, Return, QueueTypeOK, HoldInv
    <2>3. PosInv'
      BY <2>b, CopyTypes, <1>4 DEF RejectMalformed, NackDrop, Return, QueueTypeOK,
         HoldInv, PosInv
    <2>4. EarnedInv'
      BY <2>b, QueueNames, <1>4 DEF RejectMalformed, NackDrop, Return, QueueTypeOK,
         HoldInv, EarnedInv, RetriesEarned, historyVars
    <2>5. AckInv'
      BY <1>4 DEF RejectMalformed, NackDrop, Return, EarnedInv, AckInv, historyVars
    <2>6. LossOnlyByRestart'
      BY <2>b, <1>4 DEF RejectMalformed, NackDrop, LossOnlyByRestart, historyVars
    <2> QED
      BY <2>1, <2>2, <2>3, <2>4, <2>5, <2>6
  <1>5. ASSUME NEW w \in Workers, IsProcessed(w) PROVE QueueInv'
    <2>a. delivery[w] \in Copy
      BY <1>5 DEF IsProcessed, HoldInv
    <2>1. QueueTypeOK'
      BY <1>5 DEF IsProcessed, Answers, Fault, NackRequeue, Ack, Return, Goto,
         QueueTypeOK, historyVars
    <2>2. HoldInv'
      BY <1>5 DEF IsProcessed, NackRequeue, Ack, Return, Goto, QueueTypeOK, HoldInv
    <2>3. PosInv'
      BY <1>5 DEF IsProcessed, NackRequeue, Ack, Return, Goto, QueueTypeOK, PosInv
    <2>4. EarnedInv'
      BY <1>5 DEF IsProcessed, NackRequeue, Ack, Return, Goto, QueueTypeOK, EarnedInv,
         RetriesEarned, historyVars
    <2>5. AckInv'
      BY <1>5 DEF IsProcessed, NackRequeue, Ack, Return, Goto, QueueTypeOK, AckInv,
         historyVars
    <2>6. LossOnlyByRestart'
      BY <1>5 DEF IsProcessed, NackRequeue, Ack, LossOnlyByRestart, historyVars
    <2> QED
      BY <2>1, <2>2, <2>3, <2>4, <2>5, <2>6
  <1>6. ASSUME NEW w \in Workers, SendToRetry(w) PROVE QueueInv'
    <2>a. /\ delivery[w] \in Copy
          /\ delivery[w].id \in Messages
          /\ delivery[w].retry \in 0..2
      BY <1>6 DEF SendToRetry, HoldInv, Copy
    <2>b. /\ RetryCount(delivery[w]) = delivery[w].retry
          /\ RetryCount(delivery[w]) + 1 \in 1..3
      BY <2>a DEF RetryCount
    <2>c. PICK new \in Copy :
             /\ new = RetryCopy(delivery[w].id, RetryCount(delivery[w]) + 1)
             /\ new.pos = nextPos /\ new.id = delivery[w].id
             /\ new.mode = "transient"
             /\ new.retry <= delivery[w].retry + 1
             /\ new.queue = QueueRetry30s => new.retry = 1
             /\ new.queue = QueueRetry2m => new.retry = 2
             /\ new.queue = QueueDLQ => delivery[w].retry = 2
      BY <2>a, <2>b, RetryCopyFacts DEF QueueTypeOK
    <2>1. QueueTypeOK'
      BY <2>c, <1>6 DEF SendToRetry, NackRequeue, Return, Goto, QueueTypeOK, historyVars
    <2>2. HoldInv'
      BY <1>6 DEF SendToRetry, NackRequeue, Return, Goto, QueueTypeOK, HoldInv
    <2>3. PosInv'
      BY <2>c, CopyTypes, <1>6 DEF SendToRetry, NackRequeue, Return, Goto, QueueTypeOK,
         HoldInv, PosInv
    <2>4. EarnedInv'
      BY <2>a, <2>c, CopyTypes, <1>6 DEF SendToRetry, NackRequeue, Return, Goto,
         QueueTypeOK, EarnedInv, RetriesEarned, historyVars
    <2>5. AckInv'
      BY <2>c, <1>6 DEF SendToRetry, NackRequeue, Return, Goto, QueueTypeOK, PosInv,
         AckInv, historyVars
    <2>6. LossOnlyByRestart'
      BY <1>6 DEF SendToRetry, NackRequeue, LossOnlyByRestart, historyVars
    <2> QED
      BY <2>1, <2>2, <2>3, <2>4, <2>5, <2>6
  <1>7. ASSUME NEW w \in Workers, MarkProcessed(w) PROVE QueueInv'
    <2>a. delivery[w] \in Copy
      BY <1>7 DEF MarkProcessed, HoldInv
    <2>1. QueueTypeOK'
      BY <2>a, CopyTypes, <1>7 DEF MarkProcessed, Answers, Fault, NackRequeue, Return,
         Goto, QueueTypeOK, historyVars
    <2>2. HoldInv'
      BY <1>7 DEF MarkProcessed, NackRequeue, Return, Goto, QueueTypeOK, HoldInv
    <2>3. PosInv'
      BY <1>7 DEF MarkProcessed, NackRequeue, Return, Goto, QueueTypeOK, PosInv
    <2>4. EarnedInv'
      BY <1>7 DEF MarkProcessed, NackRequeue, Return, Goto, QueueTypeOK, EarnedInv,
         RetriesEarned, historyVars
    <2>5. AckInv'
      BY <1>7 DEF MarkProcessed, Effective, NackRequeue, Return, Goto, QueueTypeOK,
         AckInv, historyVars
    <2>6. LossOnlyByRestart'
      BY <1>7 DEF MarkProcessed, NackRequeue, LossOnlyByRestart, historyVars
    <2> QED
      BY <2>1, <2>2, <2>3, <2>4, <2>5, <2>6
  <1>8. ASSUME NEW w \in Workers, AckDelivery(w) PROVE QueueInv'
    <2>a. delivery[w] \in Copy
      BY <1>8 DEF AckDelivery, HoldInv
    <2>1. QueueTypeOK'
      BY <1>8 DEF AckDelivery, Ack, Return, QueueTypeOK, historyVars
    <2>2. HoldInv'
      BY <1>8 DEF AckDelivery, Ack, Return, QueueTypeOK, HoldInv
    <2>3. PosInv'
      BY <1>8 DEF AckDelivery, Ack, Return, QueueTypeOK, PosInv
    <2>4. EarnedInv'
      BY <1>8 DEF AckDelivery, Ack, Return, QueueTypeOK, EarnedInv, RetriesEarned,
         historyVars
    <2>5. AckInv'
      BY CopyTypes, <1>8 DEF AckDelivery, Ack, Return, QueueTypeOK, HoldInv, AckInv,
         historyVars
    <2>6. LossOnlyByRestart'
      BY <2>a, CopyTypes, <1>8 DEF AckDelivery, Ack, AckInv, LossOnlyByRestart,
         historyVars
    <2> QED
      BY <2>1, <2>2, <2>3, <2>4, <2>5, <2>6
  <1>9. ASSUME NEW w \in Workers, NEW failed \in BOOLEAN, HandlerReturns(w, failed) PROVE
      QueueInv'
    <2>a. delivery[w] \in Copy
      BY <1>9 DEF HandlerReturns, HoldInv
    <2>1. QueueTypeOK'
      BY <2>a, CopyTypes, <1>9 DEF HandlerReturns, Goto, QueueTypeOK, brokerVars
    <2>2. HoldInv'
      BY <1>9 DEF HandlerReturns, Goto, HoldInv, brokerVars
    <2>3. PosInv'
      BY <1>9 DEF HandlerReturns, Goto, PosInv, brokerVars
    <2>4. EarnedInv'
      BY CopyTypes, <1>9 DEF HandlerReturns, Goto, QueueTypeOK, HoldInv, EarnedInv,
         RetriesEarned, brokerVars
    <2>5. AckInv'
      BY <1>9 DEF HandlerReturns, Goto, QueueTypeOK, AckInv, brokerVars
    <2>6. LossOnlyByRestart'
      BY <1>9 DEF HandlerReturns, QueueTypeOK, LossOnlyByRestart, brokerVars
    <2> QED
      BY <2>1, <2>2, <2>3, <2>4, <2>5, <2>6
  <1>10. ASSUME NEW w \in Workers, ConsumeReturns(w) PROVE QueueInv'
    BY <1>10 DEF ConsumeReturns, QueueTypeOK, HoldInv, PosInv, EarnedInv, RetriesEarned,
       AckInv, LossOnlyByRestart, historyVars
  <1>11. ASSUME PublisherLost PROVE QueueInv'
    <2>1. QueueTypeOK'
      BY <1>11 DEF PublisherLost, Fault, QueueTypeOK, consumerVars, historyVars
    <2>2. HoldInv'
      BY <1>11 DEF PublisherLost, HoldInv, consumerVars
    <2>3. PosInv'
      BY <1>11 DEF PublisherLost, PosInv, consumerVars
    <2>4. EarnedInv'
      BY <1>11 DEF PublisherLost, EarnedInv, RetriesEarned, consumerVars, historyVars
    <2>5. AckInv'
      BY <1>11 DEF PublisherLost, AckInv, consumerVars, historyVars
    <2>6. LossOnlyByRestart'
      BY <1>11 DEF PublisherLost, LossOnlyByRestart, historyVars
    <2> QED
      BY <2>1, <2>2, <2>3, <2>4, <2>5, <2>6
  <1>12. ASSUME NEW q \in RetryQueues, Expire(q) PROVE QueueInv'
    <2>a. \A c \in copies : c.queue = q => c \in Copy /\ c.queue # QueueDLQ
      BY DEF QueueTypeOK, RetryQueues, QueueRetry30s, QueueRetry2m, QueueDLQ
    <2>b. PICK c \in copies, new \in Copy :
             /\ c.queue = q /\ \A x \in unacked : delivery[x] # c
             /\ copies' = (copies \ {c}) \union {new}
             /\ new.pos = nextPos /\ new.id = c.id
             /\ new.retry = c.retry /\ new.mode = c.mode
             /\ new.queue = QueueProcessing
      BY <1>12, <2>a, DeadLetteredFacts DEF Expire, IsHead, Ready, QueueTypeOK
    <2>c. /\ nextPos' = nextPos + 1
          /\ UNCHANGED <<unacked, publisher, open, restarts, stopping, pc, delivery,
                         processed, published, failures, faults>>
      BY <1>12 DEF Expire, consumerVars, historyVars
    <2>1. QueueTypeOK'
      BY <2>b, <2>c DEF QueueTypeOK
    <2>2. HoldInv'
      BY <2>b, <2>c DEF HoldInv
    <2>3. PosInv'
      BY <2>b, <2>c, CopyTypes DEF QueueTypeOK, HoldInv, PosInv
    <2>4. EarnedInv'
      BY <2>b, <2>c, QueueNames DEF EarnedInv, RetriesEarned
    <2>5. AckInv'
      BY <2>b, <2>c DEF PosInv, AckInv
    <2>6. LossOnlyByRestart'
      BY <2>b, <2>c DEF LossOnlyByRestart
    <2> QED
      BY <2>1, <2>2, <2>3, <2>4, <2>5, <2>6
  <1>13. ASSUME NEW w \in Workers, Shutdown(w) PROVE QueueInv'
    BY <1>13 DEF Shutdown, Fault, QueueTypeOK, HoldInv, PosInv, EarnedInv, RetriesEarned,
       AckInv, LossOnlyByRestart, brokerVars, historyVars
  <1>14. ASSUME NEW w \in Workers, Crash(w) PROVE QueueInv'
    <2>1. QueueTypeOK'
      BY <1>14 DEF Crash, Fault, Return, QueueTypeOK, historyVars
    <2>2. HoldInv'
      BY <1>14 DEF Crash, Return, QueueTypeOK, HoldInv
    <2>3. PosInv'
      BY <1>14 DEF Crash, Return, QueueTypeOK, PosInv
    <2>4. EarnedInv'
      BY <1>14 DEF Crash, Return, QueueTypeOK, EarnedInv, RetriesEarned, historyVars
    <2>5. AckInv'
      BY <1>14 DEF Crash, Return, QueueTypeOK, AckInv, historyVars
    <2>6. LossOnlyByRestart'
      BY <1>14 DEF Crash, LossOnlyByRestart, historyVars
    <2> QED
      BY <2>1, <2>2, <2>3, <2>4, <2>5, <2>6
  <1>15. ASSUME NEW w \in Workers, ConnectionLost(w) PROVE QueueInv'
    <2>1. QueueTypeOK'
      BY <1>15 DEF ConnectionLost, Fault, QueueTypeOK, consumerVars, historyVars
    <2>2. HoldInv'
      BY <1>15 DEF ConnectionLost, HoldInv, consumerVars
    <2>3. PosInv'
      BY <1>15 DEF ConnectionLost, PosInv, consumerVars
    <2>4. EarnedInv'
      BY <1>15 DEF ConnectionLost, EarnedInv, RetriesEarned, consumerVars, historyVars
    <2>5. AckInv'
      BY <1>15 DEF ConnectionLost, AckInv, consumerVars, historyVars
    <2>6. LossOnlyByRestart'
      BY <1>15 DEF ConnectionLost, LossOnlyByRestart, historyVars
    <2> QED
      BY <2>1, <2>2, <2>3, <2>4, <2>5, <2>6
  <1>16. ASSUME BrokerRestart PROVE QueueInv'
    <2>1. QueueTypeOK'
      BY <1>16 DEF BrokerRestart, QueueTypeOK, consumerVars, historyVars
    <2>2. HoldInv'
      BY <1>16 DEF BrokerRestart, HoldInv, consumerVars
    <2>3. PosInv'
      BY <1>16 DEF BrokerRestart, PosInv, consumerVars
    <2>4. EarnedInv'
      BY <1>16 DEF BrokerRestart, EarnedInv, RetriesEarned, consumerVars, historyVars
    <2>5. AckInv'
      BY CopyTypes, <1>16 DEF BrokerRestart, QueueTypeOK, EarnedInv, AckInv, Modes,
         consumerVars, historyVars
    <2>6. LossOnlyByRestart'
      BY CopyTypes, <1>16 DEF BrokerRestart, QueueTypeOK, EarnedInv, LossOnlyByRestart,
         Modes, historyVars
    <2> QED
      BY <2>1, <2>2, <2>3, <2>4, <2>5, <2>6
  <1>17. CASE UNCHANGED queueVars
    BY <1>17 DEF QueueTypeOK, HoldInv, PosInv, EarnedInv, RetriesEarned, AckInv,
       LossOnlyByRestart, queueVars, brokerVars, consumerVars, historyVars
  <1> QED
    BY <1>1, <1>2, <1>3, <1>4, <1>5, <1>6, <1>7, <1>8, <1>9, <1>10, <1>11, <1>12, <1>13,
       <1>14, <1>15, <1>16, <1>17 DEF QueueNext, Consumer, Environment

\* The invariant holds in the initial state.
LEMMA QueueInvInit == QueueInit => QueueInv
  <1> SUFFICES ASSUME QueueInit PROVE QueueInv
    OBVIOUS
  <1>1. QueueTypeOK
    BY DEF QueueInit, QueueTypeOK
  <1>2. HoldInv /\ PosInv /\ EarnedInv /\ AckInv /\ LossOnlyByRestart
    BY DEF QueueInit, HoldInv, PosInv, EarnedInv, RetriesEarned, AckInv, LossOnlyByRestart
  <1> QED
    BY <1>1, <1>2 DEF QueueInv

\* QueueInv is an invariant of the queue.
THEOREM QueueInvariant == QueueSpec => []QueueInv
  <1> QED
    BY QueueInvInit, QueueInvStep, PTL DEF QueueSpec

\* Type correctness of publisher, broker and consumers.
THEOREM QueueTypeCorrect == QueueSpec => []QueueTypeOK
  <1>1. QueueInv => QueueTypeOK
    BY DEF QueueInv
  <1> QED
    BY <1>1, QueueInvariant, PTL

\* No interleaving of crashes, signals, lost connections and failed calls makes
\* handleDelivery lose a task: a published message stays in a queue until it is in
\* processed_messages; only a broker restart after a failed attempt can drop it.
THEOREM NoTaskLost == QueueSpec => []LossOnlyByRestart
  <1>1. QueueInv => LossOnlyByRestart
    BY DEF QueueInv
  <1> QED
    BY <1>1, QueueInvariant, PTL

\* The retry count a copy carries never exceeds the failures of its message, and a
\* well-formed message in the dead-letter queue has failed three times.
THEOREM RetriesAreEarned == QueueSpec => []RetriesEarned
  <1>1. QueueInv => RetriesEarned
    BY DEF QueueInv, EarnedInv
  <1> QED
    BY <1>1, QueueInvariant, PTL

-----------------------------------------------------------------------------
(***************************************************************************)
(* The queue implements the ledger of module TaskLedger, and without       *)
(* faults a task is in one pair of hands, for any number of messages,      *)
(* workers and faults.                                                     *)
(*                                                                         *)
(* LedgerInv adds to QueueInv what the refinement needs: nobody holds a    *)
(* task that was not published (KnownInv); a worker on an open channel     *)
(* still owns its delivery (OpenInv), so what it sends to retry is not     *)
(* revived; a worker whose acknowledgement will count leaves a settled     *)
(* task or a later copy behind, broker restarts included (SettleInv); and  *)
(* a broker restart empties the dead-letter queue of everything but        *)
(* malformed messages (DeadInv).                                           *)
(***************************************************************************)
KnownInv ==
    /\ \A c \in copies : c.id \in published
    /\ \A w \in Workers : pc[w] # "receive" => delivery[w].id \in published
    /\ processed \subseteq published

OpenInv == \A w \in open : pc[w] # "receive" => w \in unacked

SettleInv ==
    \A w \in unacked : pc[w] = "ack" =>
        \/ delivery[w].id \in processed
        \/ \E c \in copies : c.id = delivery[w].id /\ c.pos > delivery[w].pos

DeadInv ==
    \A c \in copies : c.queue = QueueDLQ => c.id \in Malformed \/ c.mode = "transient"

LedgerInv == KnownInv /\ OpenInv /\ SettleInv /\ DeadInv

-----------------------------------------------------------------------------
\* What RejectMalformed leaves in the dead-letter queue.
LEMMA RejectedFacts ==
    ASSUME QueueInv, NEW w \in unacked
    PROVE  LET new == DeadLettered(delivery[w])
           IN /\ new \in Copy
              /\ new.pos = nextPos
              /\ new.id = delivery[w].id
              /\ new.mode = delivery[w].mode
              /\ new.queue = QueueDLQ
  BY DeadLetteredFacts DEF QueueInv, QueueTypeOK, HoldInv, QueueProcessing, QueueDLQ

\* What Expire leaves in the processing queue.
LEMMA ExpiredFacts ==
    ASSUME QueueInv, NEW q \in RetryQueues, NEW c \in copies, c.queue = q
    PROVE  LET new == DeadLettered(c)
           IN /\ new \in Copy
              /\ new.pos = nextPos
              /\ new.id = c.id
              /\ new.mode = c.mode
              /\ new.queue = QueueProcessing
  <1>1. c \in Copy /\ c.queue # QueueDLQ
    BY QueueNames DEF QueueInv, QueueTypeOK
  <1> QED
    BY <1>1, DeadLetteredFacts DEF QueueInv, QueueTypeOK

\* What SendToRetry adds for the delivery of a worker.
LEMMA RetriedFacts ==
    ASSUME QueueInv, NEW w \in Workers, pc[w] = "retry"
    PROVE  LET new == RetryCopy(delivery[w].id, RetryCount(delivery[w]) + 1)
           IN /\ new \in Copy
              /\ new.pos = nextPos
              /\ new.id = delivery[w].id
              /\ new.mode = "transient"
              /\ delivery[w].pos < new.pos
  <1>1. /\ delivery[w] \in Copy
        /\ delivery[w].pos < nextPos
        /\ nextPos \in Nat
    BY DEF QueueInv, QueueTypeOK, HoldInv, PosInv
  <1>2. RetryCount(delivery[w]) + 1 \in 1..3
    BY <1>1, CopyTypes DEF RetryCount
  <1> QED
    BY <1>1, <1>2, CopyTypes, RetryCopyFacts

\* LedgerInv holds initially.
LEMMA LedgerInvInit == QueueInit => LedgerInv
  BY DEF QueueInit, LedgerInv, KnownInv, OpenInv, SettleInv, DeadInv

\* Every step of the queue preserves LedgerInv.
LEMMA LedgerInvStep == QueueInv /\ LedgerInv /\ [QueueNext]_queueVars => LedgerInv'
  <1> SUFFICES ASSUME QueueInv, LedgerInv, [QueueNext]_queueVars PROVE LedgerInv'
    OBVIOUS
  <1> USE DEF LedgerInv
  <1>a. QueueTypeOK /\ HoldInv /\ PosInv
    BY DEF QueueInv
  <1>1. ASSUME NEW m \in Messages, PublishAvatarProcess(m) PROVE LedgerInv'
    <2>a. PICK new \in Copy :
             /\ copies' = copies \union {new}
             /\ new.pos = nextPos /\ new.id = m /\ new.queue = QueueProcessing
      BY <1>1, <1>a, PublishedFacts DEF PublishAvatarProcess, QueueTypeOK
    <2>1. KnownInv'
      BY <1>1, <1>a, <2>a, QueueNames DEF PublishAvatarProcess, consumerVars, KnownInv,
         QueueTypeOK, HoldInv
    <2>2. OpenInv'
      BY <1>1, <1>a, <2>a, QueueNames DEF PublishAvatarProcess, consumerVars, OpenInv,
         QueueTypeOK
    <2>3. SettleInv'
      BY <1>1, <1>a, <2>a, QueueNames, CopyTypes DEF PublishAvatarProcess, consumerVars,
         SettleInv, QueueTypeOK, HoldInv, PosInv
    <2>4. DeadInv'
      BY <1>1, <1>a, <2>a, QueueNames DEF PublishAvatarProcess, consumerVars, DeadInv,
         QueueTypeOK
    <2> QED
      BY <2>1, <2>2, <2>3, <2>4
  <1>2. ASSUME PublisherRestart PROVE LedgerInv'
    <2>1. KnownInv'
      BY <1>2, <1>a DEF PublisherRestart, consumerVars, historyVars, KnownInv,
         QueueTypeOK, HoldInv
    <2>2. OpenInv'
      BY <1>2, <1>a DEF PublisherRestart, consumerVars, historyVars, OpenInv,
         QueueTypeOK
    <2>3. SettleInv'
      BY <1>2, <1>a, CopyTypes DEF PublisherRestart, consumerVars, historyVars,
         SettleInv, QueueTypeOK, HoldInv, PosInv
    <2>4. DeadInv'
      BY <1>2, <1>a DEF PublisherRestart, consumerVars, historyVars, DeadInv,
         QueueTypeOK
    <2> QED
      BY <2>1, <2>2, <2>3, <2>4
  <1>3. ASSUME NEW w \in Workers, Deliver(w) PROVE LedgerInv'
    <2>1. KnownInv'
      BY <1>3, <1>a DEF Deliver, historyVars, KnownInv, QueueTypeOK, HoldInv
    <2>2. OpenInv'
      BY <1>3, <1>a DEF Deliver, historyVars, OpenInv, QueueTypeOK
    <2>3. SettleInv'
      BY <1>3, <1>a, CopyTypes DEF Deliver, historyVars, SettleInv, QueueTypeOK,
         HoldInv, PosInv
    <2>4. DeadInv'
      BY <1>3, <1>a DEF Deliver, historyVars, DeadInv, QueueTypeOK
    <2> QED
      BY <2>1, <2>2, <2>3, <2>4
  <1>4. ASSUME NEW w \in Workers, RejectMalformed(w) PROVE LedgerInv'
    <2>a. PICK new : w \in unacked =>
             /\ new = DeadLettered(delivery[w]) /\ new \in Copy /\ new.pos = nextPos
             /\ new.id = delivery[w].id /\ new.queue = QueueDLQ
      BY RejectedFacts
    <2>1. KnownInv'
      BY <1>4, <1>a, <2>a DEF RejectMalformed, NackDrop, Return, historyVars, KnownInv,
         QueueTypeOK, HoldInv
    <2>2. OpenInv'
      BY <1>4, <1>a, <2>a DEF RejectMalformed, NackDrop, Return, historyVars, OpenInv,
         QueueTypeOK
    <2>3. SettleInv'
      BY <1>4, <1>a, <2>a, CopyTypes DEF RejectMalformed, NackDrop, Return, historyVars,
         SettleInv, QueueTypeOK, HoldInv, PosInv
    <2>4. DeadInv'
      BY <1>4, <1>a, <2>a DEF RejectMalformed, NackDrop, Return, historyVars, DeadInv,
         QueueTypeOK
    <2> QED
      BY <2>1, <2>2, <2>3, <2>4
  <1>5. ASSUME NEW w \in Workers, IsProcessed(w) PROVE LedgerInv'
    <2>1. KnownInv'
      BY <1>5, <1>a DEF IsProcessed, NackRequeue, Ack, Return, Goto, historyVars,
         KnownInv, QueueTypeOK, HoldInv
    <2>2. OpenInv'
      BY <1>5, <1>a DEF IsProcessed, NackRequeue, Ack, Return, Goto, historyVars,
         OpenInv, QueueTypeOK
    <2>3. SettleInv'
      BY <1>5, <1>a, CopyTypes DEF IsProcessed, NackRequeue, Ack, Return, Goto,
         historyVars, SettleInv, QueueTypeOK, HoldInv, PosInv
    <2>4. DeadInv'
      BY <1>5, <1>a DEF IsProcessed, NackRequeue, Ack, Return, Goto, historyVars,
         DeadInv, QueueTypeOK
    <2> QED
      BY <2>1, <2>2, <2>3, <2>4
  <1>6. ASSUME NEW w \in Workers, SendToRetry(w) PROVE LedgerInv'
    <2>a. PICK new :
             /\ new = RetryCopy(delivery[w].id, RetryCount(delivery[w]) + 1)
             /\ new \in Copy /\ new.mode = "transient" /\ new.id = delivery[w].id
             /\ delivery[w].pos < new.pos
      BY <1>6, RetriedFacts DEF SendToRetry
    <2>1. KnownInv'
      BY <1>6, <1>a, <2>a DEF SendToRetry, NackRequeue, Return, Goto, historyVars,
         KnownInv, QueueTypeOK, HoldInv
    <2>2. OpenInv'
      BY <1>6, <1>a, <2>a DEF SendToRetry, NackRequeue, Return, Goto, historyVars,
         OpenInv, QueueTypeOK
    <2>3. SettleInv'
      BY <1>6, <1>a, <2>a, CopyTypes DEF SendToRetry, NackRequeue, Return, Goto,
         historyVars, SettleInv, QueueTypeOK, HoldInv, PosInv
    <2>4. DeadInv'
      BY <1>6, <1>a, <2>a DEF SendToRetry, NackRequeue, Return, Goto, historyVars,
         DeadInv, QueueTypeOK
    <2> QED
      BY <2>1, <2>2, <2>3, <2>4
  <1>7. ASSUME NEW w \in Workers, MarkProcessed(w) PROVE LedgerInv'
    <2>1. KnownInv'
      BY <1>7, <1>a DEF MarkProcessed, Effective, NackRequeue, Return, Goto,
         historyVars, KnownInv, QueueTypeOK, HoldInv
    <2>2. OpenInv'
      BY <1>7, <1>a DEF MarkProcessed, Effective, NackRequeue, Return, Goto,
         historyVars, OpenInv, QueueTypeOK
    <2>3. SettleInv'
      BY <1>7, <1>a, CopyTypes DEF MarkProcessed, Effective, NackRequeue, Return, Goto,
         historyVars, SettleInv, QueueTypeOK, HoldInv, PosInv
    <2>4. DeadInv'
      BY <1>7, <1>a DEF MarkProcessed, Effective, NackRequeue, Return, Goto,
         historyVars, DeadInv, QueueTypeOK
    <2> QED
      BY <2>1, <2>2, <2>3, <2>4
  <1>8. ASSUME NEW w \in Workers, AckDelivery(w) PROVE LedgerInv'
    <2>1. KnownInv'
      BY <1>8, <1>a DEF AckDelivery, Ack, Return, historyVars, KnownInv, QueueTypeOK,
         HoldInv
    <2>2. OpenInv'
      BY <1>8, <1>a DEF AckDelivery, Ack, Return, historyVars, OpenInv, QueueTypeOK
    <2>3. SettleInv'
      BY <1>8, <1>a, CopyTypes DEF AckDelivery, Ack, Return, historyVars, SettleInv,
         QueueTypeOK, HoldInv, PosInv
    <2>4. DeadInv'
      BY <1>8, <1>a DEF AckDelivery, Ack, Return, historyVars, DeadInv, QueueTypeOK
    <2> QED
      BY <2>1, <2>2, <2>3, <2>4
  <1>9. ASSUME NEW w \in Workers, NEW failed \in BOOLEAN, HandlerReturns(w, failed) PROVE LedgerInv'
    <2>1. KnownInv'
      BY <1>9, <1>a DEF HandlerReturns, Goto, brokerVars, KnownInv, QueueTypeOK, HoldInv
    <2>2. OpenInv'
      BY <1>9, <1>a DEF HandlerReturns, Goto, brokerVars, OpenInv, QueueTypeOK
    <2>3. SettleInv'
      BY <1>9, <1>a, CopyTypes DEF HandlerReturns, Goto, brokerVars, SettleInv,
         QueueTypeOK, HoldInv, PosInv
    <2>4. DeadInv'
      BY <1>9, <1>a DEF HandlerReturns, Goto, brokerVars, DeadInv, QueueTypeOK
    <2> QED
      BY <2>1, <2>2, <2>3, <2>4
  <1>10. ASSUME NEW w \in Workers, ConsumeReturns(w) PROVE LedgerInv'
    <2>1. KnownInv'
      BY <1>10, <1>a DEF ConsumeReturns, historyVars, KnownInv, QueueTypeOK, HoldInv
    <2>2. OpenInv'
      BY <1>10, <1>a DEF ConsumeReturns, historyVars, OpenInv, QueueTypeOK
    <2>3. SettleInv'
      BY <1>10, <1>a, CopyTypes DEF ConsumeReturns, historyVars, SettleInv, QueueTypeOK,
         HoldInv, PosInv
    <2>4. DeadInv'
      BY <1>10, <1>a DEF ConsumeReturns, historyVars, DeadInv, QueueTypeOK
    <2> QED
      BY <2>1, <2>2, <2>3, <2>4
  <1>11. ASSUME PublisherLost PROVE LedgerInv'
    <2>1. KnownInv'
      BY <1>11, <1>a DEF PublisherLost, consumerVars, historyVars, KnownInv,
         QueueTypeOK, HoldInv
    <2>2. OpenInv'
      BY <1>11, <1>a DEF PublisherLost, consumerVars, historyVars, OpenInv, QueueTypeOK
    <2>3. SettleInv'
      BY <1>11, <1>a, CopyTypes DEF PublisherLost, consumerVars, historyVars, SettleInv,
         QueueTypeOK, HoldInv, PosInv
    <2>4. DeadInv'
      BY <1>11, <1>a DEF PublisherLost, consumerVars, historyVars, DeadInv, QueueTypeOK
    <2> QED
      BY <2>1, <2>2, <2>3, <2>4
  <1>12. ASSUME NEW q \in RetryQueues, Expire(q) PROVE LedgerInv'
    <2>a. PICK c \in copies, new \in Copy :
             /\ c.queue = q /\ \A x \in unacked : delivery[x] # c
             /\ copies' = (copies \ {c}) \union {new}
             /\ new.pos = nextPos /\ new.id = c.id /\ new.queue = QueueProcessing
      BY <1>12, ExpiredFacts DEF Expire, IsHead, Ready
    <2>1. KnownInv'
      BY <1>12, <1>a, <2>a, QueueNames DEF Expire, IsHead, Ready, consumerVars,
         historyVars, KnownInv, QueueTypeOK, HoldInv
    <2>2. OpenInv'
      BY <1>12, <1>a, <2>a, QueueNames DEF Expire, IsHead, Ready, consumerVars,
         historyVars, OpenInv, QueueTypeOK
    <2>3. SettleInv'
      BY <1>12, <1>a, <2>a, QueueNames, CopyTypes DEF Expire, IsHead, Ready,
         consumerVars, historyVars, SettleInv, QueueTypeOK, HoldInv, PosInv
    <2>4. DeadInv'
      BY <1>12, <1>a, <2>a, QueueNames DEF Expire, IsHead, Ready, consumerVars,
         historyVars, DeadInv, QueueTypeOK
    <2> QED
      BY <2>1, <2>2, <2>3, <2>4
  <1>13. ASSUME NEW w \in Workers, Shutdown(w) PROVE LedgerInv'
    <2>1. KnownInv'
      BY <1>13, <1>a DEF Shutdown, brokerVars, historyVars, KnownInv, QueueTypeOK,
         HoldInv
    <2>2. OpenInv'
      BY <1>13, <1>a DEF Shutdown, brokerVars, historyVars, OpenInv, QueueTypeOK
    <2>3. SettleInv'
      BY <1>13, <1>a, CopyTypes DEF Shutdown, brokerVars, historyVars, SettleInv,
         QueueTypeOK, HoldInv, PosInv
    <2>4. DeadInv'
      BY <1>13, <1>a DEF Shutdown, brokerVars, historyVars, DeadInv, QueueTypeOK
    <2> QED
      BY <2>1, <2>2, <2>3, <2>4
  <1>14. ASSUME NEW w \in Workers, Crash(w) PROVE LedgerInv'
    <2>1. KnownInv'
      BY <1>14, <1>a DEF Crash, Return, historyVars, KnownInv, QueueTypeOK, HoldInv
    <2>2. OpenInv'
      BY <1>14, <1>a DEF Crash, Return, historyVars, OpenInv, QueueTypeOK
    <2>3. SettleInv'
      BY <1>14, <1>a, CopyTypes DEF Crash, Return, historyVars, SettleInv, QueueTypeOK,
         HoldInv, PosInv
    <2>4. DeadInv'
      BY <1>14, <1>a DEF Crash, Return, historyVars, DeadInv, QueueTypeOK
    <2> QED
      BY <2>1, <2>2, <2>3, <2>4
  <1>15. ASSUME NEW w \in Workers, ConnectionLost(w) PROVE LedgerInv'
    <2>1. KnownInv'
      BY <1>15, <1>a DEF ConnectionLost, consumerVars, historyVars, KnownInv,
         QueueTypeOK, HoldInv
    <2>2. OpenInv'
      BY <1>15, <1>a DEF ConnectionLost, consumerVars, historyVars, OpenInv, QueueTypeOK
    <2>3. SettleInv'
      BY <1>15, <1>a, CopyTypes DEF ConnectionLost, consumerVars, historyVars,
         SettleInv, QueueTypeOK, HoldInv, PosInv
    <2>4. DeadInv'
      BY <1>15, <1>a DEF ConnectionLost, consumerVars, historyVars, DeadInv, QueueTypeOK
    <2> QED
      BY <2>1, <2>2, <2>3, <2>4
  <1>16. ASSUME BrokerRestart PROVE LedgerInv'
    <2>1. KnownInv'
      BY <1>16, <1>a DEF BrokerRestart, consumerVars, historyVars, KnownInv,
         QueueTypeOK, HoldInv
    <2>2. OpenInv'
      BY <1>16, <1>a DEF BrokerRestart, consumerVars, historyVars, OpenInv, QueueTypeOK
    <2>3. SettleInv'
      BY <1>16, <1>a, CopyTypes DEF BrokerRestart, consumerVars, historyVars, SettleInv,
         QueueTypeOK, HoldInv, PosInv
    <2>4. DeadInv'
      BY <1>16, <1>a DEF BrokerRestart, consumerVars, historyVars, DeadInv, QueueTypeOK
    <2> QED
      BY <2>1, <2>2, <2>3, <2>4
  <1>17. CASE UNCHANGED queueVars
    BY <1>17 DEF KnownInv, OpenInv, SettleInv, DeadInv, queueVars, brokerVars,
       consumerVars,
       historyVars
  <1> QED
    BY <1>1, <1>2, <1>3, <1>4, <1>5, <1>6, <1>7, <1>8, <1>9, <1>10, <1>11, <1>12, <1>13,
       <1>14, <1>15, <1>16, <1>17
    DEF QueueNext, Consumer, Environment

-----------------------------------------------------------------------------
\* A step that changes none of the facts a status is read from changes no status.
LEMMA SameStatus ==
    ASSUME \A m \in Messages :
             /\ (m \in published)' <=> m \in published
             /\ (m \in processed)' <=> m \in processed
             /\ m \in published \ processed =>
                  (Queued(m)' <=> Queued(m)) /\ (Buried(m)' <=> Buried(m))
    PROVE  taskStatus' = taskStatus
  BY DEF taskStatus, StatusOf

\* A step that concerns one message changes at most its status.
LEMMA OneStatus ==
    ASSUME NEW t \in Messages,
           \A m \in Messages \ {t} :
             /\ (m \in published)' <=> m \in published
             /\ (m \in processed)' <=> m \in processed
             /\ (Queued(m)' <=> Queued(m)) /\ (Buried(m)' <=> Buried(m))
    PROVE  taskStatus' = [taskStatus EXCEPT ![t] = StatusOf(t)']
  BY DEF taskStatus, StatusOf

\* When that status stays as it was, all of them do.
LEMMA KeptStatus ==
    ASSUME NEW t \in Messages,
           taskStatus' = [taskStatus EXCEPT ![t] = StatusOf(t)'],
           StatusOf(t)' = StatusOf(t)
    PROVE  taskStatus' = taskStatus
  <1>1. taskStatus' = [m \in Messages |-> [taskStatus EXCEPT ![t] = StatusOf(t)][m]]
    BY DEF taskStatus
  <1>2. \A m \in Messages : [taskStatus EXCEPT ![t] = StatusOf(t)][m] = StatusOf(m)
    BY DEF taskStatus
  <1> QED
    BY <1>1, <1>2 DEF taskStatus

\* Every step of the queue is a step of the ledger or leaves it alone.
LEMMA LedgerStep ==
    QueueInv /\ LedgerInv /\ [QueueNext]_queueVars => [Ledger!Next]_Ledger!ledgerVars
  <1> SUFFICES ASSUME QueueInv, LedgerInv, [QueueNext]_queueVars
               PROVE  \/ Ledger!Next
                      \/ UNCHANGED <<taskStatus, failures>>
    BY DEF Ledger!ledgerVars
  <1>a. QueueTypeOK /\ HoldInv /\ PosInv /\ EarnedInv
    BY DEF QueueInv
  <1>b. KnownInv /\ OpenInv /\ SettleInv /\ DeadInv
    BY DEF LedgerInv
  <1>c. \A m \in Messages : taskStatus[m] = StatusOf(m)
    BY DEF taskStatus
  <1>1. ASSUME NEW m \in Messages, PublishAvatarProcess(m) PROVE Ledger!Publish(m)
    <2>1. PICK new \in Copy :
             copies' = copies \union {new} /\ new.id = m /\ new.queue = QueueProcessing
      BY <1>1, <1>a, PublishedFacts DEF PublishAvatarProcess, QueueTypeOK
    <2>2. /\ m \notin published
          /\ published' = published \union {m}
          /\ UNCHANGED <<processed, failures>>
      BY <1>1 DEF PublishAvatarProcess
    <2>3. taskStatus' = [taskStatus EXCEPT ![m] = StatusOf(m)']
      BY <2>1, <2>2, OneStatus DEF Queued, Buried
    <2>4. StatusOf(m) = "new" /\ StatusOf(m)' = "queued"
      BY <2>1, <2>2, <1>b, QueueNames DEF StatusOf, KnownInv, Queued
    <2> QED
      BY <2>2, <2>3, <2>4, <1>c DEF Ledger!Publish
  <1>2. ASSUME NEW w \in Workers, RejectMalformed(w)
        PROVE  Ledger!Bury(delivery[w].id) \/ UNCHANGED <<taskStatus, failures>>
    <2>t. PICK t : t = delivery[w].id
      OBVIOUS
    <2> USE <2>t
    <2>1. UNCHANGED <<published, processed, failures>> /\ t \in Malformed /\ pc[w] # "receive"
      BY <1>2 DEF RejectMalformed, historyVars
    <2>2. CASE w \notin unacked
      <3>1. UNCHANGED copies
        BY <1>2, <2>2 DEF RejectMalformed, NackDrop
      <3> QED
        BY <2>1, <3>1, SameStatus DEF Queued, Buried
    <2>3. CASE w \in unacked
      <3>1. PICK new :
               /\ copies' = (copies \ {delivery[w]}) \union {new}
               /\ new.id = t /\ new.queue = QueueDLQ
        BY <1>2, <2>3, RejectedFacts DEF RejectMalformed, NackDrop
      <3>2. delivery[w] \in copies /\ delivery[w].queue # QueueDLQ /\ t \in Messages
        BY <2>3, <1>a, QueueNames, CopyTypes DEF HoldInv, QueueTypeOK
      <3>3. taskStatus' = [taskStatus EXCEPT ![t] = StatusOf(t)']
        BY <2>1, <3>1, <3>2, OneStatus DEF Queued, Buried
      <3>4. t \in published
        BY <2>1, <1>b DEF KnownInv
      <3>5. StatusOf(t)' = StatusOf(t) \/ (StatusOf(t) = "queued" /\ StatusOf(t)' = "dead")
        BY <2>1, <3>1, <3>2, <3>4 DEF StatusOf, Queued, Buried
      <3>6. StatusOf(t)' = StatusOf(t) => taskStatus' = taskStatus
        BY <3>3, <3>2, <1>c DEF taskStatus
      <3> QED
        BY <2>1, <3>2, <3>3, <3>5, <3>6, <1>c DEF Ledger!Bury
    <2> QED
      BY <2>2, <2>3
  <1>3. ASSUME NEW w \in Workers, IsProcessed(w) PROVE UNCHANGED <<taskStatus, failures>>
    <2>1. /\ UNCHANGED <<published, processed, failures>>
          /\ copies' = copies \/ (delivery[w].id \in processed /\ copies' = copies \ {delivery[w]})
      BY <1>3 DEF IsProcessed, NackRequeue, Ack, historyVars
    <2> QED
      BY <2>1, SameStatus DEF Queued, Buried
  <1>4. ASSUME NEW w \in Workers, SendToRetry(w) PROVE UNCHANGED <<taskStatus, failures>>
    <2>1. UNCHANGED <<published, processed, failures>> /\ pc[w] = "retry"
      BY <1>4 DEF SendToRetry, historyVars
    <2>2. CASE w \notin open
      <3>1. UNCHANGED copies
        BY <1>4, <2>2 DEF SendToRetry, NackRequeue
      <3> QED
        BY <2>1, <3>1, SameStatus DEF Queued, Buried
    <2>3. CASE w \in open
      <3>1. PICK new : copies' = copies \union {new} /\ new.id = delivery[w].id
        BY <1>4, <2>1, <2>3, RetriedFacts DEF SendToRetry
      <3>2. delivery[w] \in copies /\ delivery[w].queue # QueueDLQ
        BY <2>1, <2>3, <1>a, <1>b, QueueNames DEF OpenInv, HoldInv
      <3> QED
        BY <2>1, <3>1, <3>2 DEF taskStatus, StatusOf, Queued, Buried
    <2> QED
      BY <2>2, <2>3
  <1>5. ASSUME NEW w \in Workers, MarkProcessed(w)
        PROVE  Ledger!Complete(delivery[w].id) \/ UNCHANGED <<taskStatus, failures>>
    <2>t. PICK t : t = delivery[w].id
      OBVIOUS
    <2> USE <2>t
    <2>1. /\ UNCHANGED <<copies, published, failures>>
          /\ pc[w] = "mark"
          /\ processed' = processed \/ processed' = processed \union {t}
      BY <1>5 DEF MarkProcessed, NackRequeue, Return, Goto, historyVars
    <2>2. t \in published /\ t \in Messages
      BY <2>1, <1>a, <1>b, CopyTypes DEF KnownInv, HoldInv
    <2>3. CASE processed' = processed
      BY <2>1, <2>3, SameStatus DEF Queued, Buried
    <2>4. CASE processed' = processed \union {t} /\ t \notin processed
      <3>1. taskStatus' = [taskStatus EXCEPT ![t] = StatusOf(t)']
        BY <2>1, <2>2, <2>4, OneStatus DEF Queued, Buried
      <3>2. StatusOf(t)' = "done" /\ StatusOf(t) \in {"queued", "dead", "lost"}
        BY <2>1, <2>2, <2>4 DEF StatusOf
      <3> QED
        BY <2>1, <2>2, <3>1, <3>2, <1>c DEF Ledger!Complete
    <2>5. CASE processed' = processed \union {t} /\ t \in processed
      <3>1. processed' = processed
        BY <2>5
      <3> QED
        BY <3>1, <2>3
    <2> QED
      BY <2>1, <2>3, <2>4, <2>5
  <1>6. ASSUME NEW w \in Workers, AckDelivery(w)
        PROVE  Ledger!Bury(delivery[w].id) \/ UNCHANGED <<taskStatus, failures>>
    <2>t. PICK t : t = delivery[w].id
      OBVIOUS
    <2> USE <2>t
    <2>1. UNCHANGED <<published, processed, failures>> /\ pc[w] = "ack"
      BY <1>6 DEF AckDelivery, historyVars
    <2>2. CASE w \notin unacked
      <3>1. UNCHANGED copies
        BY <1>6, <2>2 DEF AckDelivery, Ack
      <3> QED
        BY <2>1, <3>1, SameStatus DEF Queued, Buried
    <2>3. CASE w \in unacked
      <3>1. /\ copies' = copies \ {delivery[w]}
            /\ delivery[w] \in copies
            /\ delivery[w].queue # QueueDLQ
            /\ delivery[w] \in Copy
            /\ t \in Messages
        BY <1>6, <2>3, <1>a, QueueNames, CopyTypes DEF AckDelivery, Ack, HoldInv,
           QueueTypeOK
      <3>2. taskStatus' = [taskStatus EXCEPT ![t] = StatusOf(t)']
        BY <2>1, <3>1, OneStatus DEF Queued, Buried
      <3>3. t \in published
        BY <2>1, <1>b, <3>1 DEF KnownInv
      <3>4. CASE t \in processed
        <4>1. StatusOf(t)' = "done" /\ StatusOf(t) = "done"
          BY <2>1, <3>3, <3>4 DEF StatusOf
        <4> QED
          BY <2>1, <3>1, <3>2, <4>1, KeptStatus
      <3>5. CASE t \notin processed
        <4>1. PICK c \in copies : c.id = t /\ c # delivery[w]
          BY <2>1, <2>3, <3>1, <3>5, <1>b, CopyTypes DEF SettleInv
        <4>2. c \in copies'
          BY <3>1, <4>1
        <4>3. StatusOf(t) = "queued"
          BY <3>1, <3>3, <3>5 DEF StatusOf, Queued
        <4>4. CASE Queued(t)'
          <5>1. StatusOf(t)' = "queued"
            BY <2>1, <3>3, <3>5, <4>4 DEF StatusOf
          <5> QED
            BY <2>1, <3>1, <3>2, <4>3, <5>1, KeptStatus
        <4>5. CASE ~Queued(t)'
          <5>1. c.queue = QueueDLQ
            BY <4>1, <4>2, <4>5 DEF Queued
          <5>2. StatusOf(t)' = "dead"
            BY <2>1, <3>3, <3>5, <4>1, <4>2, <4>5, <5>1 DEF StatusOf, Buried
          <5>3. t \in Malformed \/ failures[t] >= 3
            BY <4>1, <5>1, <1>a DEF EarnedInv, RetriesEarned
          <5> QED
            BY <2>1, <3>1, <3>2, <4>3, <5>2, <5>3, <1>c DEF Ledger!Bury
        <4> QED
          BY <4>4, <4>5
      <3> QED
        BY <3>4, <3>5
    <2> QED
      BY <2>2, <2>3
  <1>7. ASSUME NEW w \in Workers, NEW failed \in BOOLEAN, HandlerReturns(w, failed)
        PROVE  Ledger!Fail(delivery[w].id) \/ UNCHANGED <<taskStatus, failures>>
    <2>t. PICK t : t = delivery[w].id
      OBVIOUS
    <2> USE <2>t
    <2>1. /\ UNCHANGED <<copies, published, processed>>
          /\ pc[w] = "handle"
          /\ failures' = failures \/ failures' = [failures EXCEPT ![t] = @ + 1]
      BY <1>7 DEF HandlerReturns, brokerVars
    <2>2. UNCHANGED taskStatus
      BY <2>1, SameStatus DEF Queued, Buried
    <2>3. t \in published /\ t \in Messages
      BY <2>1, <1>a, <1>b, CopyTypes DEF KnownInv, HoldInv
    <2>4. StatusOf(t) # "new"
      BY <2>3 DEF StatusOf
    <2> QED
      BY <2>1, <2>2, <2>3, <2>4, <1>c DEF Ledger!Fail
  <1>8. ASSUME NEW q \in RetryQueues, Expire(q) PROVE UNCHANGED <<taskStatus, failures>>
    <2>1. PICK c \in copies, new \in Copy :
             /\ copies' = (copies \ {c}) \union {new}
             /\ c.queue = q /\ new.id = c.id /\ new.queue = QueueProcessing
      BY <1>8, ExpiredFacts DEF Expire, IsHead, Ready
    <2>2. UNCHANGED <<published, processed, failures>>
      BY <1>8 DEF Expire, historyVars
    <2> QED
      BY <2>1, <2>2, QueueNames, SameStatus DEF Queued, Buried
  <1>9. ASSUME BrokerRestart PROVE Ledger!Outage
    <2>1. /\ copies' = {c \in copies : c.mode = "persistent"}
          /\ UNCHANGED <<published, processed, failures>>
      BY <1>9 DEF BrokerRestart, historyVars
    <2> DEFINE Victims == {t \in Messages : StatusOf(t)' # StatusOf(t)}
    <2>2. ASSUME NEW t \in Victims
          PROVE  StatusOf(t) \in {"queued", "dead"} /\ failures[t] > 0 /\ StatusOf(t)' = "lost"
      <3>1. t \in published \ processed
        BY <2>1 DEF StatusOf
      <3>2. \A c \in copies : c.mode \in {"persistent", "transient"}
        BY <1>a, CopyTypes DEF QueueTypeOK, Modes
      <3>3. t \notin Malformed
        <4> SUFFICES ASSUME t \in Malformed PROVE FALSE
          OBVIOUS
        <4>1. \A c \in copies : c.id = t => c \in copies'
          BY <2>1, <1>a DEF EarnedInv
        <4>2. (Queued(t)' <=> Queued(t)) /\ (Buried(t)' <=> Buried(t))
          BY <2>1, <4>1 DEF Queued, Buried
        <4> QED
          BY <2>1, <3>1, <4>2 DEF StatusOf
      <3>4. ~Buried(t)'
        BY <2>1, <3>3, <1>b DEF Buried, DeadInv
      <3>5. Queued(t) \/ Buried(t)
        BY <2>1, <3>1, <3>4 DEF StatusOf, Queued, Buried
      <3>6. ~Queued(t)'
        <4> SUFFICES ASSUME Queued(t)' PROVE FALSE
          OBVIOUS
        <4>1. Queued(t)
          BY <2>1 DEF Queued
        <4> QED
          BY <2>1, <3>1, <4>1 DEF StatusOf
      <3>7. PICK c \in copies : c.id = t /\ c.mode = "transient"
        BY <2>1, <3>2, <3>4, <3>5, <3>6 DEF Queued, Buried
      <3>8. failures[t] > 0
        BY <3>3, <3>7, <1>a DEF EarnedInv
      <3> QED
        BY <2>1, <3>1, <3>4, <3>5, <3>6, <3>8 DEF StatusOf
    <2>3. taskStatus' = [t \in Messages |-> IF t \in Victims THEN "lost" ELSE taskStatus[t]]
      BY <2>2, <1>c DEF taskStatus
    <2>4. Victims \in SUBSET {t \in Messages : taskStatus[t] \in {"queued", "dead"} /\ failures[t] > 0}
      BY <2>2, <1>c
    <2> QED
      BY <2>1, <2>3, <2>4 DEF Ledger!Outage
  <1>10. ASSUME UNCHANGED <<copies, published, processed, failures>>
         PROVE  UNCHANGED <<taskStatus, failures>>
    BY <1>10, SameStatus DEF Queued, Buried
  <1>11. CASE PublisherRestart \/ PublisherLost
    BY <1>11, <1>10 DEF PublisherRestart, PublisherLost, historyVars
  <1>12. ASSUME NEW w \in Workers,
                Deliver(w) \/ ConsumeReturns(w) \/ Shutdown(w) \/ Crash(w) \/ ConnectionLost(w)
         PROVE  UNCHANGED <<taskStatus, failures>>
    BY <1>12, <1>10 DEF Deliver, ConsumeReturns, Shutdown, Crash, ConnectionLost,
       brokerVars,
       historyVars
  <1>13. CASE UNCHANGED queueVars
    BY <1>13, <1>10 DEF queueVars, brokerVars, historyVars
  <1>14. \A w \in Workers : pc[w] # "receive" => delivery[w].id \in Messages
    BY <1>a, CopyTypes DEF HoldInv
  <1>15. \A w \in Workers :
           RejectMalformed(w) \/ MarkProcessed(w) \/ AckDelivery(w)
             \/ (\E failed \in BOOLEAN : HandlerReturns(w, failed)) => delivery[w].id \in Messages
    BY <1>14 DEF RejectMalformed, MarkProcessed, AckDelivery, HandlerReturns
  <1> QED
    BY <1>1, <1>2, <1>3, <1>4, <1>5, <1>6, <1>7, <1>8, <1>9, <1>11, <1>12, <1>13, <1>15
    DEF QueueNext, Consumer, Environment, Ledger!Next

\* LedgerInv is an invariant of the queue.
LEMMA LedgerInvariant == QueueSpec => []LedgerInv
  BY LedgerInvInit, LedgerInvStep, QueueInvariant, PTL DEF QueueSpec

\* The queue implements the ledger, for any number of messages, workers and faults.
THEOREM ImplementsLedger == QueueSpec => LedgerSpec
  <1>1. QueueInit => Ledger!Init
    BY DEF QueueInit, Ledger!Init, taskStatus, StatusOf
  <1> QED
    BY <1>1, LedgerStep, LedgerInvariant, QueueInvariant, PTL
    DEF QueueSpec, LedgerSpec, Ledger!Spec
-----------------------------------------------------------------------------
\* Without faults every channel is open, and of two copies of a message one is about
\* to be acknowledged: SendToRetry has published the other.
HandsInv ==
    (faults = 0 /\ restarts = 0) =>
        /\ open = Workers
        /\ stopping = {}
        /\ \A c, d \in copies : c.id = d.id /\ c # d =>
             \E w \in unacked : pc[w] = "ack" /\ delivery[w] \in {c, d}

\* Then two workers between the idempotency check and the outcome hold the same copy,
\* and the broker gives a copy to one of them only.
LEMMA HandsExclude == QueueInv /\ LedgerInv /\ HandsInv => ExclusiveHandling
  <1> SUFFICES ASSUME QueueInv, LedgerInv, HandsInv, faults = 0, restarts = 0,
                      NEW w \in Workers, NEW x \in Workers,
                      pc[w] \in {"handle", "retry", "mark"},
                      pc[x] \in {"handle", "retry", "mark"},
                      delivery[w].id = delivery[x].id
               PROVE  w = x
    BY DEF ExclusiveHandling
  <1>1. w \in unacked /\ x \in unacked
    BY DEF LedgerInv, OpenInv, HandsInv
  <1>2. delivery[w] \in copies /\ delivery[x] \in copies
    BY <1>1 DEF QueueInv, HoldInv
  <1>3. delivery[w] = delivery[x]
    <2> SUFFICES ASSUME delivery[w] # delivery[x] PROVE FALSE
      OBVIOUS
    <2>1. PICK y \in unacked : pc[y] = "ack" /\ delivery[y] \in {delivery[w], delivery[x]}
      BY <1>2 DEF HandsInv
    <2>2. y = w \/ y = x
      BY <1>1, <2>1 DEF QueueInv, HoldInv
    <2> QED
      BY <2>1, <2>2
  <1> QED
    BY <1>1, <1>3 DEF QueueInv, HoldInv

\* The fault counters never go back.
LEMMA FaultFree ==
    QueueTypeOK /\ [QueueNext]_queueVars /\ faults' = 0 /\ restarts' = 0
      => faults = 0 /\ restarts = 0
  <1> SUFFICES ASSUME QueueTypeOK, [QueueNext]_queueVars, faults' = 0, restarts' = 0
               PROVE  faults = 0 /\ restarts = 0
    OBVIOUS
  <1>1. \A kind : ~Fault(kind)
    BY DEF Fault, QueueTypeOK
  <1>2. ~BrokerRestart
    BY DEF BrokerRestart, QueueTypeOK
  <1>3. CASE UNCHANGED queueVars
    BY <1>3 DEF queueVars, brokerVars
  <1>4. CASE QueueNext
    <2>1. ASSUME NEW w \in Workers, Consumer(w) PROVE UNCHANGED <<faults, restarts>>
      BY <1>1, <2>1 DEF Consumer, Deliver, RejectMalformed, IsProcessed, SendToRetry,
         MarkProcessed, AckDelivery, Answers
    <2> QED
      BY <1>1, <1>2, <1>4, <2>1 DEF QueueNext, PublishAvatarProcess, PublisherRestart,
         HandlerReturns, ConsumeReturns, Environment, PublisherLost, Expire, Shutdown,
         Crash, ConnectionLost, brokerVars
  <1> QED
    BY <1>3, <1>4

\* Every step of the queue preserves HandsInv.
LEMMA HandsStep == QueueInv /\ LedgerInv /\ HandsInv /\ [QueueNext]_queueVars => HandsInv'
  <1> SUFFICES ASSUME QueueInv, LedgerInv, HandsInv, [QueueNext]_queueVars,
                      faults' = 0, restarts' = 0
               PROVE  HandsInv'
    BY DEF HandsInv
  <1>a. QueueTypeOK /\ HoldInv /\ PosInv /\ KnownInv /\ OpenInv
    BY DEF QueueInv, LedgerInv
  <1>b. \A kind : ~Fault(kind)
    BY <1>a DEF Fault, QueueTypeOK
  <1>c. ~BrokerRestart
    BY <1>a DEF BrokerRestart, QueueTypeOK
  <1>d. faults = 0 /\ restarts = 0
    BY <1>a, FaultFree
  <1>e. /\ open = Workers
        /\ stopping = {}
        /\ \A c, d \in copies : c.id = d.id /\ c # d =>
             \E w \in unacked : pc[w] = "ack" /\ delivery[w] \in {c, d}
    BY <1>d DEF HandsInv
  <1>f. \A w \in Workers, o \in Outcomes : Answers(w, o) => o = "ok"
    BY <1>b, <1>e DEF Answers
  <1>1. ASSUME NEW m \in Messages, PublishAvatarProcess(m) PROVE HandsInv'
    <2>1. PICK new \in Copy : copies' = copies \union {new} /\ new.id = m
      BY <1>1, <1>a, PublishedFacts DEF PublishAvatarProcess, QueueTypeOK
    <2>2. \A c \in copies : c.id # m
      BY <1>1, <1>a DEF PublishAvatarProcess, KnownInv
    <2> QED
      BY <1>1, <1>e, <2>1, <2>2 DEF PublishAvatarProcess, HandsInv, consumerVars
  <1>2. CASE PublisherRestart
    BY <1>2, <1>e DEF PublisherRestart, HandsInv, consumerVars
  <1>3. ASSUME NEW w \in Workers, Deliver(w) PROVE HandsInv'
    BY <1>3, <1>a, <1>e DEF Deliver, HandsInv, HoldInv, QueueTypeOK
  <1>4. ASSUME NEW w \in Workers, RejectMalformed(w) PROVE HandsInv'
    <2>1. w \in unacked
      BY <1>4, <1>a, <1>e DEF RejectMalformed, OpenInv
    <2>2. PICK new : copies' = (copies \ {delivery[w]}) \union {new} /\ new.id = delivery[w].id
      BY <1>4, <2>1, RejectedFacts DEF RejectMalformed, NackDrop
    <2>3. delivery[w] \in copies
      BY <2>1, <1>a DEF HoldInv
    <2>4. \A c, d \in copies' : c.id = d.id /\ c # d =>
            \E x \in unacked \ {w} : pc[x] = "ack" /\ delivery[x] \in {c, d}
      BY <1>4, <1>e, <2>1, <2>2, <2>3, <1>a DEF RejectMalformed, HoldInv
    <2> QED
      BY <1>4, <1>e, <2>4 DEF RejectMalformed, NackDrop, Return, HandsInv, HoldInv,
         QueueTypeOK
  <1>5. ASSUME NEW w \in Workers, IsProcessed(w) PROVE HandsInv'
    <2>1. w \in unacked /\ delivery[w] \in copies
      BY <1>5, <1>a, <1>e DEF IsProcessed, OpenInv, HoldInv
    <2>2. CASE UNCHANGED <<copies, unacked>> /\ Goto(w, "handle")
      BY <1>5, <2>2, <1>a, <1>e DEF IsProcessed, Goto, HandsInv, HoldInv, QueueTypeOK
    <2>3. CASE Ack(w) /\ Return(w)
      <3>1. \A c, d \in copies' : c.id = d.id /\ c # d =>
              \E x \in unacked \ {w} : pc[x] = "ack" /\ delivery[x] \in {c, d}
        BY <1>5, <2>1, <2>3, <1>e DEF IsProcessed, Ack
      <3> QED
        BY <1>5, <2>3, <3>1, <1>e DEF IsProcessed, Ack, Return, HandsInv, QueueTypeOK
    <2> QED
      BY <1>5, <2>2, <2>3, <1>f DEF IsProcessed, Outcomes
  <1>6. ASSUME NEW w \in Workers, SendToRetry(w) PROVE HandsInv'
    <2>1. w \in unacked /\ delivery[w] \in copies
      BY <1>6, <1>a, <1>e DEF SendToRetry, OpenInv, HoldInv
    <2>2. PICK new : copies' = copies \union {new} /\ new.id = delivery[w].id
      BY <1>6, <1>e, RetriedFacts DEF SendToRetry
    <2>3. /\ pc[w] = "retry"
          /\ pc' = [pc EXCEPT ![w] = "ack"]
          /\ UNCHANGED <<unacked, delivery, open, stopping>>
      BY <1>6, <1>e DEF SendToRetry, Goto
    <2>4. \A d \in copies : d.id = delivery[w].id /\ d # delivery[w] =>
            \E x \in unacked : pc[x] = "ack" /\ delivery[x] = d
      BY <2>1, <2>3, <1>a, <1>e DEF HoldInv
    <2>5. \A x \in unacked : pc[x] = "ack" => pc'[x] = "ack"
      BY <2>3, <1>a DEF QueueTypeOK
    <2>6. pc'[w] = "ack"
      BY <2>3, <1>a DEF QueueTypeOK
    <2>7. ASSUME NEW c \in copies', NEW d \in copies', c.id = d.id, c # d
          PROVE  \E x \in unacked : pc'[x] = "ack" /\ delivery[x] \in {c, d}
      BY <2>7, <2>1, <2>2, <2>4, <2>5, <2>6, <1>e
    <2> QED
      BY <2>3, <2>7, <1>e DEF HandsInv
  <1>7. ASSUME NEW w \in Workers, MarkProcessed(w) PROVE HandsInv'
    <2>1. UNCHANGED <<copies, unacked, open, stopping>> /\ Goto(w, "ack")
      BY <1>7, <1>f DEF MarkProcessed
    <2> QED
      BY <2>1, <1>a, <1>e DEF Goto, HandsInv, QueueTypeOK
  <1>8. ASSUME NEW w \in Workers, AckDelivery(w) PROVE HandsInv'
    <2>1. w \in unacked
      BY <1>8, <1>a, <1>e DEF AckDelivery, OpenInv
    <2>2. \A c, d \in copies' : c.id = d.id /\ c # d =>
            \E x \in unacked \ {w} : pc[x] = "ack" /\ delivery[x] \in {c, d}
      BY <1>8, <2>1, <1>e DEF AckDelivery, Ack
    <2> QED
      BY <1>8, <2>2, <1>e DEF AckDelivery, Ack, Return, HandsInv, QueueTypeOK
  <1>9. ASSUME NEW w \in Workers, NEW failed \in BOOLEAN, HandlerReturns(w, failed)
        PROVE  HandsInv'
    BY <1>9, <1>a, <1>e DEF HandlerReturns, Goto, HandsInv, QueueTypeOK, brokerVars
  <1>10. ASSUME NEW w \in Workers, ConsumeReturns(w) PROVE HandsInv'
    BY <1>10, <1>e DEF ConsumeReturns
  <1>11. ASSUME NEW q \in RetryQueues, Expire(q) PROVE HandsInv'
    <2>1. PICK c \in copies, new \in Copy :
             /\ copies' = (copies \ {c}) \union {new}
             /\ \A x \in unacked : delivery[x] # c
             /\ new.id = c.id
      BY <1>11, ExpiredFacts DEF Expire, IsHead, Ready
    <2>2. \A d, e \in copies' : d.id = e.id /\ d # e =>
            \E x \in unacked : pc[x] = "ack" /\ delivery[x] \in {d, e}
      BY <2>1, <1>e
    <2> QED
      BY <1>11, <2>2, <1>e DEF Expire, HandsInv, consumerVars
  <1>12. CASE UNCHANGED queueVars
    BY <1>12, <1>e DEF HandsInv, queueVars, brokerVars, consumerVars
  <1> QED
    BY <1>1, <1>2, <1>3, <1>4, <1>5, <1>6, <1>7, <1>8, <1>9, <1>10, <1>11, <1>12, <1>b,
       <1>c
    DEF QueueNext, Consumer, Environment, PublisherLost, Shutdown, Crash, ConnectionLost

\* HandsInv is an invariant of the queue.
LEMMA HandsInvariant == QueueSpec => []HandsInv
  <1>1. QueueInit => HandsInv
    BY DEF QueueInit, HandsInv
  <1> QED
    BY <1>1, HandsStep, LedgerInvariant, QueueInvariant, PTL DEF QueueSpec

\* Without faults no two workers are between the idempotency check and the outcome
\* of the same task.
THEOREM OneWorkerPerTask == QueueSpec => []ExclusiveHandling
  BY HandsInvariant, HandsExclude, LedgerInvariant, QueueInvariant, PTL

\* Every step of the queue preserves NoRework: only MarkProcessed adds to
\* processed_messages, and the worker that runs it holds the task alone.
LEMMA ReworkStep ==
    QueueInv /\ ExclusiveHandling /\ NoRework /\ [QueueNext]_queueVars => NoRework'
  <1> SUFFICES ASSUME QueueInv, ExclusiveHandling, NoRework, [QueueNext]_queueVars,
                      Cardinality(Workers) = 1 \/ (faults' = 0 /\ restarts' = 0),
                      NEW w \in Workers, pc'[w] \in {"handle", "retry"}
               PROVE  delivery'[w].id \notin processed'
    BY DEF NoRework
  <1>a. QueueTypeOK
    BY DEF QueueInv
  <1>b. Cardinality(Workers) = 1 \/ (faults = 0 /\ restarts = 0)
    BY <1>a, FaultFree
  <1>c. Cardinality(Workers) = 1 => \A x \in Workers : x = w
    BY QueueAssumption, FS_Singleton
  <1>d. pc[w] \in {"handle", "retry"} => delivery[w].id \notin processed
    BY <1>b DEF NoRework
  <1>1. ASSUME pc[w] \in {"handle", "retry"}, delivery'[w] = delivery[w],
               processed' = processed
        PROVE  delivery'[w].id \notin processed'
    BY <1>1, <1>d
  <1>2. ASSUME NEW x \in Workers, Consumer(x) \/ ConsumeReturns(x)
        PROVE  delivery'[w].id \notin processed'
    <2>1. CASE Deliver(x)
      BY <2>1, <1>1, <1>a DEF Deliver, QueueTypeOK
    <2>2. CASE RejectMalformed(x)
      BY <2>2, <1>1, <1>a DEF RejectMalformed, Return, QueueTypeOK
    <2>3. CASE IsProcessed(x)
      BY <2>3, <1>1, <1>a DEF IsProcessed, Return, Goto, QueueTypeOK
    <2>4. CASE SendToRetry(x)
      BY <2>4, <1>1, <1>a DEF SendToRetry, Return, Goto, QueueTypeOK
    <2>5. CASE MarkProcessed(x)
      <3>1. /\ pc[x] = "mark"
            /\ x # w
            /\ pc[w] \in {"handle", "retry"}
            /\ delivery'[w] = delivery[w]
            /\ processed' \subseteq processed \union {delivery[x].id}
        BY <2>5, <1>a DEF MarkProcessed, Return, Goto, QueueTypeOK
      <3>2. delivery[w].id # delivery[x].id
        <4> SUFFICES ASSUME delivery[w].id = delivery[x].id, pc[w] = "handle" \/ pc[w] = "retry"
                     PROVE  FALSE
          BY <3>1
        <4> QED
          BY <3>1, <1>b, <1>c DEF ExclusiveHandling
      <3> QED
        BY <3>1, <3>2, <1>d
    <2>6. CASE AckDelivery(x)
      BY <2>6, <1>1, <1>a DEF AckDelivery, Return, QueueTypeOK
    <2>7. CASE ConsumeReturns(x)
      BY <2>7, <1>1 DEF ConsumeReturns
    <2> QED
      BY <1>2, <2>1, <2>2, <2>3, <2>4, <2>5, <2>6, <2>7 DEF Consumer
  <1>3. ASSUME NEW x \in Workers, NEW failed \in BOOLEAN, HandlerReturns(x, failed)
        PROVE  delivery'[w].id \notin processed'
    BY <1>3, <1>1, <1>a DEF HandlerReturns, Goto, QueueTypeOK
  <1>4. CASE (\E m \in Messages : PublishAvatarProcess(m)) \/ PublisherRestart
    BY <1>4, <1>1 DEF PublishAvatarProcess, PublisherRestart, consumerVars
  <1>5. CASE Environment
    BY <1>5, <1>1, <1>a DEF Environment, PublisherLost, Expire, Shutdown, Crash, Return,
       ConnectionLost, BrokerRestart, QueueTypeOK, consumerVars
  <1>6. CASE UNCHANGED queueVars
    BY <1>6, <1>1 DEF queueVars, consumerVars
  <1> QED
    BY <1>2, <1>3, <1>4, <1>5, <1>6 DEF QueueNext

\* With one worker, or without faults, nothing that is already in processed_messages
\* is handled or scheduled for a retry.
THEOREM ProcessedOnce == QueueSpec => []NoRework
  <1>1. QueueInit => NoRework
    BY DEF QueueInit, NoRework
  <1> QED
    BY <1>1, ReworkStep, OneWorkerPerTask, QueueInvariant, PTL DEF QueueSpec
=============================================================================
