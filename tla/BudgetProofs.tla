---------------------------- MODULE BudgetProofs ----------------------------
(***************************************************************************)
(* The retry budget of module Queue, proved for any number of messages,    *)
(* workers, faults and broker restarts.                                    *)
(*                                                                         *)
(* The argument counts the attempts that may still fail.  A copy with the  *)
(* retry count r stands for 3 - r of them, each a token; a worker whose    *)
(* delivery was given back to the broker may still fail once more, a token *)
(* of its own.  A failure spends a token; SendToRetry and Expire move      *)
(* tokens to another copy; a crash or a lost connection hands back at most *)
(* the three of one delivery, a broker restart the three of each worker.   *)
(* So failures and tokens together never exceed the budget (BudgetInv).    *)
(***************************************************************************)
EXTENDS QueueProofs

\* A worker that holds a copy has spent an attempt of it when it is about to schedule
\* the retry, and hands the others over with SendToRetry.
Unspent(w, k) ==
    \/ pc[w] \in {"decode", "handle", "mark"}
    \/ pc[w] = "retry" /\ k > delivery[w].retry + 1

Spare(c, k, m) ==
    /\ c.id = m
    /\ c.queue # QueueDLQ
    /\ k > c.retry
    /\ \A w \in unacked : delivery[w] = c => Unspent(w, k)

InHand(w, m) ==
    /\ w \notin unacked
    /\ pc[w] \in {"decode", "handle"}
    /\ delivery[w].id = m

Tokens(m) ==
    {t \in copies \X (1..3) : Spare(t[1], t[2], m)}
        \union {t \in Workers \X {0} : InHand(t[1], m)}

Budget == 3 * (1 + faults + restarts * Cardinality(Workers))

Within(m) ==
    /\ IsFiniteSet(Tokens(m))
    /\ failures[m] + Cardinality(Tokens(m)) <= Budget

BudgetInv == \A m \in Messages : Within(m) /\ (m \notin published => failures[m] = 0)

-----------------------------------------------------------------------------
(***************************************************************************)
(* The budget.                                                             *)
(***************************************************************************)

\* The budget is a number, and never shrinks.
LEMMA BudgetFacts ==
    ASSUME QueueTypeOK, QueueTypeOK'
    PROVE  /\ Budget \in Nat /\ Budget >= 3
           /\ Budget' \in Nat
           /\ UNCHANGED <<faults, restarts>> => Budget' = Budget
           /\ faults' = faults + 1 /\ restarts' = restarts => Budget' = Budget + 3
           /\ faults' = faults /\ restarts' = restarts + 1 =>
                Budget' = Budget + 3 * Cardinality(Workers)
  <1>1. PICK n \in Nat : n = Cardinality(Workers)
    BY QueueAssumption, FS_CardinalityType
  <1>2. faults \in Nat /\ restarts \in Nat /\ faults' \in Nat /\ restarts' \in Nat
    BY DEF QueueTypeOK
  <1>3. PICK p \in Nat, q \in Nat : p = restarts * n /\ q = restarts' * n
    BY <1>1, <1>2
  <1>4. (restarts + 1) * n = p + n
    BY <1>1, <1>2, <1>3
  <1>5. Budget = 3 * (1 + faults + p)
    BY <1>1, <1>3 DEF Budget
  <1>7. Budget' = 3 * (1 + faults' + q)
    BY <1>1, <1>3 DEF Budget
  <1>6. /\ restarts' = restarts => Budget' = 3 * (1 + faults' + p)
        /\ restarts' = restarts + 1 => Budget' = 3 * (1 + faults' + (p + n))
    BY <1>1, <1>3, <1>4 DEF Budget
  <1> QED
    BY <1>1, <1>2, <1>3, <1>5, <1>6, <1>7

\* A step that adds n tokens keeps within a budget that grows by n.
LEMMA Grows ==
    ASSUME QueueTypeOK, QueueTypeOK', NEW m \in Messages, Within(m), NEW n \in Nat,
           IsFiniteSet(Tokens(m)'),
           Cardinality(Tokens(m)') <= Cardinality(Tokens(m)) + n,
           failures'[m] = failures[m],
           Budget' >= Budget + n
    PROVE  Within(m)'
  <1>1. Cardinality(Tokens(m)) \in Nat /\ Cardinality(Tokens(m)') \in Nat
    BY FS_CardinalityType DEF Within
  <1>2. failures[m] \in Nat /\ Budget \in Nat /\ Budget' \in Nat
    BY BudgetFacts DEF QueueTypeOK
  <1> QED
    BY <1>1, <1>2 DEF Within

\* A step that adds no tokens.
LEMMA Fewer ==
    ASSUME QueueTypeOK, QueueTypeOK', NEW m \in Messages, Within(m),
           Tokens(m)' \subseteq Tokens(m),
           failures'[m] = failures[m],
           Budget' >= Budget
    PROVE  Within(m)'
  <1>1. /\ IsFiniteSet(Tokens(m)')
        /\ Cardinality(Tokens(m)') <= Cardinality(Tokens(m))
        /\ Cardinality(Tokens(m)) \in Nat
    BY FS_Subset, FS_CardinalityType DEF Within
  <1>2. Cardinality(Tokens(m)') \in Nat /\ Budget \in Nat
    BY <1>1, BudgetFacts, FS_CardinalityType
  <1> QED
    BY <1>1, <1>2, Grows

\* One more element.
LEMMA OneMore ==
    ASSUME NEW S, IsFiniteSet(S), NEW x
    PROVE  /\ IsFiniteSet(S \union {x})
           /\ Cardinality(S \union {x}) \in Nat
           /\ Cardinality(S \union {x}) <= Cardinality(S) + 1
  <1>1. Cardinality(S) \in Nat
    BY FS_CardinalityType
  <1>2. /\ IsFiniteSet(S \union {x})
        /\ Cardinality(S \union {x}) = IF x \in S THEN Cardinality(S) ELSE Cardinality(S) + 1
    BY FS_AddElement
  <1> QED
    BY <1>1, <1>2

\* Three more elements at most.
LEMMA ThreeMore ==
    ASSUME NEW S, IsFiniteSet(S), NEW x, NEW y, NEW z,
           NEW T \in SUBSET (((S \union {x}) \union {y}) \union {z})
    PROVE  IsFiniteSet(T) /\ Cardinality(T) <= Cardinality(S) + 3
  <1>1. PICK S1 : S1 = S \union {x}
    OBVIOUS
  <1>2. PICK S2 : S2 = S1 \union {y}
    OBVIOUS
  <1>3. PICK S3 : S3 = S2 \union {z}
    OBVIOUS
  <1>4. Cardinality(S) \in Nat
    BY FS_CardinalityType
  <1>5. IsFiniteSet(S1) /\ Cardinality(S1) \in Nat /\ Cardinality(S1) <= Cardinality(S) + 1
    BY <1>1, OneMore
  <1>6. IsFiniteSet(S2) /\ Cardinality(S2) \in Nat /\ Cardinality(S2) <= Cardinality(S1) + 1
    BY <1>2, <1>5, OneMore
  <1>7. IsFiniteSet(S3) /\ Cardinality(S3) \in Nat /\ Cardinality(S3) <= Cardinality(S2) + 1
    BY <1>3, <1>6, OneMore
  <1>8. T \in SUBSET S3
    BY <1>1, <1>2, <1>3
  <1>9. IsFiniteSet(T) /\ Cardinality(T) <= Cardinality(S3)
    BY <1>7, <1>8, FS_Subset
  <1>10. Cardinality(T) \in Nat
    BY <1>9, FS_CardinalityType
  <1> QED
    BY <1>4, <1>5, <1>6, <1>7, <1>9, <1>10

\* A step that adds three tokens at most, and a fault.
LEMMA HandedBack ==
    ASSUME QueueTypeOK, QueueTypeOK', NEW m \in Messages, Within(m), NEW x, NEW y, NEW z,
           Tokens(m)' \subseteq ((Tokens(m) \union {x}) \union {y}) \union {z},
           failures'[m] = failures[m],
           faults' = faults + 1, restarts' = restarts
    PROVE  Within(m)'
  <1>1. IsFiniteSet(Tokens(m)') /\ Cardinality(Tokens(m)') <= Cardinality(Tokens(m)) + 3
    BY ThreeMore DEF Within
  <1>2. Budget' >= Budget + 3 /\ 3 \in Nat
    BY BudgetFacts
  <1> QED
    BY <1>1, <1>2, Grows

\* The image of a finite set is no larger.
LEMMA ImageBound ==
    ASSUME NEW S, IsFiniteSet(S), NEW f, NEW T, \A t \in T : \E s \in S : t = f[s]
    PROVE  IsFiniteSet(T) /\ Cardinality(T) <= Cardinality(S)
  <1> DEFINE R == {f[s] : s \in S}
             g == [s \in S |-> f[s]]
  <1>1. g \in Surjection(S, R)
    BY DEF Surjection
  <1>2. IsFiniteSet(R) /\ Cardinality(R) <= Cardinality(S)
    BY <1>1, FS_Surjection
  <1>3. T \in SUBSET R
    OBVIOUS
  <1>4. IsFiniteSet(T) /\ Cardinality(T) <= Cardinality(R)
    BY <1>2, <1>3, FS_Subset
  <1>5. Cardinality(T) \in Nat /\ Cardinality(R) \in Nat /\ Cardinality(S) \in Nat
    BY <1>2, <1>4, FS_CardinalityType
  <1> QED
    BY <1>2, <1>4, <1>5

\* A step that moves the tokens of one copy to another.
LEMMA Moved ==
    ASSUME QueueTypeOK, QueueTypeOK', NEW m \in Messages, Within(m), NEW c, NEW new,
           \A t \in Tokens(m)' :
               \/ t \in Tokens(m) /\ (t[1] # c \/ t[2] = 0)
               \/ \E k \in 1..3 : t = <<new, k>> /\ <<c, k>> \in Tokens(m),
           failures'[m] = failures[m],
           Budget' >= Budget
    PROVE  Within(m)'
  <1> DEFINE S == Tokens(m)
             f == [t \in S |-> IF t[1] = c /\ t[2] # 0 THEN <<new, t[2]>> ELSE t]
  <1>1. \A t \in Tokens(m)' : \E s \in S : t = f[s]
    <2> SUFFICES ASSUME NEW t \in Tokens(m)' PROVE \E s \in S : t = f[s]
      OBVIOUS
    <2>1. CASE t \in Tokens(m) /\ (t[1] # c \/ t[2] = 0)
      BY <2>1
    <2>2. CASE \E k \in 1..3 : t = <<new, k>> /\ <<c, k>> \in Tokens(m)
      <3>1. PICK k \in 1..3 : t = <<new, k>> /\ <<c, k>> \in Tokens(m)
        BY <2>2
      <3>2. f[<<c, k>>] = <<new, k>>
        BY <3>1
      <3> QED
        BY <3>1, <3>2
    <2> QED
      BY <2>1, <2>2
  <1>2. IsFiniteSet(S) /\ Cardinality(S) \in Nat
    BY FS_CardinalityType DEF Within
  <1>3. IsFiniteSet(Tokens(m)') /\ Cardinality(Tokens(m)') <= Cardinality(S)
    <2> HIDE DEF S, f
    <2> QED
      BY <1>1, <1>2, ImageBound
  <1>4. Cardinality(Tokens(m)') \in Nat /\ Budget \in Nat
    BY <1>3, BudgetFacts, FS_CardinalityType
  <1> QED
    BY <1>2, <1>3, <1>4, Grows

-----------------------------------------------------------------------------
(***************************************************************************)
(* The steps of the queue.                                                 *)
(***************************************************************************)

\* The tokens of a copy, and the one of a worker that lost its delivery.
LEMMA TokenKinds ==
    ASSUME NEW m
    PROVE  /\ \A c, k : <<c, k>> \in Tokens(m) <=>
                \/ c \in copies /\ k \in 1..3 /\ Spare(c, k, m)
                \/ c \in Workers /\ k = 0 /\ InHand(c, m)
           /\ \A t \in Tokens(m) : \E c, k : t = <<c, k>>
  BY DEF Tokens

\* A step that makes no token.
LEMMA NoNewTokens ==
    ASSUME NEW m,
           \A c \in copies', k \in 1..3 : Spare(c, k, m)' => c \in copies /\ Spare(c, k, m),
           \A w \in Workers : InHand(w, m)' => InHand(w, m)
    PROVE  Tokens(m)' \subseteq Tokens(m)
  <1> SUFFICES ASSUME NEW t \in Tokens(m)' PROVE t \in Tokens(m)
    OBVIOUS
  <1>1. \/ \E c \in copies', k \in 1..3 : t = <<c, k>> /\ Spare(c, k, m)'
        \/ \E w \in Workers : t = <<w, 0>> /\ InHand(w, m)'
    BY DEF Tokens
  <1> QED
    BY <1>1, TokenKinds

\* A new message brings the three tokens of the initial budget.
LEMMA PublishBudget ==
    ASSUME QueueInv, LedgerInv, BudgetInv, QueueTypeOK', NEW p \in Messages,
           PublishAvatarProcess(p), NEW m \in Messages
    PROVE  Within(m)'
  <1>1. PICK new \in Copy : copies' = copies \union {new} /\ new.id = p
    BY PublishedFacts DEF PublishAvatarProcess, QueueInv, QueueTypeOK
  <1>2. UNCHANGED <<unacked, pc, delivery, failures, faults, restarts>>
    BY DEF PublishAvatarProcess, consumerVars
  <1>3. QueueTypeOK /\ Within(m)
    BY DEF QueueInv, BudgetInv
  <1>4. CASE m # p
    <2>1. Tokens(m)' \subseteq Tokens(m)
      BY <1>1, <1>2, <1>4, NoNewTokens DEF Spare, Unspent, InHand
    <2>2. Budget' >= Budget
      BY <1>2, <1>3, BudgetFacts
    <2> QED
      BY <1>2, <1>3, <2>1, <2>2, Fewer
  <1>5. CASE m = p
    <2>1. failures'[m] = 0
      BY <1>2, <1>5 DEF PublishAvatarProcess, BudgetInv
    <2>2. /\ \A c \in copies : c.id # m
          /\ \A w \in Workers : pc[w] # "receive" => delivery[w].id # m
      BY <1>5 DEF PublishAvatarProcess, LedgerInv, KnownInv
    <2>e. PICK none : none = {}
      OBVIOUS
    <2>3. Tokens(m)' \in SUBSET (((none \union {<<new, 1>>}) \union {<<new, 2>>}) \union {<<new, 3>>})
      <3> SUFFICES ASSUME NEW t \in Tokens(m)'
                   PROVE  t \in {<<new, 1>>, <<new, 2>>, <<new, 3>>}
        OBVIOUS
      <3>1. \/ \E c \in copies', k \in 1..3 : t = <<c, k>> /\ Spare(c, k, m)'
            \/ \E w \in Workers : t = <<w, 0>> /\ InHand(w, m)'
        BY DEF Tokens
      <3>2. ~ \E w \in Workers : InHand(w, m)'
        BY <1>2, <2>2 DEF InHand
      <3>3. \A c \in copies' : c.id = m => c = new
        BY <1>1, <2>2
      <3>4. PICK k \in 1..3 : t = <<new, k>>
        BY <3>1, <3>2, <3>3 DEF Spare
      <3> QED
        BY <3>4
    <2>4. IsFiniteSet(Tokens(m)') /\ Cardinality(Tokens(m)') <= 3
      <3>1. IsFiniteSet(none) /\ Cardinality(none) = 0
        BY <2>e, FS_EmptySet
      <3>2. PICK T, x, y, z : T = Tokens(m)' /\ x = <<new, 1>> /\ y = <<new, 2>> /\ z = <<new, 3>>
        OBVIOUS
      <3>3. T \in SUBSET (((none \union {x}) \union {y}) \union {z})
        BY <2>3, <3>2
      <3>4. IsFiniteSet(T) /\ Cardinality(T) <= Cardinality(none) + 3
        BY <3>1, <3>3, ThreeMore
      <3> QED
        BY <3>1, <3>2, <3>4
    <2>5. Budget' = Budget /\ Budget >= 3 /\ Budget \in Nat
      BY <1>2, <1>3, BudgetFacts
    <2>6. Cardinality(Tokens(m)') \in Nat
      BY <2>4, FS_CardinalityType
    <2> QED
      BY <2>1, <2>4, <2>5, <2>6 DEF Within
  <1> QED
    BY <1>4, <1>5

\* The steps of the consumer that spend or drop attempts and make none.
LEMMA ConsumerTokens ==
    ASSUME QueueInv, NEW w \in Workers, NEW m \in Messages,
           \/ Deliver(w)
           \/ RejectMalformed(w)
           \/ IsProcessed(w)
           \/ MarkProcessed(w)
           \/ AckDelivery(w)
           \/ \E failed \in BOOLEAN : HandlerReturns(w, failed)
    PROVE  Tokens(m)' \subseteq Tokens(m)
  <1> USE DEF QueueInv
  <1>1. CASE Deliver(w)
    BY <1>1, NoNewTokens DEF Deliver, Spare, Unspent, InHand, QueueTypeOK, HoldInv
  <1>2. CASE RejectMalformed(w)
    <2>1. \A c \in copies' : c.queue # QueueDLQ => c \in copies /\ (w \in unacked => c # delivery[w])
      BY <1>2, RejectedFacts DEF RejectMalformed, NackDrop
    <2> QED
      BY <1>2, <2>1, NoNewTokens
      DEF RejectMalformed, NackDrop, Return, Spare, Unspent, InHand, QueueTypeOK
  <1>3. CASE IsProcessed(w)
    BY <1>3, NoNewTokens
    DEF IsProcessed, NackRequeue, Ack, Return, Goto, Spare, Unspent, InHand, QueueTypeOK
  <1>4. CASE MarkProcessed(w)
    BY <1>4, NoNewTokens
    DEF MarkProcessed, NackRequeue, Return, Goto, Spare, Unspent, InHand, QueueTypeOK
  <1>5. CASE AckDelivery(w)
    BY <1>5, NoNewTokens
    DEF AckDelivery, Ack, Return, Spare, Unspent, InHand, QueueTypeOK
  <1>6. ASSUME NEW failed \in BOOLEAN, HandlerReturns(w, failed)
        PROVE  Tokens(m)' \subseteq Tokens(m)
    BY <1>6, NoNewTokens
    DEF HandlerReturns, Goto, Spare, Unspent, InHand, QueueTypeOK, brokerVars
  <1> QED
    BY <1>1, <1>2, <1>3, <1>4, <1>5, <1>6

\* A failure spends an attempt.
LEMMA FailureBudget ==
    ASSUME QueueInv, BudgetInv, QueueTypeOK', NEW w \in Workers, HandlerReturns(w, TRUE),
           NEW m \in Messages, m = delivery[w].id
    PROVE  Within(m)'
  <1>1. /\ QueueTypeOK /\ HoldInv /\ Within(m)
        /\ pc[w] = "handle" /\ delivery[w] \in Copy /\ delivery[w].retry \in 0..2
    BY CopyTypes DEF QueueInv, HoldInv, BudgetInv, HandlerReturns
  <1>2. /\ pc' = [pc EXCEPT ![w] = "retry"]
        /\ failures' = [failures EXCEPT ![m] = @ + 1]
        /\ UNCHANGED <<copies, unacked, delivery, faults, restarts>>
    BY DEF HandlerReturns, Goto, brokerVars
  <1>3. Tokens(m)' \subseteq Tokens(m)
    BY ConsumerTokens
  <1>4. PICK token : token \in Tokens(m) /\ token \notin Tokens(m)'
    <2>1. CASE w \in unacked
      <3>1. PICK k \in 1..3 : k = delivery[w].retry + 1
        BY <1>1
      <3>2. delivery[w] \in copies /\ delivery[w].queue # QueueDLQ
        BY <1>1, <2>1, QueueNames DEF HoldInv
      <3>3. \A x \in unacked : delivery[x] = delivery[w] => Unspent(x, k)
        BY <1>1, <2>1 DEF HoldInv, Unspent
      <3>4. k > delivery[w].retry
        BY <1>1, <3>1
      <3>5. Spare(delivery[w], k, m)
        BY <3>2, <3>3, <3>4 DEF Spare
      <3>6. <<delivery[w], k>> \in Tokens(m)
        BY <3>2, <3>5, TokenKinds
      <3>7. ~Unspent(w, k)'
        BY <1>1, <1>2, <3>1 DEF Unspent, QueueTypeOK
      <3>8. PICK c : c = delivery[w]
        OBVIOUS
      <3>9. ~Spare(c, k, m)'
        BY <1>2, <2>1, <3>7, <3>8 DEF Spare
      <3>10. <<c, k>> \notin Tokens(m)'
        BY <3>1, <3>9 DEF Tokens
      <3> QED
        BY <3>6, <3>8, <3>10
    <2>2. CASE w \notin unacked
      <3>1. InHand(w, m) /\ ~InHand(w, m)'
        BY <1>1, <1>2, <2>2 DEF InHand, QueueTypeOK
      <3>2. <<w, 0>> \in Tokens(m) /\ <<w, 0>> \notin Tokens(m)'
        BY <3>1 DEF Tokens
      <3> QED
        BY <3>2
    <2> QED
      BY <2>1, <2>2
  <1>5. /\ IsFiniteSet(Tokens(m)') /\ Cardinality(Tokens(m)') \in Nat
        /\ Cardinality(Tokens(m)) \in Nat
        /\ Cardinality(Tokens(m)') + 1 <= Cardinality(Tokens(m))
    <2>1. IsFiniteSet(Tokens(m)) /\ Cardinality(Tokens(m)) \in Nat
      BY <1>1, FS_CardinalityType DEF Within
    <2>2. PICK S : S = Tokens(m) \ {token}
      OBVIOUS
    <2>3. IsFiniteSet(S) /\ Cardinality(S) = Cardinality(Tokens(m)) - 1
      BY <1>4, <2>1, <2>2, FS_RemoveElement
    <2>4. Tokens(m)' \in SUBSET S
      BY <1>3, <1>4, <2>2
    <2>5. IsFiniteSet(Tokens(m)') /\ Cardinality(Tokens(m)') <= Cardinality(S)
      BY <2>3, <2>4, FS_Subset
    <2>6. Cardinality(Tokens(m)') \in Nat
      BY <2>5, FS_CardinalityType
    <2> QED
      BY <2>1, <2>3, <2>5, <2>6
  <1>6. failures'[m] = failures[m] + 1 /\ failures[m] \in Nat
    BY <1>1, <1>2 DEF QueueTypeOK
  <1>7. Budget' = Budget /\ Budget \in Nat
    BY <1>1, <1>2, BudgetFacts
  <1> QED
    BY <1>1, <1>5, <1>6, <1>7 DEF Within

\* The count on a retry copy is the count it was sent with.
LEMMA RetryCopyCounts ==
    ASSUME NEW m, NEW r \in 1..3
    PROVE  RetryCopy(m, r).queue # QueueDLQ => RetryCopy(m, r).retry = r
  <1>1. Route(ExchangeDLX, RoutingDLQ) = QueueDLQ
    BY DEF Route, ExchangeDefault, ExchangeDirect, ExchangeDLX, RoutingUpload, RoutingRetry,
       RoutingDLQ
  <1> QED
    BY <1>1 DEF RetryCopy, CopyAt

\* SendToRetry hands the remaining attempts over to the retry copy.
LEMMA RetryBudgetKept ==
    ASSUME QueueInv, LedgerInv, BudgetInv, QueueTypeOK', NEW w \in Workers, SendToRetry(w),
           NEW m \in Messages
    PROVE  Within(m)'
  <1>1. QueueTypeOK /\ HoldInv /\ Within(m) /\ delivery[w] \in Copy /\ pc[w] = "retry"
    BY DEF QueueInv, HoldInv, BudgetInv, SendToRetry
  <1>2. UNCHANGED <<failures, faults, restarts>>
    BY DEF SendToRetry, historyVars
  <1>3. Budget' >= Budget
    BY <1>1, <1>2, BudgetFacts
  <1>4. CASE w \notin open
    <2>1. w \notin unacked
      BY <1>1, <1>4 DEF HoldInv
    <2>2. Tokens(m)' \subseteq Tokens(m)
      BY <1>1, <1>4, <2>1, NoNewTokens
      DEF SendToRetry, NackRequeue, Return, Spare, Unspent, InHand, QueueTypeOK
    <2> QED
      BY <1>1, <1>2, <1>3, <2>2, Fewer
  <1>5. CASE w \in open
    <2>1. w \in unacked /\ delivery[w] \in copies /\ delivery[w].queue # QueueDLQ
      BY <1>1, <1>5, QueueNames DEF HoldInv, LedgerInv, OpenInv
    <2>2. PICK new : /\ new = RetryCopy(delivery[w].id, RetryCount(delivery[w]) + 1)
                     /\ copies' = copies \union {new}
      BY <1>5 DEF SendToRetry
    <2>3. /\ new.id = delivery[w].id
          /\ new.queue # QueueDLQ => new.retry = delivery[w].retry + 1
      <3>1. delivery[w].retry \in 0..2
        BY <1>1, CopyTypes
      <3> QED
        BY <1>1, <2>2, <3>1, RetriedFacts, RetryCopyCounts DEF RetryCount
    <2>4. /\ pc' = [pc EXCEPT ![w] = "ack"]
          /\ UNCHANGED <<unacked, delivery>>
      BY <1>5 DEF SendToRetry, Goto
    <2>5. ASSUME NEW t \in Tokens(m)'
          PROVE  \/ t \in Tokens(m) /\ (t[1] # delivery[w] \/ t[2] = 0)
                 \/ \E k \in 1..3 : t = <<new, k>> /\ <<delivery[w], k>> \in Tokens(m)
      <3>1. CASE \E x \in Workers : t = <<x, 0>> /\ InHand(x, m)'
        <4>1. PICK x \in Workers : t = <<x, 0>> /\ InHand(x, m)'
          BY <3>1
        <4>2. InHand(x, m)
          BY <1>1, <2>4, <4>1 DEF InHand, QueueTypeOK
        <4> QED
          BY <4>1, <4>2, TokenKinds
      <3>2. CASE \E c \in copies', k \in 1..3 : t = <<c, k>> /\ Spare(c, k, m)'
        <4>1. PICK c \in copies', k \in 1..3 : t = <<c, k>> /\ Spare(c, k, m)'
          BY <3>2
        <4>2. ~Unspent(w, k)'
          BY <1>1, <2>4 DEF Unspent, QueueTypeOK
        <4>3. c # delivery[w]
          BY <2>1, <2>4, <4>1, <4>2 DEF Spare
        <4>4. CASE c # new
          <5>1. c \in copies
            BY <2>2, <4>4
          <5>2. Spare(c, k, m)
            BY <1>1, <2>4, <4>1, <4>3 DEF Spare, Unspent, QueueTypeOK
          <5> QED
            BY <4>1, <4>3, <5>1, <5>2, TokenKinds
        <4>5. CASE c = new
          <5>1. m = delivery[w].id /\ k > delivery[w].retry + 1
            BY <2>3, <4>1, <4>5 DEF Spare
          <5>2. delivery[w].retry \in 0..2
            BY <1>1, CopyTypes
          <5>3. \A x \in unacked : delivery[x] = delivery[w] => x = w
            BY <1>1, <2>1 DEF HoldInv
          <5>4. Unspent(w, k)
            BY <1>1, <5>1 DEF Unspent
          <5>5. Spare(delivery[w], k, m)
            BY <2>1, <5>1, <5>2, <5>3, <5>4 DEF Spare
          <5> QED
            BY <2>1, <4>1, <4>5, <5>5, TokenKinds
        <4> QED
          BY <4>4, <4>5
      <3> QED
        BY <3>1, <3>2 DEF Tokens
    <2> QED
      BY <1>1, <1>2, <1>3, <2>5, Moved
  <1> QED
    BY <1>4, <1>5

\* A retry copy whose TTL is over keeps its attempts.
LEMMA ExpireBudget ==
    ASSUME QueueInv, BudgetInv, QueueTypeOK', NEW q \in RetryQueues, Expire(q),
           NEW m \in Messages
    PROVE  Within(m)'
  <1>1. QueueTypeOK /\ Within(m)
    BY DEF QueueInv, BudgetInv
  <1>2. UNCHANGED <<unacked, pc, delivery, failures, faults, restarts>>
    BY DEF Expire, consumerVars, historyVars
  <1>3. PICK c \in copies, new \in Copy :
           /\ copies' = (copies \ {c}) \union {new}
           /\ \A x \in unacked : delivery[x] # c
           /\ c.queue # QueueDLQ
           /\ new.id = c.id
           /\ new.retry = c.retry
    <2>1. PICK c \in copies : /\ c.queue = q
                              /\ \A x \in unacked : delivery[x] # c
                              /\ copies' = (copies \ {c}) \union {DeadLettered(c)}
      BY DEF Expire, IsHead, Ready
    <2>2. c \in Copy /\ c.queue # QueueDLQ
      BY <1>1, <2>1, QueueNames DEF QueueTypeOK
    <2> QED
      BY <1>1, <2>1, <2>2, DeadLetteredFacts DEF QueueTypeOK
  <1>4. ASSUME NEW t \in Tokens(m)'
        PROVE  \/ t \in Tokens(m) /\ (t[1] # c \/ t[2] = 0)
               \/ \E k \in 1..3 : t = <<new, k>> /\ <<c, k>> \in Tokens(m)
    <2>1. CASE \E x \in Workers : t = <<x, 0>> /\ InHand(x, m)'
      BY <1>2, <2>1, TokenKinds DEF InHand
    <2>2. CASE \E d \in copies', k \in 1..3 : t = <<d, k>> /\ Spare(d, k, m)'
      <3>1. PICK d \in copies', k \in 1..3 : t = <<d, k>> /\ Spare(d, k, m)'
        BY <2>2
      <3>2. CASE d # new
        <4>1. d \in copies /\ d # c /\ Spare(d, k, m)
          BY <1>2, <1>3, <3>1, <3>2 DEF Spare, Unspent
        <4> QED
          BY <3>1, <4>1, TokenKinds
      <3>3. CASE d = new
        <4>1. Spare(c, k, m)
          BY <1>3, <3>1, <3>3 DEF Spare
        <4> QED
          BY <1>3, <3>1, <3>3, <4>1, TokenKinds
      <3> QED
        BY <3>2, <3>3
    <2> QED
      BY <2>1, <2>2 DEF Tokens
  <1>5. Budget' >= Budget
    BY <1>1, <1>2, BudgetFacts
  <1> QED
    BY <1>1, <1>2, <1>4, <1>5, Moved

\* A delivery that goes back to the broker gives back three attempts at most.
LEMMA GivenBack ==
    ASSUME QueueInv, NEW w \in Workers, Crash(w) \/ ConnectionLost(w), NEW m \in Messages
    PROVE  \E x, y, z :
             Tokens(m)' \subseteq ((Tokens(m) \union {x}) \union {y}) \union {z}
  <1>1. QueueTypeOK /\ HoldInv
    BY DEF QueueInv
  <1>2. UNCHANGED copies /\ unacked' = unacked \ {w}
    BY DEF Crash, ConnectionLost
  <1>3. \A x \in Workers \ {w} : pc'[x] = pc[x] /\ delivery'[x] = delivery[x]
    BY <1>1 DEF Crash, ConnectionLost, Return, QueueTypeOK, consumerVars
  <1>4. \A x \in Workers \ {w} : InHand(x, m)' => InHand(x, m)
    BY <1>2, <1>3 DEF InHand
  <1>5. \A c \in copies, k \in 1..3 : Spare(c, k, m)' /\ c # delivery[w] => Spare(c, k, m)
    BY <1>1, <1>2, <1>3 DEF Spare, Unspent, QueueTypeOK
  <1>6. InHand(w, m)' => /\ pc[w] \in {"decode", "handle"}
                         /\ delivery[w].id = m
    BY <1>1 DEF Crash, ConnectionLost, Return, InHand, QueueTypeOK, consumerVars
  <1>7. CASE InHand(w, m)'
    <2>1. \A c \in copies, k \in 1..3 : Spare(c, k, m)' => Spare(c, k, m)
      BY <1>1, <1>2, <1>3, <1>6, <1>7 DEF Spare, Unspent, QueueTypeOK
    <2>2. ASSUME NEW t \in Tokens(m)' PROVE t \in Tokens(m) \union {<<w, 0>>}
      <3>1. \/ \E c \in copies', k \in 1..3 : t = <<c, k>> /\ Spare(c, k, m)'
            \/ \E x \in Workers : t = <<x, 0>> /\ InHand(x, m)'
        BY DEF Tokens
      <3> QED
        BY <1>2, <1>4, <2>1, <3>1, TokenKinds
    <2> QED
      BY <2>2
  <1>8. CASE ~InHand(w, m)'
    <2>1. ASSUME NEW t \in Tokens(m)'
          PROVE  t \in Tokens(m) \union {<<delivery[w], 1>>, <<delivery[w], 2>>, <<delivery[w], 3>>}
      <3>1. \/ \E c \in copies', k \in 1..3 : t = <<c, k>> /\ Spare(c, k, m)'
            \/ \E x \in Workers : t = <<x, 0>> /\ InHand(x, m)'
        BY DEF Tokens
      <3>2. CASE \E x \in Workers : t = <<x, 0>> /\ InHand(x, m)'
        BY <1>4, <1>8, <3>2, TokenKinds
      <3>3. CASE \E c \in copies', k \in 1..3 : t = <<c, k>> /\ Spare(c, k, m)'
        <4>1. PICK c \in copies', k \in 1..3 : t = <<c, k>> /\ Spare(c, k, m)'
          BY <3>3
        <4>2. CASE c = delivery[w]
          BY <4>1, <4>2
        <4>3. CASE c # delivery[w]
          BY <1>2, <1>5, <4>1, <4>3, TokenKinds
        <4> QED
          BY <4>2, <4>3
      <3> QED
        BY <3>1, <3>2, <3>3
    <2>2. Tokens(m)' \subseteq ((Tokens(m) \union {<<delivery[w], 1>>})
                                \union {<<delivery[w], 2>>}) \union {<<delivery[w], 3>>}
      BY <2>1
    <2> QED
      BY <2>2, Zenon
  <1> QED
    BY <1>7, <1>8

\* A crash or a lost connection.
LEMMA CrashBudget ==
    ASSUME QueueInv, BudgetInv, QueueTypeOK', NEW w \in Workers,
           Crash(w) \/ ConnectionLost(w), NEW m \in Messages
    PROVE  Within(m)'
  <1>1. QueueTypeOK /\ Within(m)
    BY DEF QueueInv, BudgetInv
  <1>2. /\ faults' = faults + 1
        /\ UNCHANGED <<failures, restarts>>
    BY DEF Crash, ConnectionLost, Fault, historyVars
  <1> QED
    BY <1>1, <1>2, GivenBack, HandedBack

\* The attempts of a message.
LEMMA ThreeAttempts == IsFiniteSet(1..3) /\ Cardinality(1..3) = 3
  <1>1. PICK one : one = {1}
    OBVIOUS
  <1>2. PICK two : two = one \union {2}
    OBVIOUS
  <1>3. IsFiniteSet(one) /\ Cardinality(one) = 1
    BY <1>1, FS_Singleton
  <1>4. IsFiniteSet(two) /\ Cardinality(two) = 2
    BY <1>1, <1>2, <1>3, FS_AddElement
  <1>5. IsFiniteSet(two \union {3}) /\ Cardinality(two \union {3}) = 3
    BY <1>1, <1>2, <1>4, FS_AddElement
  <1>6. 1..3 = two \union {3}
    BY <1>1, <1>2
  <1> QED
    BY <1>5, <1>6

\* A broker restart gives back what every worker holds.
LEMMA RestartBudget ==
    ASSUME QueueInv, BudgetInv, QueueTypeOK', BrokerRestart, NEW m \in Messages
    PROVE  Within(m)'
  <1>1. QueueTypeOK /\ Within(m)
    BY DEF QueueInv, BudgetInv
  <1>2. /\ copies' \subseteq copies
        /\ unacked' = {}
        /\ restarts' = restarts + 1
        /\ UNCHANGED <<pc, delivery, failures, faults>>
    BY DEF BrokerRestart, consumerVars, historyVars
  <1> DEFINE S == Workers \X (1..3)
             f == [s \in S |-> IF pc[s[1]] \in {"decode", "handle"} THEN <<s[1], 0>>
                               ELSE <<delivery[s[1]], s[2]>>]
             R == {f[s] : s \in S}
  <1>3. ASSUME NEW t \in Tokens(m)' PROVE t \in Tokens(m) \union R
    <2>1. CASE \E x \in Workers : t = <<x, 0>> /\ InHand(x, m)'
      <3>1. PICK x \in Workers : t = <<x, 0>> /\ InHand(x, m)'
        BY <2>1
      <3>2. pc[x] \in {"decode", "handle"}
        BY <1>2, <3>1 DEF InHand
      <3>3. <<x, 1>> \in S /\ f[<<x, 1>>] = t
        BY <3>1, <3>2
      <3> QED
        BY <3>3
    <2>2. CASE \E c \in copies', k \in 1..3 : t = <<c, k>> /\ Spare(c, k, m)'
      <3>1. PICK c \in copies', k \in 1..3 : t = <<c, k>> /\ Spare(c, k, m)'
        BY <2>2
      <3>2. CASE \E x \in Workers : delivery[x] = c /\ pc[x] \notin {"decode", "handle"}
        <4>1. PICK x \in Workers : delivery[x] = c /\ pc[x] \notin {"decode", "handle"}
          BY <3>2
        <4>2. <<x, k>> \in S /\ f[<<x, k>>] = t
          BY <3>1, <4>1
        <4> QED
          BY <4>2
      <3>3. CASE ~ \E x \in Workers : delivery[x] = c /\ pc[x] \notin {"decode", "handle"}
        <4>1. Spare(c, k, m)
          BY <1>1, <3>1, <3>3 DEF Spare, Unspent, QueueTypeOK
        <4> QED
          BY <1>2, <3>1, <4>1, TokenKinds
      <3> QED
        BY <3>2, <3>3
    <2>3. \/ \E c \in copies', k \in 1..3 : t = <<c, k>> /\ Spare(c, k, m)'
          \/ \E x \in Workers : t = <<x, 0>> /\ InHand(x, m)'
      BY DEF Tokens
    <2> QED
      BY <2>1, <2>2, <2>3
  <1>4. PICK n \in Nat : n = Cardinality(Workers)
    BY QueueAssumption, FS_CardinalityType
  <1>5. IsFiniteSet(S) /\ Cardinality(S) = n * 3
    BY <1>4, ThreeAttempts, QueueAssumption, FS_Product
  <1>6. IsFiniteSet(R) /\ Cardinality(R) <= Cardinality(S)
    <2>1. \A t \in R : \E s \in S : t = f[s]
      OBVIOUS
    <2> HIDE DEF S, f, R
    <2> QED
      BY <1>5, <2>1, ImageBound
  <1> HIDE DEF S, f, R
  <1>7. /\ IsFiniteSet(Tokens(m)) /\ Cardinality(Tokens(m)) \in Nat
        /\ Cardinality(R) \in Nat
    BY <1>1, <1>6, FS_CardinalityType DEF Within
  <1>8. /\ IsFiniteSet(Tokens(m) \union R)
        /\ Cardinality(Tokens(m) \union R) <= Cardinality(Tokens(m)) + Cardinality(R)
    <2>1. PICK I : I = Tokens(m) \intersect R
      OBVIOUS
    <2>2. /\ IsFiniteSet(Tokens(m) \union R)
          /\ Cardinality(Tokens(m) \union R) =
               Cardinality(Tokens(m)) + Cardinality(R) - Cardinality(I)
      BY <1>6, <1>7, <2>1, FS_Union
    <2>3. Cardinality(I) \in Nat
      BY <1>7, <2>1, FS_Intersection, FS_CardinalityType
    <2> QED
      BY <1>7, <2>2, <2>3
  <1>9. /\ IsFiniteSet(Tokens(m)')
        /\ Cardinality(Tokens(m)') <= Cardinality(Tokens(m) \union R)
    <2>1. PICK U : U = Tokens(m) \union R
      OBVIOUS
    <2>2. Tokens(m)' \in SUBSET U
      BY <1>3, <2>1
    <2> QED
      BY <1>8, <2>1, <2>2, FS_Subset
  <1>10. Cardinality(Tokens(m)') \in Nat /\ Cardinality(Tokens(m) \union R) \in Nat
    BY <1>8, <1>9, FS_CardinalityType
  <1>11. Cardinality(Tokens(m)') <= Cardinality(Tokens(m)) + 3 * n
    BY <1>4, <1>5, <1>6, <1>7, <1>8, <1>9, <1>10
  <1>12. Budget' >= Budget + 3 * n /\ 3 * n \in Nat
    BY <1>1, <1>2, <1>4, BudgetFacts
  <1> QED
    BY <1>1, <1>2, <1>9, <1>11, <1>12, Grows

\* Every step of the queue keeps within the budget.
LEMMA BudgetStep ==
    QueueInv /\ LedgerInv /\ BudgetInv /\ QueueTypeOK' /\ [QueueNext]_queueVars => BudgetInv'
  <1> SUFFICES ASSUME QueueInv, LedgerInv, BudgetInv, QueueTypeOK', [QueueNext]_queueVars
               PROVE  BudgetInv'
    OBVIOUS
  <1>a. QueueTypeOK /\ HoldInv /\ \A m \in Messages : Within(m)
    BY DEF QueueInv, BudgetInv
  <1>b. ASSUME NEW m \in Messages, m \notin published' PROVE failures'[m] = 0
    <2>1. published \subseteq published'
      BY DEF QueueNext, Consumer, Environment, PublishAvatarProcess, PublisherRestart, Deliver,
         RejectMalformed, IsProcessed, SendToRetry, MarkProcessed, AckDelivery,
         HandlerReturns, ConsumeReturns, PublisherLost, Expire, Shutdown, Crash,
         ConnectionLost, BrokerRestart, queueVars, historyVars
    <2>2. failures[m] = 0
      BY <1>b, <2>1 DEF BudgetInv
    <2>3. ASSUME NEW w \in Workers, NEW failed \in BOOLEAN, HandlerReturns(w, failed)
          PROVE  failures'[m] = failures[m]
      <3>1. delivery[w].id # m
        BY <1>b, <2>1, <2>3 DEF HandlerReturns, LedgerInv, KnownInv
      <3> QED
        BY <1>a, <2>3, <3>1 DEF HandlerReturns, QueueTypeOK
    <2>4. CASE UNCHANGED failures
      BY <2>2, <2>4
    <2>5. \/ UNCHANGED failures
          \/ \E w \in Workers, failed \in BOOLEAN : HandlerReturns(w, failed)
      BY DEF QueueNext, Consumer, Environment, PublishAvatarProcess, PublisherRestart, Deliver,
         RejectMalformed, IsProcessed, SendToRetry, MarkProcessed, AckDelivery,
         ConsumeReturns, PublisherLost, Expire, Shutdown, Crash, ConnectionLost,
         BrokerRestart, queueVars, historyVars
    <2> QED
      BY <2>2, <2>3, <2>4, <2>5
  <1>c. ASSUME NEW m \in Messages,
               UNCHANGED <<copies, unacked, pc, delivery, failures, restarts>>,
               faults' = faults \/ faults' = faults + 1
        PROVE  Within(m)'
    <2>1. Tokens(m)' \subseteq Tokens(m)
      BY <1>c, NoNewTokens DEF Spare, Unspent, InHand
    <2>2. Budget' >= Budget
      BY <1>a, <1>c, BudgetFacts
    <2> QED
      BY <1>a, <1>c, <2>1, <2>2, Fewer
  <1>d. ASSUME NEW m \in Messages, Tokens(m)' \subseteq Tokens(m),
               failures'[m] = failures[m], UNCHANGED restarts,
               faults' = faults \/ faults' = faults + 1
        PROVE  Within(m)'
    <2>1. Budget' >= Budget
      BY <1>a, <1>d, BudgetFacts
    <2> QED
      BY <1>a, <1>d, <2>1, Fewer
  <1> SUFFICES ASSUME NEW m \in Messages PROVE Within(m)'
    BY <1>b DEF BudgetInv
  <1>1. ASSUME NEW p \in Messages, PublishAvatarProcess(p) PROVE Within(m)'
    BY <1>1, PublishBudget
  <1>2. CASE PublisherRestart
    BY <1>2, <1>c DEF PublisherRestart, consumerVars, historyVars
  <1>3. ASSUME NEW w \in Workers,
               \/ Deliver(w) \/ RejectMalformed(w) \/ IsProcessed(w) \/ MarkProcessed(w)
               \/ AckDelivery(w)
        PROVE  Within(m)'
    <2>1. Tokens(m)' \subseteq Tokens(m)
      BY <1>3, ConsumerTokens
    <2>2. /\ UNCHANGED <<failures, restarts>>
          /\ faults' = faults \/ faults' = faults + 1
      BY <1>3 DEF Deliver, RejectMalformed, IsProcessed, MarkProcessed, AckDelivery, Answers,
         Fault, historyVars
    <2> QED
      BY <1>d, <2>1, <2>2
  <1>4. ASSUME NEW w \in Workers, SendToRetry(w) PROVE Within(m)'
    BY <1>4, RetryBudgetKept
  <1>5. ASSUME NEW w \in Workers, NEW failed \in BOOLEAN, HandlerReturns(w, failed)
        PROVE  Within(m)'
    <2>1. Tokens(m)' \subseteq Tokens(m)
      BY <1>5, ConsumerTokens
    <2>2. UNCHANGED <<faults, restarts>>
      BY <1>5 DEF HandlerReturns, brokerVars
    <2>3. CASE failed /\ m = delivery[w].id
      <3>1. HandlerReturns(w, TRUE)
        BY <1>5, <2>3
      <3> QED
        BY <2>3, <3>1, FailureBudget
    <2>4. CASE ~(failed /\ m = delivery[w].id)
      <3>1. failures'[m] = failures[m]
        BY <1>a, <1>5, <2>4 DEF HandlerReturns, QueueTypeOK
      <3> QED
        BY <1>d, <2>1, <2>2, <3>1
    <2> QED
      BY <2>3, <2>4
  <1>6. ASSUME NEW w \in Workers, ConsumeReturns(w) PROVE Within(m)'
    BY <1>6, <1>c DEF ConsumeReturns, historyVars
  <1>7. CASE PublisherLost
    BY <1>7, <1>c DEF PublisherLost, Fault, consumerVars, historyVars
  <1>8. ASSUME NEW q \in RetryQueues, Expire(q) PROVE Within(m)'
    BY <1>8, ExpireBudget
  <1>9. ASSUME NEW w \in Workers, Shutdown(w) PROVE Within(m)'
    BY <1>9, <1>c DEF Shutdown, Fault, brokerVars, historyVars
  <1>10. ASSUME NEW w \in Workers, Crash(w) \/ ConnectionLost(w) PROVE Within(m)'
    BY <1>10, CrashBudget
  <1>11. CASE BrokerRestart
    BY <1>11, RestartBudget
  <1>12. CASE UNCHANGED queueVars
    BY <1>12, <1>c DEF queueVars, brokerVars, consumerVars, historyVars
  <1> QED
    BY <1>1, <1>2, <1>3, <1>4, <1>5, <1>6, <1>7, <1>8, <1>9, <1>10, <1>11, <1>12
    DEF QueueNext, Consumer, Environment

\* Before the first message there are neither failures nor tokens.
LEMMA BudgetInit == QueueInit => BudgetInv
  <1> SUFFICES ASSUME QueueInit, NEW m \in Messages
               PROVE  Within(m) /\ failures[m] = 0
    BY DEF BudgetInv
  <1>1. Tokens(m) = {}
    BY DEF QueueInit, Tokens, InHand
  <1>2. IsFiniteSet(Tokens(m)) /\ Cardinality(Tokens(m)) = 0
    BY <1>1, FS_EmptySet
  <1>3. failures[m] = 0
    BY DEF QueueInit
  <1>4. PICK n \in Nat : n = Cardinality(Workers)
    BY QueueAssumption, FS_CardinalityType
  <1>5. Budget = 3
    BY <1>4 DEF QueueInit, Budget
  <1> QED
    BY <1>2, <1>3, <1>5 DEF Within

\* BudgetInv is an invariant of the queue.
LEMMA BudgetInvariant == QueueSpec => []BudgetInv
  BY BudgetInit, BudgetStep, LedgerInvariant, QueueInvariant, QueueTypeCorrect, PTL
  DEF QueueSpec

\* Whatever fails, a task is attempted a bounded number of times: three times, and three
\* times more for each fault and for each worker of each broker restart.
THEOREM RetriesAreBounded == QueueSpec => []RetryBudget
  <1>1. QueueInv /\ BudgetInv => RetryBudget
    <2> SUFFICES ASSUME QueueInv, BudgetInv, NEW m \in Messages
                 PROVE  failures[m] <= 3 * (1 + faults + restarts * Cardinality(Workers))
      BY DEF RetryBudget
    <2>1. PICK b : b = Budget
      OBVIOUS
    <2>2. /\ IsFiniteSet(Tokens(m))
          /\ failures[m] + Cardinality(Tokens(m)) <= b
          /\ failures[m] \in Nat
      BY <2>1 DEF BudgetInv, Within, QueueInv, QueueTypeOK
    <2>3. Cardinality(Tokens(m)) \in Nat
      BY <2>2, FS_CardinalityType
    <2>4. b \in Nat
      <3>1. PICK n \in Nat : n = Cardinality(Workers)
        BY QueueAssumption, FS_CardinalityType
      <3>2. faults \in Nat /\ restarts * n \in Nat
        BY <3>1 DEF QueueInv, QueueTypeOK
      <3> QED
        BY <2>1, <3>1, <3>2 DEF Budget
    <2>5. failures[m] <= b
      BY <2>2, <2>3, <2>4
    <2> QED
      BY <2>1, <2>5 DEF Budget
  <1> QED
    BY <1>1, BudgetInvariant, QueueInvariant, PTL
=============================================================================
