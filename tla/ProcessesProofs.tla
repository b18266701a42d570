-------------------------- MODULE ProcessesProofs --------------------------
(***************************************************************************)
(* Proofs about module Processes, for any number of replicas, requests and *)
(* faults: what a process holds at each stage, hence that it serves on a   *)
(* complete topology and cuts off nothing it was not told to.              *)
(***************************************************************************)
EXTENDS Processes, SequenceTheorems, TLAPS

-----------------------------------------------------------------------------
(***************************************************************************)
(* What is held: a prefix of Resources.                                    *)
(***************************************************************************)
Kinds == {"telemetry", "database", "queue", "signals"}

Opened(s, n) ==
    /\ s \in Seq(Kinds)
    /\ Len(s) = n
    /\ n \in 0..4
    /\ \A i \in 1..n : s[i] = Resources[i]

\* The order of opening.
LEMMA InOrder ==
    /\ Resources \in Seq(Kinds) /\ Len(Resources) = 4
    /\ Resources[1] = "telemetry"
    /\ Resources[2] = "database"
    /\ Resources[3] = "queue"
    /\ Resources[4] = "signals"
  BY DEF Resources, Kinds

\* Nothing is held at first.
LEMMA NothingOpened == Opened(<<>>, 0)
  BY DEF Opened

\* Opening the next resource.
LEMMA OpenNext ==
    ASSUME NEW s, NEW n \in 0..3, Opened(s, n)
    PROVE  Opened(Append(s, Resources[n + 1]), n + 1)
  <1>1. Resources[n + 1] \in Kinds
    <2>1. n = 0 \/ n = 1 \/ n = 2 \/ n = 3
      OBVIOUS
    <2> QED
      BY <2>1, InOrder DEF Kinds
  <1>2. /\ Append(s, Resources[n + 1]) \in Seq(Kinds)
        /\ Len(Append(s, Resources[n + 1])) = n + 1
        /\ \A i \in 1..n : Append(s, Resources[n + 1])[i] = s[i]
        /\ Append(s, Resources[n + 1])[n + 1] = Resources[n + 1]
    BY <1>1, AppendProperties DEF Opened
  <1> QED
    BY <1>2 DEF Opened

\* Closing the last one.
LEMMA CloseLast ==
    ASSUME NEW s, NEW n \in 0..4, Opened(s, n), s # <<>>
    PROVE  n \in 1..4 /\ Opened(Front(s), n - 1)
  <1>1. s \in Seq(Kinds) /\ Len(s) = n /\ n \in 1..4
    BY EmptySeq DEF Opened
  <1>2. \A i \in 1..(n - 1) : s[i] \in Kinds
    BY <1>1, ElementOfSeq
  <1>3. /\ SubSeq(s, 1, n - 1) \in Seq(Kinds)
        /\ Len(SubSeq(s, 1, n - 1)) = n - 1
        /\ \A i \in 1..(n - 1) : SubSeq(s, 1, n - 1)[i] = s[i]
    BY <1>1, <1>2, SubSeqProperties
  <1> QED
    BY <1>1, <1>3 DEF Opened, Front

\* What is held is a prefix of the order of opening.
LEMMA OpenedIsPrefix ==
    ASSUME NEW s, NEW n \in 0..4, Opened(s, n)
    PROVE  IsPrefix(s, Resources)
  <1>1. SubSeq(s, 1, n) = s
    BY SubSeqFull DEF Opened
  <1>2. /\ SubSeq(Resources, 1, n) \in Seq(Kinds)
        /\ Len(SubSeq(Resources, 1, n)) = n
        /\ \A i \in 1..n : SubSeq(Resources, 1, n)[i] = Resources[i]
    <2>1. \A i \in 1..n : Resources[i] \in Kinds
      <3>1. TAKE i \in 1..n
      <3>2. i \in 1..Len(Resources)
        BY InOrder
      <3> QED
        BY <3>2, InOrder, ElementOfSeq
    <2> QED
      BY <2>1, SubSeqProperties
  <1>3. SubSeq(Resources, 1, n) = s
    BY <1>2, SeqEqual DEF Opened
  <1> QED
    BY <1>1, <1>3, InOrder DEF IsPrefix, Opened

\* From the third resource on, the database and the channel are held.
LEMMA QueueHeld ==
    ASSUME NEW s, NEW n \in 3..4, Opened(s, n)
    PROVE  {"database", "queue"} \subseteq Range(s)
  <1>1. DOMAIN s = 1..n
    BY LenProperties DEF Opened
  <1>2. s[2] = "database" /\ s[3] = "queue"
    BY InOrder DEF Opened
  <1> QED
    BY <1>1, <1>2 DEF Range

\* One lemma for the four places where a resource is opened.
LEMMA Opening ==
    ASSUME NEW s
    PROVE  /\ Opened(s, 0) => Opened(Append(s, "telemetry"), 1)
           /\ Opened(s, 1) => Opened(Append(s, "database"), 2)
           /\ Opened(s, 2) => Opened(Append(s, "queue"), 3)
           /\ Opened(s, 3) => Opened(Append(s, "signals"), 4)
  <1>1. Opened(s, 0) => Opened(Append(s, Resources[0 + 1]), 0 + 1)
    BY OpenNext
  <1>2. Opened(s, 1) => Opened(Append(s, Resources[1 + 1]), 1 + 1)
    BY OpenNext
  <1>3. Opened(s, 2) => Opened(Append(s, Resources[2 + 1]), 2 + 1)
    BY OpenNext
  <1>4. Opened(s, 3) => Opened(Append(s, Resources[3 + 1]), 3 + 1)
    BY OpenNext
  <1> QED
    BY <1>1, <1>2, <1>3, <1>4, InOrder

\* The length of the topology, and what belongs to it.
LEMMA TopologyEntries ==
    /\ Len(Topology) = 9
    /\ Range(Topology) = {Topology[i] : i \in 1..9}
  <1>1. Len(Topology) = 9
    BY SMTT(30) DEF Topology
  <1>2. DOMAIN Topology = 1..9
    BY SMTT(30) DEF Topology
  <1>3. Range(Topology) = {Topology[i] : i \in DOMAIN Topology}
    BY Zenon DEF Range
  <1>4. Range(Topology) = {Topology[i] : i \in 1..9}
    BY <1>2, <1>3
  <1> QED
    BY <1>1, <1>4

-----------------------------------------------------------------------------
(***************************************************************************)
(* The inductive invariant.                                                *)
(***************************************************************************)

\* The types, without the prefix that StageHolds makes precise.
VariableTypes ==
    /\ stage \in [Processes -> Stages]
    /\ held \in [Processes -> Seq(Kinds)]
    /\ declared \in [Processes -> 0..Len(Topology)]
    /\ connected \in [Processes -> BOOLEAN]
    /\ requests \in [Processes -> 0..MaxRequests]
    /\ signalled \in [Processes -> BOOLEAN]
    /\ outcome \in [Processes -> Outcomes]
    /\ bucket \in BOOLEAN
    /\ topology \subseteq Range(Topology)
    /\ faults \in 0..MaxFaults

\* How much is held is known from the stage, until the deferred calls run.
StageHolds ==
    \A p \in Processes :
        /\ stage[p] \in {"down", "telemetry"} => Opened(held[p], 0)
        /\ stage[p] = "database" => Opened(held[p], 1)
        /\ stage[p] \in {"head", "create", "dial", "declare"} => Opened(held[p], 2)
        /\ stage[p] = "start" => Opened(held[p], 3)
        /\ stage[p] \in {"serve", "shutdown"} => Opened(held[p], 4)
        /\ \E n \in 0..4 : Opened(held[p], n)

\* Requests run while a process serves; those of an API also while it shuts down, and
\* past that only when it could not wait for them.
WorkAtItsPlace ==
    \A p \in Processes :
        /\ stage[p] \notin {"down", "return"} => outcome[p] = "none"
        /\ requests[p] > 0 =>
            \/ stage[p] = "serve"
            \/ p \in Apis /\ stage[p] = "shutdown"
            \/ p \in Apis /\ stage[p] = "return" /\ outcome[p] \in {"timeout", "failed"}

\* Declare has declared what it has counted, in this and in no earlier life only.
DeclaredExists ==
    \A p \in Processes :
        /\ stage[p] = "declare" => \A i \in 1..declared[p] : Topology[i] \in topology
        /\ stage[p] \in {"start", "serve"} => topology = Range(Topology)

\* EnsureBucket came first.
BucketExists ==
    \A p \in Apis : stage[p] \in {"dial", "declare", "start", "serve"} => bucket

ProcessInv ==
    VariableTypes /\ StageHolds /\ WorkAtItsPlace /\ DeclaredExists /\ BucketExists

\* A step of one process.
Step(p) ==
    \/ Start(p) \/ StartUp(p) \/ Receive(p) \/ Finish(p) \/ End(p)
    \/ Signal(p) \/ Kill(p) \/ LoseConnection(p)

\* The invariant holds when nothing has been started.
LEMMA InitInv == Init => ProcessInv
  <1> SUFFICES ASSUME Init PROVE ProcessInv
    OBVIOUS
  <1>1. VariableTypes
    <2>1. requests \in [Processes -> 0..MaxRequests] /\ faults \in 0..MaxFaults
      BY ProcessesAssumption DEF Init
    <2>2. declared \in [Processes -> 0..Len(Topology)]
      BY TopologyEntries DEF Init
    <2>3. held \in [Processes -> Seq(Kinds)]
      BY DEF Init
    <2> QED
      BY <2>1, <2>2, <2>3 DEF Init, VariableTypes, Stages, Outcomes
  <1>2. StageHolds
    BY NothingOpened DEF Init, StageHolds
  <1>3. WorkAtItsPlace /\ DeclaredExists /\ BucketExists
    BY DEF Init, WorkAtItsPlace, DeclaredExists, BucketExists, Processes
  <1> QED
    BY <1>1, <1>2, <1>3 DEF ProcessInv

\* Every step keeps the types.
LEMMA StepTypes ==
    ASSUME VariableTypes, StageHolds, NEW p \in Processes, Step(p)
    PROVE  VariableTypes'
  <1>1. CASE Start(p)
    BY <1>1, ProcessesAssumption DEF Start, To, VariableTypes, Stages, Outcomes
  <1>2. CASE InitTelemetry(p)
    <2>1. (stage \in [Processes -> Stages])'
      BY <1>2 DEF InitTelemetry, Open, To, Return, Fault, VariableTypes, Stages
    <2>2. (outcome \in [Processes -> Outcomes])'
      BY <1>2 DEF InitTelemetry, Open, To, Return, Fault, VariableTypes, Outcomes
    <2>3. (held \in [Processes -> Seq(Kinds)])'
      <3>1. CASE UNCHANGED held
        BY <3>1 DEF VariableTypes
      <3>2. CASE held' = [held EXCEPT ![p] = Append(@, "telemetry")]
        BY <3>2 DEF VariableTypes, Kinds
      <3> QED
        BY <1>2, <3>1, <3>2 DEF InitTelemetry, Open
    <2>4. (connected \in [Processes -> BOOLEAN])'
      BY <1>2 DEF InitTelemetry, Open, To, Return, Fault, VariableTypes
    <2>5. (declared \in [Processes -> 0..Len(Topology)])'
      BY <1>2 DEF InitTelemetry, Open, To, Return, Fault, VariableTypes
    <2>6. (requests \in [Processes -> 0..MaxRequests])'
      BY <1>2, ProcessesAssumption DEF InitTelemetry, Open, To, Return, Fault,
         VariableTypes
    <2>7. (signalled \in [Processes -> BOOLEAN])'
      BY <1>2 DEF InitTelemetry, Open, To, Return, Fault, VariableTypes
    <2>8. (bucket \in BOOLEAN)'
      BY <1>2 DEF InitTelemetry, Open, To, Return, Fault, VariableTypes
    <2>9. (topology \subseteq Range(Topology))'
      BY <1>2 DEF InitTelemetry, Open, To, Return, Fault, VariableTypes
    <2>10. (faults \in 0..MaxFaults)'
      BY <1>2, ProcessesAssumption DEF InitTelemetry, Open, To, Return, Fault,
         VariableTypes
    <2> QED
      BY <2>1, <2>2, <2>3, <2>4, <2>5, <2>6, <2>7, <2>8, <2>9, <2>10 DEF VariableTypes
  <1>3. CASE OpenStorage(p)
    <2>1. (stage \in [Processes -> Stages])'
      BY <1>3 DEF OpenStorage, Open, To, Return, Fault, VariableTypes, Stages
    <2>2. (outcome \in [Processes -> Outcomes])'
      BY <1>3 DEF OpenStorage, Open, To, Return, Fault, VariableTypes, Outcomes
    <2>3. (held \in [Processes -> Seq(Kinds)])'
      <3>1. CASE UNCHANGED held
        BY <3>1 DEF VariableTypes
      <3>2. CASE held' = [held EXCEPT ![p] = Append(@, "database")]
        BY <3>2 DEF VariableTypes, Kinds
      <3> QED
        BY <1>3, <3>1, <3>2 DEF OpenStorage, Open
    <2>4. (connected \in [Processes -> BOOLEAN])'
      BY <1>3 DEF OpenStorage, Open, To, Return, Fault, VariableTypes
    <2>5. (declared \in [Processes -> 0..Len(Topology)])'
      BY <1>3 DEF OpenStorage, Open, To, Return, Fault, VariableTypes
    <2>6. (requests \in [Processes -> 0..MaxRequests])'
      BY <1>3, ProcessesAssumption DEF OpenStorage, Open, To, Return, Fault,
         VariableTypes
    <2>7. (signalled \in [Processes -> BOOLEAN])'
      BY <1>3 DEF OpenStorage, Open, To, Return, Fault, VariableTypes
    <2>8. (bucket \in BOOLEAN)'
      BY <1>3 DEF OpenStorage, Open, To, Return, Fault, VariableTypes
    <2>9. (topology \subseteq Range(Topology))'
      BY <1>3 DEF OpenStorage, Open, To, Return, Fault, VariableTypes
    <2>10. (faults \in 0..MaxFaults)'
      BY <1>3, ProcessesAssumption DEF OpenStorage, Open, To, Return, Fault,
         VariableTypes
    <2> QED
      BY <2>1, <2>2, <2>3, <2>4, <2>5, <2>6, <2>7, <2>8, <2>9, <2>10 DEF VariableTypes
  <1>4. CASE HeadBucket(p)
    <2>1. (stage \in [Processes -> Stages])'
      BY <1>4 DEF HeadBucket, To, Fault, VariableTypes, Stages
    <2>2. (outcome \in [Processes -> Outcomes])'
      BY <1>4 DEF HeadBucket, To, Fault, VariableTypes, Outcomes
    <2>3. (held \in [Processes -> Seq(Kinds)])'
      BY <1>4 DEF HeadBucket, To, Fault, VariableTypes, Kinds
    <2>4. (connected \in [Processes -> BOOLEAN])'
      BY <1>4 DEF HeadBucket, To, Fault, VariableTypes
    <2>5. (declared \in [Processes -> 0..Len(Topology)])'
      BY <1>4 DEF HeadBucket, To, Fault, VariableTypes
    <2>6. (requests \in [Processes -> 0..MaxRequests])'
      BY <1>4, ProcessesAssumption DEF HeadBucket, To, Fault, VariableTypes
    <2>7. (signalled \in [Processes -> BOOLEAN])'
      BY <1>4 DEF HeadBucket, To, Fault, VariableTypes
    <2>8. (bucket \in BOOLEAN)'
      BY <1>4 DEF HeadBucket, To, Fault, VariableTypes
    <2>9. (topology \subseteq Range(Topology))'
      BY <1>4 DEF HeadBucket, To, Fault, VariableTypes
    <2>10. (faults \in 0..MaxFaults)'
      BY <1>4, ProcessesAssumption DEF HeadBucket, To, Fault, VariableTypes
    <2> QED
      BY <2>1, <2>2, <2>3, <2>4, <2>5, <2>6, <2>7, <2>8, <2>9, <2>10 DEF VariableTypes
  <1>5. CASE CreateBucket(p)
    <2>1. (stage \in [Processes -> Stages])'
      BY <1>5 DEF CreateBucket, To, Return, Fault, VariableTypes, Stages
    <2>2. (outcome \in [Processes -> Outcomes])'
      BY <1>5 DEF CreateBucket, To, Return, Fault, VariableTypes, Outcomes
    <2>3. (held \in [Processes -> Seq(Kinds)])'
      BY <1>5 DEF CreateBucket, To, Return, Fault, VariableTypes, Kinds
    <2>4. (connected \in [Processes -> BOOLEAN])'
      BY <1>5 DEF CreateBucket, To, Return, Fault, VariableTypes
    <2>5. (declared \in [Processes -> 0..Len(Topology)])'
      BY <1>5 DEF CreateBucket, To, Return, Fault, VariableTypes
    <2>6. (requests \in [Processes -> 0..MaxRequests])'
      BY <1>5, ProcessesAssumption DEF CreateBucket, To, Return, Fault, VariableTypes
    <2>7. (signalled \in [Processes -> BOOLEAN])'
      BY <1>5 DEF CreateBucket, To, Return, Fault, VariableTypes
    <2>8. (bucket \in BOOLEAN)'
      BY <1>5 DEF CreateBucket, To, Return, Fault, VariableTypes
    <2>9. (topology \subseteq Range(Topology))'
      BY <1>5 DEF CreateBucket, To, Return, Fault, VariableTypes
    <2>10. (faults \in 0..MaxFaults)'
      BY <1>5, ProcessesAssumption DEF CreateBucket, To, Return, Fault, VariableTypes
    <2> QED
      BY <2>1, <2>2, <2>3, <2>4, <2>5, <2>6, <2>7, <2>8, <2>9, <2>10 DEF VariableTypes
  <1>6. CASE Dial(p)
    <2>1. (stage \in [Processes -> Stages])'
      BY <1>6 DEF Dial, To, Return, Fault, VariableTypes, Stages
    <2>2. (outcome \in [Processes -> Outcomes])'
      BY <1>6 DEF Dial, To, Return, Fault, VariableTypes, Outcomes
    <2>3. (held \in [Processes -> Seq(Kinds)])'
      BY <1>6 DEF Dial, To, Return, Fault, VariableTypes, Kinds
    <2>4. (connected \in [Processes -> BOOLEAN])'
      BY <1>6 DEF Dial, To, Return, Fault, VariableTypes
    <2>5. (declared \in [Processes -> 0..Len(Topology)])'
      BY <1>6 DEF Dial, To, Return, Fault, VariableTypes
    <2>6. (requests \in [Processes -> 0..MaxRequests])'
      BY <1>6, ProcessesAssumption DEF Dial, To, Return, Fault, VariableTypes
    <2>7. (signalled \in [Processes -> BOOLEAN])'
      BY <1>6 DEF Dial, To, Return, Fault, VariableTypes
    <2>8. (bucket \in BOOLEAN)'
      BY <1>6 DEF Dial, To, Return, Fault, VariableTypes
    <2>9. (topology \subseteq Range(Topology))'
      BY <1>6 DEF Dial, To, Return, Fault, VariableTypes
    <2>10. (faults \in 0..MaxFaults)'
      BY <1>6, ProcessesAssumption DEF Dial, To, Return, Fault, VariableTypes
    <2> QED
      BY <2>1, <2>2, <2>3, <2>4, <2>5, <2>6, <2>7, <2>8, <2>9, <2>10 DEF VariableTypes
  <1>7. CASE Declare(p)
    <2>1. (stage \in [Processes -> Stages])'
      BY <1>7 DEF Declare, Open, To, Return, VariableTypes, Stages
    <2>2. (outcome \in [Processes -> Outcomes])'
      BY <1>7 DEF Declare, Open, To, Return, VariableTypes, Outcomes
    <2>3. (held \in [Processes -> Seq(Kinds)])'
      <3>1. CASE UNCHANGED held
        BY <3>1 DEF VariableTypes
      <3>2. CASE held' = [held EXCEPT ![p] = Append(@, "queue")]
        BY <3>2 DEF VariableTypes, Kinds
      <3> QED
        BY <1>7, <3>1, <3>2 DEF Declare, Open
    <2>4. (connected \in [Processes -> BOOLEAN])'
      BY <1>7 DEF Declare, Open, To, Return, VariableTypes
    <2>5. (declared \in [Processes -> 0..Len(Topology)])'
      BY <1>7, TopologyEntries DEF Declare, Open, To, Return, VariableTypes
    <2>6. (requests \in [Processes -> 0..MaxRequests])'
      BY <1>7, ProcessesAssumption DEF Declare, Open, To, Return, VariableTypes
    <2>7. (signalled \in [Processes -> BOOLEAN])'
      BY <1>7 DEF Declare, Open, To, Return, VariableTypes
    <2>8. (bucket \in BOOLEAN)'
      BY <1>7 DEF Declare, Open, To, Return, VariableTypes
    <2>9. (topology \subseteq Range(Topology))'
      <3>1. CASE UNCHANGED topology
        BY <3>1 DEF VariableTypes
      <3>2. CASE /\ declared[p] < Len(Topology)
                 /\ topology' = topology \union {Topology[declared[p] + 1]}
        <4>1. declared[p] \in 0..Len(Topology)
          BY DEF VariableTypes
        <4>2. declared[p] + 1 \in 1..9
          BY <3>2, <4>1, TopologyEntries
        <4> QED
          BY <3>2, <4>2, TopologyEntries DEF VariableTypes
      <3> QED
        BY <1>7, <3>1, <3>2 DEF Declare
    <2>10. (faults \in 0..MaxFaults)'
      BY <1>7, ProcessesAssumption DEF Declare, Open, To, Return, VariableTypes
    <2> QED
      BY <2>1, <2>2, <2>3, <2>4, <2>5, <2>6, <2>7, <2>8, <2>9, <2>10 DEF VariableTypes
  <1>8. CASE Serve(p)
    <2>1. (stage \in [Processes -> Stages])'
      BY <1>8 DEF Serve, Open, To, Return, Fault, VariableTypes, Stages
    <2>2. (outcome \in [Processes -> Outcomes])'
      BY <1>8 DEF Serve, Open, To, Return, Fault, VariableTypes, Outcomes
    <2>3. (held \in [Processes -> Seq(Kinds)])'
      BY <1>8 DEF Serve, Open, To, Return, Fault, VariableTypes, Kinds
    <2>4. (connected \in [Processes -> BOOLEAN])'
      BY <1>8 DEF Serve, Open, To, Return, Fault, VariableTypes
    <2>5. (declared \in [Processes -> 0..Len(Topology)])'
      BY <1>8 DEF Serve, Open, To, Return, Fault, VariableTypes
    <2>6. (requests \in [Processes -> 0..MaxRequests])'
      BY <1>8, ProcessesAssumption DEF Serve, Open, To, Return, Fault, VariableTypes
    <2>7. (signalled \in [Processes -> BOOLEAN])'
      BY <1>8 DEF Serve, Open, To, Return, Fault, VariableTypes
    <2>8. (bucket \in BOOLEAN)'
      BY <1>8 DEF Serve, Open, To, Return, Fault, VariableTypes
    <2>9. (topology \subseteq Range(Topology))'
      BY <1>8 DEF Serve, Open, To, Return, Fault, VariableTypes
    <2>10. (faults \in 0..MaxFaults)'
      BY <1>8, ProcessesAssumption DEF Serve, Open, To, Return, Fault, VariableTypes
    <2> QED
      BY <2>1, <2>2, <2>3, <2>4, <2>5, <2>6, <2>7, <2>8, <2>9, <2>10 DEF VariableTypes
  <1>9. CASE Receive(p)
    BY <1>9, ProcessesAssumption DEF Receive, VariableTypes, Stages, Outcomes
  <1>10. CASE Finish(p)
    BY <1>10, ProcessesAssumption DEF Finish, VariableTypes, Stages, Outcomes
  <1>11. CASE LeaveSelect(p)
    <2>1. (stage \in [Processes -> Stages])'
      BY <1>11 DEF LeaveSelect, To, Return, Fault, VariableTypes, Stages
    <2>2. (outcome \in [Processes -> Outcomes])'
      BY <1>11 DEF LeaveSelect, To, Return, Fault, VariableTypes, Outcomes
    <2>3. (held \in [Processes -> Seq(Kinds)])'
      BY <1>11 DEF LeaveSelect, To, Return, Fault, VariableTypes, Kinds
    <2>4. (connected \in [Processes -> BOOLEAN])'
      BY <1>11 DEF LeaveSelect, To, Return, Fault, VariableTypes
    <2>5. (declared \in [Processes -> 0..Len(Topology)])'
      BY <1>11 DEF LeaveSelect, To, Return, Fault, VariableTypes
    <2>6. (requests \in [Processes -> 0..MaxRequests])'
      BY <1>11, ProcessesAssumption DEF LeaveSelect, To, Return, Fault, VariableTypes
    <2>7. (signalled \in [Processes -> BOOLEAN])'
      BY <1>11 DEF LeaveSelect, To, Return, Fault, VariableTypes
    <2>8. (bucket \in BOOLEAN)'
      BY <1>11 DEF LeaveSelect, To, Return, Fault, VariableTypes
    <2>9. (topology \subseteq Range(Topology))'
      BY <1>11 DEF LeaveSelect, To, Return, Fault, VariableTypes
    <2>10. (faults \in 0..MaxFaults)'
      BY <1>11, ProcessesAssumption DEF LeaveSelect, To, Return, Fault, VariableTypes
    <2> QED
      BY <2>1, <2>2, <2>3, <2>4, <2>5, <2>6, <2>7, <2>8, <2>9, <2>10 DEF VariableTypes
  <1>12. CASE LeaveConsume(p)
    BY <1>12, ProcessesAssumption DEF LeaveConsume, To, VariableTypes, Stages, Outcomes
  <1>13. CASE Shutdown(p)
    BY <1>13, ProcessesAssumption DEF Shutdown, Return, To, VariableTypes, Stages,
       Outcomes
  <1>14. CASE Close(p)
    <2>1. Front(held[p]) \in Seq(Kinds)
      <3>1. PICK n \in 0..4 : Opened(held[p], n)
        BY DEF StageHolds
      <3>2. Opened(Front(held[p]), n - 1)
        BY <1>14, <3>1, CloseLast DEF Close
      <3> QED
        BY <3>2 DEF Opened
    <2>2. (held \in [Processes -> Seq(Kinds)])'
      BY <1>14, <2>1 DEF Close, VariableTypes
    <2>3. (connected \in [Processes -> BOOLEAN])'
      BY <1>14 DEF Close, VariableTypes
    <2>4. UNCHANGED <<stage, declared, requests, signalled, outcome, bucket, topology,
                      faults>>
      BY <1>14 DEF Close
    <2> QED
      BY <2>2, <2>3, <2>4 DEF VariableTypes
  <1>15. CASE Exit(p)
    BY <1>15, ProcessesAssumption DEF Exit, Ended, To, VariableTypes, Stages, Outcomes
  <1>16. CASE Signal(p)
    <2>1. faults' \in 0..MaxFaults
      BY <1>16, ProcessesAssumption DEF Signal, Fault, VariableTypes
    <2>2. CASE Ended(p) /\ UNCHANGED outcome
      BY <2>1, <2>2, ProcessesAssumption DEF Ended, To, VariableTypes, Stages
    <2>3. CASE /\ signalled' = [signalled EXCEPT ![p] = TRUE]
               /\ UNCHANGED <<stage, held, declared, connected, requests, outcome, bucket,
                              topology>>
      BY <2>1, <2>3 DEF VariableTypes
    <2> QED
      BY <1>16, <2>2, <2>3 DEF Signal
  <1>17. CASE Kill(p)
    BY <1>17, ProcessesAssumption DEF Kill, Ended, To, Fault, VariableTypes, Stages,
       Outcomes
  <1>18. CASE LoseConnection(p)
    BY <1>18, ProcessesAssumption DEF LoseConnection, Fault, VariableTypes, Stages,
       Outcomes
  <1> QED
    BY <1>1, <1>2, <1>3, <1>4, <1>5, <1>6, <1>7, <1>8, <1>9, <1>10, <1>11, <1>12, <1>13,
       <1>14, <1>15, <1>16, <1>17, <1>18 DEF Step, StartUp, End

\* Every step opens and closes in the order of the stages.
LEMMA StepHolds ==
    ASSUME VariableTypes, StageHolds, NEW p \in Processes, Step(p)
    PROVE  StageHolds'
  <1>1. CASE Start(p)
    BY <1>1 DEF Start, To, VariableTypes, StageHolds
  <1>2. CASE InitTelemetry(p)
    <2>1. CASE Open(p, "telemetry") /\ To(p, "database")
      BY <1>2, <2>1, Opening DEF Open, To, InitTelemetry, VariableTypes, StageHolds
    <2>2. CASE Return(p, "failed") /\ UNCHANGED held
      BY <1>2, <2>2 DEF Return, To, VariableTypes, StageHolds
    <2> QED
      BY <1>2, <2>1, <2>2 DEF InitTelemetry
  <1>3. CASE OpenStorage(p)
    <2>1. CASE Open(p, "database") /\ To(p, IF p \in Apis THEN "head" ELSE "dial")
      BY <1>3, <2>1, Opening DEF Open, To, OpenStorage, VariableTypes, StageHolds
    <2>2. CASE Return(p, "failed") /\ UNCHANGED held
      BY <1>3, <2>2 DEF Return, To, VariableTypes, StageHolds
    <2> QED
      BY <1>3, <2>1, <2>2 DEF OpenStorage
  <1>4. CASE HeadBucket(p)
    BY <1>4 DEF HeadBucket, To, Fault, VariableTypes, StageHolds
  <1>5. CASE CreateBucket(p)
    BY <1>5 DEF CreateBucket, To, Return, Fault, VariableTypes, StageHolds
  <1>6. CASE Dial(p)
    BY <1>6 DEF Dial, To, Return, Fault, VariableTypes, StageHolds
  <1>7. CASE Declare(p)
    <2>1. CASE Open(p, "queue") /\ To(p, "start")
      BY <1>7, <2>1, Opening DEF Open, To, Declare, VariableTypes, StageHolds
    <2>2. CASE Return(p, "failed") /\ UNCHANGED held
      BY <1>7, <2>2 DEF Return, To, VariableTypes, StageHolds
    <2>3. CASE UNCHANGED <<stage, held>>
      BY <1>7, <2>3 DEF VariableTypes, StageHolds
    <2> QED
      BY <1>7, <2>1, <2>2, <2>3 DEF Declare
  <1>8. CASE Serve(p)
    BY <1>8, Opening DEF Serve, Open, To, Return, Fault, VariableTypes, StageHolds
  <1>9. CASE Receive(p)
    BY <1>9 DEF Receive, VariableTypes, StageHolds
  <1>10. CASE Finish(p)
    BY <1>10 DEF Finish, VariableTypes, StageHolds
  <1>11. CASE LeaveSelect(p)
    BY <1>11 DEF LeaveSelect, To, Return, Fault, VariableTypes, StageHolds
  <1>12. CASE LeaveConsume(p)
    BY <1>12 DEF LeaveConsume, To, VariableTypes, StageHolds
  <1>13. CASE Shutdown(p)
    BY <1>13 DEF Shutdown, Return, To, VariableTypes, StageHolds
  <1>14. CASE Close(p)
    BY <1>14, CloseLast DEF Close, VariableTypes, StageHolds
  <1>15. CASE Exit(p)
    BY <1>15, NothingOpened DEF Exit, Ended, To, VariableTypes, StageHolds
  <1>16. CASE Signal(p)
    BY <1>16, NothingOpened DEF Signal, Ended, To, Fault, VariableTypes, StageHolds
  <1>17. CASE Kill(p)
    BY <1>17, NothingOpened DEF Kill, Ended, To, Fault, VariableTypes, StageHolds
  <1>18. CASE LoseConnection(p)
    BY <1>18 DEF LoseConnection, Fault, VariableTypes, StageHolds
  <1> QED
    BY <1>1, <1>2, <1>3, <1>4, <1>5, <1>6, <1>7, <1>8, <1>9, <1>10, <1>11, <1>12, <1>13,
       <1>14, <1>15, <1>16, <1>17, <1>18 DEF Step, StartUp, End

\* Requests stay where the process can finish them.
LEMMA StepWork ==
    ASSUME VariableTypes, WorkAtItsPlace, NEW p \in Processes, Step(p)
    PROVE  WorkAtItsPlace'
  <1>1. CASE Start(p)
    BY <1>1, ProcessesAssumption DEF Start, To, VariableTypes, WorkAtItsPlace, Processes
  <1>2. CASE InitTelemetry(p)
    BY <1>2, ProcessesAssumption DEF InitTelemetry, Open, To, Return, Fault,
       VariableTypes, WorkAtItsPlace, Processes
  <1>3. CASE OpenStorage(p)
    BY <1>3, ProcessesAssumption DEF OpenStorage, Open, To, Return, Fault,
       VariableTypes, WorkAtItsPlace, Processes
  <1>4. CASE HeadBucket(p)
    BY <1>4, ProcessesAssumption DEF HeadBucket, To, Fault, VariableTypes,
       WorkAtItsPlace, Processes
  <1>5. CASE CreateBucket(p)
    BY <1>5, ProcessesAssumption DEF CreateBucket, To, Return, Fault, VariableTypes,
       WorkAtItsPlace, Processes
  <1>6. CASE Dial(p)
    BY <1>6, ProcessesAssumption DEF Dial, To, Return, Fault, VariableTypes,
       WorkAtItsPlace, Processes
  <1>7. CASE Declare(p)
    BY <1>7, ProcessesAssumption DEF Declare, Open, To, Return, VariableTypes,
       WorkAtItsPlace, Processes
  <1>8. CASE Serve(p)
    BY <1>8, ProcessesAssumption DEF Serve, Open, To, Return, Fault, VariableTypes,
       WorkAtItsPlace, Processes
  <1>9. CASE Receive(p)
    BY <1>9, ProcessesAssumption DEF Receive, VariableTypes, WorkAtItsPlace, Processes
  <1>10. CASE Finish(p)
    BY <1>10, ProcessesAssumption DEF Finish, VariableTypes, WorkAtItsPlace, Processes
  <1>11. CASE LeaveSelect(p)
    BY <1>11, ProcessesAssumption DEF LeaveSelect, To, Return, Fault, VariableTypes,
       WorkAtItsPlace, Processes
  <1>12. CASE LeaveConsume(p)
    BY <1>12, ProcessesAssumption DEF LeaveConsume, To, VariableTypes, WorkAtItsPlace,
       Processes
  <1>13. CASE Shutdown(p)
    BY <1>13, ProcessesAssumption DEF Shutdown, Return, To, VariableTypes,
       WorkAtItsPlace, Processes
  <1>14. CASE Close(p)
    BY <1>14, ProcessesAssumption DEF Close, VariableTypes, WorkAtItsPlace, Processes
  <1>15. CASE Exit(p)
    BY <1>15, ProcessesAssumption DEF Exit, Ended, To, VariableTypes, WorkAtItsPlace,
       Processes
  <1>16. CASE Signal(p)
    <2>1. CASE Ended(p) /\ UNCHANGED outcome
      BY <1>16, <2>1, ProcessesAssumption DEF Ended, To, VariableTypes, WorkAtItsPlace,
         Processes
    <2>2. CASE UNCHANGED <<stage, requests, outcome>>
      BY <1>16, <2>2 DEF VariableTypes, WorkAtItsPlace, Processes
    <2> QED
      BY <1>16, <2>1, <2>2 DEF Signal
  <1>17. CASE Kill(p)
    BY <1>17, ProcessesAssumption DEF Kill, Ended, To, Fault, VariableTypes,
       WorkAtItsPlace, Processes
  <1>18. CASE LoseConnection(p)
    BY <1>18, ProcessesAssumption DEF LoseConnection, Fault, VariableTypes,
       WorkAtItsPlace, Processes
  <1> QED
    BY <1>1, <1>2, <1>3, <1>4, <1>5, <1>6, <1>7, <1>8, <1>9, <1>10, <1>11, <1>12, <1>13,
       <1>14, <1>15, <1>16, <1>17, <1>18 DEF Step, StartUp, End

\* No step removes what has been declared.
LEMMA StepDeclared ==
    ASSUME VariableTypes, DeclaredExists, NEW p \in Processes, Step(p)
    PROVE  DeclaredExists'
  <1>1. CASE Start(p)
    BY <1>1 DEF Start, To, VariableTypes, DeclaredExists
  <1>2. CASE InitTelemetry(p)
    BY <1>2 DEF InitTelemetry, Open, To, Return, Fault, VariableTypes, DeclaredExists
  <1>3. CASE OpenStorage(p)
    BY <1>3 DEF OpenStorage, Open, To, Return, Fault, VariableTypes, DeclaredExists
  <1>4. CASE HeadBucket(p)
    BY <1>4 DEF HeadBucket, To, Fault, VariableTypes, DeclaredExists
  <1>5. CASE CreateBucket(p)
    BY <1>5 DEF CreateBucket, To, Return, Fault, VariableTypes, DeclaredExists
  <1>6. CASE Dial(p)
    <2>1. CASE Return(p, "failed") /\ UNCHANGED declared
      BY <1>6, <2>1 DEF Dial, Return, To, VariableTypes, DeclaredExists
    <2>2. CASE declared' = [declared EXCEPT ![p] = 0] /\ To(p, "declare")
      BY <1>6, <2>2, TopologyEntries DEF Dial, To, VariableTypes, DeclaredExists
    <2> QED
      BY <1>6, <2>1, <2>2 DEF Dial
  <1>7. CASE Declare(p)
    <2>1. CASE To(p, "start") /\ declared[p] = Len(Topology) /\ UNCHANGED <<declared, topology>>
      BY <1>7, <2>1, TopologyEntries DEF Declare, To, VariableTypes, DeclaredExists
    <2>2. CASE Return(p, "failed") /\ UNCHANGED <<declared, topology>>
      BY <1>7, <2>2 DEF Return, To, VariableTypes, DeclaredExists
    <2>3. CASE /\ declared[p] < Len(Topology)
               /\ declared' = [declared EXCEPT ![p] = @ + 1]
               /\ topology' = topology \union {Topology[declared[p] + 1]}
               /\ UNCHANGED stage
      <3>1. \A q \in Processes \ {p} : declared'[q] = declared[q]
        BY <2>3 DEF VariableTypes
      <3>2. declared[p] \in 0..8 /\ declared'[p] = declared[p] + 1
        BY <2>3, TopologyEntries DEF VariableTypes
      <3>3. stage[p] = "declare"
        BY <1>7 DEF Declare
      <3>4. Topology[declared[p] + 1] \in Range(Topology)
        BY <3>2, TopologyEntries
      <3>5. ASSUME NEW q \in Processes, stage[q] \in {"start", "serve"}
            PROVE  topology' = Range(Topology)
        BY <2>3, <3>4, <3>5 DEF DeclaredExists
      <3>6. ASSUME NEW q \in Processes \ {p}, stage[q] = "declare", NEW i \in 1..declared[q]
            PROVE  Topology[i] \in topology'
        BY <2>3, <3>6 DEF DeclaredExists
      <3>7. ASSUME NEW i \in 1..declared[p] + 1
            PROVE  Topology[i] \in topology'
        <4>1. CASE i = declared[p] + 1
          BY <2>3, <4>1
        <4>2. CASE i \in 1..declared[p]
          BY <2>3, <3>3, <4>2 DEF DeclaredExists
        <4> QED
          BY <3>2, <4>1, <4>2
      <3>8. ASSUME NEW q \in Processes
            PROVE  /\ stage[q] = "declare" => \A i \in 1..declared'[q] : Topology[i] \in topology'
                   /\ stage[q] \in {"start", "serve"} => topology' = Range(Topology)
        BY <3>1, <3>2, <3>5, <3>6, <3>7
      <3> QED
        BY <2>3, <3>8 DEF DeclaredExists
    <2> QED
      BY <1>7, <2>1, <2>2, <2>3 DEF Declare
  <1>8. CASE Serve(p)
    BY <1>8 DEF Serve, Open, To, Return, Fault, VariableTypes, DeclaredExists
  <1>9. CASE Receive(p)
    BY <1>9 DEF Receive, VariableTypes, DeclaredExists
  <1>10. CASE Finish(p)
    BY <1>10 DEF Finish, VariableTypes, DeclaredExists
  <1>11. CASE LeaveSelect(p)
    BY <1>11 DEF LeaveSelect, To, Return, Fault, VariableTypes, DeclaredExists
  <1>12. CASE LeaveConsume(p)
    BY <1>12 DEF LeaveConsume, To, VariableTypes, DeclaredExists
  <1>13. CASE Shutdown(p)
    BY <1>13 DEF Shutdown, Return, To, VariableTypes, DeclaredExists
  <1>14. CASE Close(p)
    BY <1>14 DEF Close, VariableTypes, DeclaredExists
  <1>15. CASE Exit(p)
    BY <1>15 DEF Exit, Ended, To, VariableTypes, DeclaredExists
  <1>16. CASE Signal(p)
    BY <1>16 DEF Signal, Ended, To, Fault, VariableTypes, DeclaredExists
  <1>17. CASE Kill(p)
    BY <1>17 DEF Kill, Ended, To, Fault, VariableTypes, DeclaredExists
  <1>18. CASE LoseConnection(p)
    BY <1>18 DEF LoseConnection, Fault, VariableTypes, DeclaredExists
  <1> QED
    BY <1>1, <1>2, <1>3, <1>4, <1>5, <1>6, <1>7, <1>8, <1>9, <1>10, <1>11, <1>12, <1>13,
       <1>14, <1>15, <1>16, <1>17, <1>18 DEF Step, StartUp, End

\* No step removes the bucket, and no API passes EnsureBucket without it.
LEMMA StepBucket ==
    ASSUME VariableTypes, BucketExists, NEW p \in Processes, Step(p)
    PROVE  BucketExists'
  <1>1. CASE Start(p)
    BY <1>1, ProcessesAssumption DEF Start, To, VariableTypes, BucketExists, Processes
  <1>2. CASE InitTelemetry(p)
    BY <1>2, ProcessesAssumption DEF InitTelemetry, Open, To, Return, Fault,
       VariableTypes, BucketExists, Processes
  <1>3. CASE OpenStorage(p)
    BY <1>3, ProcessesAssumption DEF OpenStorage, Open, To, Return, Fault,
       VariableTypes, BucketExists, Processes
  <1>4. CASE HeadBucket(p)
    BY <1>4, ProcessesAssumption DEF HeadBucket, To, Fault, VariableTypes, BucketExists,
       Processes
  <1>5. CASE CreateBucket(p)
    BY <1>5, ProcessesAssumption DEF CreateBucket, To, Return, Fault, VariableTypes,
       BucketExists, Processes
  <1>6. CASE Dial(p)
    BY <1>6, ProcessesAssumption DEF Dial, To, Return, Fault, VariableTypes,
       BucketExists, Processes
  <1>7. CASE Declare(p)
    BY <1>7, ProcessesAssumption DEF Declare, Open, To, Return, VariableTypes,
       BucketExists, Processes
  <1>8. CASE Serve(p)
    BY <1>8, ProcessesAssumption DEF Serve, Open, To, Return, Fault, VariableTypes,
       BucketExists, Processes
  <1>9. CASE Receive(p)
    BY <1>9, ProcessesAssumption DEF Receive, VariableTypes, BucketExists, Processes
  <1>10. CASE Finish(p)
    BY <1>10, ProcessesAssumption DEF Finish, VariableTypes, BucketExists, Processes
  <1>11. CASE LeaveSelect(p)
    BY <1>11, ProcessesAssumption DEF LeaveSelect, To, Return, Fault, VariableTypes,
       BucketExists, Processes
  <1>12. CASE LeaveConsume(p)
    BY <1>12, ProcessesAssumption DEF LeaveConsume, To, VariableTypes, BucketExists,
       Processes
  <1>13. CASE Shutdown(p)
    BY <1>13, ProcessesAssumption DEF Shutdown, Return, To, VariableTypes, BucketExists,
       Processes
  <1>14. CASE Close(p)
    BY <1>14, ProcessesAssumption DEF Close, VariableTypes, BucketExists, Processes
  <1>15. CASE Exit(p)
    BY <1>15, ProcessesAssumption DEF Exit, Ended, To, VariableTypes, BucketExists,
       Processes
  <1>16. CASE Signal(p)
    BY <1>16, ProcessesAssumption DEF Signal, Ended, To, Fault, VariableTypes,
       BucketExists, Processes
  <1>17. CASE Kill(p)
    BY <1>17, ProcessesAssumption DEF Kill, Ended, To, Fault, VariableTypes,
       BucketExists, Processes
  <1>18. CASE LoseConnection(p)
    BY <1>18, ProcessesAssumption DEF LoseConnection, Fault, VariableTypes,
       BucketExists, Processes
  <1> QED
    BY <1>1, <1>2, <1>3, <1>4, <1>5, <1>6, <1>7, <1>8, <1>9, <1>10, <1>11, <1>12, <1>13,
       <1>14, <1>15, <1>16, <1>17, <1>18 DEF Step, StartUp, End

-----------------------------------------------------------------------------
(***************************************************************************)
(* The theorems.                                                           *)
(***************************************************************************)

\* The invariant: what a process holds, waits for and relies on is known from the
\* stage of run() it is in (main.go), whatever fails, dies or starts meanwhile.
THEOREM ProcessInvariant == Spec => []ProcessInv
  <1>1. ProcessInv /\ [Next]_vars => ProcessInv'
    <2> SUFFICES ASSUME ProcessInv, [Next]_vars PROVE ProcessInv'
      OBVIOUS
    <2> USE DEF ProcessInv
    <2>1. CASE Next
      <3>1. PICK p \in Processes : Step(p)
        BY <2>1 DEF Next, Step
      <3> QED
        BY <3>1, StepTypes, StepHolds, StepWork, StepDeclared, StepBucket
    <2>2. CASE UNCHANGED vars
      BY <2>2 DEF vars, processVars, VariableTypes, StageHolds, WorkAtItsPlace,
                  DeclaredExists, BucketExists
    <2> QED
      BY <2>1, <2>2
  <1> QED
    BY InitInv, <1>1, PTL DEF Spec

\* The type invariant: the deferred calls of run() close what is held in the reverse
\* order of opening, so that what is left is always a prefix of that order.
THEOREM ProcessesTypeCorrect == Spec => []ProcessesTypeOK
  <1>1. ProcessInv => ProcessesTypeOK
    <2> SUFFICES ASSUME ProcessInv PROVE ProcessesTypeOK
      OBVIOUS
    <2>1. \A p \in Processes : IsPrefix(held[p], Resources)
      <3> SUFFICES ASSUME NEW p \in Processes PROVE IsPrefix(held[p], Resources)
        OBVIOUS
      <3>1. PICK n \in 0..4 : Opened(held[p], n)
        BY DEF ProcessInv, StageHolds
      <3> QED
        BY <3>1, OpenedIsPrefix
    <2> QED
      BY <2>1 DEF ProcessInv, VariableTypes, ProcessesTypeOK
  <1> QED
    BY <1>1, ProcessInvariant, PTL

\* Uploads are accepted and tasks consumed only where the whole topology and the bucket
\* exist: Connect returns after Declare, and EnsureBucket comes before it (main.go), for
\* any number of replicas that start, fail and are started again in any order.
THEOREM TopologyBeforeService == Spec => []ServesOnTopology
  <1>1. ProcessInv => ServesOnTopology
    BY DEF ProcessInv, DeclaredExists, BucketExists, ServesOnTopology
  <1> QED
    BY <1>1, ProcessInvariant, PTL

\* A request or delivery under way has its database and its channel until Shutdown has
\* waited as long as it may or the server has failed: the deferred calls of run() come
\* after Shutdown, and Consume returns between two deliveries only.
THEOREM WorkIsNotCutOff == Spec => []NothingCutOff
  <1>1. ProcessInv => NothingCutOff
    <2> SUFFICES ASSUME ProcessInv, NEW p \in Processes, requests[p] > 0
                 PROVE  \/ /\ {"database", "queue"} \subseteq Range(held[p])
                           /\ outcome[p] # "graceful"
                        \/ p \in Apis /\ outcome[p] \in {"timeout", "failed"}
      BY DEF NothingCutOff
    <2>1. CASE stage[p] \in {"serve", "shutdown"}
      <3>1. {"database", "queue"} \subseteq Range(held[p])
        BY <2>1, QueueHeld DEF ProcessInv, StageHolds
      <3>2. outcome[p] = "none"
        BY <2>1 DEF ProcessInv, WorkAtItsPlace
      <3> QED
        BY <3>1, <3>2
    <2> QED
      BY <2>1 DEF ProcessInv, WorkAtItsPlace
  <1> QED
    BY <1>1, ProcessInvariant, PTL
=============================================================================
