------------------------ MODULE ResultProcessor_proofs ------------------------
(***************************************************************************)
(* The result processor for any number of instances, packets, results and  *)
(* faults.                                                                 *)
(***************************************************************************)
EXTENDS ResultProcessor, RewardLedger_proofs

-----------------------------------------------------------------------------
(* Where the packets are.                                                  *)

(* Every published packet is finished, queued or delivered to one          *)
(* processor, and only one of these.                                       *)
BrokerInv ==
    /\ published \subseteq Packets /\ finished \subseteq published
    /\ queue \in Seq(Packets) /\ IsInjective(queue)
    /\ delivered \in [Processors -> Seq(Packets)]
    /\ \A w \in Processors : IsInjective(delivered[w])
    /\ ToSet(queue) \subseteq published \ finished
    /\ \A w \in Processors : ToSet(delivered[w]) \subseteq published \ (finished \cup ToSet(queue))
    /\ \A v, w \in Processors :
         v # w => ToSet(delivered[v]) \cap ToSet(delivered[w]) = {}
    /\ \A p \in published : \/ p \in finished \cup ToSet(queue)
                           \/ \E w \in Processors : p \in ToSet(delivered[w])

(* A processor works on the head of its deliveries while its channel is    *)
(* open; a closed channel has none.                                        *)
WorkInv ==
    /\ open \in [Processors -> BOOLEAN]
    /\ phase \in [Processors -> {"waiting", "settling", "replying"}]
    /\ current \in [Processors -> Packets]
    /\ next \in [Processors -> Nat \ {0}]
    /\ logs \in [Processors -> SUBSET Nat]
    /\ requeue \in [Processors -> BOOLEAN]
    /\ faults \in 0..MaxFaults
    /\ \A w \in Processors : logs[w] \subseteq 1..Len(Results[current[w]])
    /\ \A w \in Processors : ~ open[w] => delivered[w] = <<>>
    /\ AckHitsCurrent

ChannelInv == BrokerInv /\ WorkInv

\* A packet h leaves the deliveries of w, finished or returned.
LEMMA PacketLeaves ==
    ASSUME BrokerInv, NEW w \in Processors, NEW h \in Packets, NEW t \in Seq(Packets),
           ToSet(delivered[w]) = ToSet(t) \cup {h}, IsInjective(t), h \notin ToSet(t),
           delivered' = [delivered EXCEPT ![w] = t], UNCHANGED published,
           queue' \in Seq(Packets), IsInjective(queue'),
           \/ finished' = finished \cup {h} /\ ToSet(queue') = ToSet(queue)
           \/ finished' = finished /\ ToSet(queue') = {h} \cup ToSet(queue)
    PROVE  BrokerInv'
  <1>1. h \in published \ (finished \cup ToSet(queue))
    BY DEF BrokerInv
  <1>2. /\ delivered' \in [Processors -> Seq(Packets)]
        /\ \A v \in Processors : IsInjective(delivered'[v])
    BY DEF BrokerInv
  <1>3. /\ ToSet(delivered'[w]) = ToSet(delivered[w]) \ {h}
        /\ \A v \in Processors \ {w} : ToSet(delivered'[v]) = ToSet(delivered[v])
    BY DEF BrokerInv
  <1> QED
    BY <1>1, <1>2, <1>3 DEF BrokerInv

\* The first delivery is finished, or put back in front of the queue.
LEMMA HeadLeaves ==
    ASSUME BrokerInv, NEW w \in Processors, delivered[w] # <<>>,
           delivered' = [delivered EXCEPT ![w] = Tail(@)], UNCHANGED published,
           \/ finished' = finished \cup {Head(delivered[w])} /\ UNCHANGED queue
           \/ queue' = <<Head(delivered[w])>> \o queue /\ UNCHANGED finished
    PROVE  BrokerInv'
  <1> DEFINE h == Head(delivered[w])
             t == Tail(delivered[w])
  <1>1. /\ t \in Seq(Packets) /\ h \in Packets /\ ToSet(delivered[w]) = ToSet(t) \cup {h}
        /\ IsInjective(t) /\ h \notin ToSet(t)
    BY QueueTail DEF BrokerInv
  <1>2. /\ delivered' = [delivered EXCEPT ![w] = t]
        /\ \/ finished' = finished \cup {h} /\ UNCHANGED queue
           \/ queue' = <<h>> \o queue /\ UNCHANGED finished
    OBVIOUS
  <1>3. h \notin ToSet(queue)
    BY <1>1 DEF BrokerInv
  <1> HIDE DEF h, t
  <1>4. /\ queue' \in Seq(Packets) /\ IsInjective(queue')
        /\ \/ finished' = finished \cup {h} /\ ToSet(queue') = ToSet(queue)
           \/ finished' = finished /\ ToSet(queue') = {h} \cup ToSet(queue)
    <2>1. queue \in Seq(Packets) /\ IsInjective(queue)
      BY DEF BrokerInv
    <2>2. /\ <<h>> \o queue \in Seq(Packets) /\ IsInjective(<<h>> \o queue)
          /\ ToSet(<<h>> \o queue) = {h} \cup ToSet(queue)
      BY <1>1, <1>3, <2>1, QueuePrepend
    <2> QED
      BY <1>2, <2>1, <2>2, Zenon
  <1> QED
    BY <1>1, <1>2, <1>4, PacketLeaves

\* The broker takes everything back from w.
LEMMA ReturnKeepsPackets ==
    ASSUME BrokerInv, NEW w \in Processors, ReturnDelivered(w)
    PROVE  BrokerInv'
  <1> DEFINE d == delivered[w]
  <1>1. d \in Seq(Packets) /\ IsInjective(d) /\ ToSet(d) \cap ToSet(queue) = {}
    BY DEF BrokerInv
  <1>2. queue' = d \o queue /\ delivered' = [delivered EXCEPT ![w] = <<>>]
    BY DEF ReturnDelivered
  <1>3. UNCHANGED <<published, finished>>
    BY DEF ReturnDelivered
  <1> HIDE DEF d
  <1>4. /\ queue' \in Seq(Packets) /\ ToSet(queue') = ToSet(d) \cup ToSet(queue)
        /\ IsInjective(queue')
    BY <1>1, <1>2, QueueConcat DEF BrokerInv
  <1> DEFINE e == <<>>
  <1>5. e \in Seq(Packets) /\ ToSet(e) = {} /\ IsInjective(e)
    BY QueueEmpty
  <1>6. delivered' = [delivered EXCEPT ![w] = e]
    BY <1>2
  <1> HIDE DEF e
  <1>7. delivered' \in [Processors -> Seq(Packets)] /\ \A v \in Processors : IsInjective(delivered'[v])
    BY <1>5, <1>6 DEF BrokerInv
  <1>8. \A v \in Processors : ToSet(delivered'[v]) = IF v = w THEN {} ELSE ToSet(delivered[v])
    BY <1>5, <1>6 DEF BrokerInv
  <1>9. ToSet(d) = ToSet(delivered[w])
    BY DEF d
  <1> QED
    BY <1>3, <1>4, <1>7, <1>8, <1>9 DEF BrokerInv

\* The broker holds every packet once, whatever the processors do.
LEMMA BrokerStep ==
    ASSUME BrokerInv, WorkInv, [ProcNext]_procVars
    PROVE  BrokerInv'
  <1>1. CASE UNCHANGED broker
    BY <1>1 DEF BrokerInv, broker
  <1>2. ASSUME NEW p \in Packets, Publish(p) PROVE BrokerInv'
    <2>1. /\ queue' \in Seq(Packets) /\ ToSet(queue') = ToSet(queue) \cup {p}
          /\ IsInjective(queue') /\ p \notin published
      BY <1>2, QueueAppend DEF Publish, BrokerInv
    <2> QED
      BY <1>2, <2>1 DEF Publish, BrokerInv
  <1>3. ASSUME NEW w \in Processors, Deliver(w) PROVE BrokerInv'
    <2> DEFINE h == Head(queue)
               d == Append(delivered[w], h)
    <2>1. /\ queue' \in Seq(Packets) /\ h \in Packets /\ ToSet(queue) = ToSet(queue') \cup {h}
          /\ IsInjective(queue') /\ h \notin ToSet(queue')
      BY <1>3, QueueTail DEF Deliver, BrokerInv
    <2>2. d \in Seq(Packets) /\ ToSet(d) = ToSet(delivered[w]) \cup {h} /\ IsInjective(d)
      <3>1. h \notin ToSet(delivered[w]) /\ delivered[w] \in Seq(Packets) /\ IsInjective(delivered[w])
        BY <2>1 DEF BrokerInv
      <3> HIDE DEF h
      <3> QED
        BY <2>1, <3>1, QueueAppend
    <2>3. delivered' = [delivered EXCEPT ![w] = d] /\ UNCHANGED <<published, finished>>
      BY <1>3 DEF Deliver
    <2> HIDE DEF h, d
    <2>4. delivered' \in [Processors -> Seq(Packets)] /\ \A v \in Processors : IsInjective(delivered'[v])
      BY <2>2, <2>3 DEF BrokerInv
    <2>5. \A v \in Processors : ToSet(delivered'[v]) =
            IF v = w THEN ToSet(delivered[w]) \cup {h} ELSE ToSet(delivered[v])
      BY <2>2, <2>3 DEF BrokerInv
    <2> QED
      BY <2>1, <2>3, <2>4, <2>5 DEF BrokerInv
  <1>4. ASSUME NEW w \in Processors, CloseChannel(w) \/ Crash(w) PROVE BrokerInv'
    BY <1>4, ReturnKeepsPackets DEF CloseChannel, Crash
  <1>5. ASSUME NEW w \in Processors, DiscardPacket(w) PROVE BrokerInv'
    BY <1>5, HeadLeaves DEF DiscardPacket, HasDelivery
  <1>6. ASSUME NEW w \in Processors, Reply(w) PROVE BrokerInv'
    <2>1. CASE ~ open[w]
      BY <1>6, <2>1 DEF Reply, BrokerInv
    <2>2. CASE open[w]
      <3>1. delivered[w] # <<>> /\ Head(delivered[w]) = current[w]
        BY <1>6, <2>2 DEF Reply, WorkInv, AckHitsCurrent
      <3> QED
        BY <1>6, <2>2, <3>1, HeadLeaves DEF Reply, NackedQueue
    <2> QED
      BY <2>1, <2>2
  <1> QED
    BY <1>1, <1>2, <1>3, <1>4, <1>5, <1>6
    DEF ProcNext, procVars, OpenChannel, Work, StartPacket, SkipResult, SettleResult,
        RefuseResult, InsertLogs, FailSettlement, LoseCommitReply, FailInsert, Continue,
        EndPacket

\* Steps in ProcessPacket: w looks at its next result, keeping it or not.
LEMMA ContinueKeepsWork ==
    ASSUME WorkInv, NEW w \in Processors, AtResult(w), Continue(w),
           faults' \in 0..MaxFaults,
           UNCHANGED logs \/ logs' = [logs EXCEPT ![w] = @ \cup {next[w]}]
    PROVE  WorkInv'
  <1>1. /\ next[w] \in Nat \ {0} /\ current[w] \in Packets
        /\ Len(Results[current[w]]) \in Nat /\ next[w] <= Len(Results[current[w]])
    BY ProcessorConstants DEF WorkInv, AtResult
  <1>2. next' \in [Processors -> Nat \ {0}]
    BY <1>1 DEF WorkInv, Continue
  <1>3. /\ logs' \in [Processors -> SUBSET Nat]
        /\ \A v \in Processors : logs'[v] \subseteq 1..Len(Results[current[v]])
    <2>1. logs[w] \cup {next[w]} \in SUBSET (1..Len(Results[current[w]]))
      BY <1>1 DEF WorkInv
    <2> DEFINE l == logs[w] \cup {next[w]}
    <2>2. l \in SUBSET Nat /\ (UNCHANGED logs \/ logs' = [logs EXCEPT ![w] = l])
      BY <1>1 DEF WorkInv
    <2>3. l \subseteq 1..Len(Results[current[w]])
      BY <2>1
    <2> HIDE DEF l
    <2> QED
      BY <2>2, <2>3 DEF WorkInv
  <1> QED
    BY <1>2, <1>3 DEF WorkInv, Continue, broker, AckHitsCurrent

\* A processor works on the first of its deliveries.
LEMMA WorkStep ==
    ASSUME BrokerInv, WorkInv, [ProcNext]_procVars
    PROVE  WorkInv'
  <1> USE ProcessorConstants
  <1>0. \A w \in Processors : delivered[w] \in Seq(Packets)
    BY DEF BrokerInv
  <1>1. CASE UNCHANGED <<worker, open, delivered, faults>>
    BY <1>1 DEF WorkInv, worker, AckHitsCurrent
  <1>2. ASSUME NEW w \in Processors, OpenChannel(w) PROVE WorkInv'
    BY <1>2 DEF OpenChannel, WorkInv, worker, broker, AckHitsCurrent
  <1>3. ASSUME NEW w \in Processors, Deliver(w) PROVE WorkInv'
    <2> DEFINE d == Append(delivered[w], Head(queue))
    <2>1. /\ delivered' = [delivered EXCEPT ![w] = d] /\ UNCHANGED <<worker, open, faults>>
          /\ open[w]
      BY <1>3 DEF Deliver
    <2>2. delivered[w] # <<>> => d # <<>> /\ Head(d) = Head(delivered[w])
      <3>1. Head(queue) \in Packets
        BY <1>3, QueueTail DEF Deliver, BrokerInv
      <3> QED
        BY <1>0, <3>1, QueueHead
    <2> HIDE DEF d
    <2>3. \A v \in Processors : delivered'[v] = IF v = w THEN d ELSE delivered[v]
      BY <2>1 DEF BrokerInv
    <2> QED
      BY <2>1, <2>2, <2>3 DEF WorkInv, worker, AckHitsCurrent
  <1>4. ASSUME NEW w \in Processors, CloseChannel(w) \/ Crash(w) PROVE WorkInv'
    <2>1. /\ open' = [open EXCEPT ![w] = FALSE] /\ faults' \in 0..MaxFaults
          /\ UNCHANGED <<current, next, logs, requeue>>
          /\ phase' \in {phase, [phase EXCEPT ![w] = "waiting"]}
      BY <1>4 DEF CloseChannel, Crash, ReturnDelivered, Fault, worker, WorkInv
    <2>2. delivered'[w] = <<>> /\ \A v \in Processors \ {w} : delivered'[v] = delivered[v]
      BY <1>4 DEF CloseChannel, Crash, ReturnDelivered, BrokerInv
    <2> QED
      BY <2>1, <2>2 DEF WorkInv, AckHitsCurrent
  <1>5. ASSUME NEW w \in Processors, DiscardPacket(w) PROVE WorkInv'
    <2>1. \A v \in Processors \ {w} : delivered'[v] = delivered[v]
      BY <1>5 DEF DiscardPacket, BrokerInv
    <2>2. phase[w] = "waiting" /\ open[w] /\ UNCHANGED <<worker, open, faults>>
      BY <1>5 DEF DiscardPacket, HasDelivery
    <2> QED
      BY <2>1, <2>2 DEF WorkInv, worker, AckHitsCurrent
  <1>6. ASSUME NEW w \in Processors, StartPacket(w) PROVE WorkInv'
    <2>1. Head(delivered[w]) \in Packets /\ delivered[w] # <<>>
      BY <1>0, <1>6, QueueHead DEF StartPacket, HasDelivery
    <2> QED
      BY <1>6, <2>1 DEF StartPacket, HasDelivery, WorkInv, AckHitsCurrent, broker
  <1>7. ASSUME NEW w \in Processors, Reply(w) PROVE WorkInv'
    <2>1. \A v \in Processors \ {w} : delivered'[v] = delivered[v]
      BY <1>7 DEF Reply, BrokerInv
    <2>2. /\ phase' = [phase EXCEPT ![w] = "waiting"]
          /\ UNCHANGED <<current, next, logs, requeue, open, faults>>
          /\ ~ open[w] => UNCHANGED delivered
      BY <1>7 DEF Reply
    <2> QED
      BY <2>1, <2>2 DEF WorkInv, AckHitsCurrent
  <1>8. ASSUME NEW w \in Processors,
               \/ SkipResult(w) \/ SettleResult(w) \/ RefuseResult(w)
               \/ FailSettlement(w) \/ LoseCommitReply(w)
        PROVE  WorkInv'
    <2>1. faults' \in 0..MaxFaults
      BY <1>8 DEF SkipResult, SettleResult, RefuseResult, FailSettlement, LoseCommitReply,
                  Fault, WorkInv
    <2> QED
      BY <1>8, <2>1, ContinueKeepsWork
      DEF SkipResult, SettleResult, RefuseResult, FailSettlement, LoseCommitReply
  <1>9. ASSUME NEW w \in Processors, InsertLogs(w) \/ FailInsert(w) PROVE WorkInv'
    <2>0. UNCHANGED faults \/ Fault
      BY <1>9 DEF InsertLogs, FailInsert
    <2>1. faults' \in 0..MaxFaults
      BY <2>0 DEF Fault, WorkInv
    <2>2. PICK err \in BOOLEAN : EndPacket(w, err) /\ AtInsert(w)
      BY <1>9 DEF InsertLogs, FailInsert, Insertable
    <2> QED
      BY <2>1, <2>2 DEF EndPacket, AtInsert, WorkInv, AckHitsCurrent, broker
  <1> QED
    BY <1>1, <1>2, <1>3, <1>4, <1>5, <1>6, <1>7, <1>8, <1>9
    DEF ProcNext, Work, Publish, procVars, broker

\* So both hold in every state.
LEMMA ChannelInvariant == ProcSpec => []ChannelInv
  <1>1. ProcInit => ChannelInv
    <2> SUFFICES ASSUME ProcInit PROVE BrokerInv /\ WorkInv
      BY DEF ChannelInv
    <2> DEFINE e == <<>>
    <2>1. e \in Seq(Packets) /\ ToSet(e) = {} /\ IsInjective(e)
      BY QueueEmpty
    <2>2. queue = e /\ delivered = [w \in Processors |-> e]
      BY DEF ProcInit
    <2>3. WorkInv
      BY ProcessorConstants DEF ProcInit, WorkInv, AckHitsCurrent
    <2> HIDE DEF e
    <2>4. published = {} /\ finished = {}
      BY DEF ProcInit
    <2> QED
      BY <2>1, <2>2, <2>3, <2>4 DEF BrokerInv
  <1>2. ChannelInv /\ [ProcNext]_procVars => ChannelInv'
    BY BrokerStep, WorkStep DEF ChannelInv
  <1> QED
    BY <1>1, <1>2, PTL DEF ProcSpec

(* An acknowledgement never removes another packet than the one that was   *)
(* processed, although channels close and reopen behind the processor.     *)
THEOREM AcksHitCurrent == ProcSpec => []AckHitsCurrent
  <1>1. ChannelInv => AckHitsCurrent
    BY DEF ChannelInv, WorkInv
  <1> QED
    BY <1>1, ChannelInvariant, PTL

-----------------------------------------------------------------------------
(* The ledger behind the processors.                                       *)

(* Whatever the processors, the broker and the faults do, the database     *)
(* sees a sequence of settlements.                                         *)
THEOREM ProcSettlesLedger == ProcSpec => LedgerSpec
  <1>1. ProcInit => LedgerInit
    BY DEF ProcInit
  <1>2. [ProcNext]_procVars => [LedgerNext]_ledger
    <2> SUFFICES ASSUME ProcNext PROVE LedgerNext \/ UNCHANGED ledger
      BY DEF procVars
    <2>1. ASSUME NEW w \in Processors, SettleCurrent(w) PROVE LedgerNext
      BY <2>1 DEF SettleCurrent, LedgerNext
    <2> QED
      BY <2>1
      DEF ProcNext, Publish, OpenChannel, Deliver, Work, CloseChannel, Crash, DiscardPacket,
          StartPacket, SkipResult, SettleResult, RefuseResult, InsertLogs, Reply,
          FailSettlement, LoseCommitReply, FailInsert, EndPacket
  <1> QED
    BY <1>1, <1>2, PTL DEF ProcSpec, LedgerSpec

(* So the books balance behind it too: however often packets are requeued  *)
(* and settled again, each settlement takes a credit, bills the monitor    *)
(* and pays a reward, and no reward is lost (ProcessPacket).               *)
THEOREM ProcKeepsTheBooks ==
    ProcSpec => [](RewardsConserved /\ ChargesMatchRewards /\ PaidWhenDue /\ PayoutsInRange)
  BY ProcSettlesLedger, LedgerRewardsConserved, LedgerChargesMatch, LedgerPaysWhenDue,
     LedgerPayoutsInRange, PTL

\* The type invariant of the processor, its queue and the ledger.
THEOREM ProcTypes == ProcSpec => []ProcTypeOK
  <1>1. LedgerTypeOK /\ ChannelInv => ProcTypeOK
    <2> SUFFICES ASSUME LedgerTypeOK, ChannelInv PROVE ProcTypeOK
      OBVIOUS
    <2>1. queue \in Seq(published)
      BY QueueRange DEF ChannelInv, BrokerInv
    <2>2. delivered \in [Processors -> Seq(published)]
      <3>1. \A w \in Processors : delivered[w] \in Seq(published)
        BY QueueRange DEF ChannelInv, BrokerInv
      <3> QED
        BY <3>1 DEF ChannelInv, BrokerInv
    <2>3. \A w \in Processors : logs[w] \subseteq DOMAIN Results[current[w]]
      BY ProcessorConstants DEF ChannelInv, WorkInv
    <2> QED
      BY <2>1, <2>2, <2>3 DEF ProcTypeOK, ChannelInv, BrokerInv, WorkInv
  <1> QED
    BY <1>1, ProcSettlesLedger, LedgerTypeCorrect, ChannelInvariant, PTL

-----------------------------------------------------------------------------
(* Packets.                                                                *)

\* An injective sequence has an element in one place.
LEMMA OnePlace ==
    ASSUME NEW S, NEW q \in Seq(S), IsInjective(q), NEW p
    PROVE  /\ p \in ToSet(q) => (\E i : Places(q, p) = {i}) /\ Cardinality(Places(q, p)) = 1
           /\ p \notin ToSet(q) => Places(q, p) = {} /\ Cardinality(Places(q, p)) = 0
  <1>1. ASSUME p \in ToSet(q)
        PROVE  (\E i : Places(q, p) = {i}) /\ Cardinality(Places(q, p)) = 1
    <2>1. PICK i : Places(q, p) = {i}
      BY <1>1 DEF ToSet, IsInjective, Places
    <2> QED
      BY <2>1, FS_Singleton
  <1>2. ASSUME p \notin ToSet(q) PROVE Places(q, p) = {} /\ Cardinality(Places(q, p)) = 0
    <2>1. Places(q, p) = {}
      BY <1>2 DEF ToSet, Places
    <2> QED
      BY <2>1, FS_EmptySet
  <1> QED
    BY <1>1, <1>2

(* The broker holds every packet that is not finished once: channels that  *)
(* close, processes that die, Nacks and redeliveries lose and copy none.   *)
THEOREM NoPacketIsLost == ProcSpec => []NoPacketLost
  <1>1. ASSUME BrokerInv, NEW p \in published
        PROVE  Cardinality(Places(queue, p)) + Cardinality(DeliveredAt(p)) =
                 IF p \in finished THEN 0 ELSE 1
    <2>1. /\ p \in ToSet(queue) => Cardinality(Places(queue, p)) = 1
          /\ p \notin ToSet(queue) => Cardinality(Places(queue, p)) = 0
      BY <1>1, OnePlace DEF BrokerInv
    <2>2. \A w \in Processors :
            /\ p \in ToSet(delivered[w]) => \E i : Places(delivered[w], p) = {i}
            /\ p \notin ToSet(delivered[w]) => Places(delivered[w], p) = {}
      BY <1>1, OnePlace DEF BrokerInv
    <2>3. CASE \A w \in Processors : p \notin ToSet(delivered[w])
      <3>1. DeliveredAt(p) = {}
        BY <2>2, <2>3 DEF DeliveredAt
      <3>2. Cardinality(DeliveredAt(p)) = 0
        BY <3>1, FS_EmptySet
      <3>3. p \in ToSet(queue) <=> p \notin finished
        BY <1>1, <2>3 DEF BrokerInv
      <3> QED
        BY <2>1, <3>2, <3>3
    <2>4. ASSUME NEW w \in Processors, p \in ToSet(delivered[w])
          PROVE  Cardinality(Places(queue, p)) + Cardinality(DeliveredAt(p)) =
                   IF p \in finished THEN 0 ELSE 1
      <3>1. p \notin finished /\ p \notin ToSet(queue)
        BY <1>1, <2>4 DEF BrokerInv
      <3>2. \A v \in Processors \ {w} : Places(delivered[v], p) = {}
        BY <1>1, <2>2, <2>4 DEF BrokerInv
      <3>3. PICK i : Places(delivered[w], p) = {i}
        BY <2>2, <2>4
      <3>4. DeliveredAt(p) = {<<w, i>>}
        BY <3>2, <3>3 DEF DeliveredAt
      <3>5. Cardinality(DeliveredAt(p)) = 1
        BY <3>4, FS_Singleton
      <3> QED
        BY <2>1, <3>1, <3>5
    <2> QED
      BY <2>3, <2>4
  <1>2. ChannelInv => NoPacketLost
    BY <1>1 DEF ChannelInv, NoPacketLost
  <1> QED
    BY <1>2, ChannelInvariant, PTL

-----------------------------------------------------------------------------
(* What the steps do to the sets of packets.                               *)

\* A publish adds its packet.
LEMMA PublishSets ==
    ASSUME BrokerInv, NEW p \in Packets, Publish(p)
    PROVE  ToSet(queue') = ToSet(queue) \cup {p} /\ p \notin ToSet(queue)
  BY QueueAppend DEF Publish, BrokerInv

\* A delivery moves one.
LEMMA DeliverSets ==
    ASSUME BrokerInv, NEW w \in Processors, Deliver(w)
    PROVE  \E h \in Packets :
             /\ ToSet(queue') = ToSet(queue) \ {h} /\ h \in ToSet(queue)
             /\ ToSet(delivered'[w]) = ToSet(delivered[w]) \cup {h}
  <1> DEFINE h == Head(queue)
             d == Append(delivered[w], h)
  <1>1. /\ queue' \in Seq(Packets) /\ h \in Packets /\ ToSet(queue) = ToSet(queue') \cup {h}
        /\ h \notin ToSet(queue')
    BY QueueTail DEF Deliver, BrokerInv
  <1>2. delivered'[w] = d /\ delivered[w] \in Seq(Packets)
    BY DEF Deliver, BrokerInv
  <1> HIDE DEF h
  <1>3. ToSet(d) = ToSet(delivered[w]) \cup {h}
    BY <1>1, <1>2, QueueAppend
  <1> HIDE DEF d
  <1> QED
    BY <1>1, <1>2, <1>3

\* A closed channel gives all of its own back.
LEMMA ReturnSets ==
    ASSUME BrokerInv, NEW w \in Processors, ReturnDelivered(w)
    PROVE  /\ ToSet(queue') = ToSet(delivered[w]) \cup ToSet(queue)
           /\ ToSet(delivered'[w]) = {}
  <1> DEFINE d == delivered[w]
             c == d \o queue
             e == <<>>
  <1>1. d \in Seq(Packets) /\ queue \in Seq(Packets) /\ queue' = c /\ delivered'[w] = e
    BY DEF ReturnDelivered, BrokerInv
  <1>2. ToSet(e) = {}
    BY QueueEmpty
  <1> HIDE DEF d, e
  <1>3. ToSet(c) = ToSet(d) \cup ToSet(queue)
    BY <1>1, QueueConcat
  <1> HIDE DEF c
  <1> QED
    BY <1>1, <1>2, <1>3 DEF d

\* An answer takes the first one off.
LEMMA TailSets ==
    ASSUME BrokerInv, NEW w \in Processors, delivered[w] # <<>>,
           delivered' = [delivered EXCEPT ![w] = Tail(@)]
    PROVE  /\ Head(delivered[w]) \in ToSet(delivered[w]) /\ Head(delivered[w]) \in Packets
           /\ ToSet(delivered'[w]) = ToSet(delivered[w]) \ {Head(delivered[w])}
  <1> DEFINE h == Head(delivered[w])
             t == Tail(delivered[w])
  <1>1. /\ h \in Packets /\ ToSet(delivered[w]) = ToSet(t) \cup {h} /\ h \notin ToSet(t)
    BY QueueTail DEF BrokerInv
  <1>2. delivered'[w] = t
    BY DEF BrokerInv
  <1> HIDE DEF h, t
  <1>3. ToSet(delivered'[w]) = ToSet(delivered[w]) \ {h} /\ h \in ToSet(delivered[w])
    BY <1>1, <1>2
  <1> QED
    BY <1>1, <1>3 DEF h

\* A step of one processor leaves the others as they are.
Others(w) ==
    \A v \in Processors \ {w} :
        /\ open'[v] = open[v] /\ phase'[v] = phase[v] /\ current'[v] = current[v]
        /\ next'[v] = next[v] /\ logs'[v] = logs[v] /\ requeue'[v] = requeue[v]
        /\ delivered'[v] = delivered[v]

\* A processor does not touch what another one holds.
LEMMA OthersRest ==
    ASSUME ChannelInv, NEW w \in Processors,
           \/ OpenChannel(w) \/ Deliver(w) \/ Work(w) \/ CloseChannel(w) \/ Crash(w)
           \/ FailSettlement(w) \/ LoseCommitReply(w) \/ FailInsert(w)
    PROVE  Others(w)
  <1> USE DEF ChannelInv, BrokerInv, WorkInv, Others, broker, worker
  <1>1. CASE OpenChannel(w) \/ Deliver(w) \/ CloseChannel(w) \/ Crash(w)
    BY <1>1 DEF OpenChannel, Deliver, CloseChannel, Crash, ReturnDelivered
  <1>2. CASE DiscardPacket(w) \/ StartPacket(w) \/ Reply(w)
    BY <1>2 DEF DiscardPacket, StartPacket, Reply
  <1>3. CASE SkipResult(w) \/ SettleResult(w) \/ RefuseResult(w) \/ FailSettlement(w) \/ LoseCommitReply(w)
    BY <1>3 DEF SkipResult, SettleResult, RefuseResult, FailSettlement, LoseCommitReply, Continue
  <1>4. CASE InsertLogs(w) \/ FailInsert(w)
    BY <1>4 DEF InsertLogs, FailInsert, EndPacket
  <1> QED
    BY <1>1, <1>2, <1>3, <1>4 DEF Work

\* A sum over the processors to which one of them contributes anew.
LEMMA Balance ==
    ASSUME NEW f \in [Processors -> Int], NEW g \in [Processors -> Int],
           NEW w \in Processors, \A v \in Processors \ {w} : g[v] = f[v],
           NEW a \in Int, NEW b \in Int, NEW m \in Int, NEW n \in Int,
           a + SumFunction(f) <= m, (b - a) + (g[w] - f[w]) <= n - m
    PROVE  b + SumFunction(g) <= n
  <1>0. IsFiniteSet(Processors)
    BY ProcessorConstants
  <1>1. SumFunction(g) = SumFunction(f) + (g[w] - f[w])
    BY <1>0, SumChange
  <1>2. SumFunction(f) \in Int
    BY <1>0, SumType
  <1>3. f[w] \in Int /\ g[w] \in Int
    OBVIOUS
  <1> QED
    BY <1>1, <1>2, <1>3

-----------------------------------------------------------------------------
(* Settlements.                                                            *)

\* A number for every result.
Counts(f) ==
    /\ DOMAIN f = Packets
    /\ \A p \in Packets : f[p] \in [1..Len(Results[p]) -> Nat]

\* Whether p may be handed to a processor again, or for the first time.
Waiting(p) == IF p \in ToSet(queue) \/ p \notin published THEN 1 ELSE 0

(* Whether w may still settle result i of p: p is delivered and not begun, *)
(* or w has not come to i, or it is about to return p.                     *)
Claim(w, p, i) ==
    IF phase[w] # "waiting" /\ current[w] = p
    THEN IF \/ phase[w] = "settling" /\ next[w] <= i
            \/ phase[w] = "replying" /\ open[w] /\ requeue[w]
         THEN 1 ELSE 0
    ELSE IF p \in ToSet(delivered[w]) THEN 1 ELSE 0

Claims(p, i) == [w \in Processors |-> Claim(w, p, i)]

\* Every settlement, done or possible, but the first is due to a fault.
ClaimInv ==
    \A p \in Packets : \A i \in 1..Len(Results[p]) :
        WellDated(p) => settled[p][i] + Waiting(p) + SumFunction(Claims(p, i)) <= 1 + faults

\* What settling the current result does to the counters.
LEMMA SettledOneMore ==
    ASSUME Counts(settled), WorkInv, NEW w \in Processors, AtResult(w), SettleCurrent(w)
    PROVE  /\ Counts(settled')
           /\ \A p \in Packets : \A i \in 1..Len(Results[p]) :
                settled'[p][i] = IF p = current[w] /\ i = next[w] THEN settled[p][i] + 1
                                                                 ELSE settled[p][i]
  <1> DEFINE c == current[w]
             n == next[w]
             s == [settled[c] EXCEPT ![n] = @ + 1]
  <1>1. c \in Packets /\ n \in 1..Len(Results[c])
    BY ProcessorConstants DEF WorkInv, AtResult
  <1>2. settled' = [settled EXCEPT ![c] = s]
    BY DEF SettleCurrent
  <1>3. settled[c] \in [1..Len(Results[c]) -> Nat] /\ settled[c][n] + 1 \in Nat
    BY <1>1 DEF Counts
  <1> HIDE DEF c, n
  <1>4. /\ s \in [1..Len(Results[c]) -> Nat]
        /\ \A i \in 1..Len(Results[c]) : s[i] = IF i = n THEN settled[c][i] + 1 ELSE settled[c][i]
    BY <1>1, <1>3
  <1> HIDE DEF s
  <1>5. /\ Counts(settled')
        /\ \A p \in Packets : \A i \in 1..Len(Results[p]) :
             settled'[p][i] = IF p = c /\ i = n THEN settled[p][i] + 1 ELSE settled[p][i]
    BY <1>1, <1>2, <1>4 DEF Counts
  <1> QED
    BY <1>5 DEF c, n

\* The claims of one processor and its settlements grow by its faults at most.
LEMMA ClaimStep ==
    ASSUME ChannelInv, Counts(settled), NEW w \in Processors,
           NEW p \in Packets, NEW i \in 1..Len(Results[p]), WellDated(p),
           \/ OpenChannel(w) \/ Deliver(w) \/ Work(w) \/ CloseChannel(w) \/ Crash(w)
           \/ FailSettlement(w) \/ LoseCommitReply(w) \/ FailInsert(w)
    PROVE  \/ settled'[p][i] = settled[p][i]
             /\ Waiting(p)' + Claim(w, p, i)' <= Waiting(p) + Claim(w, p, i) + (faults' - faults)
           \/ settled'[p][i] = settled[p][i] + 1 /\ Waiting(p)' = Waiting(p)
             /\ Claim(w, p, i) = 1 /\ Claim(w, p, i)' = 0 /\ faults' >= faults
  <1>0. BrokerInv /\ WorkInv /\ i \in Nat /\ i > 0 /\ faults \in Nat /\ i <= Len(Results[p])
    BY ProcessorConstants DEF ChannelInv, WorkInv
  <1>1. CASE OpenChannel(w)
    BY <1>0, <1>1 DEF OpenChannel, Waiting, Claim, broker, worker
  <1>2. CASE Deliver(w)
    <2>1. PICK h \in Packets : /\ ToSet(queue') = ToSet(queue) \ {h} /\ h \in ToSet(queue)
                              /\ ToSet(delivered'[w]) = ToSet(delivered[w]) \cup {h}
      BY <1>0, <1>2, DeliverSets
    <2>2. open[w] /\ UNCHANGED <<published, phase, current, next, requeue, open, settled, faults>>
      BY <1>2 DEF Deliver, worker
    <2>3. phase[w] # "waiting" => current[w] # h
      <3>1. phase[w] # "waiting" => delivered[w] # <<>> /\ Head(delivered[w]) = current[w]
        BY <1>0, <2>2 DEF WorkInv, AckHitsCurrent
      <3>2. delivered[w] # <<>> => Head(delivered[w]) \in ToSet(delivered[w])
        BY <1>0, QueueHead DEF BrokerInv
      <3>3. h \notin ToSet(delivered[w])
        BY <1>0, <2>1 DEF BrokerInv
      <3> QED
        BY <3>1, <3>2, <3>3
    <2>4. h \in published
      BY <1>0, <2>1 DEF BrokerInv
    <2> QED
      BY <1>0, <2>1, <2>2, <2>3, <2>4 DEF Waiting, Claim
  <1>3. ASSUME CloseChannel(w) \/ Crash(w)
        PROVE  /\ settled'[p][i] = settled[p][i]
               /\ Waiting(p)' + Claim(w, p, i)' <= Waiting(p) + Claim(w, p, i) + (faults' - faults)
    <2>1. /\ ToSet(queue') = ToSet(delivered[w]) \cup ToSet(queue) /\ ToSet(delivered'[w]) = {}
      BY <1>0, <1>3, ReturnSets DEF CloseChannel, Crash
    <2>2. /\ open'[w] = FALSE /\ UNCHANGED <<published, current, next, requeue, settled>>
          /\ faults' = faults + 1 /\ phase'[w] \in {phase[w], "waiting"}
      BY <1>0, <1>3 DEF CloseChannel, Crash, ReturnDelivered, Fault, worker, WorkInv
    <2>3. open[w] /\ phase[w] # "waiting" => current[w] \in ToSet(delivered[w])
      BY <1>0, QueueHead DEF BrokerInv, WorkInv, AckHitsCurrent
    <2>4. ToSet(delivered[w]) \subseteq published
      BY <1>0 DEF BrokerInv
    <2>5. CASE p \in ToSet(delivered[w])
      <3>1. p \in published /\ p \notin ToSet(queue)
        BY <1>0, <2>5 DEF BrokerInv
      <3>2. Waiting(p) = 0 /\ Waiting(p)' = 1
        BY <2>1, <2>2, <2>5, <3>1 DEF Waiting
      <3>3. Claim(w, p, i)' <= Claim(w, p, i)
        BY <1>0, <2>1, <2>2, <2>5 DEF Claim
      <3>4. Claim(w, p, i) \in Nat /\ Claim(w, p, i)' \in Nat
        BY DEF Claim
      <3> QED
        BY <1>0, <2>2, <3>2, <3>3, <3>4
    <2>6. CASE p \notin ToSet(delivered[w])
      <3>1. Waiting(p)' = Waiting(p)
        BY <2>1, <2>2, <2>6 DEF Waiting
      <3>2. Claim(w, p, i)' <= Claim(w, p, i)
        BY <1>0, <2>1, <2>2, <2>3, <2>6 DEF Claim
      <3>3. Claim(w, p, i) \in Nat /\ Claim(w, p, i)' \in Nat /\ Waiting(p) \in Nat
        BY DEF Claim, Waiting
      <3> QED
        BY <1>0, <2>2, <3>1, <3>2, <3>3
    <2> QED
      BY <2>5, <2>6
  <1>4. CASE DiscardPacket(w)
    <2>1. /\ delivered[w] # <<>> /\ delivered' = [delivered EXCEPT ![w] = Tail(@)]
          /\ UNCHANGED <<published, queue, phase, current, next, requeue, open, settled, faults>>
      BY <1>4 DEF DiscardPacket, HasDelivery, worker
    <2>2. ToSet(delivered'[w]) \subseteq ToSet(delivered[w])
      BY <1>0, <2>1, TailSets
    <2>3. Waiting(p)' = Waiting(p) /\ Claim(w, p, i)' <= Claim(w, p, i)
      BY <2>1, <2>2 DEF Waiting, Claim
    <2>4. Claim(w, p, i) \in Nat /\ Claim(w, p, i)' \in Nat /\ Waiting(p) \in Nat
      BY DEF Claim, Waiting
    <2> QED
      BY <1>0, <2>1, <2>3, <2>4
  <1>5. CASE StartPacket(w)
    <2>1. /\ phase[w] = "waiting" /\ phase'[w] = "settling"
          /\ current'[w] = Head(delivered[w]) /\ next'[w] = 1
          /\ delivered[w] # <<>> /\ UNCHANGED <<published, queue, delivered, settled, faults>>
      BY <1>0, <1>5 DEF StartPacket, HasDelivery, WorkInv, broker
    <2>2. Head(delivered[w]) \in ToSet(delivered[w])
      BY <1>0, <2>1, QueueHead DEF BrokerInv
    <2>3. Waiting(p)' = Waiting(p) /\ Claim(w, p, i)' = Claim(w, p, i)
      BY <1>0, <2>1, <2>2 DEF Waiting, Claim
    <2>4. Claim(w, p, i) \in Nat /\ Waiting(p) \in Nat
      BY DEF Claim, Waiting
    <2> QED
      BY <1>0, <2>1, <2>3, <2>4
  <1>6. CASE Reply(w)
    <2>1. /\ phase[w] = "replying" /\ phase'[w] = "waiting"
          /\ UNCHANGED <<published, current, next, requeue, open, settled, faults>>
      BY <1>0, <1>6 DEF Reply, WorkInv
    <2>2. CASE ~ open[w]
      <3>1. UNCHANGED <<delivered, queue>> /\ delivered[w] = <<>>
        BY <1>0, <1>6, <2>2 DEF Reply, WorkInv
      <3>2. ToSet(delivered[w]) = {} /\ ToSet(delivered'[w]) = {}
        BY <3>1, QueueEmpty
      <3>3. Waiting(p)' = Waiting(p) /\ Claim(w, p, i)' = Claim(w, p, i)
        BY <2>1, <2>2, <3>1, <3>2 DEF Waiting, Claim
      <3>4. Claim(w, p, i) \in Nat /\ Waiting(p) \in Nat
        BY DEF Claim, Waiting
      <3> QED
        BY <1>0, <2>1, <3>3, <3>4
    <2>3. CASE open[w]
      <3>1. /\ delivered[w] # <<>> /\ Head(delivered[w]) = current[w]
            /\ delivered' = [delivered EXCEPT ![w] = Tail(@)]
        BY <1>0, <1>6, <2>1, <2>3 DEF Reply, WorkInv, AckHitsCurrent
      <3>2. /\ current[w] \in ToSet(delivered[w])
            /\ ToSet(delivered'[w]) = ToSet(delivered[w]) \ {current[w]}
        BY <1>0, <3>1, TailSets
      <3>3. current[w] \in published /\ current[w] \notin ToSet(queue)
        BY <1>0, <3>2 DEF BrokerInv
      <3>4. /\ requeue[w] => ToSet(queue') = {current[w]} \cup ToSet(queue)
            /\ ~ requeue[w] => queue' = queue
        <4>1. current[w] \in Packets /\ queue \in Seq(Packets)
          BY <1>0 DEF BrokerInv, WorkInv
        <4> QED
          BY <1>6, <2>3, <4>1, QueuePrepend DEF Reply, NackedQueue
      <3>5. /\ Claim(w, p, i)' = IF p = current[w] THEN 0 ELSE Claim(w, p, i)
            /\ p = current[w] => Claim(w, p, i) = IF requeue[w] THEN 1 ELSE 0
        BY <2>1, <2>3, <3>2 DEF Claim
      <3>6. /\ Waiting(p)' = IF p = current[w] /\ requeue[w] THEN 1 ELSE Waiting(p)
            /\ p = current[w] => Waiting(p) = 0
        BY <2>1, <3>3, <3>4 DEF Waiting
      <3>7. Claim(w, p, i) \in Nat /\ Waiting(p) \in Nat
        BY DEF Claim, Waiting
      <3> QED
        BY <1>0, <2>1, <3>5, <3>6, <3>7
    <2> QED
      BY <2>2, <2>3
  <1>7. ASSUME AtResult(w), Continue(w)
        PROVE  /\ Waiting(p)' = Waiting(p) /\ Claim(w, p, i)' <= Claim(w, p, i)
               /\ p = current[w] /\ i = next[w] => Claim(w, p, i) = 1 /\ Claim(w, p, i)' = 0
    <2>1. /\ UNCHANGED <<published, queue, delivered, phase, current, requeue, open>>
          /\ phase[w] = "settling" /\ next[w] \in Nat /\ next'[w] = next[w] + 1
      BY <1>0, <1>7 DEF AtResult, Continue, broker, WorkInv
    <2> QED
      BY <1>0, <2>1 DEF Waiting, Claim
  <1>8. CASE SkipResult(w) \/ RefuseResult(w) \/ FailSettlement(w)
    <2>1. AtResult(w) /\ Continue(w) /\ settled' = settled /\ faults' \in {faults, faults + 1}
      BY <1>8 DEF SkipResult, RefuseResult, FailSettlement, Fault
    <2>2. Waiting(p)' = Waiting(p) /\ Claim(w, p, i)' <= Claim(w, p, i)
      BY <1>7, <2>1
    <2>3. Claim(w, p, i) \in Nat /\ Claim(w, p, i)' \in Nat /\ Waiting(p) \in Nat
      BY DEF Claim, Waiting
    <2> QED
      BY <1>0, <2>1, <2>2, <2>3
  <1>9. CASE SettleResult(w) \/ LoseCommitReply(w)
    <2>1. /\ AtResult(w) /\ Continue(w) /\ SettleCurrent(w) /\ faults' \in {faults, faults + 1}
      BY <1>9 DEF SettleResult, LoseCommitReply, Fault
    <2>2. /\ Waiting(p)' = Waiting(p) /\ Claim(w, p, i)' <= Claim(w, p, i)
          /\ p = current[w] /\ i = next[w] => Claim(w, p, i) = 1 /\ Claim(w, p, i)' = 0
      BY <1>7, <2>1
    <2>3. Claim(w, p, i) \in Nat /\ Claim(w, p, i)' \in Nat /\ Waiting(p) \in Nat
      BY DEF Claim, Waiting
    <2>4. settled'[p][i] = IF p = current[w] /\ i = next[w] THEN settled[p][i] + 1
                                                            ELSE settled[p][i]
      BY <1>0, <2>1, SettledOneMore
    <2>5. CASE p = current[w] /\ i = next[w]
      BY <1>0, <2>1, <2>2, <2>4, <2>5
    <2>6. CASE ~ (p = current[w] /\ i = next[w])
      BY <1>0, <2>1, <2>2, <2>3, <2>4, <2>6
    <2> QED
      BY <2>5, <2>6
  <1>10. CASE InsertLogs(w) \/ FailInsert(w)
    <2>1. PICK err \in BOOLEAN :
            /\ EndPacket(w, err) /\ AtInsert(w)
            /\ \/ err = (~ Insertable(w)) /\ faults' = faults
               \/ faults' = faults + 1
      BY <1>10 DEF InsertLogs, FailInsert, Fault, Insertable
    <2>2. /\ UNCHANGED <<published, queue, delivered, current, next, open, settled>>
          /\ phase[w] = "settling" /\ phase'[w] = "replying" /\ requeue'[w] = err
          /\ next[w] \in Nat /\ next[w] > Len(Results[current[w]])
      BY <1>0, <2>1 DEF AtInsert, EndPacket, broker, WorkInv
    <2>3. Waiting(p)' = Waiting(p) /\ Waiting(p) \in Nat
      BY <2>2 DEF Waiting
    <2>4. Claim(w, p, i) \in Nat /\ Claim(w, p, i)' \in Nat
      BY DEF Claim
    <2>5. CASE p # current[w]
      <3>1. Claim(w, p, i)' = Claim(w, p, i)
        BY <2>2, <2>5 DEF Claim
      <3> QED
        BY <1>0, <2>1, <2>2, <2>3, <2>4, <3>1
    <2>6. CASE p = current[w]
      <3>1. Len(Results[p]) \in Nat /\ DOMAIN Results[p] = 1..Len(Results[p])
        BY ProcessorConstants
      <3>2. Insertable(w)
        BY <1>0, <2>6, <3>1 DEF WellDated, Insertable, WorkInv
      <3>3. Claim(w, p, i)' = IF err /\ open[w] THEN 1 ELSE 0
        BY <1>0, <2>2, <2>6, <3>1 DEF Claim
      <3> QED
        BY <1>0, <2>1, <2>2, <2>3, <2>4, <3>2, <3>3
    <2> QED
      BY <2>5, <2>6
  <1> QED
    BY <1>1, <1>2, <1>3, <1>4, <1>5, <1>6, <1>8, <1>9, <1>10 DEF Work

\* The counters stay counters.
LEMMA CountsStep ==
    ASSUME ChannelInv, Counts(settled), Counts(logged), [ProcNext]_procVars
    PROVE  Counts(settled') /\ Counts(logged')
  <1>1. ASSUME NEW w \in Processors, StoreLogs(w) PROVE Counts(logged')
    <2> DEFINE c == current[w]
               l == [i \in DOMAIN logged[c] |-> IF i \in logs[w] THEN logged[c][i] + 1 ELSE logged[c][i]]
    <2>1. c \in Packets
      BY DEF ChannelInv, WorkInv
    <2>2. logged' = [logged EXCEPT ![c] = l]
      BY <1>1 DEF StoreLogs
    <2> HIDE DEF c
    <2>3. l \in [1..Len(Results[c]) -> Nat]
      BY <2>1 DEF Counts
    <2> HIDE DEF l
    <2> QED
      BY <2>1, <2>2, <2>3 DEF Counts
  <1>2. ASSUME NEW w \in Processors, AtResult(w), SettleCurrent(w) PROVE Counts(settled')
    BY <1>2, SettledOneMore DEF ChannelInv
  <1>3. CASE UNCHANGED <<settled, logged>>
    BY <1>3
  <1>4. ASSUME NEW w \in Processors, SettleResult(w) \/ LoseCommitReply(w)
        PROVE  Counts(settled') /\ Counts(logged')
    BY <1>2, <1>4 DEF SettleResult, LoseCommitReply, Continue
  <1>5. ASSUME NEW w \in Processors, InsertLogs(w) \/ FailInsert(w)
        PROVE  Counts(settled') /\ Counts(logged')
    BY <1>1, <1>5 DEF InsertLogs, FailInsert, EndPacket
  <1> QED
    BY <1>3, <1>4, <1>5
    DEF ProcNext, procVars, Publish, OpenChannel, Deliver, Work, CloseChannel, Crash, DiscardPacket,
        StartPacket, SkipResult, RefuseResult, Reply, FailSettlement, Continue

\* The arithmetic of ClaimStep.
LEMMA GrowsByFaults ==
    ASSUME NEW x \in Int, NEW y \in Int, NEW s \in Int, NEW t \in Int,
           NEW j \in Int, NEW k \in Int, NEW c \in Int, NEW d \in Int,
           \/ t = s /\ k + y <= j + x + (d - c)
           \/ t = s + 1 /\ k = j /\ x = 1 /\ y = 0 /\ d >= c
    PROVE  ((t + k) - (s + j)) + (y - x) <= (1 + d) - (1 + c)
  OBVIOUS

\* Every step keeps the claims and the faults in balance.
LEMMA ClaimsStep ==
    ASSUME ChannelInv, Counts(settled), Counts(settled'), ClaimInv, [ProcNext]_procVars
    PROVE  ClaimInv'
  <1> SUFFICES ASSUME NEW p \in Packets, NEW i \in 1..Len(Results[p]), WellDated(p)
               PROVE  settled'[p][i] + Waiting(p)' + SumFunction(Claims(p, i)') <= 1 + faults'
    BY DEF ClaimInv, Claims
  <1> DEFINE f == Claims(p, i)
             g == Claims(p, i)'
  <1>1. f \in [Processors -> Int] /\ g \in [Processors -> Int]
    BY DEF Claims, Claim
  <1>2. settled[p][i] \in Int /\ settled'[p][i] \in Int /\ Waiting(p) \in Int /\ Waiting(p)' \in Int
    BY DEF Counts, Waiting
  <1>3. (settled[p][i] + Waiting(p)) + SumFunction(f) <= 1 + faults /\ faults \in Int
    BY ProcessorConstants DEF ClaimInv, ChannelInv, WorkInv
  <1>4. CASE g = f /\ settled' = settled /\ Waiting(p)' = Waiting(p) /\ faults' = faults
    BY <1>2, <1>3, <1>4
  <1>5. CASE UNCHANGED procVars
    BY <1>4, <1>5 DEF procVars, Claims, Claim, Waiting, broker, worker
  <1>6. ASSUME NEW q \in Packets, Publish(q)
        PROVE  settled'[p][i] + Waiting(p)' + SumFunction(g) <= 1 + faults'
    <2>1. Waiting(p)' = Waiting(p)
      BY <1>6, PublishSets DEF Publish, Waiting, ChannelInv
    <2> QED
      BY <1>4, <1>6, <2>1 DEF Publish, Claims, Claim, worker
  <1>7. ASSUME NEW w \in Processors,
               \/ OpenChannel(w) \/ Deliver(w) \/ Work(w) \/ CloseChannel(w) \/ Crash(w)
               \/ FailSettlement(w) \/ LoseCommitReply(w) \/ FailInsert(w)
        PROVE  settled'[p][i] + Waiting(p)' + SumFunction(g) <= 1 + faults'
    <2>1. f[w] = Claim(w, p, i) /\ g[w] = Claim(w, p, i)'
      BY DEF Claims
    <2>2. \A v \in Processors \ {w} : g[v] = f[v]
      BY <1>7, OthersRest DEF Claims, Claim, Others
    <2>3. faults' \in Int
      BY WorkStep, ProcessorConstants DEF ChannelInv, WorkInv
    <2> DEFINE a == settled[p][i] + Waiting(p)
               b == settled'[p][i] + Waiting(p)'
               m == 1 + faults
               n == 1 + faults'
    <2>4. (b - a) + (g[w] - f[w]) <= n - m
      <3>1. \/ settled'[p][i] = settled[p][i]
               /\ Waiting(p)' + g[w] <= Waiting(p) + f[w] + (faults' - faults)
            \/ settled'[p][i] = settled[p][i] + 1 /\ Waiting(p)' = Waiting(p)
               /\ f[w] = 1 /\ g[w] = 0 /\ faults' >= faults
        BY <1>7, <2>1, ClaimStep
      <3>2. f[w] \in Int /\ g[w] \in Int
        BY <1>1
      <3> DEFINE x == f[w]
                 y == g[w]
                 s == settled[p][i]
                 t == settled'[p][i]
                 j == Waiting(p)
                 k == Waiting(p)'
      <3>3. /\ x \in Int /\ y \in Int /\ s \in Int /\ t \in Int /\ j \in Int /\ k \in Int
            /\ faults \in Int /\ faults' \in Int
        BY <1>2, <1>3, <2>3, <3>2
      <3>4. \/ t = s /\ k + y <= j + x + (faults' - faults)
            \/ t = s + 1 /\ k = j /\ x = 1 /\ y = 0 /\ faults' >= faults
        BY <3>1
      <3> HIDE DEF f, g, x, y, s, t, j, k
      <3>5. ((t + k) - (s + j)) + (y - x) <= (1 + faults') - (1 + faults)
        BY <3>3, <3>4, GrowsByFaults
      <3> QED
        BY <3>5 DEF x, y, s, t, j, k
    <2>5. a \in Int /\ b \in Int /\ m \in Int /\ n \in Int /\ a + SumFunction(f) <= m
      BY <1>2, <1>3, <2>3
    <2> HIDE DEF f, g, a, b, m, n
    <2>6. b + SumFunction(g) <= n
      BY <1>1, <2>2, <2>4, <2>5, Balance
    <2> QED
      BY <2>6 DEF b, n
  <1> QED
    BY <1>5, <1>6, <1>7 DEF ProcNext

\* They are in balance at the start.
LEMMA ClaimsInit == ASSUME ProcInit PROVE Counts(settled) /\ Counts(logged) /\ ClaimInv
  <1>1. Counts(settled) /\ Counts(logged)
    BY DEF ProcInit, NoCount, Counts
  <1>2. ASSUME NEW p \in Packets, NEW i \in 1..Len(Results[p])
        PROVE  settled[p][i] + Waiting(p) + SumFunction(Claims(p, i)) <= 1 + faults
    <2>1. settled[p][i] = 0 /\ faults = 0
      BY DEF ProcInit, NoCount
    <2>2. \A w \in Processors : ToSet(delivered[w]) = {} /\ phase[w] = "waiting"
      BY QueueEmpty DEF ProcInit
    <2>3. Waiting(p) = 1
      BY DEF ProcInit, Waiting
    <2>4. Claims(p, i) = [w \in Processors |-> 0]
      BY <2>2 DEF Claims, Claim
    <2>5. SumFunction(Claims(p, i)) = 0
      <3>1. /\ Claims(p, i) \in [Processors -> Int] /\ IsFiniteSet(Processors)
            /\ \A w \in Processors : Claims(p, i)[w] = 0
        BY <2>4, ProcessorConstants
      <3> QED
        BY <3>1, SumType
    <2> QED
      BY <2>1, <2>3, <2>5
  <1> QED
    BY <1>1, <1>2 DEF ClaimInv

(* However channels, processes, commits and inserts fail, a result of a    *)
(* packet whose partitions exist is settled at most once per fault and     *)
(* once more.                                                              *)
THEOREM OverbillingIsBounded == ProcSpec => []OverbillingBounded
  <1>1. ProcInit => Counts(settled) /\ Counts(logged) /\ ClaimInv
    BY ClaimsInit
  <1>2. /\ ChannelInv /\ Counts(settled) /\ Counts(logged) /\ ClaimInv /\ [ProcNext]_procVars
        => Counts(settled)' /\ Counts(logged)' /\ ClaimInv'
    BY CountsStep, ClaimsStep DEF Counts
  <1>3. ChannelInv /\ Counts(settled) /\ ClaimInv => OverbillingBounded
    <2> SUFFICES ASSUME ChannelInv, Counts(settled), ClaimInv,
                        NEW p \in Packets, WellDated(p), NEW i \in DOMAIN Results[p]
                 PROVE  settled[p][i] <= 1 + faults
      BY DEF OverbillingBounded
    <2>1. i \in 1..Len(Results[p]) /\ faults \in Int
      BY ProcessorConstants DEF ChannelInv, WorkInv
    <2>2. SumFunction(Claims(p, i)) \in Int /\ SumFunction(Claims(p, i)) >= 0
      <3>1. Claims(p, i) \in [Processors -> Nat]
        BY DEF Claims, Claim
      <3>2. IsFiniteSet(Processors)
        BY ProcessorConstants
      <3>3. SumFunction(Claims(p, i)) \in Nat
        BY <3>1, <3>2, SumNat
      <3> QED
        BY <3>3
    <2>3. settled[p][i] \in Int /\ Waiting(p) \in Int /\ Waiting(p) >= 0
      BY <2>1 DEF Counts, Waiting
    <2>4. settled[p][i] + Waiting(p) + SumFunction(Claims(p, i)) <= 1 + faults
      BY <2>1 DEF ClaimInv
    <2> QED
      BY <2>1, <2>2, <2>3, <2>4
  <1> QED
    BY <1>1, <1>2, <1>3, ChannelInvariant, PTL DEF ProcSpec

-----------------------------------------------------------------------------
(* Logs.                                                                   *)

\* Whether w holds a log of result i of p that is settled and not stored.
Collected(w, p, i) ==
    IF phase[w] = "settling" /\ current[w] = p /\ i \in logs[w] THEN 1 ELSE 0

Collections(p, i) == [w \in Processors |-> Collected(w, p, i)]

\* Every log, stored or collected, belongs to a settlement of its own.
PaidInv ==
    \A p \in Packets : \A i \in 1..Len(Results[p]) :
        logged[p][i] + SumFunction(Collections(p, i)) <= settled[p][i]

\* What storing the logs of the current packet does to the counters.
LEMMA LoggedOneMore ==
    ASSUME ChannelInv, Counts(logged), NEW w \in Processors, StoreLogs(w),
           NEW p \in Packets, NEW i \in 1..Len(Results[p])
    PROVE  logged'[p][i] = IF p = current[w] /\ i \in logs[w] THEN logged[p][i] + 1
                                                             ELSE logged[p][i]
  <1> DEFINE c == current[w]
             l == [j \in DOMAIN logged[c] |-> IF j \in logs[w] THEN logged[c][j] + 1 ELSE logged[c][j]]
  <1>1. c \in Packets /\ DOMAIN logged = Packets
    BY DEF ChannelInv, WorkInv, Counts
  <1>2. logged' = [logged EXCEPT ![c] = l]
    BY DEF StoreLogs
  <1>3. p = c => l[i] = IF i \in logs[w] THEN logged[p][i] + 1 ELSE logged[p][i]
    BY DEF Counts
  <1> HIDE DEF l
  <1>4. logged'[p] = IF p = c THEN l ELSE logged[p]
    BY <1>1, <1>2
  <1> QED
    BY <1>3, <1>4

\* A processor collects and stores no more logs than it settles results.
LEMMA CollectStep ==
    ASSUME ChannelInv, Counts(settled), Counts(logged), Counts(settled'), Counts(logged'),
           NEW w \in Processors, NEW p \in Packets, NEW i \in 1..Len(Results[p]),
           \/ OpenChannel(w) \/ Deliver(w) \/ Work(w) \/ CloseChannel(w) \/ Crash(w)
           \/ FailSettlement(w) \/ LoseCommitReply(w) \/ FailInsert(w)
    PROVE  (logged'[p][i] - settled'[p][i] - (logged[p][i] - settled[p][i]))
             + (Collected(w, p, i)' - Collected(w, p, i)) <= 0
  <1> DEFINE s == settled[p][i]
             t == settled'[p][i]
             j == logged[p][i]
             k == logged'[p][i]
             x == Collected(w, p, i)
             y == Collected(w, p, i)'
  <1>0. s \in Nat /\ t \in Nat /\ j \in Nat /\ k \in Nat /\ x \in {0, 1} /\ y \in {0, 1}
    BY DEF Counts, Collected
  <1>1. CASE \/ OpenChannel(w) \/ Deliver(w) \/ CloseChannel(w) \/ Crash(w)
             \/ DiscardPacket(w) \/ StartPacket(w) \/ Reply(w)
    <2>1. t = s /\ k = j
      BY <1>1 DEF OpenChannel, Deliver, CloseChannel, Crash, DiscardPacket, StartPacket, Reply
    <2>2. y <= x
      <3>1. CASE OpenChannel(w) \/ Deliver(w) \/ CloseChannel(w) \/ DiscardPacket(w)
        BY <3>1 DEF OpenChannel, Deliver, CloseChannel, DiscardPacket, Collected, worker
      <3>2. CASE Crash(w) \/ Reply(w)
        BY <3>2 DEF Crash, Reply, Collected, ChannelInv, WorkInv
      <3>3. CASE StartPacket(w)
        BY <3>3 DEF StartPacket, Collected, ChannelInv, WorkInv
      <3> QED
        BY <1>1, <3>1, <3>2, <3>3
    <2> HIDE DEF s, t, j, k, x, y
    <2>3. (k - t - (j - s)) + (y - x) <= 0
      BY <1>0, <2>1, <2>2
    <2> QED
      BY <2>3 DEF s, t, j, k, x, y
  <1>2. CASE SkipResult(w) \/ RefuseResult(w) \/ FailSettlement(w)
    <2>1. t = s /\ k = j /\ y = x
      BY <1>2 DEF SkipResult, RefuseResult, FailSettlement, Continue, Collected
    <2> HIDE DEF s, t, j, k, x, y
    <2>3. (k - t - (j - s)) + (y - x) <= 0
      BY <1>0, <2>1
    <2> QED
      BY <2>3 DEF s, t, j, k, x, y
  <1>3. CASE SettleResult(w) \/ LoseCommitReply(w)
    <2>1. AtResult(w) /\ SettleCurrent(w) /\ Continue(w)
      BY <1>3 DEF SettleResult, LoseCommitReply
    <2>2. t = IF p = current[w] /\ i = next[w] THEN s + 1 ELSE s
      BY <2>1, SettledOneMore DEF ChannelInv
    <2>3. k = j /\ current'[w] = current[w] /\ phase'[w] = phase[w]
      BY <2>1 DEF Continue
    <2>4. logs'[w] = logs[w] \/ logs'[w] = logs[w] \cup {next[w]}
      BY <1>3 DEF SettleResult, LoseCommitReply, ChannelInv, WorkInv
    <2>5. y = x \/ (p = current[w] /\ i = next[w])
      BY <2>3, <2>4 DEF Collected
    <2> HIDE DEF s, t, j, k, x, y
    <2>6. (k - t - (j - s)) + (y - x) <= 0
      BY <1>0, <2>2, <2>3, <2>5
    <2> QED
      BY <2>6 DEF s, t, j, k, x, y
  <1>4. CASE InsertLogs(w) \/ FailInsert(w)
    <2>1. /\ phase[w] = "settling" /\ phase'[w] = "replying" /\ t = s
          /\ UNCHANGED logged \/ StoreLogs(w)
      BY <1>4 DEF InsertLogs, FailInsert, AtInsert, EndPacket, ChannelInv, WorkInv
    <2>2. y = 0
      BY <2>1 DEF Collected
    <2>3. k = j \/ (k = j + x)
      <3>1. CASE UNCHANGED logged
        BY <3>1
      <3>2. CASE StoreLogs(w)
        <4>1. k = IF p = current[w] /\ i \in logs[w] THEN j + 1 ELSE j
          BY <3>2, LoggedOneMore
        <4>2. x = IF p = current[w] /\ i \in logs[w] THEN 1 ELSE 0
          BY <2>1 DEF Collected
        <4> QED
          BY <1>0, <4>1, <4>2
      <3> QED
        BY <2>1, <3>1, <3>2
    <2> HIDE DEF s, t, j, k, x, y
    <2>4. (k - t - (j - s)) + (y - x) <= 0
      BY <1>0, <2>1, <2>2, <2>3
    <2> QED
      BY <2>4 DEF s, t, j, k, x, y
  <1> QED
    BY <1>1, <1>2, <1>3, <1>4 DEF Work

\* Every step keeps the logs covered by settlements.
LEMMA PaidStep ==
    ASSUME ChannelInv, Counts(settled), Counts(logged), Counts(settled'), Counts(logged'),
           PaidInv, [ProcNext]_procVars
    PROVE  PaidInv'
  <1> SUFFICES ASSUME NEW p \in Packets, NEW i \in 1..Len(Results[p])
               PROVE  logged'[p][i] + SumFunction(Collections(p, i)') <= settled'[p][i]
    BY DEF PaidInv, Collections
  <1> DEFINE f == Collections(p, i)
             g == Collections(p, i)'
  <1>1. f \in [Processors -> Int] /\ g \in [Processors -> Int]
    BY DEF Collections, Collected
  <1>2. /\ settled[p][i] \in Int /\ settled'[p][i] \in Int
        /\ logged[p][i] \in Int /\ logged'[p][i] \in Int
    BY DEF Counts
  <1>3. logged[p][i] + SumFunction(f) <= settled[p][i]
    BY DEF PaidInv
  <1>4. CASE UNCHANGED <<worker, settled, logged>>
    <2>1. g = f
      BY <1>4 DEF Collections, Collected, worker
    <2> QED
      BY <1>3, <1>4, <2>1
  <1>5. ASSUME NEW w \in Processors,
               \/ OpenChannel(w) \/ Deliver(w) \/ Work(w) \/ CloseChannel(w) \/ Crash(w)
               \/ FailSettlement(w) \/ LoseCommitReply(w) \/ FailInsert(w)
        PROVE  logged'[p][i] + SumFunction(g) <= settled'[p][i]
    <2>1. f[w] = Collected(w, p, i) /\ g[w] = Collected(w, p, i)'
      BY DEF Collections
    <2>2. \A v \in Processors \ {w} : g[v] = f[v]
      BY <1>5, OthersRest DEF Collections, Collected, Others
    <2> DEFINE s == settled[p][i]
               t == settled'[p][i]
               j == logged[p][i]
               k == logged'[p][i]
    <2>3. (k - t - (j - s)) + (g[w] - f[w]) <= 0
      BY <1>5, <2>1, CollectStep
    <2>4. s \in Int /\ t \in Int /\ j \in Int /\ k \in Int /\ f[w] \in Int /\ g[w] \in Int
      BY <1>1, <1>2
    <2>5. j + SumFunction(f) <= s
      BY <1>3
    <2> HIDE DEF f, g, s, t, j, k
    <2>6. (k - j) + (g[w] - f[w]) <= t - s
      BY <2>3, <2>4
    <2>7. k + SumFunction(g) <= t
      BY <1>1, <2>2, <2>4, <2>5, <2>6, Balance
    <2> QED
      BY <2>7 DEF t, k
  <1> QED
    BY <1>4, <1>5 DEF ProcNext, procVars, Publish

\* There are none at the start.
LEMMA PaidInit == ASSUME ProcInit PROVE PaidInv
  <1> SUFFICES ASSUME NEW p \in Packets, NEW i \in 1..Len(Results[p])
               PROVE  logged[p][i] + SumFunction(Collections(p, i)) <= settled[p][i]
    BY DEF PaidInv
  <1>1. settled[p][i] = 0 /\ logged[p][i] = 0
    BY DEF ProcInit, NoCount
  <1>2. /\ Collections(p, i) \in [Processors -> Int] /\ IsFiniteSet(Processors)
        /\ \A w \in Processors : Collections(p, i)[w] = 0
    BY ProcessorConstants DEF ProcInit, Collections, Collected
  <1>3. SumFunction(Collections(p, i)) = 0
    BY <1>2, SumType
  <1> QED
    BY <1>1, <1>3

(* Although a packet comes back after every fault and its rows may be      *)
(* stored behind a lost reply, no result has more rows in ping_logs than   *)
(* settlements.                                                            *)
THEOREM EveryLogIsPaidFor == ProcSpec => []LogsArePaidFor
  <1>1. ProcInit => Counts(settled) /\ Counts(logged) /\ PaidInv
    BY ClaimsInit, PaidInit
  <1>2. ChannelInv /\ Counts(settled) /\ Counts(logged) /\ PaidInv /\ [ProcNext]_procVars
        => Counts(settled)' /\ Counts(logged)' /\ PaidInv'
    BY CountsStep, PaidStep DEF Counts
  <1>3. Counts(settled) /\ Counts(logged) /\ PaidInv => LogsArePaidFor
    <2> SUFFICES ASSUME Counts(settled), Counts(logged), PaidInv,
                        NEW p \in Packets, NEW i \in DOMAIN Results[p]
                 PROVE  logged[p][i] <= settled[p][i]
      BY DEF LogsArePaidFor
    <2>1. i \in 1..Len(Results[p]) /\ IsFiniteSet(Processors)
      BY ProcessorConstants
    <2>2. SumFunction(Collections(p, i)) \in Nat
      <3>1. Collections(p, i) \in [Processors -> Nat]
        BY DEF Collections, Collected
      <3> QED
        BY <2>1, <3>1, SumNat
    <2>3. settled[p][i] \in Nat /\ logged[p][i] \in Nat
      BY <2>1 DEF Counts
    <2>4. logged[p][i] + SumFunction(Collections(p, i)) <= settled[p][i]
      BY <2>1 DEF PaidInv
    <2> QED
      BY <2>2, <2>3, <2>4
  <1> QED
    BY <1>1, <1>2, <1>3, ChannelInvariant, PTL DEF ProcSpec
=============================================================================
