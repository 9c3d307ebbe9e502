----------------------- MODULE MMERestoration_proofs -----------------------
(***************************************************************************)
(* Proofs about MMERestoration and the peer table it extends: a restart of *)
(* the MME is reported once, the delayed queue keeps its count, no session *)
(* of a restarted MME is skipped, and, when each UE has one session, a     *)
(* session is restored only after the MME accepted a notification of it.   *)
(***************************************************************************)
EXTENDS MMERestoration, FiniteSetTheorems, TLAPS

-----------------------------------------------------------------------------
(* The peer table. A detected restart is either reported or waits in the   *)
(* goroutine that detected it, and the remembered counter grows with every *)
(* detection.                                                              *)

Waiting == {t \in Threads : th[t].rst}

Reports ==
    /\ IsFiniteSet(Waiting)
    /\ restarts = notified + Cardinality(Waiting)
    /\ rec <= life
    /\ rec = 0 => restarts = 0
    /\ rec # 0 => restarts < rec

\* Missed Echoes stay within the counted range.
LEMMA OneMoreTyped == ASSUME NEW n \in 0..Enough PROVE OneMore(n) \in 0..Enough
BY PeerAssumption DEF OneMore, Enough

\* Idle goroutines are typed.
LEMMA ThreadTyped ==
    ASSUME PeerTypeOK, NEW t \in Threads, NEW x \in {"up", "degraded", "suspect", "down"}, NEW r,
           NEW m \in Msgs \cup {NoMsg}
    PROVE  [st |-> Reported(x), rst |-> Changed(r), msg |-> m]
             \in [st : States \cup {NoState}, rst : BOOLEAN, msg : Msgs \cup {NoMsg}]
<1>1. Reported(x) \in States \cup {NoState}
  BY DEF Reported, States, NoState
<1>2. Changed(r) \in BOOLEAN
  BY DEF Changed
<1> QED
  BY <1>1, <1>2

\* A change of the entry by a goroutine without reports: observe, MarkEchoResponse and
\* MarkEchoTimeout.
LEMMA UpdateStep ==
    ASSUME PeerTypeOK, Reports, NEW t \in Threads, ~Busy(t),
           NEW x \in {"up", "degraded", "suspect", "down"}, NEW r \in {0, life},
           NEW m \in Msgs \cup {NoMsg}, Update(t, x, r, m),
           misses' \in 0..Enough, silent' \in 0..Enough
    PROVE  PeerTypeOK' /\ Reports'
<1> USE PeerAssumption
<1>1. PeerTypeOK'
  <2>1. [st |-> Reported(x), rst |-> Changed(r), msg |-> m]
          \in [st : States \cup {NoState}, rst : BOOLEAN, msg : Msgs \cup {NoMsg}]
    BY ThreadTyped
  <2>2. th' \in [Threads -> [st : States \cup {NoState}, rst : BOOLEAN, msg : Msgs \cup {NoMsg}]]
    BY <2>1 DEF PeerTypeOK, Update
  <2>3. rec' \in 0..MaxLife /\ pst' \in States /\ restarts' \in Nat
    BY DEF PeerTypeOK, Update, Remembered, States
  <2> QED
    BY <2>2, <2>3 DEF PeerTypeOK, Update
<1>2. t \notin Waiting
  BY DEF Waiting, Busy, Idle
<1>3. Waiting' = IF Changed(r) THEN Waiting \cup {t} ELSE Waiting
  <2>1. \A u \in Threads : th'[u].rst <=> IF u = t THEN Changed(r) ELSE th[u].rst
    BY DEF PeerTypeOK, Update
  <2> QED
    BY <2>1, <1>2 DEF Waiting
<1>4. IsFiniteSet(Waiting') /\ Cardinality(Waiting') = IF Changed(r) THEN Cardinality(Waiting) + 1 ELSE Cardinality(Waiting)
  BY <1>2, <1>3, FS_AddElement DEF Reports
<1>5. Cardinality(Waiting) \in Nat
  BY FS_CardinalityType DEF Reports
<1>6. restarts' = notified' + Cardinality(Waiting')
  BY <1>4, <1>5 DEF Reports, PeerTypeOK, Update
<1>7. rec' <= life' /\ (rec' = 0 => restarts' = 0) /\ (rec' # 0 => restarts' < rec')
  BY DEF Reports, PeerTypeOK, Update, Remembered, Changed
<1> QED
  BY <1>1, <1>4, <1>6, <1>7 DEF Reports

\* Every step of the table and of its goroutines keeps the account of restarts.
LEMMA PeerStep == PeerTypeOK /\ Reports /\ [PeerNext]_peerVars => PeerTypeOK' /\ Reports'
<1> SUFFICES ASSUME PeerTypeOK, Reports, [PeerNext]_peerVars PROVE PeerTypeOK' /\ Reports'
  OBVIOUS
<1> USE PeerAssumption
<1>0. Enough \in Nat
  BY DEF Enough
<1>1. ASSUME NEW t \in Rx, NEW m \in Msgs, NEW r \in {0, life}, Receive(t, r, m)
      PROVE  PeerTypeOK' /\ Reports'
  <2>1. misses' \in 0..Enough /\ silent' \in 0..Enough
    BY <1>0, <1>1 DEF Receive, PeerTypeOK
  <2> QED
    BY <1>1, <2>1, UpdateStep DEF Receive, Threads
<1>2. CASE EchoResponse
  <2>1. misses' \in 0..Enough /\ silent' \in 0..Enough
    BY <1>0, <1>2 DEF EchoResponse
  <2>2. PICK x \in {"up"} \cup (IF SlowEcho THEN {"degraded"} ELSE {}) : Update(Probe, x, life, NoMsg)
    BY <1>2 DEF EchoResponse
  <2>3. x \in {"up", "degraded", "suspect", "down"}
    OBVIOUS
  <2>4. Probe \in Threads /\ ~Busy(Probe) /\ NoMsg \in Msgs \cup {NoMsg} /\ life \in {0, life}
    BY <1>2 DEF EchoResponse, Threads
  <2> QED
    BY <2>1, <2>2, <2>3, <2>4, UpdateStep
<1>3. CASE EchoTimeout
  <2>1. misses' \in 0..Enough /\ silent' \in 0..Enough
    BY <1>0, <1>3, OneMoreTyped DEF EchoTimeout, PeerTypeOK
  <2>2. AfterMiss(misses') \in {"up", "degraded", "suspect", "down"}
    BY DEF AfterMiss
  <2>3. Probe \in Threads /\ ~Busy(Probe) /\ Update(Probe, AfterMiss(misses'), 0, NoMsg)
    BY <1>3 DEF EchoTimeout, Threads
  <2>4. NoMsg \in Msgs \cup {NoMsg} /\ 0 \in {0, life}
    OBVIOUS
  <2> QED
    BY <2>1, <2>2, <2>3, <2>4, UpdateStep
<1>4. CASE PeerRestart
  <2>1. Waiting' = Waiting
    BY <1>4 DEF PeerRestart, Waiting
  <2> QED
    BY <1>4, <2>1 DEF PeerRestart, PeerTypeOK, Reports
<1>5. ASSUME NEW t \in Threads, DeliverState(t) \/ Serve(t)
      PROVE  PeerTypeOK' /\ Reports'
  <2>1. th' \in [Threads -> [st : States \cup {NoState}, rst : BOOLEAN, msg : Msgs \cup {NoMsg}]]
    BY <1>5 DEF DeliverState, Serve, PeerTypeOK
  <2>2. \A u \in Threads : th'[u].rst = th[u].rst
    BY <1>5 DEF DeliverState, Serve, PeerTypeOK
  <2>3. Waiting' = Waiting
    BY <2>2 DEF Waiting
  <2>4. told' \in States
    BY <1>5 DEF DeliverState, Serve, PeerTypeOK
  <2> QED
    BY <1>5, <2>1, <2>3, <2>4 DEF DeliverState, Serve, PeerTypeOK, Reports
<1>6. ASSUME NEW t \in Threads, DeliverRestart(t)
      PROVE  PeerTypeOK' /\ Reports'
  <2>1. th' \in [Threads -> [st : States \cup {NoState}, rst : BOOLEAN, msg : Msgs \cup {NoMsg}]]
    BY <1>6 DEF DeliverRestart, PeerTypeOK
  <2>2. t \in Waiting
    BY <1>6 DEF DeliverRestart, Waiting
  <2>3. Waiting' = Waiting \ {t}
    <3>1. \A u \in Threads : th'[u].rst <=> u # t /\ th[u].rst
      BY <1>6 DEF DeliverRestart, PeerTypeOK
    <3> QED
      BY <3>1 DEF Waiting
  <2>4. IsFiniteSet(Waiting') /\ Cardinality(Waiting') = Cardinality(Waiting) - 1
    BY <2>2, <2>3, FS_RemoveElement DEF Reports
  <2>5. Cardinality(Waiting) \in Nat
    BY FS_CardinalityType DEF Reports
  <2> QED
    BY <1>6, <2>1, <2>4, <2>5 DEF DeliverRestart, PeerTypeOK, Reports
<1>7. CASE UNCHANGED peerVars
  <2>1. Waiting' = Waiting
    BY <1>7 DEF peerVars, Waiting
  <2> QED
    BY <1>7, <2>1 DEF peerVars, PeerTypeOK, Reports
<1> QED
  BY <1>1, <1>2, <1>3, <1>4, <1>5, <1>6, <1>7 DEF PeerNext

\* At the start nothing was detected.
LEMMA PeerStart == PeerInit => PeerTypeOK /\ Reports
<1> SUFFICES ASSUME PeerInit PROVE PeerTypeOK /\ Reports
  OBVIOUS
<1> USE PeerAssumption
<1>1. Enough \in Nat
  BY DEF Enough
<1>2. PeerTypeOK
  BY <1>1 DEF PeerInit, PeerTypeOK, States, Idle, NoState
<1>3. Waiting = {}
  BY DEF PeerInit, Waiting, Idle
<1> QED
  BY <1>2, <1>3, FS_EmptySet DEF PeerInit, Reports

\* The account says what the handlers were told.
LEMMA ReportsSuffice == PeerTypeOK /\ Reports => RestartSeenOnce
<1> SUFFICES ASSUME PeerTypeOK, Reports PROVE RestartSeenOnce
  OBVIOUS
<1>1. Cardinality(Waiting) \in Nat
  BY FS_CardinalityType DEF Reports
<1>2. notified <= restarts /\ restarts < life
  BY <1>1, PeerAssumption DEF PeerTypeOK, Reports
<1>3. ASSUME \A t \in Threads : ~th[t].rst PROVE notified = restarts
  <2>1. Waiting = {}
    BY <1>3 DEF Waiting
  <2> QED
    BY <2>1, FS_EmptySet DEF PeerTypeOK, Reports
<1> QED
  BY <1>2, <1>3 DEF RestartSeenOnce

\* Every behaviour of the peer table alone reports each restart once.
THEOREM RestartsOnceInTable == PeerSpec => []RestartSeenOnce
<1>1. PeerInit => PeerTypeOK /\ Reports
  BY PeerStart
<1>2. PeerTypeOK /\ Reports /\ [PeerNext]_peerVars => (PeerTypeOK /\ Reports)'
  BY PeerStep
<1> QED
  BY <1>1, <1>2, ReportsSuffice, PTL DEF PeerSpec

\* No step of the restoration does anything to the peer table that the table does not do
\* by itself.
LEMMA StepIsPeerStep == [Next]_vars => [PeerNext]_peerVars
<1> SUFFICES ASSUME [Next]_vars PROVE [PeerNext]_peerVars
  OBVIOUS
<1>1. ASSUME NEW t \in Threads, Begin(t) PROVE [PeerNext]_peerVars
  BY <1>1 DEF Begin, PeerNext
<1>2. ASSUME NEW t \in Rx, NEW m \in Msgs, NEW r \in {0, life}, Hear(t, r, m) PROVE PeerNext
  BY <1>2 DEF Hear, PeerNext
<1>3. CASE EchoResponse \/ PeerRestart
  BY <1>3 DEF PeerNext
<1>4. ASSUME NEW t \in Threads, TellState(t) \/ MarkRestart(t) \/ Unmatched(t) PROVE PeerNext
  BY <1>4 DEF TellState, MarkRestart, Unmatched, PeerNext
<1>5. ASSUME NEW t \in Threads, ApplyPolicy(t) \/ ListPreserved(t) \/ RecordDDN(t) \/ RestartDone(t)
      PROVE  UNCHANGED peerVars
  BY <1>5 DEF ApplyPolicy, ListPreserved, RecordDDN, RestartDone
<1>6. ASSUME NEW t \in Threads, NEW s \in Sessions, DeleteByPolicy(t, s) \/ TriggerDDN(t, s)
      PROVE  UNCHANGED peerVars
  BY <1>6 DEF DeleteByPolicy, TriggerDDN
<1>7. ASSUME NEW t \in Threads, NEW s \in Sessions,
             CreateSession(t, s) \/ DeleteSession(t, s) \/ ModifyBearer(t, s)
      PROVE  Begin(t)
  BY <1>7 DEF CreateSession, DeleteSession, ModifyBearer
<1>8. ASSUME NEW t \in Threads, NEW n \in DOMAIN owner, NEW c, DDNFailure(t, n) \/ DDNAck(t, n, c)
      PROVE  Begin(t)
  BY <1>8 DEF DDNFailure, DDNAck
<1>9. ASSUME NEW s \in Sessions, FireDelayed(s) \/ FiredDDN(s) \/ IdleReport(s)
      PROVE  UNCHANGED peerVars
  BY <1>9 DEF FireDelayed, FiredDDN, IdleReport
<1>10. ASSUME NEW p \in sent, RecordSent(p) PROVE UNCHANGED peerVars
  BY <1>10 DEF RecordSent
<1>11. CASE UNCHANGED vars
  BY <1>11 DEF vars
<1> QED
  BY <1>1, <1>2, <1>3, <1>4, <1>5, <1>6, <1>7, <1>8, <1>9, <1>10, <1>11 DEF Next

\* Restoration implements the peer table it extends (the handlers only listen to it).
THEOREM ImplementsPeerHealth == Spec => PeerSpec
<1>1. Init => PeerInit
  BY DEF Init
<1> QED
  BY <1>1, StepIsPeerStep, PTL DEF Spec, PeerSpec

\* A restart of the MME is reported to the restoration handler once, whatever the number
\* of goroutines that hear of it.
THEOREM RestartsOnce == Spec => []RestartSeenOnce
BY ImplementsPeerHealth, RestartsOnceInTable, PTL

-----------------------------------------------------------------------------
(* The delayed queue.                                                      *)

QueueInv == IsFiniteSet(queue) /\ QueueCounted

\* Queueing a notification keeps the count: a session that is queued is replaced, another
\* is added below the limit, or nothing is queued.
LEMMA EnqueueCounts ==
    ASSUME QueueInv, NEW s, Enqueue(s)
    PROVE  QueueInv'
<1>1. Cardinality(queue) \in Nat
  BY FS_CardinalityType DEF QueueInv
<1>2. CASE MayEnqueue(s)
  <2>1. queue' = queue \cup {s} /\ count' = IF s \in queue THEN count ELSE count + 1
    BY <1>2 DEF Enqueue, Enqueued
  <2>2. IsFiniteSet(queue') /\ Cardinality(queue') = IF s \in queue THEN Cardinality(queue) ELSE Cardinality(queue) + 1
    BY <2>1, FS_AddElement DEF QueueInv
  <2> QED
    BY <1>1, <1>2, <2>1, <2>2, RestorationAssumption DEF QueueInv, QueueCounted, MayEnqueue
<1>3. CASE ~MayEnqueue(s)
  BY <1>3 DEF Enqueue, QueueInv, QueueCounted
<1> QED
  BY <1>2, <1>3

\* So does taking one out.
LEMMA TakeCounts ==
    ASSUME QueueInv, NEW s \in queue, Taken(s)
    PROVE  QueueInv'
<1>1. Cardinality(queue) \in Nat
  BY FS_CardinalityType DEF QueueInv
<1>2. IsFiniteSet(queue') /\ Cardinality(queue') = Cardinality(queue) - 1
  BY FS_RemoveElement DEF QueueInv, Taken
<1> QED
  BY <1>1, <1>2, RestorationAssumption DEF QueueInv, QueueCounted, Taken

\* No other step touches the queue.
LEMMA QueueStep == QueueInv /\ [Next]_vars => QueueInv'
<1> SUFFICES ASSUME QueueInv, [Next]_vars PROVE QueueInv'
  OBVIOUS
<1>0. ASSUME UNCHANGED <<queue, count>> PROVE QueueInv'
  BY <1>0 DEF QueueInv, QueueCounted
<1>1. ASSUME NEW t \in Rx, NEW m \in Msgs, NEW r \in {0, life}, Hear(t, r, m)
      PROVE  UNCHANGED <<queue, count>>
  BY <1>1 DEF Hear, rVars
<1>2. ASSUME NEW t \in Threads,
             TellState(t) \/ MarkRestart(t) \/ ApplyPolicy(t) \/ ListPreserved(t)
             \/ RecordDDN(t) \/ RestartDone(t) \/ Unmatched(t)
      PROVE  UNCHANGED <<queue, count>>
  BY <1>2 DEF TellState, MarkRestart, ApplyPolicy, ListPreserved, RecordDDN, RestartDone, Unmatched, rVars
<1>3. ASSUME NEW t \in Threads, NEW s \in Sessions,
             DeleteByPolicy(t, s) \/ CreateSession(t, s) \/ DeleteSession(t, s) \/ ModifyBearer(t, s)
      PROVE  UNCHANGED <<queue, count>>
  BY <1>3 DEF DeleteByPolicy, CreateSession, DeleteSession, ModifyBearer
<1>4. ASSUME NEW t \in Threads, NEW s \in Sessions, TriggerDDN(t, s)
      PROVE  Enqueue(s) \/ UNCHANGED <<queue, count>>
  BY <1>4 DEF TriggerDDN
<1>5. ASSUME NEW t \in Threads, NEW n \in DOMAIN owner, NEW c, DDNFailure(t, n) \/ DDNAck(t, n, c)
      PROVE  UNCHANGED <<queue, count>>
  BY <1>5 DEF DDNFailure, DDNAck
<1>6. ASSUME NEW s \in Sessions, FireDelayed(s) PROVE s \in queue /\ Taken(s)
  BY <1>6 DEF FireDelayed
<1>7. ASSUME NEW s \in Sessions, FiredDDN(s) PROVE Enqueue(s) \/ UNCHANGED <<queue, count>>
  BY <1>7 DEF FiredDDN
<1>8. ASSUME NEW s \in Sessions, IdleReport(s) PROVE UNCHANGED <<queue, count>>
  BY <1>8 DEF IdleReport
<1>9. ASSUME NEW p \in sent, RecordSent(p) PROVE UNCHANGED <<queue, count>>
  BY <1>9 DEF RecordSent
<1>10. ASSUME UNCHANGED rVars PROVE UNCHANGED <<queue, count>>
  BY <1>10 DEF rVars
<1>11. ASSUME UNCHANGED vars PROVE UNCHANGED rVars
  BY <1>11 DEF vars
<1> QED
  BY <1>0, <1>1, <1>2, <1>3, <1>4, <1>5, <1>6, <1>7, <1>8, <1>9, <1>10, <1>11,
     EnqueueCounts, TakeCounts DEF Next

\* The counter of the delayed queue says how many notifications are queued, and the limit
\* is kept, whatever fires, replaces or drops them.
THEOREM QueueKeepsCount == Spec => []QueueCounted
<1>1. Init => QueueInv
  BY FS_EmptySet, RestorationAssumption DEF Init, QueueInv, QueueCounted
<1>2. QueueInv /\ [Next]_vars => QueueInv'
  BY QueueStep
<1>3. QueueInv => QueueCounted
  BY DEF QueueInv
<1> QED
  BY <1>1, <1>2, <1>3, PTL DEF Spec

-----------------------------------------------------------------------------
(* Types. The notifications are numbered without gaps up to the bound.     *)

JobType == [pc : {"none", "policy", "delete", "ddn", "record"},
            todo : SUBSET Sessions, s : Sessions \cup {NoSes}, n : 0..MaxSeq]
RestTypes ==
    /\ ses \in [Sessions -> Sess]
    /\ queue \subseteq Sessions /\ firing \subseteq Sessions
    /\ tokens \in 0..Burst /\ recent \subseteq {UE[s] : s \in Sessions}
    /\ job \in [Threads -> JobType]
    /\ sent \subseteq Sessions \X Seqs
    /\ Last \in 0..MaxSeq
    /\ owner \in [1..Last -> Sessions]
    /\ answer \in [1..Last -> {"none", "ok", "no"}]

\* The records of a new and of a removed session.
LEMMA FreshTyped == Fresh \in Sess /\ Gone \in Sess
<1>1. Fresh \in Sess
  BY RestorationAssumption DEF Sess, Fresh, NoSeq
<1> QED
  BY <1>1 DEF Sess, Gone

\* DDN control keeps the tokens within the burst.
LEMMA DecideTyped ==
    ASSUME RestTypes, NEW s \in Sessions,
           DecideSend(s) \/ DecideDelay(s) \/ DecideSuppress(s)
    PROVE  tokens' \in 0..Burst /\ recent' \subseteq {UE[u] : u \in Sessions}
BY RestorationAssumption DEF RestTypes, DecideSend, DecideDelay, DecideSuppress, Refilled, ctlVars

\* A notification gets the next number and leaves the earlier ones alone.
LEMMA NotifyNumbers ==
    ASSUME RestTypes, NEW s \in Sessions, Notify(s)
    PROVE  /\ Last' = Last + 1 /\ Last' \in 0..MaxSeq
           /\ owner' \in [1..Last' -> Sessions]
           /\ answer' \in [1..Last' -> {"none", "ok", "no"}]
           /\ owner'[Last + 1] = s
           /\ \A n \in 1..Last : owner'[n] = owner[n] /\ answer'[n] = answer[n]
<1> USE RestorationAssumption
<1>1. Last \in Nat /\ Last < MaxSeq
  BY DEF RestTypes, Notify
<1>2. DOMAIN owner' = 1..(Last + 1)
  BY DEF Notify
<1>3. Last' = Last + 1
  <2>1. Cardinality(1..(Last + 1)) = Last + 1
    BY <1>1, FS_Interval
  <2> QED
    BY <1>2, <2>1 DEF Last
<1>4. Last' \in 0..MaxSeq
  BY <1>1, <1>3
<1>5. owner' \in [1..(Last + 1) -> Sessions] /\ answer' \in [1..(Last + 1) -> {"none", "ok", "no"}]
  BY <1>1 DEF RestTypes, Notify
<1>6. owner'[Last + 1] = s
  BY <1>1 DEF Notify
<1>7. \A n \in 1..Last : owner'[n] = owner[n] /\ answer'[n] = answer[n]
  BY <1>1 DEF Notify
<1> QED
  BY <1>3, <1>4, <1>5, <1>6, <1>7

\* Without a notification the numbers stay.
LEMMA Unnumbered == ASSUME UNCHANGED owner PROVE UNCHANGED Last
BY DEF Last

\* So does the function of all sessions.
LEMMA SessionTyped ==
    ASSUME RestTypes, NEW s \in Sessions, NEW b \in BOOLEAN
    PROVE  /\ [ses EXCEPT ![s].held = b] \in [Sessions -> Sess]
           /\ [ses EXCEPT ![s].fail = TRUE] \in [Sessions -> Sess]
           /\ [ses EXCEPT ![s].held = b, ![s].fail = TRUE] \in [Sessions -> Sess]
           /\ [ses EXCEPT ![s] = Fresh] \in [Sessions -> Sess]
           /\ [ses EXCEPT ![s] = Gone] \in [Sessions -> Sess]
           /\ [ses EXCEPT ![s].restored = TRUE, ![s].pend = FALSE, ![s].recov = FALSE] \in [Sessions -> Sess]
           /\ \A a \in {"ok", "no"} : Acked(s, a) \in [Sessions -> Sess]
<1> DEFINE x == ses[s]
<1>0. ses \in [Sessions -> Sess]
  BY DEF RestTypes
<1>1. x \in Sess
  BY <1>0
<1>2. ASSUME NEW y \in Sess PROVE [ses EXCEPT ![s] = y] \in [Sessions -> Sess]
  BY <1>0
<1> HIDE DEF x
<1>3. /\ [x EXCEPT !.held = b] \in Sess
      /\ [x EXCEPT !.fail = TRUE] \in Sess
      /\ [x EXCEPT !.held = b, !.fail = TRUE] \in Sess
      /\ [x EXCEPT !.restored = TRUE, !.pend = FALSE, !.recov = FALSE] \in Sess
  BY <1>1 DEF Sess
<1>4. ASSUME NEW a \in {"ok", "no"}
      PROVE  [x EXCEPT !.ack = a, !.fail = FALSE, !.recov = (a = "ok" \/ @)] \in Sess
  <2>1. (a = "ok" \/ x.recov) \in BOOLEAN
    OBVIOUS
  <2>2. \A d \in BOOLEAN : [x EXCEPT !.ack = a, !.fail = FALSE, !.recov = d] \in Sess
    BY <1>1 DEF Sess
  <2> QED
    BY <2>1, <2>2, Zenon
<1> USE DEF x
<1>5. [ses EXCEPT ![s].held = b] \in [Sessions -> Sess] /\ [ses EXCEPT ![s].fail = TRUE] \in [Sessions -> Sess]
  BY <1>2, <1>3, Zenon
<1>6. [ses EXCEPT ![s].held = b, ![s].fail = TRUE] \in [Sessions -> Sess]
  <2>1. [ses EXCEPT ![s].held = b, ![s].fail = TRUE] = [ses EXCEPT ![s] = [x EXCEPT !.held = b, !.fail = TRUE]]
    BY <1>0
  <2> QED
    BY <1>2, <1>3, <2>1
<1>7. [ses EXCEPT ![s].restored = TRUE, ![s].pend = FALSE, ![s].recov = FALSE] \in [Sessions -> Sess]
  <2>1. [ses EXCEPT ![s].restored = TRUE, ![s].pend = FALSE, ![s].recov = FALSE]
          = [ses EXCEPT ![s] = [x EXCEPT !.restored = TRUE, !.pend = FALSE, !.recov = FALSE]]
    BY <1>0
  <2> QED
    BY <1>2, <1>3, <2>1
<1>8. ASSUME NEW a \in {"ok", "no"} PROVE Acked(s, a) \in [Sessions -> Sess]
  <2>1. Acked(s, a) = [ses EXCEPT ![s] = [x EXCEPT !.ack = a, !.fail = FALSE, !.recov = (a = "ok" \/ @)]]
    BY <1>0 DEF Acked
  <2> QED
    BY <1>2, <1>4, <2>1
<1> QED
  BY <1>2, <1>5, <1>6, <1>7, <1>8, FreshTyped

\* Queueing keeps the types.
LEMMA EnqueueTyped ==
    ASSUME RestTypes, NEW s \in Sessions, Enqueue(s)
    PROVE  queue' \subseteq Sessions /\ ses' \in [Sessions -> Sess]
<1>1. ses' \in [Sessions -> Sess]
  <2>1. CASE MayEnqueue(s)
    <3>1. ses' = [ses EXCEPT ![s].held = FALSE]
      BY <2>1 DEF Enqueue
    <3> QED
      BY <3>1, SessionTyped, Zenon
  <2>2. CASE ~MayEnqueue(s)
    <3>1. ses' = [ses EXCEPT ![s].held = FALSE, ![s].fail = TRUE]
      BY <2>2 DEF Enqueue, Refused
    <3> QED
      BY <3>1, SessionTyped, Zenon
  <2> QED
    BY <2>1, <2>2
<1>2. queue' \subseteq Sessions
  BY DEF RestTypes, Enqueue
<1> QED
  BY <1>1, <1>2

\* The record of a notification is typed.
LEMMA RecordedTyped ==
    ASSUME RestTypes, NEW s, NEW n \in 0..MaxSeq
    PROVE  Recorded(s, n) \in [Sessions -> Sess]
<1>1. CASE s \in In
  <2>1. s \in Sessions
    BY <1>1 DEF In
  <2>2. [ses[s] EXCEPT !.trig = n, !.fail = FALSE] \in Sess
    <3>1. ses[s] \in Sess
      BY <2>1 DEF RestTypes
    <3> QED
      BY <3>1 DEF Sess
  <2> QED
    BY <1>1, <2>1, <2>2 DEF Recorded, RestTypes
<1>2. CASE s \notin In
  BY <1>2 DEF Recorded, RestTypes
<1> QED
  BY <1>1, <1>2

\* The phases of OnPeerRestart keep their jobs typed.
LEMMA JobsUpdated ==
    ASSUME RestTypes, NEW t \in Threads, NEW S \in SUBSET Sessions,
           NEW l \in {"none", "policy", "delete", "ddn", "record"}
    PROVE  /\ [job EXCEPT ![t].pc = l] \in [Threads -> JobType]
           /\ [job EXCEPT ![t].pc = l, ![t].todo = S] \in [Threads -> JobType]
           /\ [job EXCEPT ![t].pc = l, ![t].s = NoSes, ![t].n = NoSeq] \in [Threads -> JobType]
           /\ [job EXCEPT ![t] = NoJob] \in [Threads -> JobType]
<1> DEFINE x == job[t]
<1>0. job \in [Threads -> JobType]
  BY DEF RestTypes
<1>1. x \in JobType
  BY <1>0
<1>2. ASSUME NEW y \in JobType PROVE [job EXCEPT ![t] = y] \in [Threads -> JobType]
  BY <1>0
<1> HIDE DEF x
<1>3. [x EXCEPT !.pc = l] \in JobType /\ [x EXCEPT !.pc = l, !.todo = S] \in JobType
  BY <1>1 DEF JobType
<1>5. [x EXCEPT !.pc = l, !.s = NoSes, !.n = NoSeq] \in JobType
  <2>1. NoSes \in Sessions \cup {NoSes} /\ NoSeq \in 0..MaxSeq
    BY RestorationAssumption DEF NoSeq
  <2>2. \A u \in Sessions \cup {NoSes}, m \in 0..MaxSeq : [x EXCEPT !.pc = l, !.s = u, !.n = m] \in JobType
    BY <1>1 DEF JobType
  <2> QED
    BY <2>1, <2>2, Zenon
<1>7. NoJob \in JobType
  BY RestorationAssumption DEF JobType, NoJob, NoSeq
<1> USE DEF x
<1>8. [job EXCEPT ![t].pc = l, ![t].todo = S] = [job EXCEPT ![t] = [x EXCEPT !.pc = l, !.todo = S]]
  BY <1>0
<1>9. [job EXCEPT ![t].pc = l, ![t].s = NoSes, ![t].n = NoSeq]
        = [job EXCEPT ![t] = [x EXCEPT !.pc = l, !.s = NoSes, !.n = NoSeq]]
  BY <1>0
<1>11. [job EXCEPT ![t].pc = l] \in [Threads -> JobType]
  BY <1>2, <1>3, Zenon
<1> HIDE DEF x
<1>12. [job EXCEPT ![t].pc = l, ![t].todo = S] \in [Threads -> JobType]
  BY <1>2, <1>3, <1>8, Zenon
<1>13. [job EXCEPT ![t].pc = l, ![t].s = NoSes, ![t].n = NoSeq] \in [Threads -> JobType]
  BY <1>2, <1>5, <1>9, Zenon
<1> QED
  BY <1>2, <1>7, <1>11, <1>12, <1>13

\* Going on to the next session does, too, also with a notification to record.
LEMMA JobsMoved ==
    ASSUME RestTypes, NEW t \in Threads, NEW s \in Sessions, NEW n \in 0..MaxSeq
    PROVE  /\ [job EXCEPT ![t].todo = @ \ {s}] \in [Threads -> JobType]
           /\ [[job EXCEPT ![t].todo = @ \ {s}] EXCEPT ![t].pc = "record", ![t].s = s, ![t].n = n]
                \in [Threads -> JobType]
<1> DEFINE x == job[t]
<1>0. job \in [Threads -> JobType]
  BY DEF RestTypes
<1>1. x \in JobType
  BY <1>0
<1>2. ASSUME NEW y \in JobType PROVE [job EXCEPT ![t] = y] \in [Threads -> JobType]
  BY <1>0
<1> HIDE DEF x
<1>3. [x EXCEPT !.todo = @ \ {s}] \in JobType
  <2>1. x.todo \ {s} \in SUBSET Sessions
    BY <1>1 DEF JobType
  <2> QED
    BY <1>1, <2>1 DEF JobType
<1>4. [[x EXCEPT !.todo = @ \ {s}] EXCEPT !.pc = "record", !.s = s, !.n = n] \in JobType
  BY <1>3 DEF JobType
<1> USE DEF x
<1>5. [[job EXCEPT ![t].todo = @ \ {s}] EXCEPT ![t].pc = "record", ![t].s = s, ![t].n = n]
         = [job EXCEPT ![t] = [[x EXCEPT !.todo = @ \ {s}] EXCEPT !.pc = "record", !.s = s, !.n = n]]
  BY <1>0
<1>6. [job EXCEPT ![t].todo = @ \ {s}] \in [Threads -> JobType]
  BY <1>2, <1>3, Zenon
<1> HIDE DEF x
<1>7. [[job EXCEPT ![t].todo = @ \ {s}] EXCEPT ![t].pc = "record", ![t].s = s, ![t].n = n] \in [Threads -> JobType]
  BY <1>2, <1>4, <1>5, Zenon
<1> QED
  BY <1>6, <1>7

\* Every step keeps the types.
LEMMA RestStep == RestTypes /\ [Next]_vars => RestTypes'
<1> SUFFICES ASSUME RestTypes, [Next]_vars PROVE RestTypes'
  OBVIOUS
<1> USE RestorationAssumption
<1>0. In \in SUBSET Sessions /\ Last \in 0..MaxSeq /\ NoSeq \in 0..MaxSeq
  BY DEF In, RestTypes, NoSeq
<1>1. ASSUME UNCHANGED rVars PROVE RestTypes'
  <2>1. UNCHANGED Last
    BY <1>1, Unnumbered DEF rVars, ddnVars
  <2> QED
    BY <1>1, <2>1 DEF RestTypes, rVars, ctlVars, ddnVars
<1>2. ASSUME UNCHANGED <<queue, firing, ctlVars, ddnVars>>, ses' \in [Sessions -> Sess], job' \in [Threads -> JobType]
      PROVE  RestTypes'
  <2>1. UNCHANGED Last
    BY <1>2, Unnumbered DEF ddnVars
  <2> QED
    BY <1>2, <2>1 DEF RestTypes, ctlVars, ddnVars
<1>3. ASSUME NEW t \in Threads, MarkRestart(t) PROVE RestTypes'
  <2>1. ses' \in [Sessions -> Sess]
    <3>1. ASSUME NEW u \in Sessions PROVE [ses[u] EXCEPT !.pend = TRUE] \in Sess
      <4>1. ses[u] \in Sess
        BY DEF RestTypes
      <4> QED
        BY <4>1 DEF Sess
    <3> QED
      BY <1>3, <3>1 DEF MarkRestart, RestTypes
  <2>2. job' \in [Threads -> JobType]
    BY <1>0, <1>3, JobsUpdated DEF MarkRestart
  <2> QED
    BY <1>2, <1>3, <2>1, <2>2 DEF MarkRestart
<1>4. ASSUME NEW t \in Threads, ApplyPolicy(t) PROVE RestTypes'
  <2>1. ses' \in [Sessions -> Sess]
    <3>1. PICK p \in Evaluations :
            ses' = [s \in Sessions |-> IF s \in In THEN [ses[s] EXCEPT !.pol = p[s]] ELSE ses[s]]
      BY <1>4 DEF ApplyPolicy
    <3>2. ASSUME NEW u \in In PROVE [ses[u] EXCEPT !.pol = p[u]] \in Sess
      <4>1. p[u] \in {"preserve", "delete"}
        BY <3>2 DEF Evaluations
      <4>2. ses[u] \in Sess
        BY <1>0, <3>2 DEF RestTypes
      <4> QED
        BY <4>1, <4>2 DEF Sess
    <3> QED
      BY <3>1, <3>2 DEF RestTypes
  <2>2. job' \in [Threads -> JobType]
    BY <1>0, <1>4, JobsUpdated DEF ApplyPolicy
  <2> QED
    BY <1>2, <1>4, <2>1, <2>2 DEF ApplyPolicy
<1>5. ASSUME NEW t \in Threads, ListPreserved(t) \/ RestartDone(t) PROVE RestTypes'
  <2>1. job' \in [Threads -> JobType]
    <3>1. CASE ListPreserved(t)
      BY <1>0, <3>1, JobsUpdated DEF ListPreserved
    <3>2. CASE RestartDone(t)
      BY <1>0, <3>2, JobsUpdated, Zenon DEF RestartDone
    <3> QED
      BY <1>5, <3>1, <3>2
  <2> QED
    BY <1>2, <1>5, <2>1 DEF ListPreserved, RestartDone, RestTypes
<1>6. ASSUME NEW t \in Threads, RecordDDN(t) PROVE RestTypes'
  <2>1. job' \in [Threads -> JobType]
    BY <1>0, <1>6, JobsUpdated DEF RecordDDN
  <2>2. job[t].n \in 0..MaxSeq
    BY DEF RestTypes, JobType
  <2>3. ses' \in [Sessions -> Sess]
    BY <1>6, <2>2, RecordedTyped DEF RecordDDN
  <2> QED
    BY <1>2, <1>6, <2>1, <2>3 DEF RecordDDN
<1>7. ASSUME NEW t \in Threads, NEW s \in Sessions, DeleteByPolicy(t, s) PROVE RestTypes'
  <2>1. job' \in [Threads -> JobType]
    BY <1>0, <1>7, JobsMoved DEF DeleteByPolicy
  <2>2. ses' \in [Sessions -> Sess]
    <3>1. ses' = ses \/ ses' = [ses EXCEPT ![s] = Gone]
      BY <1>7 DEF DeleteByPolicy, Cleanup
    <3>2. ses \in [Sessions -> Sess] /\ [ses EXCEPT ![s] = Gone] \in [Sessions -> Sess]
      BY FreshTyped DEF RestTypes
    <3> QED
      BY <3>1, <3>2, Zenon
  <2> QED
    BY <1>2, <1>7, <2>1, <2>2 DEF DeleteByPolicy
<1>8. ASSUME NEW t \in Threads, NEW s \in Sessions, TriggerDDN(t, s) PROVE RestTypes'
  <2> DEFINE next == [job EXCEPT ![t].todo = @ \ {s}]
  <2>1. next \in [Threads -> JobType]
    BY <1>0, JobsMoved
  <2>2. CASE job' = next /\ UNCHANGED <<ses, queue, count, firing, ctlVars, ddnVars>>
    BY <1>2, <2>1, <2>2 DEF RestTypes
  <2>3. CASE /\ DecideSend(s) /\ Notify(s)
             /\ ses' = [ses EXCEPT ![s].held = FALSE]
             /\ job' = [next EXCEPT ![t].pc = "record", ![t].s = s, ![t].n = Last + 1]
             /\ UNCHANGED <<queue, count, firing, sent>>
    <3>1. ses' \in [Sessions -> Sess]
      BY <2>3, SessionTyped, Zenon
    <3>2. Last + 1 \in 0..MaxSeq
      BY <2>3 DEF RestTypes, Notify
    <3>3. job' \in [Threads -> JobType]
      BY <2>3, <3>2, JobsMoved
    <3> QED
      BY <2>3, <3>1, <3>3, DecideTyped, NotifyNumbers DEF RestTypes
  <2>4. ASSUME DecideSend(s) \/ DecideSuppress(s) \/ DecideDelay(s),
               ses' \in [Sessions -> Sess], queue' \subseteq Sessions,
               job' = next, UNCHANGED <<firing, ddnVars>>
        PROVE  RestTypes'
    <3>1. UNCHANGED Last
      BY <2>4, Unnumbered DEF ddnVars
    <3> QED
      BY <2>1, <2>4, <3>1, DecideTyped DEF RestTypes, ddnVars
  <2>5. CASE /\ DecideSend(s)
             /\ ses' = [ses EXCEPT ![s].held = FALSE, ![s].fail = TRUE]
             /\ job' = next
             /\ UNCHANGED <<queue, count, firing, ddnVars>>
    <3>1. ses' \in [Sessions -> Sess]
      BY <2>5, SessionTyped, Zenon
    <3> QED
      BY <2>4, <2>5, <3>1 DEF RestTypes
  <2>6. CASE DecideDelay(s) /\ Enqueue(s) /\ job' = next /\ UNCHANGED <<firing, ddnVars>>
    BY <2>4, <2>6, EnqueueTyped
  <2>7. CASE /\ DecideSuppress(s)
             /\ ses' = [ses EXCEPT ![s].held = TRUE]
             /\ job' = next
             /\ UNCHANGED <<queue, count, firing, ddnVars>>
    <3>1. ses' \in [Sessions -> Sess]
      BY <2>7, SessionTyped, Zenon
    <3> QED
      BY <2>4, <2>7, <3>1 DEF RestTypes
  <2> HIDE DEF next
  <2> QED
    BY <1>8, <2>2, <2>3, <2>5, <2>6, <2>7 DEF TriggerDDN, next
<1>9. ASSUME NEW t \in Threads, NEW s \in Sessions,
             CreateSession(t, s) \/ DeleteSession(t, s) \/ ModifyBearer(t, s)
      PROVE  RestTypes'
  <2>1. ses' \in [Sessions -> Sess]
    <3>1. CASE CreateSession(t, s)
      BY <3>1, SessionTyped, Zenon DEF CreateSession
    <3>2. CASE DeleteSession(t, s)
      BY <3>2, SessionTyped, Zenon DEF DeleteSession
    <3>3. CASE ModifyBearer(t, s)
      BY <3>3, SessionTyped, Zenon DEF ModifyBearer
    <3> QED
      BY <1>9, <3>1, <3>2, <3>3
  <2> QED
    BY <1>2, <1>9, <2>1 DEF CreateSession, DeleteSession, ModifyBearer, RestTypes
<1>10. ASSUME NEW t \in Threads, NEW n \in DOMAIN owner, DDNFailure(t, n) PROVE RestTypes'
  <2>1. PICK s \in Matches(n) : ses' = [ses EXCEPT ![s].fail = TRUE]
    BY <1>10 DEF DDNFailure, Failed
  <2>2. s \in Sessions
    BY DEF Matches, ByDDN, ByIMSI, In
  <2>3. ses' \in [Sessions -> Sess]
    BY <2>1, <2>2, SessionTyped, Zenon
  <2> QED
    BY <1>2, <1>10, <2>3 DEF DDNFailure, RestTypes
<1>11. ASSUME NEW t \in Threads, NEW n \in DOMAIN owner, NEW c \in {"ok", "no"}, DDNAck(t, n, c) PROVE RestTypes'
  <2>1. ses' \in [Sessions -> Sess]
    <3>1. CASE UNCHANGED ses
      BY <3>1 DEF RestTypes
    <3>2. ASSUME NEW s \in Matches(n), ses' = Acked(s, c) PROVE ses' \in [Sessions -> Sess]
      <4>1. s \in Sessions
        BY DEF Matches, ByDDN, ByIMSI, In
      <4> QED
        BY <3>2, <4>1, SessionTyped, Zenon
    <3> QED
      BY <1>11, <3>1, <3>2 DEF DDNAck
  <2>2. UNCHANGED Last
    BY <1>11, Unnumbered DEF DDNAck
  <2>3. answer' \in [1..Last -> {"none", "ok", "no"}]
    BY <1>11 DEF DDNAck, RestTypes
  <2> QED
    BY <1>11, <2>1, <2>2, <2>3 DEF DDNAck, RestTypes, ctlVars
<1>12. ASSUME NEW s \in Sessions, FireDelayed(s) PROVE RestTypes'
  <2>1. UNCHANGED Last
    BY <1>12, Unnumbered DEF FireDelayed, ddnVars
  <2> QED
    BY <1>12, <2>1 DEF FireDelayed, Taken, RestTypes, ctlVars, ddnVars
<1>13. ASSUME NEW s \in Sessions, FiredDDN(s) PROVE RestTypes'
  <2>1. firing' \subseteq Sessions /\ UNCHANGED job
    BY <1>13 DEF FiredDDN, RestTypes
  <2>2. ASSUME UNCHANGED ctlVars \/ DecideSend(s) \/ DecideSuppress(s) \/ DecideDelay(s),
               ses' \in [Sessions -> Sess], queue' \subseteq Sessions, UNCHANGED ddnVars
        PROVE  RestTypes'
    <3>1. UNCHANGED Last
      BY <2>2, Unnumbered DEF ddnVars
    <3>2. tokens' \in 0..Burst /\ recent' \subseteq {UE[u] : u \in Sessions}
      BY <2>2, DecideTyped DEF RestTypes, ctlVars
    <3> QED
      BY <2>1, <2>2, <3>1, <3>2 DEF RestTypes, ddnVars
  <2>3. CASE UNCHANGED <<ses, queue, count, ctlVars, ddnVars>>
    BY <2>2, <2>3 DEF RestTypes
  <2>4. CASE ses' = [ses EXCEPT ![s].fail = TRUE] /\ UNCHANGED <<queue, count, ctlVars, ddnVars>>
    <3>1. ses' \in [Sessions -> Sess]
      BY <2>4, SessionTyped, Zenon
    <3> QED
      BY <2>2, <2>4, <3>1 DEF RestTypes
  <2>5. CASE DecideDelay(s) /\ Enqueue(s) /\ UNCHANGED ddnVars
    BY <2>2, <2>5, EnqueueTyped
  <2>6. CASE /\ DecideSuppress(s) /\ ses' = [ses EXCEPT ![s].held = TRUE, ![s].fail = TRUE]
             /\ UNCHANGED <<queue, count, ddnVars>>
    <3>1. ses' \in [Sessions -> Sess]
      BY <2>6, SessionTyped, Zenon
    <3> QED
      BY <2>2, <2>6, <3>1 DEF RestTypes
  <2>7. CASE /\ DecideSend(s) /\ Notify(s) /\ ses' = [ses EXCEPT ![s].held = FALSE]
             /\ sent' = sent \cup {<<s, Last + 1>>}
             /\ UNCHANGED <<queue, count>>
    <3>1. ses' \in [Sessions -> Sess]
      BY <2>7, SessionTyped, Zenon
    <3>2. Last + 1 \in Seqs
      BY <2>7 DEF RestTypes, Notify, Seqs
    <3>3. sent' \subseteq Sessions \X Seqs
      BY <2>7, <3>2 DEF RestTypes
    <3> QED
      BY <2>1, <2>7, <3>1, <3>3, DecideTyped, NotifyNumbers DEF RestTypes
  <2>8. CASE /\ DecideSend(s) /\ ses' = [ses EXCEPT ![s].held = FALSE, ![s].fail = TRUE]
             /\ UNCHANGED <<queue, count, ddnVars>>
    <3>1. ses' \in [Sessions -> Sess]
      BY <2>8, SessionTyped, Zenon
    <3> QED
      BY <2>2, <2>8, <3>1 DEF RestTypes
  <2> QED
    BY <1>13, <2>3, <2>4, <2>5, <2>6, <2>7, <2>8 DEF FiredDDN
<1>14. ASSUME NEW s \in Sessions, IdleReport(s) PROVE RestTypes'
  <2>1. CASE Notify(s) /\ sent' = sent \cup {<<s, Last + 1>>}
    <3>1. Last + 1 \in Seqs
      BY <2>1 DEF RestTypes, Notify, Seqs
    <3>2. sent' \subseteq Sessions \X Seqs
      BY <2>1, <3>1 DEF RestTypes
    <3> QED
      BY <1>14, <2>1, <3>2, DecideTyped, NotifyNumbers DEF IdleReport, RestTypes
  <2>2. CASE UNCHANGED ddnVars
    <3>1. UNCHANGED Last
      BY <2>2, Unnumbered DEF ddnVars
    <3> QED
      BY <1>14, <2>2, <3>1, DecideTyped DEF IdleReport, RestTypes, ddnVars
  <2> QED
    BY <1>14, <2>1, <2>2 DEF IdleReport
<1>15. ASSUME NEW p \in sent, RecordSent(p) PROVE RestTypes'
  <2>1. UNCHANGED Last
    BY <1>15, Unnumbered DEF RecordSent
  <2>2. p[2] \in 0..MaxSeq
    BY <1>15 DEF RestTypes, Seqs
  <2>3. ses' \in [Sessions -> Sess]
    BY <1>15, <2>2, RecordedTyped DEF RecordSent
  <2> QED
    BY <1>15, <2>1, <2>3 DEF RecordSent, RestTypes, ctlVars
<1>16. ASSUME NEW t \in Rx, NEW m \in Msgs, NEW r \in {0, life}, Hear(t, r, m) PROVE UNCHANGED rVars
  BY <1>16 DEF Hear
<1>17. ASSUME NEW t \in Threads, TellState(t) \/ Unmatched(t) PROVE UNCHANGED rVars
  BY <1>17 DEF TellState, Unmatched
<1>18. CASE UNCHANGED vars
  BY <1>1, <1>18 DEF vars
<1> QED
  BY <1>1, <1>3, <1>4, <1>5, <1>6, <1>7, <1>8, <1>9, <1>10, <1>11, <1>12, <1>13, <1>14, <1>15,
     <1>16, <1>17, <1>18 DEF Next

\* The initial state is typed.
LEMMA RestStart == Init => RestTypes
<1> SUFFICES ASSUME Init PROVE RestTypes
  OBVIOUS
<1> USE RestorationAssumption
<1>1. ses \in [Sessions -> Sess]
  <2>1. \A d \in {"in", "new"} : [Fresh EXCEPT !.st = d] \in Sess
    BY FreshTyped DEF Sess
  <2> QED
    BY <2>1 DEF Init
<1>2. job \in [Threads -> JobType]
  <2>1. NoJob \in JobType
    BY DEF JobType, NoJob, NoSeq
  <2> QED
    BY <2>1 DEF Init
<1>3. DOMAIN owner = {}
  BY DEF Init
<1>4. Last = 0
  BY <1>3, FS_EmptySet DEF Last
<1>5. owner \in [1..Last -> Sessions] /\ answer \in [1..Last -> {"none", "ok", "no"}]
  BY <1>4 DEF Init
<1> QED
  BY <1>1, <1>2, <1>4, <1>5 DEF Init, RestTypes

\* The variables of the restoration keep their types for every number of sessions,
\* goroutines, tokens and places in the queue.
THEOREM TypeCorrect == Spec => []TypeOK
<1>1. Init => RestTypes /\ QueueInv /\ PeerTypeOK /\ Reports
  BY RestStart, PeerStart, FS_EmptySet, RestorationAssumption DEF Init, QueueInv, QueueCounted
<1>2. RestTypes /\ QueueInv /\ PeerTypeOK /\ Reports /\ [Next]_vars
        => (RestTypes /\ QueueInv /\ PeerTypeOK /\ Reports)'
  BY RestStep, QueueStep, PeerStep, StepIsPeerStep
<1>3. RestTypes /\ QueueInv /\ PeerTypeOK => TypeOK
  <2> SUFFICES ASSUME RestTypes, QueueInv, PeerTypeOK PROVE TypeOK
    OBVIOUS
  <2>1. count \in Nat
    BY FS_CardinalityType DEF QueueInv, QueueCounted
  <2>2. DOMAIN owner = 1..Last
    BY DEF RestTypes
  <2> QED
    BY <2>1, <2>2 DEF RestTypes, TypeOK, Last, JobType
<1> QED
  BY <1>1, <1>2, <1>3, PTL DEF Spec

-----------------------------------------------------------------------------
(* Restored sessions. What is recorded of a notification, or is about to   *)
(* be, names the session the notification was for; so an acknowledgement   *)
(* found by its number, or by a UE with one session, is that session's.    *)

Accepted(s) == \E n \in 1..Last : owner[n] = s /\ answer[n] = "ok"
Owns(s, n)  == n \in 1..Last /\ owner[n] = s
OwnsNext(s, n) == n \in 1..Last' /\ owner'[n] = s

Asked ==
    /\ \A s \in Sessions : ses[s].trig # NoSeq => Owns(s, ses[s].trig)
    /\ \A s \in Sessions : ses[s].ack = "ok" \/ ses[s].restored => Accepted(s)
    /\ \A t \in Threads : job[t].pc = "record" => Owns(job[t].s, job[t].n)
    /\ \A p \in sent : Owns(p[1], p[2])

\* Notifications and their answers are not taken back.
Grows == /\ Last <= Last'
         /\ \A n \in 1..Last : owner'[n] = owner[n] /\ (answer[n] = "ok" => answer'[n] = "ok")

\* The marks that count, of all sessions, stay or go.
MarksKept ==
    \A s \in Sessions :
        /\ ses'[s].trig \in {ses[s].trig, NoSeq}
        /\ ses'[s].ack = "ok" \/ ses'[s].restored => ses[s].ack = "ok" \/ ses[s].restored

RecordsKept ==
    \A t \in Threads : job'[t].pc = "record" => /\ job[t].pc = "record"
                                                /\ job'[t].s = job[t].s /\ job'[t].n = job[t].n

\* A step that takes nothing back.
LEMMA OwnsKept == ASSUME RestTypes, RestTypes', Grows, NEW s, NEW n, Owns(s, n) PROVE OwnsNext(s, n)
BY DEF Owns, OwnsNext, Grows, RestTypes

\* So with what the MME accepted.
LEMMA AcceptedKept == ASSUME RestTypes, RestTypes', Grows, NEW s, Accepted(s) PROVE Accepted(s)'
<1>1. PICK n \in 1..Last : owner[n] = s /\ answer[n] = "ok"
  BY DEF Accepted
<1>2. n \in 1..Last' /\ owner'[n] = s /\ answer'[n] = "ok"
  BY <1>1 DEF Grows, RestTypes
<1> QED
  BY <1>2 DEF Accepted

\* Changes of the marks that do not count.
LEMMA HeldKept ==
    ASSUME RestTypes, NEW s \in Sessions, NEW b \in BOOLEAN,
           \/ ses' = [ses EXCEPT ![s].held = b]
           \/ ses' = [ses EXCEPT ![s].fail = TRUE]
           \/ ses' = [ses EXCEPT ![s].held = b, ![s].fail = TRUE]
    PROVE  MarksKept
<1> DEFINE x == ses[s]
<1>0. ses \in [Sessions -> Sess]
  BY DEF RestTypes
<1>1. x \in Sess
  BY <1>0
<1>2. \A u \in Sessions : u # s => ses'[u] = ses[u]
  BY <1>0
<1>3. \/ ses'[s] = [x EXCEPT !.held = b]
      \/ ses'[s] = [x EXCEPT !.fail = TRUE]
      \/ ses'[s] = [x EXCEPT !.held = b, !.fail = TRUE]
  BY <1>0
<1> HIDE DEF x
<1>4. ses'[s].trig = x.trig /\ ses'[s].ack = x.ack /\ ses'[s].restored = x.restored
  BY <1>1, <1>3 DEF Sess
<1> USE DEF x
<1> QED
  BY <1>2, <1>4 DEF MarksKept

\* The records of new and removed sessions have none of them.
LEMMA ResetKept ==
    ASSUME RestTypes, NEW s \in Sessions,
           ses' = [ses EXCEPT ![s] = Fresh] \/ ses' = [ses EXCEPT ![s] = Gone]
    PROVE  MarksKept
<1>1. \A u \in Sessions : u # s => ses'[u] = ses[u]
  BY DEF RestTypes
<1>2. ses'[s] \in {Fresh, Gone}
  BY DEF RestTypes
<1>3. ses'[s].trig = NoSeq /\ ses'[s].ack = "none" /\ ses'[s].restored = FALSE
  BY <1>2 DEF Fresh, Gone
<1> QED
  BY <1>1, <1>3 DEF MarksKept

\* Queueing changes no other marks.
LEMMA EnqueueKept == ASSUME RestTypes, NEW s \in Sessions, Enqueue(s) PROVE MarksKept
<1>1. \/ ses' = [ses EXCEPT ![s].held = FALSE]
      \/ ses' = [ses EXCEPT ![s].held = FALSE, ![s].fail = TRUE]
  BY DEF Enqueue, Refused
<1> QED
  BY <1>1, HeldKept

\* The record of a notification is the only new one, and it is the session's own.
LEMMA RecordedOwn ==
    ASSUME RestTypes, NEW s, NEW n, Owns(s, n), ses' = Recorded(s, n), Asked
    PROVE  /\ \A u \in Sessions : ses'[u].trig # NoSeq => Owns(u, ses'[u].trig)
           /\ \A u \in Sessions : ses'[u].ack = ses[u].ack /\ ses'[u].restored = ses[u].restored
<1>0. ses \in [Sessions -> Sess]
  BY DEF RestTypes
<1>1. CASE s \in In
  <2> DEFINE x == ses[s]
  <2>1. s \in Sessions /\ x \in Sess
    BY <1>0, <1>1 DEF In
  <2>2. \A u \in Sessions : u # s => ses'[u] = ses[u]
    BY <1>0, <1>1 DEF Recorded
  <2>3. ses'[s] = [x EXCEPT !.trig = n, !.fail = FALSE]
    BY <1>0, <1>1, <2>1 DEF Recorded
  <2> HIDE DEF x
  <2>4. ses'[s].trig = n /\ ses'[s].ack = x.ack /\ ses'[s].restored = x.restored
    BY <2>1, <2>3 DEF Sess
  <2> USE DEF x
  <2> QED
    BY <2>2, <2>4 DEF Asked
<1>2. CASE s \notin In
  BY <1>2 DEF Recorded, Asked
<1> QED
  BY <1>1, <1>2

\* A step that numbers no notification and takes no answer keeps what was sent and said.
LEMMA StillGrows == ASSUME RestTypes, UNCHANGED <<owner, answer>> PROVE Grows
BY Unnumbered DEF Grows, RestTypes

\* A new notification is added to them.
LEMMA NotifyGrows == ASSUME RestTypes, NEW s \in Sessions, Notify(s) PROVE Grows /\ OwnsNext(s, Last + 1)
BY NotifyNumbers DEF Grows, OwnsNext, RestTypes

\* What keeps marks, records and notifications keeps the invariant, whatever of these
\* it adds truly.
LEMMA AskedKept ==
    ASSUME RestTypes, RestTypes', Asked, Grows,
           \A s \in Sessions : ses'[s].trig # NoSeq => ses'[s].trig = ses[s].trig \/ Owns(s, ses'[s].trig),
           \A s \in Sessions : ses'[s].ack = "ok" \/ ses'[s].restored
                => ses[s].ack = "ok" \/ ses[s].restored \/ Accepted(s)',
           \A t \in Threads : job'[t].pc = "record" =>
                \/ job[t].pc = "record" /\ job'[t].s = job[t].s /\ job'[t].n = job[t].n
                \/ OwnsNext(job'[t].s, job'[t].n),
           \A p \in sent' : p \in sent \/ OwnsNext(p[1], p[2])
    PROVE  Asked'
<1>1. \A s \in Sessions : ses'[s].trig # NoSeq => OwnsNext(s, ses'[s].trig)
  <2> TAKE s \in Sessions
  <2> HAVE ses'[s].trig # NoSeq
  <2>1. Owns(s, ses'[s].trig)
    BY DEF Asked
  <2> QED
    BY <2>1, OwnsKept
<1>2. \A s \in Sessions : ses'[s].ack = "ok" \/ ses'[s].restored => Accepted(s)'
  BY AcceptedKept DEF Asked
<1>3. \A t \in Threads : job'[t].pc = "record" => OwnsNext(job'[t].s, job'[t].n)
  <2> TAKE t \in Threads
  <2> HAVE job'[t].pc = "record"
  <2>1. CASE job[t].pc = "record" /\ job'[t].s = job[t].s /\ job'[t].n = job[t].n
    <3>1. Owns(job'[t].s, job'[t].n)
      BY <2>1 DEF Asked
    <3> QED
      BY <3>1, OwnsKept
  <2> QED
    BY <2>1
<1>4. \A p \in sent' : OwnsNext(p[1], p[2])
  <2> TAKE p \in sent'
  <2>1. CASE p \in sent
    <3>1. Owns(p[1], p[2])
      BY <2>1 DEF Asked
    <3> QED
      BY <3>1, OwnsKept
  <2> QED
    BY <2>1
<1> QED
  BY <1>1, <1>2, <1>3, <1>4 DEF Asked, Owns, OwnsNext

\* A step that adds nothing.
LEMMA AskedQuiet ==
    ASSUME RestTypes, RestTypes', Asked, Grows, MarksKept, RecordsKept, sent' \subseteq sent
    PROVE  Asked'
BY AskedKept DEF MarksKept, RecordsKept

\* Marks kept when nothing happens to the sessions, records when nothing to the jobs.
LEMMA UnchangedKept ==
    /\ UNCHANGED ses => MarksKept
    /\ UNCHANGED job => RecordsKept
BY DEF MarksKept, RecordsKept

\* A goroutine that goes on to a session, or to a phase other than recording, adds no
\* record.
LEMMA JobKept ==
    ASSUME RestTypes, NEW t \in Threads,
           \/ \E s : job' = [job EXCEPT ![t].todo = @ \ {s}]
           \/ job'[t].pc # "record" /\ \A u \in Threads : u # t => job'[u] = job[u]
    PROVE  RecordsKept
<1>1. ASSUME NEW s, job' = [job EXCEPT ![t].todo = @ \ {s}] PROVE RecordsKept
  <2> DEFINE x == job[t]
  <2>1. x \in JobType
    BY DEF RestTypes
  <2>2. job'[t] = [x EXCEPT !.todo = @ \ {s}] /\ \A u \in Threads : u # t => job'[u] = job[u]
    BY <1>1 DEF RestTypes
  <2> HIDE DEF x
  <2>3. job'[t].pc = x.pc /\ job'[t].s = x.s /\ job'[t].n = x.n
    BY <2>1, <2>2 DEF JobType
  <2> USE DEF x
  <2> QED
    BY <2>2, <2>3 DEF RecordsKept
<1>2. CASE job'[t].pc # "record" /\ \A u \in Threads : u # t => job'[u] = job[u]
  BY <1>2 DEF RecordsKept
<1> QED
  BY <1>1, <1>2

\* Each UE has one session.
OneSessionPerUE == \A s, u \in Sessions : UE[s] = UE[u] => s = u

\* Then an answer is taken for the session it is about.
LEMMA MatchesOwner ==
    ASSUME OneSessionPerUE, RestTypes, Asked, NEW n \in DOMAIN owner, NEW s \in Matches(n)
    PROVE  s \in Sessions /\ Owns(s, n)
<1>1. n \in 1..Last /\ owner[n] \in Sessions
  BY DEF RestTypes
<1>2. s \in Sessions
  BY DEF Matches, ByDDN, ByIMSI, In
<1>3. CASE s \in ByDDN(n)
  BY <1>1, <1>2, <1>3 DEF ByDDN, Asked, NoSeq, RestTypes
<1>4. CASE s \in ByIMSI(n)
  BY <1>1, <1>2, <1>4 DEF ByIMSI, OneSessionPerUE, Owns
<1> QED
  BY <1>2, <1>3, <1>4 DEF Matches

\* Every step keeps the invariant.
LEMMA AskedStep == OneSessionPerUE /\ RestTypes /\ Asked /\ [Next]_vars => Asked'
<1> SUFFICES ASSUME OneSessionPerUE, RestTypes, Asked, [Next]_vars PROVE Asked'
  OBVIOUS
<1>0. RestTypes'
  BY RestStep
<1>1. ASSUME UNCHANGED rVars PROVE Asked'
  BY <1>0, <1>1, AskedQuiet, UnchangedKept, StillGrows DEF rVars, ddnVars
<1>3. ASSUME NEW t \in Threads, MarkRestart(t) PROVE Asked'
  <2>1. MarksKept
    <3>1. ASSUME NEW u \in Sessions
          PROVE  ses'[u].trig = ses[u].trig /\ ses'[u].ack = ses[u].ack /\ ses'[u].restored = ses[u].restored
      <4>1. ses[u] \in Sess
        BY DEF RestTypes
      <4>2. ses'[u] = [ses[u] EXCEPT !.pend = TRUE] \/ ses'[u] = ses[u]
        BY <1>3 DEF MarkRestart
      <4> QED
        BY <4>1, <4>2 DEF Sess
    <3> QED
      BY <3>1 DEF MarksKept
  <2>2. RecordsKept
    <3>1. job'[t].pc = "policy" /\ \A u \in Threads : u # t => job'[u] = job[u]
      BY <1>3 DEF MarkRestart, RestTypes, JobType
    <3> QED
      BY <3>1, JobKept
  <2> QED
    BY <1>0, <1>3, <2>1, <2>2, AskedQuiet, StillGrows DEF MarkRestart, ddnVars
<1>4. ASSUME NEW t \in Threads, ApplyPolicy(t) PROVE Asked'
  <2>1. MarksKept
    <3>1. PICK p \in Evaluations :
            ses' = [s \in Sessions |-> IF s \in In THEN [ses[s] EXCEPT !.pol = p[s]] ELSE ses[s]]
      BY <1>4 DEF ApplyPolicy
    <3>2. ASSUME NEW u \in Sessions
          PROVE  ses'[u].trig = ses[u].trig /\ ses'[u].ack = ses[u].ack /\ ses'[u].restored = ses[u].restored
      <4>1. ses[u] \in Sess
        BY DEF RestTypes
      <4>2. ses'[u] = [ses[u] EXCEPT !.pol = p[u]] \/ ses'[u] = ses[u]
        BY <3>1
      <4> QED
        BY <4>1, <4>2 DEF Sess
    <3> QED
      BY <3>2 DEF MarksKept
  <2>2. RecordsKept
    <3>1. job'[t].pc = "delete" /\ \A u \in Threads : u # t => job'[u] = job[u]
      BY <1>4 DEF ApplyPolicy, RestTypes, JobType
    <3> QED
      BY <3>1, JobKept
  <2> QED
    BY <1>0, <1>4, <2>1, <2>2, AskedQuiet, StillGrows DEF ApplyPolicy, ddnVars
<1>5. ASSUME NEW t \in Threads, ListPreserved(t) \/ RestartDone(t) PROVE Asked'
  <2>1. job'[t].pc # "record" /\ \A u \in Threads : u # t => job'[u] = job[u]
    <3>1. CASE ListPreserved(t)
      BY <3>1 DEF ListPreserved, RestTypes, JobType
    <3>2. CASE RestartDone(t)
      BY <3>2 DEF RestartDone, RestTypes, NoJob
    <3> QED
      BY <1>5, <3>1, <3>2
  <2>2. RecordsKept
    BY <2>1, JobKept
  <2> QED
    BY <1>0, <1>5, <2>2, AskedQuiet, UnchangedKept, StillGrows DEF ListPreserved, RestartDone, ddnVars
<1>6. ASSUME NEW t \in Threads, RecordDDN(t) PROVE Asked'
  <2>1. Owns(job[t].s, job[t].n)
    BY <1>6 DEF RecordDDN, Asked
  <2>2. /\ \A u \in Sessions : ses'[u].trig # NoSeq => Owns(u, ses'[u].trig)
        /\ \A u \in Sessions : ses'[u].ack = ses[u].ack /\ ses'[u].restored = ses[u].restored
    BY <1>6, <2>1, RecordedOwn DEF RecordDDN
  <2>3. RecordsKept
    <3>1. job'[t].pc = "ddn" /\ \A u \in Threads : u # t => job'[u] = job[u]
      BY <1>6 DEF RecordDDN, RestTypes, JobType
    <3> QED
      BY <3>1, JobKept
  <2>4. Grows /\ sent' = sent
    BY <1>6, StillGrows DEF RecordDDN, ddnVars
  <2> QED
    BY <1>0, <2>2, <2>3, <2>4, AskedKept DEF RecordsKept
<1>7. ASSUME NEW t \in Threads, NEW s \in Sessions, DeleteByPolicy(t, s) PROVE Asked'
  <2>1. MarksKept
    BY <1>7, ResetKept, UnchangedKept DEF DeleteByPolicy, Cleanup
  <2>2. RecordsKept
    BY <1>7, JobKept DEF DeleteByPolicy
  <2> QED
    BY <1>0, <1>7, <2>1, <2>2, AskedQuiet, StillGrows DEF DeleteByPolicy, ddnVars
<1>8. ASSUME NEW t \in Threads, NEW s \in Sessions, TriggerDDN(t, s) PROVE Asked'
  <2> DEFINE next == [job EXCEPT ![t].todo = @ \ {s}]
  <2>1. ASSUME MarksKept, job' = next, UNCHANGED ddnVars PROVE Asked'
    <3>1. RecordsKept
      BY <2>1, JobKept
    <3> QED
      BY <1>0, <2>1, <3>1, AskedQuiet, StillGrows DEF ddnVars
  <2>2. CASE job' = next /\ UNCHANGED <<ses, queue, count, firing, ctlVars, ddnVars>>
    BY <2>1, <2>2, UnchangedKept
  <2>3. CASE /\ DecideSend(s) /\ Notify(s)
             /\ ses' = [ses EXCEPT ![s].held = FALSE]
             /\ job' = [next EXCEPT ![t].pc = "record", ![t].s = s, ![t].n = Last + 1]
             /\ UNCHANGED <<queue, count, firing, sent>>
    <3>1. MarksKept
      BY <2>3, HeldKept
    <3>2. Grows /\ OwnsNext(s, Last + 1)
      BY <2>3, NotifyGrows
    <3>3. job'[t].s = s /\ job'[t].n = Last + 1 /\ \A u \in Threads : u # t => job'[u] = job[u]
      <4>1. next \in [Threads -> JobType] /\ \A u \in Threads : u # t => next[u] = job[u]
        BY JobsMoved DEF RestTypes
      <4> HIDE DEF next
      <4> QED
        BY <2>3, <4>1 DEF JobType
    <3> QED
      BY <1>0, <2>3, <3>1, <3>2, <3>3, AskedKept DEF MarksKept
  <2>4. CASE /\ ses' = [ses EXCEPT ![s].held = FALSE, ![s].fail = TRUE]
             /\ job' = next
             /\ UNCHANGED <<queue, count, firing, ddnVars>>
    BY <2>1, <2>4, HeldKept
  <2>5. CASE Enqueue(s) /\ job' = next /\ UNCHANGED <<firing, ddnVars>>
    BY <2>1, <2>5, EnqueueKept
  <2>6. CASE /\ ses' = [ses EXCEPT ![s].held = TRUE]
             /\ job' = next
             /\ UNCHANGED <<queue, count, firing, ddnVars>>
    BY <2>1, <2>6, HeldKept
  <2> HIDE DEF next
  <2> QED
    BY <1>8, <2>2, <2>3, <2>4, <2>5, <2>6 DEF TriggerDDN, next
<1>9. ASSUME NEW t \in Threads, NEW s \in Sessions, CreateSession(t, s) \/ DeleteSession(t, s) PROVE Asked'
  <2>1. MarksKept
    BY <1>9, ResetKept DEF CreateSession, DeleteSession
  <2> QED
    BY <1>0, <1>9, <2>1, AskedQuiet, UnchangedKept, StillGrows DEF CreateSession, DeleteSession, ddnVars
<1>10. ASSUME NEW t \in Threads, NEW s \in Sessions, ModifyBearer(t, s) PROVE Asked'
  <2> DEFINE x == ses[s]
  <2>1. x \in Sess /\ x.ack = "ok"
    BY <1>10 DEF RestTypes, ModifyBearer, shouldComplete
  <2>2. /\ ses'[s] = [x EXCEPT !.restored = TRUE, !.pend = FALSE, !.recov = FALSE]
        /\ \A u \in Sessions : u # s => ses'[u] = ses[u]
    BY <1>10 DEF RestTypes, ModifyBearer
  <2> HIDE DEF x
  <2>3. ses'[s].trig = x.trig /\ ses'[s].ack = x.ack
    BY <2>1, <2>2 DEF Sess
  <2> USE DEF x
  <2>4. MarksKept
    BY <2>1, <2>2, <2>3 DEF MarksKept
  <2> QED
    BY <1>0, <1>10, <2>4, AskedQuiet, UnchangedKept, StillGrows DEF ModifyBearer, ddnVars
<1>11. ASSUME NEW t \in Threads, NEW n \in DOMAIN owner, DDNFailure(t, n) PROVE Asked'
  <2>1. PICK s \in Matches(n) : ses' = [ses EXCEPT ![s].fail = TRUE]
    BY <1>11 DEF DDNFailure, Failed
  <2>2. s \in Sessions
    BY DEF Matches, ByDDN, ByIMSI, In
  <2>3. MarksKept
    BY <2>1, <2>2, HeldKept
  <2> QED
    BY <1>0, <1>11, <2>3, AskedQuiet, UnchangedKept, StillGrows DEF DDNFailure, ddnVars
<1>12. ASSUME NEW t \in Threads, NEW n \in DOMAIN owner, NEW c \in {"ok", "no"}, DDNAck(t, n, c) PROVE Asked'
  <2>1. UNCHANGED <<Last, owner, job, sent>> /\ answer' = [answer EXCEPT ![n] = c] /\ answer[n] \in {"none", c}
    BY <1>12, Unnumbered DEF DDNAck
  <2>2. n \in 1..Last /\ answer'[n] = c
    BY <2>1 DEF RestTypes
  <2>3. Grows
    BY <2>1 DEF Grows, RestTypes
  <2>4. CASE UNCHANGED ses
    BY <1>0, <2>1, <2>3, <2>4, AskedQuiet, UnchangedKept
  <2>5. ASSUME NEW s \in Matches(n), ses' = Acked(s, c) PROVE Asked'
    <3> DEFINE x == ses[s]
    <3>1. s \in Sessions /\ Owns(s, n)
      BY MatchesOwner
    <3>2. x \in Sess
      BY <3>1 DEF RestTypes
    <3>3. /\ ses'[s] = [x EXCEPT !.ack = c, !.fail = FALSE, !.recov = (c = "ok" \/ @)]
          /\ \A u \in Sessions : u # s => ses'[u] = ses[u]
      BY <2>5, <3>1 DEF RestTypes, Acked
    <3> HIDE DEF x
    <3>4. ses'[s].trig = x.trig /\ ses'[s].ack = c /\ ses'[s].restored = x.restored
      BY <3>2, <3>3 DEF Sess
    <3> USE DEF x
    <3>5. c = "ok" => Accepted(s)'
      BY <2>1, <2>2, <3>1 DEF Accepted, Owns
    <3>6. \A u \in Sessions : ses'[u].trig = ses[u].trig
      BY <3>3, <3>4
    <3>7. \A u \in Sessions : ses'[u].ack = "ok" \/ ses'[u].restored
             => ses[u].ack = "ok" \/ ses[u].restored \/ Accepted(u)'
      BY <3>3, <3>4, <3>5
    <3> QED
      BY <1>0, <2>1, <2>3, <3>6, <3>7, AskedKept
  <2> QED
    BY <1>12, <2>4, <2>5 DEF DDNAck
<1>13. ASSUME NEW s \in Sessions, FireDelayed(s) PROVE Asked'
  BY <1>0, <1>13, AskedQuiet, UnchangedKept, StillGrows DEF FireDelayed, ddnVars
<1>14. ASSUME NEW s \in Sessions, Notify(s), sent' = sent \cup {<<s, Last + 1>>}, MarksKept, UNCHANGED job
       PROVE  Asked'
  <2>1. Grows /\ OwnsNext(s, Last + 1)
    BY <1>14, NotifyGrows
  <2>2. \A p \in sent' : p \in sent \/ OwnsNext(p[1], p[2])
    BY <1>14, <2>1
  <2> QED
    BY <1>0, <1>14, <2>1, <2>2, AskedKept DEF MarksKept
<1>15. ASSUME MarksKept, UNCHANGED <<job, ddnVars>> PROVE Asked'
  BY <1>0, <1>15, AskedQuiet, UnchangedKept, StillGrows DEF ddnVars
<1>16. ASSUME NEW s \in Sessions, FiredDDN(s) PROVE Asked'
  <2>1. UNCHANGED job
    BY <1>16 DEF FiredDDN
  <2>2. CASE UNCHANGED <<ses, ddnVars>>
    BY <1>15, <2>1, <2>2, UnchangedKept
  <2>3. CASE ses' = [ses EXCEPT ![s].fail = TRUE] /\ UNCHANGED ddnVars
    BY <1>15, <2>1, <2>3, HeldKept
  <2>4. CASE Enqueue(s) /\ UNCHANGED ddnVars
    BY <1>15, <2>1, <2>4, EnqueueKept
  <2>5. CASE ses' = [ses EXCEPT ![s].held = TRUE, ![s].fail = TRUE] /\ UNCHANGED ddnVars
    BY <1>15, <2>1, <2>5, HeldKept
  <2>6. CASE Notify(s) /\ ses' = [ses EXCEPT ![s].held = FALSE] /\ sent' = sent \cup {<<s, Last + 1>>}
    BY <1>14, <2>1, <2>6, HeldKept
  <2>7. CASE ses' = [ses EXCEPT ![s].held = FALSE, ![s].fail = TRUE] /\ UNCHANGED ddnVars
    BY <1>15, <2>1, <2>7, HeldKept
  <2> QED
    BY <1>16, <2>2, <2>3, <2>4, <2>5, <2>6, <2>7 DEF FiredDDN
<1>17. ASSUME NEW s \in Sessions, IdleReport(s) PROVE Asked'
  BY <1>14, <1>15, <1>17, UnchangedKept DEF IdleReport
<1>18. ASSUME NEW p \in sent, RecordSent(p) PROVE Asked'
  <2>1. Owns(p[1], p[2])
    BY DEF Asked
  <2>2. /\ \A u \in Sessions : ses'[u].trig # NoSeq => Owns(u, ses'[u].trig)
        /\ \A u \in Sessions : ses'[u].ack = ses[u].ack /\ ses'[u].restored = ses[u].restored
    BY <1>18, <2>1, RecordedOwn DEF RecordSent
  <2>3. Grows /\ sent' \subseteq sent /\ UNCHANGED job
    BY <1>18, StillGrows DEF RecordSent
  <2> QED
    BY <1>0, <2>2, <2>3, AskedKept
<1>19. ASSUME NEW t \in Rx, NEW m \in Msgs, NEW r \in {0, life}, Hear(t, r, m) PROVE UNCHANGED rVars
  BY <1>19 DEF Hear
<1>20. ASSUME NEW t \in Threads, TellState(t) \/ Unmatched(t) PROVE UNCHANGED rVars
  BY <1>20 DEF TellState, Unmatched
<1>21. CASE UNCHANGED vars
  BY <1>1, <1>21 DEF vars
<1> QED
  BY <1>1, <1>3, <1>4, <1>5, <1>6, <1>7, <1>8, <1>9, <1>10, <1>11, <1>12, <1>13, <1>16, <1>17, <1>18,
     <1>19, <1>20, <1>21 DEF Next

\* On MMEs whose UEs have one session each, the restoration of a session is completed
\* only after the MME accepted a notification of that very session, for any number of
\* sessions, goroutines, restarts and notifications.
THEOREM RestoredAreAsked == OneSessionPerUE /\ Spec => []RestoredWasAsked
<1>1. Init => RestTypes /\ Asked
  <2> SUFFICES ASSUME Init PROVE RestTypes /\ Asked
    OBVIOUS
  <2>1. RestTypes
    BY RestStart
  <2>2. \A s \in Sessions : ses[s].trig = NoSeq /\ ses[s].ack = "none" /\ ses[s].restored = FALSE
    BY DEF Init, Fresh
  <2>3. \A t \in Threads : job[t].pc = "none"
    BY DEF Init, NoJob
  <2> QED
    BY <2>1, <2>2, <2>3 DEF Init, Asked
<1>2. OneSessionPerUE /\ RestTypes /\ Asked /\ [Next]_vars => (RestTypes /\ Asked)'
  BY RestStep, AskedStep
<1>3. RestTypes /\ Asked => RestoredWasAsked
  <2> SUFFICES ASSUME RestTypes, Asked PROVE RestoredWasAsked
    OBVIOUS
  <2>1. DOMAIN owner = 1..Last /\ In \subseteq Sessions
    BY DEF RestTypes, In
  <2> QED
    BY <2>1 DEF Asked, Accepted, RestoredWasAsked
<1>4. OneSessionPerUE => OneSessionPerUE'
  BY DEF OneSessionPerUE
<1> QED
  BY <1>1, <1>2, <1>3, <1>4, PTL DEF Spec

-----------------------------------------------------------------------------
(* No preserved session is forgotten. A session that is due has a record   *)
(* of what came of it, waits in the queue, in a timer or in a notification *)
(* not yet recorded, or is in the hands of a goroutine that handles the    *)
(* restart. The phases hand it from one to the next.                       *)

Due(s)     == ses[s].st = "in" /\ ses[s].pend = TRUE /\ ses[s].pol = "preserve"
Noted(s)   == ses[s].trig # NoSeq \/ ses[s].fail = TRUE \/ ses[s].held = TRUE
Awaited(s) == s \in queue \/ s \in firing \/ \E n \in Seqs : <<s, n>> \in sent
InHand(s)  == \E t \in Threads :
    \/ job[t].pc \in {"policy", "delete"}
    \/ job[t].pc \in {"ddn", "record"} /\ s \in job[t].todo
    \/ job[t].pc = "record" /\ job[t].s = s

Looked   == \A s \in Sessions : Due(s) => Noted(s) \/ Awaited(s) \/ InHand(s)
Numbered == \A t \in Threads : job[t].pc = "record" => job[t].n # NoSeq

SkipInv == Looked /\ Numbered

\* It says that none is skipped.
LEMMA LookedSuffices == RestTypes /\ SkipInv => NotSkipped
<1> SUFFICES ASSUME RestTypes, SkipInv, NEW s \in In, ses[s].pend, ses[s].pol = "preserve", Handled(s)
             PROVE  \/ ses[s].trig # NoSeq \/ s \in queue \cup firing \/ (\E n \in Seqs : <<s, n>> \in sent)
                    \/ ses[s].fail \/ ses[s].held
  BY DEF NotSkipped
<1>1. s \in Sessions /\ ses[s].st = "in" /\ ses[s] \in Sess
  BY DEF In, RestTypes
<1>2. Due(s)
  BY <1>1 DEF Due, Sess
<1>3. ~InHand(s)
  BY DEF Handled, InHand
<1> QED
  BY <1>1, <1>2, <1>3 DEF SkipInv, Looked, Noted, Awaited

\* A step that changes the marks of one session at most, and leaves the others where they
\* were.
LEMMA OneMoved ==
    ASSUME Looked, NEW s, \A u \in Sessions : u # s => ses'[u] = ses[u],
           \A u \in Sessions : u # s => (Awaited(u) => Awaited(u)') /\ (InHand(u) => InHand(u)'),
           s \in Sessions /\ Due(s)' => Noted(s)' \/ Awaited(s)' \/ InHand(s)'
    PROVE  Looked'
<1> SUFFICES ASSUME NEW u \in Sessions, Due(u)' PROVE Noted(u)' \/ Awaited(u)' \/ InHand(u)'
  BY DEF Looked
<1>1. CASE u = s
  BY <1>1
<1>2. CASE u # s
  <2>1. ses'[u] = ses[u]
    BY <1>2
  <2>2. Due(u) /\ (Noted(u) => Noted(u)')
    BY <2>1 DEF Due, Noted
  <2> QED
    BY <1>2, <2>2 DEF Looked
<1> QED
  BY <1>1, <1>2

\* Nothing is moved when the queue, the timers and the notifications only grow.
LEMMA AwaitedKept ==
    ASSUME NEW u, queue \subseteq queue' \/ UNCHANGED queue, UNCHANGED firing,
           sent \subseteq sent' \/ UNCHANGED sent
    PROVE  Awaited(u) => Awaited(u)'
BY DEF Awaited

\* The jobs of the other goroutines and what is left of this one's.
LEMMA InHandKept ==
    ASSUME NEW t \in Threads, NEW u, \A w \in Threads : w # t => job'[w] = job[w],
           \/ job[t].pc \in {"policy", "delete"}
           \/ job[t].pc \in {"ddn", "record"} /\ u \in job[t].todo
           \/ job[t].pc = "record" /\ job[t].s = u
           => \/ job'[t].pc \in {"policy", "delete"}
              \/ job'[t].pc \in {"ddn", "record"} /\ u \in job'[t].todo
              \/ job'[t].pc = "record" /\ job'[t].s = u
    PROVE  InHand(u) => InHand(u)'
<1> SUFFICES ASSUME InHand(u) PROVE InHand(u)'
  OBVIOUS
<1>1. PICK w \in Threads :
          \/ job[w].pc \in {"policy", "delete"}
          \/ job[w].pc \in {"ddn", "record"} /\ u \in job[w].todo
          \/ job[w].pc = "record" /\ job[w].s = u
  BY DEF InHand
<1>2. CASE w = t
  BY <1>1, <1>2 DEF InHand
<1>3. CASE w # t
  <2>1. job'[w] = job[w]
    BY <1>3
  <2> QED
    BY <1>1, <2>1 DEF InHand
<1> QED
  BY <1>2, <1>3

\* A goroutine in the first phases has all sessions in hand.
LEMMA AllInHand ==
    ASSUME NEW t \in Threads, job'[t].pc \in {"policy", "delete"}
    PROVE  Looked'
BY DEF Looked, InHand

\* The fields that matter after a change of the marks of one session.
LEMMA MarkedFields ==
    ASSUME RestTypes, NEW s \in Sessions, NEW b \in BOOLEAN
    PROVE  /\ ses' = [ses EXCEPT ![s].held = b] => /\ \A u \in Sessions : u # s => ses'[u] = ses[u]
                                                   /\ ses'[s].held = b
           /\ ses' = [ses EXCEPT ![s].fail = TRUE] => /\ \A u \in Sessions : u # s => ses'[u] = ses[u]
                                                      /\ ses'[s].fail = TRUE
           /\ ses' = [ses EXCEPT ![s].held = b, ![s].fail = TRUE] =>
                /\ \A u \in Sessions : u # s => ses'[u] = ses[u]
                /\ ses'[s].fail = TRUE
<1>0. ses \in [Sessions -> Sess]
  BY DEF RestTypes
<1>1. ses[s] \in Sess
  BY <1>0
<1> QED
  BY <1>0, <1>1 DEF Sess

\* Queueing leaves the session in the queue or marked as failed.
LEMMA EnqueueNotes ==
    ASSUME RestTypes, NEW s \in Sessions, Enqueue(s)
    PROVE  /\ \A u \in Sessions : u # s => ses'[u] = ses[u]
           /\ queue \subseteq queue'
           /\ s \in queue' \/ ses'[s].fail = TRUE
<1>1. CASE MayEnqueue(s)
  BY <1>1, MarkedFields DEF Enqueue
<1>2. CASE ~MayEnqueue(s)
  BY <1>2, MarkedFields DEF Enqueue, Refused
<1> QED
  BY <1>1, <1>2

\* The record of a notification notes the session.
LEMMA RecordedNotes ==
    ASSUME RestTypes, NEW s, NEW n \in Seqs, ses' = Recorded(s, n)
    PROVE  /\ \A u \in Sessions : u # s => ses'[u] = ses[u]
           /\ s \in Sessions /\ Due(s)' => Noted(s)'
<1>0. ses \in [Sessions -> Sess]
  BY DEF RestTypes
<1>1. CASE s \in In
  <2>1. s \in Sessions /\ ses[s] \in Sess
    BY <1>0, <1>1 DEF In
  <2>2. /\ \A u \in Sessions : u # s => ses'[u] = ses[u]
        /\ ses'[s] = [ses[s] EXCEPT !.trig = n, !.fail = FALSE]
    BY <1>0, <1>1, <2>1 DEF Recorded
  <2>3. ses'[s].trig = n
    BY <2>1, <2>2 DEF Sess
  <2>4. n # NoSeq
    BY RestorationAssumption DEF Seqs, NoSeq
  <2> QED
    BY <2>2, <2>3, <2>4 DEF Noted
<1>2. CASE s \notin In
  BY <1>2 DEF Recorded, Due, In
<1> QED
  BY <1>1, <1>2

\* A step that leaves the jobs alone.
LEMMA JobsStay == ASSUME UNCHANGED job PROVE /\ \A u : InHand(u) => InHand(u)'
                                             /\ Numbered => Numbered'
BY DEF InHand, Numbered

\* The phases of OnPeerRestart.
LEMMA PhasesLook ==
    ASSUME RestTypes, RestTypes', SkipInv, NEW t \in Threads,
           \/ MarkRestart(t) \/ ApplyPolicy(t) \/ ListPreserved(t) \/ RecordDDN(t) \/ RestartDone(t)
           \/ \E s \in Sessions : DeleteByPolicy(t, s)
    PROVE  SkipInv'
<1>0. job \in [Threads -> JobType] /\ ses \in [Sessions -> Sess] /\ job[t] \in JobType
  BY DEF RestTypes
<1>1. ASSUME MarkRestart(t) \/ ApplyPolicy(t) \/ \E s \in Sessions : DeleteByPolicy(t, s)
      PROVE  SkipInv'
  <2>1. job'[t].pc \in {"policy", "delete"} /\ \A w \in Threads : w # t => job'[w] = job[w]
    BY <1>0, <1>1 DEF MarkRestart, ApplyPolicy, DeleteByPolicy, JobType
  <2>2. Numbered'
    BY <2>1 DEF SkipInv, Numbered
  <2> QED
    BY <2>1, <2>2, AllInHand DEF SkipInv
<1>2. CASE ListPreserved(t)
  <2>1. job'[t].pc = "ddn" /\ job'[t].todo = In /\ \A w \in Threads : w # t => job'[w] = job[w]
    BY <1>0, <1>2 DEF ListPreserved, JobType
  <2>2. UNCHANGED ses
    BY <1>2 DEF ListPreserved
  <2>3. \A u \in Sessions : Due(u)' => InHand(u)'
    BY <2>1, <2>2 DEF Due, In, InHand
  <2> QED
    BY <2>1, <2>3 DEF SkipInv, Looked, Numbered
<1>3. CASE RecordDDN(t)
  <2>0. PICK s, n : s = job[t].s /\ n = job[t].n
    OBVIOUS
  <2>1. job[t].pc = "record" /\ n # NoSeq /\ ses' = Recorded(s, n) /\ UNCHANGED <<queue, firing, ddnVars>>
    BY <1>3, <2>0 DEF RecordDDN, SkipInv, Numbered
  <2>2. n \in Seqs
    BY <1>0, <2>0, <2>1, RestorationAssumption DEF JobType, Seqs, NoSeq
  <2>3. job'[t].pc = "ddn" /\ job'[t].todo = job[t].todo /\ \A w \in Threads : w # t => job'[w] = job[w]
    BY <1>0, <1>3 DEF RecordDDN, JobType
  <2>4. (\A u \in Sessions : u # s => ses'[u] = ses[u]) /\ (s \in Sessions /\ Due(s)' => Noted(s)')
    BY <2>1, <2>2, RecordedNotes
  <2>5. \A u \in Sessions : u # s => (InHand(u) => InHand(u)')
    BY <2>0, <2>1, <2>3, InHandKept
  <2>6. \A u \in Sessions : Awaited(u) => Awaited(u)'
    BY <2>1, AwaitedKept DEF ddnVars
  <2>7. Looked
    BY DEF SkipInv
  <2>8. Looked'
    BY <2>4, <2>5, <2>6, <2>7, OneMoved
  <2> QED
    BY <2>3, <2>8 DEF SkipInv, Numbered
<1>4. CASE RestartDone(t)
  <2>1. job[t].pc = "ddn" /\ job[t].todo = {} /\ job'[t].pc = "none" /\ \A w \in Threads : w # t => job'[w] = job[w]
    BY <1>0, <1>4 DEF RestartDone, NoJob
  <2>2. \A u \in Sessions : InHand(u) => InHand(u)'
    BY <2>1, InHandKept
  <2>3. UNCHANGED <<ses, queue, firing, ddnVars>>
    BY <1>4 DEF RestartDone
  <2>4. Looked'
    BY <2>2, <2>3 DEF SkipInv, Looked, Due, Noted, Awaited, ddnVars
  <2> QED
    BY <2>1, <2>4 DEF SkipInv, Numbered
<1> QED
  BY <1>1, <1>2, <1>3, <1>4

\* One session of triggerDDNForPreservedSessions.
LEMMA TriggerLooks ==
    ASSUME RestTypes, RestTypes', SkipInv, NEW t \in Threads, NEW s \in Sessions, TriggerDDN(t, s)
    PROVE  SkipInv'
<1> DEFINE next == [job EXCEPT ![t].todo = @ \ {s}]
<1>0. job \in [Threads -> JobType] /\ ses \in [Sessions -> Sess] /\ job[t] \in JobType /\ job[t].pc = "ddn"
  BY DEF RestTypes, TriggerDDN
<1>1. /\ next \in [Threads -> JobType] /\ next[t].pc = "ddn" /\ next[t].todo = job[t].todo \ {s}
      /\ \A w \in Threads : w # t => next[w] = job[w]
  <2>1. next \in [Threads -> JobType]
    <3>1. 0 \in 0..MaxSeq
      BY RestorationAssumption
    <3> QED
      BY <3>1, JobsMoved
  <2> QED
    BY <1>0, <2>1 DEF JobType
<1>2. firing' = firing /\ sent' = sent
  BY DEF TriggerDDN, ddnVars
<1>3. queue \subseteq queue'
  BY EnqueueNotes DEF TriggerDDN
<1>4. \A u \in Sessions : Awaited(u) => Awaited(u)'
  BY <1>2, <1>3, AwaitedKept
<1> HIDE DEF next
<1>5. ASSUME job' = next \/ (job'[t].pc = "record" /\ job'[t].s = s /\ job'[t].n # NoSeq
                             /\ job'[t].todo = job[t].todo \ {s} /\ \A w \in Threads : w # t => job'[w] = job[w]),
             \A u \in Sessions : u # s => ses'[u] = ses[u],
             Due(s)' => Noted(s)' \/ Awaited(s)' \/ InHand(s)'
      PROVE  SkipInv'
  <2>1. \A w \in Threads : w # t => job'[w] = job[w]
    BY <1>1, <1>5
  <2>2. job'[t].pc \in {"ddn", "record"} /\ job'[t].todo = job[t].todo \ {s}
    BY <1>1, <1>5
  <2>3. \A u \in Sessions : u # s => (InHand(u) => InHand(u)')
    BY <1>0, <2>1, <2>2, InHandKept
  <2>4. Numbered'
    BY <1>1, <1>5, <2>1 DEF SkipInv, Numbered
  <2>5. Looked'
    BY <1>4, <1>5, <2>3, OneMoved DEF SkipInv
  <2> QED
    BY <2>4, <2>5 DEF SkipInv
<1>6. CASE /\ ses[s].pol # "preserve" \/ ses[s].trig # NoSeq
           /\ job' = next /\ UNCHANGED ses
  <2>1. Due(s)' => Noted(s)'
    BY <1>6 DEF Due, Noted
  <2> QED
    BY <1>5, <1>6, <2>1
<1>7. CASE /\ Notify(s) /\ ses' = [ses EXCEPT ![s].held = FALSE]
           /\ job' = [next EXCEPT ![t].pc = "record", ![t].s = s, ![t].n = Last + 1]
  <2>1. Last + 1 # NoSeq
    BY DEF RestTypes, NoSeq
  <2>2. /\ job'[t].pc = "record" /\ job'[t].s = s /\ job'[t].n = Last + 1
        /\ job'[t].todo = job[t].todo \ {s} /\ \A w \in Threads : w # t => job'[w] = job[w]
    BY <1>1, <1>7 DEF JobType
  <2>3. InHand(s)'
    BY <2>2 DEF InHand
  <2>4. \A u \in Sessions : u # s => ses'[u] = ses[u]
    BY <1>7, MarkedFields
  <2> QED
    BY <1>5, <2>1, <2>2, <2>3, <2>4
<1>8. CASE ses' = [ses EXCEPT ![s].held = FALSE, ![s].fail = TRUE] /\ job' = next
  <2>1. (\A u \in Sessions : u # s => ses'[u] = ses[u]) /\ ses'[s].fail = TRUE
    BY <1>8, MarkedFields
  <2> QED
    BY <1>5, <1>8, <2>1 DEF Noted
<1>9. CASE Enqueue(s) /\ job' = next
  <2>1. (\A u \in Sessions : u # s => ses'[u] = ses[u]) /\ (s \in queue' \/ ses'[s].fail = TRUE)
    BY <1>9, EnqueueNotes
  <2>2. Noted(s)' \/ Awaited(s)'
    BY <2>1 DEF Noted, Awaited
  <2> QED
    BY <1>5, <1>9, <2>1, <2>2
<1>10. CASE ses' = [ses EXCEPT ![s].held = TRUE] /\ job' = next
  <2>1. (\A u \in Sessions : u # s => ses'[u] = ses[u]) /\ ses'[s].held = TRUE
    BY <1>10, MarkedFields
  <2> QED
    BY <1>5, <1>10, <2>1 DEF Noted
<1> QED
  BY <1>6, <1>7, <1>8, <1>9, <1>10 DEF TriggerDDN, next

\* Timers and idle reports.
LEMMA TimersLook ==
    ASSUME RestTypes, RestTypes', SkipInv,
           \/ \E s \in Sessions : FireDelayed(s) \/ FiredDDN(s) \/ IdleReport(s)
           \/ \E p \in sent : RecordSent(p)
    PROVE  SkipInv'
<1>0. ses \in [Sessions -> Sess] /\ UNCHANGED job
  BY DEF RestTypes, FireDelayed, FiredDDN, IdleReport, RecordSent
<1>1. Numbered' /\ \A u : InHand(u) => InHand(u)'
  BY <1>0, JobsStay DEF SkipInv
<1>2. ASSUME NEW s, \A u \in Sessions : u # s => ses'[u] = ses[u],
             \A u \in Sessions : u # s => (Awaited(u) => Awaited(u)'),
             s \in Sessions /\ Due(s)' => Noted(s)' \/ Awaited(s)' \/ InHand(s)'
      PROVE  SkipInv'
  BY <1>1, <1>2, OneMoved DEF SkipInv
<1>3. ASSUME UNCHANGED ses, \A u \in Sessions : Awaited(u) => Awaited(u)' PROVE SkipInv'
  BY <1>1, <1>3 DEF SkipInv, Looked, Due, Noted
<1>4. ASSUME NEW s \in Sessions, FireDelayed(s) PROVE SkipInv'
  <2>1. UNCHANGED ses /\ queue' = queue \ {s} /\ firing' = firing \cup {s} /\ UNCHANGED sent
    BY <1>4 DEF FireDelayed, Taken, ddnVars
  <2>2. \A u \in Sessions : Awaited(u) => Awaited(u)'
    BY <2>1 DEF Awaited
  <2> QED
    BY <1>3, <2>1, <2>2
<1>5. ASSUME NEW s \in Sessions, FiredDDN(s) PROVE SkipInv'
  <2>1. firing' = firing \ {s} /\ sent \subseteq sent'
    BY <1>5 DEF FiredDDN, ddnVars
  <2>2. queue \subseteq queue'
    BY <1>5, EnqueueNotes DEF FiredDDN
  <2>3. \A u \in Sessions : u # s => (Awaited(u) => Awaited(u)')
    BY <2>1, <2>2 DEF Awaited
  <2>4. ASSUME \A u \in Sessions : u # s => ses'[u] = ses[u], Due(s)' => Noted(s)' \/ Awaited(s)'
        PROVE  SkipInv'
    BY <1>2, <2>3, <2>4
  <2>5. CASE UNCHANGED ses /\ (ses[s].st # "in" \/ ses[s].pol # "preserve" \/ ses[s].trig # NoSeq)
    <3>1. Due(s)' => Noted(s)'
      BY <2>5 DEF Due, Noted
    <3> QED
      BY <2>4, <2>5, <3>1
  <2>6. CASE \/ ses' = [ses EXCEPT ![s].fail = TRUE]
             \/ ses' = [ses EXCEPT ![s].held = TRUE, ![s].fail = TRUE]
             \/ ses' = [ses EXCEPT ![s].held = FALSE, ![s].fail = TRUE]
    <3>1. (\A u \in Sessions : u # s => ses'[u] = ses[u]) /\ ses'[s].fail = TRUE
      BY <2>6, MarkedFields
    <3> QED
      BY <2>4, <3>1 DEF Noted
  <2>7. CASE Enqueue(s)
    <3>1. (\A u \in Sessions : u # s => ses'[u] = ses[u]) /\ (s \in queue' \/ ses'[s].fail = TRUE)
      BY <2>7, EnqueueNotes
    <3>2. Noted(s)' \/ Awaited(s)'
      BY <3>1 DEF Noted, Awaited
    <3> QED
      BY <2>4, <3>1, <3>2
  <2>8. CASE Notify(s) /\ ses' = [ses EXCEPT ![s].held = FALSE] /\ sent' = sent \cup {<<s, Last + 1>>}
    <3>1. \A u \in Sessions : u # s => ses'[u] = ses[u]
      BY <2>8, MarkedFields
    <3>2. Last + 1 \in Seqs
      BY <2>8, RestorationAssumption DEF RestTypes, Notify, Seqs
    <3>3. Awaited(s)'
      BY <2>8, <3>2 DEF Awaited
    <3> QED
      BY <2>4, <3>1, <3>3
  <2> QED
    BY <1>5, <2>5, <2>6, <2>7, <2>8 DEF FiredDDN
<1>6. ASSUME NEW s \in Sessions, IdleReport(s) PROVE SkipInv'
  <2>1. UNCHANGED <<ses, queue, firing>> /\ sent \subseteq sent'
    BY <1>6 DEF IdleReport, ddnVars
  <2>2. \A u \in Sessions : Awaited(u) => Awaited(u)'
    BY <2>1, AwaitedKept
  <2> QED
    BY <1>3, <2>1, <2>2
<1>7. ASSUME NEW p \in sent, RecordSent(p) PROVE SkipInv'
  <2>1. p[2] \in Seqs /\ p = <<p[1], p[2]>>
    BY DEF RestTypes
  <2>2. ses' = Recorded(p[1], p[2]) /\ sent' = sent \ {p} /\ UNCHANGED <<queue, firing>>
    BY <1>7 DEF RecordSent
  <2>3. (\A u \in Sessions : u # p[1] => ses'[u] = ses[u]) /\ (p[1] \in Sessions /\ Due(p[1])' => Noted(p[1])')
    <3> DEFINE s == p[1]
               n == p[2]
    <3>1. n \in Seqs /\ ses' = Recorded(s, n)
      BY <2>1, <2>2
    <3> HIDE DEF s, n
    <3>2. (\A u \in Sessions : u # s => ses'[u] = ses[u]) /\ (s \in Sessions /\ Due(s)' => Noted(s)')
      BY <3>1, RecordedNotes
    <3> QED
      BY <3>2 DEF s
  <2>4. \A u \in Sessions : u # p[1] => (Awaited(u) => Awaited(u)')
    BY <2>1, <2>2 DEF Awaited
  <2> QED
    BY <1>2, <2>3, <2>4
<1> QED
  BY <1>4, <1>5, <1>6, <1>7

\* The MME's messages.
LEMMA MessagesLook ==
    ASSUME RestTypes, RestTypes', SkipInv, NEW t \in Threads,
           \/ \E s \in Sessions : CreateSession(t, s) \/ DeleteSession(t, s) \/ ModifyBearer(t, s)
           \/ \E n \in DOMAIN owner : DDNFailure(t, n) \/ \E c \in {"ok", "no"} : DDNAck(t, n, c)
    PROVE  SkipInv'
<1>0. ses \in [Sessions -> Sess] /\ UNCHANGED <<job, queue, firing, sent>>
  BY DEF RestTypes, CreateSession, DeleteSession, ModifyBearer, DDNFailure, DDNAck, ddnVars
<1>1. Numbered' /\ \A u : (InHand(u) => InHand(u)') /\ (Awaited(u) => Awaited(u)')
  BY <1>0, JobsStay, AwaitedKept DEF SkipInv
<1>2. ASSUME NEW s \in Sessions, \A u \in Sessions : u # s => ses'[u] = ses[u], Due(s)' => Noted(s)'
      PROVE  SkipInv'
  BY <1>1, <1>2, OneMoved DEF SkipInv
<1>3. ASSUME NEW s \in Sessions, CreateSession(t, s) \/ DeleteSession(t, s) \/ ModifyBearer(t, s)
      PROVE  SkipInv'
  <2>1. ses[s] \in Sess
    BY <1>0
  <2>2. /\ \A u \in Sessions : u # s => ses'[u] = ses[u]
        /\ \/ ses'[s] = Fresh \/ ses'[s] = Gone
           \/ ses'[s] = [ses[s] EXCEPT !.restored = TRUE, !.pend = FALSE, !.recov = FALSE]
    BY <1>0, <1>3 DEF CreateSession, DeleteSession, ModifyBearer
  <2>3. ses'[s].pend = FALSE \/ ses'[s].st = "gone"
    <3>1. Fresh.pend = FALSE /\ Gone.st = "gone"
      BY DEF Fresh, Gone
    <3>2. [ses[s] EXCEPT !.restored = TRUE, !.pend = FALSE, !.recov = FALSE].pend = FALSE
      BY <2>1 DEF Sess
    <3> QED
      BY <2>2, <3>1, <3>2
  <2>4. ~Due(s)'
    BY <2>3 DEF Due
  <2> QED
    BY <1>2, <2>2, <2>4
<1>4. ASSUME NEW n \in DOMAIN owner, DDNFailure(t, n) PROVE SkipInv'
  <2>1. PICK s \in Matches(n) : ses' = [ses EXCEPT ![s].fail = TRUE]
    BY <1>4 DEF DDNFailure, Failed
  <2>2. s \in Sessions
    BY DEF Matches, ByDDN, ByIMSI, In
  <2>3. (\A u \in Sessions : u # s => ses'[u] = ses[u]) /\ ses'[s].fail = TRUE
    BY <2>1, <2>2, MarkedFields
  <2> QED
    BY <1>2, <2>2, <2>3 DEF Noted
<1>5. ASSUME NEW n \in DOMAIN owner, NEW c \in {"ok", "no"}, DDNAck(t, n, c) PROVE SkipInv'
  <2>1. CASE UNCHANGED ses
    BY <1>0, <1>1, <2>1 DEF SkipInv, Looked, Due, Noted
  <2>2. ASSUME NEW s \in Matches(n), ses' = Acked(s, c) PROVE SkipInv'
    <3>1. n # NoSeq
      BY DEF RestTypes, NoSeq
    <3>2. s \in Sessions /\ ses[s].trig # NoSeq
      BY <3>1 DEF Matches, ByDDN, ByIMSI, In
    <3>3. ses[s] \in Sess
      BY <1>0, <3>2
    <3>4. /\ \A u \in Sessions : u # s => ses'[u] = ses[u]
          /\ ses'[s].trig = ses[s].trig
      BY <1>0, <2>2, <3>2, <3>3 DEF Acked, Sess
    <3> QED
      BY <1>2, <3>2, <3>4 DEF Noted
  <2> QED
    BY <1>5, <2>1, <2>2 DEF DDNAck
<1> QED
  BY <1>3, <1>4, <1>5

\* Every step.
LEMMA SkipStep == RestTypes /\ SkipInv /\ [Next]_vars => SkipInv'
<1> SUFFICES ASSUME RestTypes, SkipInv, [Next]_vars PROVE SkipInv'
  OBVIOUS
<1>0. RestTypes'
  BY RestStep
<1>1. ASSUME UNCHANGED rVars PROVE SkipInv'
  <2>1. UNCHANGED <<ses, queue, firing, sent, job>>
    BY <1>1 DEF rVars, ddnVars
  <2> QED
    BY <2>1 DEF SkipInv, Looked, Numbered, Due, Noted, Awaited, InHand
<1>2. ASSUME NEW t \in Rx, NEW m \in Msgs, NEW r \in {0, life}, Hear(t, r, m) PROVE UNCHANGED rVars
  BY <1>2 DEF Hear
<1>3. ASSUME NEW t \in Threads, TellState(t) \/ Unmatched(t) PROVE UNCHANGED rVars
  BY <1>3 DEF TellState, Unmatched
<1>4. CASE UNCHANGED vars
  BY <1>1, <1>4 DEF vars
<1>5. CASE Next
  BY <1>0, <1>1, <1>2, <1>3, <1>5, PhasesLook, TriggerLooks, TimersLook, MessagesLook DEF Next
<1> QED
  BY <1>4, <1>5

\* A session preserved over a restart of the MME is not forgotten, for any number of
\* sessions, restarts and goroutines: once the restart is handled, the MME was notified of
\* it, will be, or the session says why not.
THEOREM NoneSkipped == Spec => []NotSkipped
<1>1. Init => SkipInv
  <2> SUFFICES ASSUME Init PROVE SkipInv
    OBVIOUS
  <2>1. \A s \in Sessions : ses[s].pend = FALSE
    BY DEF Init, Fresh
  <2>2. \A t \in Threads : job[t].pc = "none"
    BY DEF Init, NoJob
  <2> QED
    BY <2>1, <2>2 DEF SkipInv, Looked, Numbered, Due
<1> QED
  BY <1>1, RestStart, RestStep, SkipStep, LookedSuffices, PTL DEF Spec
=============================================================================
