--------------------------- MODULE MMERestoration ---------------------------
(***************************************************************************)
(* What SGW-C does for the sessions of an MME that restarted: mark them,   *)
(* decide by policy, delete or preserve them, and notify the MME of the    *)
(* preserved ones (Downlink Data Notification), at once or from a queue,   *)
(* within the rate DDN control allows; then the MME's acknowledgements and *)
(* the Modify Bearer that completes the restoration. Reports of downlink   *)
(* data for idle UEs send the same notification and share its state.       *)
(*                                                                         *)
(* The goroutine that detected the restart does all this before it serves  *)
(* its message; timers, idle reports and other messages run at the same    *)
(* time. A session is created once.                                        *)
(***************************************************************************)
EXTENDS PeerHealth

CONSTANTS
    Sessions,
    UE,         \* [Sessions -> UEs]
    Policies,   \* [Sessions -> SUBSET {"preserve", "delete"}]: what its rules may say
    Priority,   \* [Sessions -> {"high", "normal", "low"}]: the rules of DDN control
    AtStart,    \* the sessions there from the start
    Burst,      \* PerMMEBurst
    QueueMax,   \* the limits of the delayed queue
    Bypass,     \* HighPriorityBypass
    MaxSeq      \* bound: notifications sent

ASSUME RestorationAssumption ==
    /\ DOMAIN UE = Sessions
    /\ Policies \in [Sessions -> (SUBSET {"preserve", "delete"}) \ {{}}]
    /\ Priority \in [Sessions -> {"high", "normal", "low"}]
    /\ AtStart \subseteq Sessions
    /\ Bypass \in BOOLEAN
    /\ Burst \in Nat \ {0} /\ QueueMax \in Nat /\ MaxSeq \in Nat

VARIABLES
    ses,       \* the sessions: MMERestorationStatus
    queue,     \* sessions with a delayed notification
    count,     \* queueMME: how many the MME has there
    firing,    \* sessions whose timer took the entry out of the queue
    tokens,    \* DDN control: the MME's tokens
    recent,    \* UEs notified: the suppression window may be open
    job,       \* goroutines: the phase of OnPeerRestart, the sessions left, the one sent for
    sent,      \* notifications of timers and idle reports, sent and not yet recorded
    owner,     \* the session each notification was for
    answer     \* what the MME answered to each

ctlVars == <<tokens, recent>>
ddnVars == <<sent, owner, answer>>
rVars   == <<ses, queue, count, firing, ctlVars, job, ddnVars>>
vars    == <<peerVars, rVars>>

Seqs  == 1..MaxSeq
NoSeq == 0
NoSes == "no session"
NoJob == [pc |-> "none", todo |-> {}, s |-> NoSes, n |-> NoSeq]
Fresh == [st |-> "in", pend |-> FALSE, pol |-> "none", trig |-> NoSeq, ack |-> "none",
          restored |-> FALSE, recov |-> FALSE, fail |-> FALSE, held |-> FALSE]
Sess  == [st : {"new", "in", "gone"}, pend : BOOLEAN, pol : {"none", "preserve", "delete"},
          trig : 0..MaxSeq, ack : {"none", "ok", "no"},
          restored : BOOLEAN, recov : BOOLEAN, fail : BOOLEAN, held : BOOLEAN]
Gone  == [Fresh EXCEPT !.st = "gone"]
In    == {s \in Sessions : ses[s].st = "in"}

TypeOK ==
    /\ PeerTypeOK
    /\ ses \in [Sessions -> Sess]
    /\ queue \subseteq Sessions /\ count \in Nat /\ firing \subseteq Sessions
    /\ tokens \in 0..Burst /\ recent \subseteq {UE[s] : s \in Sessions}
    /\ job \in [Threads -> [pc : {"none", "policy", "delete", "ddn", "record"},
                            todo : SUBSET Sessions, s : Sessions \cup {NoSes}, n : 0..MaxSeq]]
    /\ sent \subseteq Sessions \X Seqs
    /\ owner \in [1..Cardinality(DOMAIN owner) -> Sessions]
    /\ answer \in [DOMAIN owner -> {"none", "ok", "no"}]

Init ==
    /\ PeerInit
    /\ ses = [s \in Sessions |-> [Fresh EXCEPT !.st = IF s \in AtStart THEN "in" ELSE "new"]]
    /\ queue = {} /\ count = 0 /\ firing = {}
    /\ tokens = Burst /\ recent = {}
    /\ job = [t \in Threads |-> NoJob]
    /\ sent = {} /\ owner = <<>> /\ answer = <<>>

-----------------------------------------------------------------------------
(* DDN control and the sending of a notification.                          *)

Last == Cardinality(DOMAIN owner)

\* State.Decide for session s: suppress, send or delay. Tokens that came back in the
\* meantime are added first. The windows in which a notified UE is left alone, and in
\* which low priority is held back after the MME asked for it in an acknowledgement, may
\* be over or not.
Throttled == \E n \in DOMAIN answer : answer[n] # "none"
Refilled  == tokens..Burst
Passes(s) == Priority[s] = "high" /\ Bypass
DecideSuppress(s) ==
    /\ (Priority[s] # "high" /\ UE[s] \in recent) \/ (Priority[s] = "low" /\ Throttled)
    /\ tokens' \in Refilled
    /\ UNCHANGED recent
DecideSend(s) ==
    /\ tokens' \in {k - 1 : k \in Refilled \ {0}} \cup (IF Passes(s) THEN Refilled \cap {0} ELSE {})
    /\ recent' = recent \cup {UE[s]}
DecideDelay(s) ==
    /\ 0 \in Refilled /\ ~Passes(s)
    /\ UNCHANGED ctlVars

\* SendDownlinkDataNotification: no answer is awaited.
Notify(s) ==
    /\ Last < MaxSeq
    /\ owner' = [n \in 1..(Last + 1) |-> IF n > Last THEN s ELSE owner[n]]
    /\ answer' = [n \in 1..(Last + 1) |-> IF n > Last THEN "none" ELSE answer[n]]

\* MarkMMERestorationDDNTriggered; nobody reads the record of a removed session.
Recorded(s, n) == IF s \in In THEN [ses EXCEPT ![s].trig = n, ![s].fail = FALSE] ELSE ses

\* The count after session s is queued: a queued one is replaced.
Enqueued(s) == IF s \in queue THEN count ELSE count + 1

\* Faulty variant: a notification that finds the queue full is forgotten.
Refused_Silently(s) == [ses EXCEPT ![s].held = FALSE]

Refused(s) == [ses EXCEPT ![s].held = FALSE, ![s].fail = TRUE]

\* enqueueDelayedDDN: the queue is limited as a whole and for the MME.
MayEnqueue(s) == s \in queue \/ (Cardinality(queue) < QueueMax /\ count < QueueMax)
Enqueue(s) ==
    IF MayEnqueue(s)
    THEN /\ queue' = queue \cup {s} /\ count' = Enqueued(s)
         /\ ses' = [ses EXCEPT ![s].held = FALSE]
    ELSE ses' = Refused(s) /\ UNCHANGED <<queue, count>>

-----------------------------------------------------------------------------
(* OnPeerStateChange and OnPeerRestart, phase by phase.                    *)

TellState(t) == DeliverState(t) /\ UNCHANGED rVars

\* Manager.MarkMMERestart.
MarkRestart(t) ==
    /\ DeliverRestart(t)
    /\ ses' = [s \in Sessions |-> IF s \in In THEN [ses[s] EXCEPT !.pend = TRUE] ELSE ses[s]]
    /\ job' = [job EXCEPT ![t].pc = "policy"]
    /\ UNCHANGED <<queue, count, firing, ctlVars, ddnVars>>

\* evaluatePolicy: the rules look at what a session is for (APN, QCI, ARP), which may
\* differ each time.
Evaluations == {p \in [In -> {"preserve", "delete"}] : \A s \in In : p[s] \in Policies[s]}

\* applyPolicy, for the sessions the MME has by now.
ApplyPolicy(t) ==
    /\ job[t].pc = "policy"
    /\ \E p \in Evaluations :
        ses' = [s \in Sessions |-> IF s \in In THEN [ses[s] EXCEPT !.pol = p[s]] ELSE ses[s]]
    /\ job' = [job EXCEPT ![t].pc = "delete", ![t].todo = In]
    /\ UNCHANGED <<peerVars, queue, count, firing, ctlVars, ddnVars>>

\* deleteSessionForRestoration: unless the PGW accepts, the session stays.
Cleanup(s) == ses' \in {ses, [ses EXCEPT ![s] = Gone]}

\* enforceDeletePolicy.
DeleteByPolicy(t, s) ==
    /\ job[t].pc = "delete" /\ s \in job[t].todo
    /\ job' = [job EXCEPT ![t].todo = @ \ {s}]
    /\ IF ses[s].pol = "delete" THEN Cleanup(s) ELSE UNCHANGED ses
    /\ UNCHANGED <<peerVars, queue, count, firing, ctlVars, ddnVars>>

\* triggerDDNForPreservedSessions lists the sessions once more.
ListPreserved(t) ==
    /\ job[t].pc = "delete" /\ job[t].todo = {}
    /\ job' = [job EXCEPT ![t].pc = "ddn", ![t].todo = In]
    /\ UNCHANGED <<peerVars, ses, queue, count, firing, ctlVars, ddnVars>>

\* One session: not preserved or notified before, it is passed over; else DDN control
\* decides. A delayed one that finds no room in the queue fails.
TriggerDDN(t, s) ==
    LET skip == ses[s].pol # "preserve" \/ ses[s].trig # NoSeq
        next == [job EXCEPT ![t].todo = @ \ {s}] IN
    /\ job[t].pc = "ddn" /\ s \in job[t].todo
    /\ \/ /\ skip
          /\ job' = next
          /\ UNCHANGED <<ses, queue, count, firing, ctlVars, ddnVars>>
       \/ /\ ~skip /\ DecideSend(s) /\ Notify(s)
          /\ ses' = [ses EXCEPT ![s].held = FALSE]
          /\ job' = [next EXCEPT ![t].pc = "record", ![t].s = s, ![t].n = Last + 1]
          /\ UNCHANGED <<queue, count, firing, sent>>
       \/ /\ ~skip /\ DecideSend(s)
          /\ ses' = [ses EXCEPT ![s].held = FALSE, ![s].fail = TRUE]
          /\ job' = next
          /\ UNCHANGED <<queue, count, firing, ddnVars>>
       \/ /\ ~skip /\ DecideDelay(s) /\ Enqueue(s)
          /\ job' = next
          /\ UNCHANGED <<firing, ddnVars>>
       \/ /\ ~skip /\ DecideSuppress(s)
          /\ ses' = [ses EXCEPT ![s].held = TRUE]
          /\ job' = next
          /\ UNCHANGED <<queue, count, firing, ddnVars>>
    /\ UNCHANGED peerVars

\* sendDDNNow records the notification after it is sent.
RecordDDN(t) ==
    /\ job[t].pc = "record"
    /\ ses' = Recorded(job[t].s, job[t].n)
    /\ job' = [job EXCEPT ![t].pc = "ddn", ![t].s = NoSes, ![t].n = NoSeq]
    /\ UNCHANGED <<peerVars, queue, count, firing, ctlVars, ddnVars>>

RestartDone(t) ==
    /\ job[t].pc = "ddn" /\ job[t].todo = {}
    /\ job' = [job EXCEPT ![t] = NoJob]
    /\ UNCHANGED <<peerVars, ses, queue, count, firing, ctlVars, ddnVars>>

-----------------------------------------------------------------------------
(* Timers and idle reports.                                                *)

\* Faulty variant: the entry is taken out and still counted.
Taken_Counted(s) == queue' = queue \ {s} /\ count' = count

Taken(s) == queue' = queue \ {s} /\ count' = count - 1

\* fireDelayedDDN takes the entry out under the lock of the queue ...
FireDelayed(s) ==
    /\ s \in queue \ firing
    /\ Taken(s)
    /\ firing' = firing \cup {s}
    /\ UNCHANGED <<peerVars, ses, ctlVars, job, ddnVars>>

\* ... and goes on without it. An entry grown too old fails; one that DDN control delays
\* again goes back, if there is still room.
FiredDDN(s) ==
    LET dropped == ses[s].st # "in" \/ ses[s].pol # "preserve" \/ ses[s].trig # NoSeq IN
    /\ s \in firing
    /\ firing' = firing \ {s}
    /\ \/ dropped /\ UNCHANGED <<ses, queue, count, ctlVars, ddnVars>>
       \/ /\ ~dropped
          /\ ses' = [ses EXCEPT ![s].fail = TRUE]
          /\ UNCHANGED <<queue, count, ctlVars, ddnVars>>
       \/ ~dropped /\ DecideDelay(s) /\ Enqueue(s) /\ UNCHANGED ddnVars
       \/ /\ ~dropped /\ DecideSuppress(s)
          /\ ses' = [ses EXCEPT ![s].held = TRUE, ![s].fail = TRUE]
          /\ UNCHANGED <<queue, count, ddnVars>>
       \/ /\ ~dropped /\ DecideSend(s) /\ Notify(s)
          /\ ses' = [ses EXCEPT ![s].held = FALSE]
          /\ sent' = sent \cup {<<s, Last + 1>>}
          /\ UNCHANGED <<queue, count>>
       \/ /\ ~dropped /\ DecideSend(s)
          /\ ses' = [ses EXCEPT ![s].held = FALSE, ![s].fail = TRUE]
          /\ UNCHANGED <<queue, count, ddnVars>>
    /\ UNCHANGED <<peerVars, job>>

\* HandleReport of a packet for an idle UE, past its own filters: only a notification
\* that may go at once is sent, and it may fail.
IdleReport(s) ==
    /\ s \in In /\ DecideSend(s)
    /\ \/ Notify(s) /\ sent' = sent \cup {<<s, Last + 1>>}
       \/ UNCHANGED ddnVars
    /\ UNCHANGED <<peerVars, ses, queue, count, firing, job>>

RecordSent(p) ==
    /\ p \in sent
    /\ ses' = Recorded(p[1], p[2])
    /\ sent' = sent \ {p}
    /\ UNCHANGED <<peerVars, queue, count, firing, ctlVars, job, owner, answer>>

-----------------------------------------------------------------------------
(* The MME's messages. A message is served when the reports of its         *)
(* goroutine are made, the restart phases included.                        *)

News(r) == pst # "up" \/ Remembered(r) # rec
Hear(t, r, m) == News(r) /\ Receive(t, r, m) /\ job[t] = NoJob /\ UNCHANGED rVars

\* A message is served after its reports, or at once if it has nothing to report. What
\* it is, is decided then: the reports do not depend on it.
Begin(t) ==
    /\ job[t] = NoJob
    /\ \/ Serve(t)
       \/ t \in Rx /\ ~Busy(t) /\ ~News(0) /\ UNCHANGED peerVars

\* handleCreateSessionRequest and handleDeleteSessionRequest, as far as they are seen here.
CreateSession(t, s) ==
    /\ Begin(t)
    /\ ses[s].st = "new"
    /\ ses' = [ses EXCEPT ![s] = Fresh]
    /\ UNCHANGED <<queue, count, firing, ctlVars, job, ddnVars>>
DeleteSession(t, s) ==
    /\ Begin(t)
    /\ ses[s].st = "in"
    /\ ses' = [ses EXCEPT ![s] = Gone]
    /\ UNCHANGED <<queue, count, firing, ctlVars, job, ddnVars>>

\* Faulty variant: the MME's acceptance is not waited for.
shouldComplete_Unasked(x) == x.pend /\ x.pol = "preserve" /\ ~x.restored

shouldComplete(x) == x.pend /\ x.pol = "preserve" /\ x.ack = "ok" /\ ~x.restored

\* Modify Bearer: MarkMMERestorationUserPlaneRestored.
ModifyBearer(t, s) ==
    /\ Begin(t)
    /\ ses[s].st = "in" /\ shouldComplete(ses[s])
    /\ ses' = [ses EXCEPT ![s].restored = TRUE, ![s].pend = FALSE, ![s].recov = FALSE]
    /\ UNCHANGED <<queue, count, firing, ctlVars, job, ddnVars>>

\* findDDNRestorationSession: by the recorded sequence number, else any notified session
\* of the UE.
ByDDN(n)   == {s \in In : ses[s].trig = n}
ByIMSI(n)  == {s \in In : UE[s] = UE[owner[n]] /\ ses[s].trig # NoSeq}
Matches(n) == IF ByDDN(n) # {} THEN ByDDN(n) ELSE ByIMSI(n)

\* MarkMMERestorationDDNAck and MarkMMERestorationDDNFailureIndication.
Acked(s, c) == [ses EXCEPT ![s].ack = c, ![s].fail = FALSE, ![s].recov = (c = "ok" \/ @)]
Failed(s)   == [ses EXCEPT ![s].fail = TRUE]

\* handleDownlinkDataNotificationAck for notification n, which may come twice. The
\* answer may ask to throttle low priority traffic.
DDNAck(t, n, c) ==
    /\ Begin(t)
    /\ answer[n] \in {"none", c}
    /\ answer' = [answer EXCEPT ![n] = c]
    /\ \/ Matches(n) = {} /\ UNCHANGED ses
       \/ \E s \in Matches(n) : ses' = Acked(s, c)
    /\ UNCHANGED <<queue, count, firing, ctlVars, job, sent, owner>>

\* handleDownlinkDataNotificationFailureIndication.
DDNFailure(t, n) ==
    /\ Begin(t)
    /\ \E s \in Matches(n) : ses' = Failed(s)
    /\ UNCHANGED <<queue, count, firing, ctlVars, job, ddnVars>>

\* A message that changes nothing here.
Unmatched(t) == Serve(t) /\ job[t] = NoJob /\ UNCHANGED rVars

-----------------------------------------------------------------------------
Next ==
    \/ \E t \in Rx, m \in Msgs : \E r \in {0, life} : Hear(t, r, m)
    \/ EchoResponse /\ job[Probe] = NoJob /\ UNCHANGED rVars
    \/ PeerRestart /\ UNCHANGED rVars
    \/ \E t \in Threads :
        \/ TellState(t) \/ MarkRestart(t) \/ ApplyPolicy(t) \/ ListPreserved(t)
        \/ RecordDDN(t) \/ RestartDone(t) \/ Unmatched(t)
        \/ \E s \in Sessions :
            \/ DeleteByPolicy(t, s) \/ TriggerDDN(t, s)
            \/ CreateSession(t, s) \/ DeleteSession(t, s) \/ ModifyBearer(t, s)
        \/ \E n \in DOMAIN owner : DDNFailure(t, n) \/ \E c \in {"ok", "no"} : DDNAck(t, n, c)
    \/ \E s \in Sessions : FireDelayed(s) \/ FiredDDN(s) \/ IdleReport(s)
    \/ \E p \in sent : RecordSent(p)

Spec == Init /\ [][Next]_vars

-----------------------------------------------------------------------------
(* Properties.                                                             *)

\* The counter that bounds the queue of an MME says how many of its notifications are
\* queued, whatever replaces, fires or drops them, and the bound is kept.
QueueCounted == count = Cardinality(queue) /\ count <= QueueMax

\* Handled: OnPeerRestart is past session s.
Handled(s) == \A t \in Threads :
    /\ job[t].pc \notin {"policy", "delete"}
    /\ s \notin job[t].todo /\ job[t].s # s

\* A session preserved over a restart is not forgotten: once the restart is handled the
\* MME was notified of it, or will be by the queue, or the failure or the decision of
\* DDN control not to notify is recorded on the session.
NotSkipped ==
    \A s \in In : ses[s].pend /\ ses[s].pol = "preserve" /\ Handled(s) =>
        \/ ses[s].trig # NoSeq \/ s \in queue \cup firing \/ (\E n \in Seqs : <<s, n>> \in sent)
        \/ ses[s].fail \/ ses[s].held

\* The restoration of a session is completed by Modify Bearer only after the MME
\* accepted a notification of that very session, also when acknowledgements are late,
\* repeated, or come before the notification is recorded.
RestoredWasAsked ==
    \A s \in In : ses[s].restored => \E n \in DOMAIN owner : owner[n] = s /\ answer[n] = "ok"

\* A restart notifies the MME of every session it preserves ("Sends S11 Downlink Data
\* Notification for preserved sessions", README of the repository): none that was
\* restored before stays pending for good.
NotStuck == \A s \in In : ~(ses[s].pend /\ ses[s].restored)

\* "recovering" is left again: an accepted notification of a session that is not being
\* restored does not put it there.
RecoveringEnds == \A s \in In : ses[s].recov => ses[s].pend
=============================================================================
