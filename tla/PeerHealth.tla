----------------------------- MODULE PeerHealth -----------------------------
(***************************************************************************)
(* The table of GTPv2-C peers of SGW-C, seen for one MME or PGW: goroutines*)
(* that serve the peer's messages and the Echo prober change its entry     *)
(* under the table's lock, and report the change to the failure handlers   *)
(* after they have let the lock go: first a change of state, then a change *)
(* of the Recovery counter. A message is served after its reports.         *)
(*                                                                         *)
(* pgwfailure and mmerestoration mark the sessions of the peer with what   *)
(* they are told; MMERestoration extends this module with the latter.      *)
(***************************************************************************)
EXTENDS Naturals, FiniteSets

CONSTANTS
    Rx,           \* goroutines that serve the peer's messages
    Probe,        \* the prober
    Msgs,         \* what a message may be
    NoMsg,
    SuspectAfter, \* missed Echoes, 0 for never
    DownAfter,    \* missed Echoes, 0 for never
    SlowEcho,     \* is an Echo Response ever slower than DegradedRTT?
    MaxLife       \* bound: lives of the peer

ASSUME PeerAssumption ==
    /\ Probe \notin Rx /\ NoMsg \notin Msgs
    /\ SuspectAfter \in Nat /\ DownAfter \in Nat
    /\ SlowEcho \in BOOLEAN /\ MaxLife \in Nat \ {0}

VARIABLES
    life,      \* the peer's Recovery counter
    pst,       \* the entry: state
    misses,    \* consecutiveMisses
    rec,       \* recoveryCounter, 0 when not seen
    th,        \* goroutines: the reports still to make, and the message to serve
    told,      \* the state the handlers marked last
    restarts,  \* changes of the counter: detected
    notified,  \* reported to the handlers
    silent     \* history: Echoes missed since the peer was heard

peerVars == <<life, pst, misses, rec, th, told, restarts, notified, silent>>

States  == {"unknown", "up", "degraded", "suspect", "down"}
Threads == Rx \cup {Probe}
NoState == "none"
Idle    == [st |-> NoState, rst |-> FALSE, msg |-> NoMsg]
Busy(t) == th[t] # Idle

\* Missed Echoes are counted to the last threshold: more make no difference.
Enough   == IF SuspectAfter > DownAfter THEN SuspectAfter ELSE DownAfter
OneMore(n) == IF n < Enough THEN n + 1 ELSE n

PeerTypeOK ==
    /\ life \in 1..MaxLife
    /\ pst \in States /\ told \in States
    /\ misses \in 0..Enough
    /\ rec \in 0..MaxLife
    /\ th \in [Threads -> [st : States \cup {NoState}, rst : BOOLEAN, msg : Msgs \cup {NoMsg}]]
    /\ restarts \in Nat /\ notified \in Nat /\ silent \in 0..Enough

PeerInit ==
    /\ life = 1 /\ pst = "unknown" /\ misses = 0 /\ rec = 0
    /\ th = [t \in Threads |-> Idle]
    /\ told = "unknown" /\ restarts = 0 /\ notified = 0
    /\ silent = 0

-----------------------------------------------------------------------------
\* Faulty variant: the counter seen first is the one remembered.
Remembered_First(r) == IF rec = 0 THEN r ELSE rec

\* applyRecoveryLocked; r = 0 stands for a message without Recovery IE.
Remembered(r) == IF r = 0 THEN rec ELSE r
Changed(r)    == r # 0 /\ rec # 0 /\ rec # r

\* notifyStateChange reports nothing when the state stays.
Reported(s) == IF s = pst THEN NoState ELSE s

\* The entry gets state s and counter r; goroutine t reports the changes and then
\* serves m.
Update(t, s, r, m) ==
    /\ pst' = s
    /\ rec' = Remembered(r)
    /\ restarts' = IF Changed(r) THEN restarts + 1 ELSE restarts
    /\ th' = [th EXCEPT ![t] = [st |-> Reported(s), rst |-> Changed(r), msg |-> m]]
    /\ UNCHANGED <<life, told, notified>>

\* observe: any message but an Echo Request. The missed Echoes stay counted.
Receive(t, r, m) ==
    /\ t \in Rx /\ ~Busy(t)
    /\ r \in {0, life}
    /\ Update(t, "up", r, m)
    /\ silent' = 0
    /\ UNCHANGED misses

\* MarkEchoResponse; with DegradedRTT a slow answer degrades the peer. Only peers that
\* were heard are probed.
EchoResponse ==
    /\ ~Busy(Probe) /\ pst # "unknown"
    /\ misses' = 0 /\ silent' = 0
    /\ \E s \in {"up"} \cup (IF SlowEcho THEN {"degraded"} ELSE {}) :
        Update(Probe, s, life, NoMsg)

AfterMiss(n) == IF DownAfter > 0 /\ n >= DownAfter THEN "down"
                ELSE IF SuspectAfter > 0 /\ n >= SuspectAfter THEN "suspect" ELSE "degraded"

\* MarkEchoTimeout.
EchoTimeout ==
    /\ ~Busy(Probe) /\ pst # "unknown"
    /\ misses' = OneMore(misses) /\ silent' = OneMore(silent)
    /\ Update(Probe, AfterMiss(misses'), 0, NoMsg)

\* OnPeerStateChange.
DeliverState(t) ==
    /\ th[t].st # NoState
    /\ told' = th[t].st
    /\ th' = [th EXCEPT ![t].st = NoState]
    /\ UNCHANGED <<life, pst, misses, rec, restarts, notified, silent>>

\* OnPeerRestart comes second.
DeliverRestart(t) ==
    /\ th[t].st = NoState /\ th[t].rst
    /\ notified' = notified + 1
    /\ th' = [th EXCEPT ![t].rst = FALSE]
    /\ UNCHANGED <<life, pst, misses, rec, told, restarts, silent>>

\* The message is served.
Serve(t) ==
    /\ th[t].st = NoState /\ ~th[t].rst /\ th[t].msg # NoMsg
    /\ th' = [th EXCEPT ![t].msg = NoMsg]
    /\ UNCHANGED <<life, pst, misses, rec, told, restarts, notified, silent>>

\* The peer restarts.
PeerRestart ==
    /\ life < MaxLife
    /\ life' = life + 1
    /\ UNCHANGED <<pst, misses, rec, th, told, restarts, notified, silent>>

PeerNext ==
    \/ \E t \in Rx, m \in Msgs : \E r \in {0, life} : Receive(t, r, m)
    \/ EchoResponse \/ EchoTimeout \/ PeerRestart
    \/ \E t \in Threads : DeliverState(t) \/ DeliverRestart(t) \/ Serve(t)

PeerSpec == PeerInit /\ [][PeerNext]_peerVars

-----------------------------------------------------------------------------
(* Properties.                                                             *)

Quiet == \A t \in Threads : th[t].st = NoState

\* Every restart of the peer is detected and reported to the handlers at most once,
\* although messages, with and without Recovery, and Echo Responses tell of it in
\* several goroutines, and a detected one is reported.
RestartSeenOnce ==
    /\ notified <= restarts /\ restarts < life
    /\ Quiet /\ (\A t \in Threads : ~th[t].rst) => notified = restarts

\* "Consecutive missed Echo threshold for down state" (README of the repository): a
\* peer that is down has missed that many Echoes since it was heard last.
DownMeansMissed == pst = "down" => silent >= DownAfter

\* Once every change is reported the sessions are marked with the state of the table,
\* also when two goroutines changed it one after the other.
MarksFollow == Quiet => told = pst
=============================================================================
