---------------------------- MODULE SxaLifecycle ----------------------------
(***************************************************************************)
(* The Sxa interface: the PFCP client of SGW-C, which keeps an association *)
(* with an SGW-U by Association Setup and Heartbeat and places sessions on *)
(* it, the PFCP server of SGW-U with its session store, and the callbacks  *)
(* that tie the association to the PFCP bindings of SGW-C's sessions.      *)
(* Either process may restart. A life number stands for the Recovery Time  *)
(* Stamp. A request is executed by SGW-U and answered in one step, or its  *)
(* answer never comes (PfcpTransport models the datagrams).                *)
(***************************************************************************)
EXTENDS Naturals, FiniteSets

CONSTANTS
    Sess,           \* SGW-C sessions
    MaxSeid,        \* bound: SEIDs one life of a counter gives out
    MaxCLives,      \* bound: lives of the SGW-C process
    MaxULives,      \* bound: lives of the SGW-U process
    Recovery,       \* features.session_recovery: sessions and peers are restored
    OpsOutlive      \* may a procedure span the loss of the association?

ASSUME SxaAssumption ==
    /\ MaxSeid \in Nat \ {0} /\ MaxCLives \in Nat \ {0} /\ MaxULives \in Nat \ {0}
    /\ Recovery \in BOOLEAN /\ OpsOutlive \in BOOLEAN

VARIABLES
    \* SGW-C
    cLife,        \* localTS of the client
    callbacks,    \* SetPeerStateCallback and SetPeerRestartCallback were called
    mgr,          \* where the managePeer goroutine stands
    seen,         \* the Recovery Time Stamp of the response it processes
    peerState, peerTS,
    cSeid,        \* seidCounter of the client
    bind,         \* SGWSession.PFCP
    op,           \* the PFCP procedure in progress for a session, with its locals
    \* SGW-U
    uLife,        \* localTS of the server
    assocTS,      \* recoveryTS of its PeerRecord, 0 without one
    uSeid,        \* seidCounter of its store
    store,        \* the PFCP sessions it holds
    \* history
    crossed,      \* a request for one session was applied to another's context
    refused       \* an establishment was refused because its CP-SEID was taken

cVars == <<cLife, callbacks, mgr, seen, peerState, peerTS, cSeid, bind, op>>
uVars == <<uLife, assocTS, uSeid, store>>
vars  == <<cVars, uVars, crossed, refused>>

Seids    == 0..MaxSeid
Bindings == [cp : Seids, up : Seids, life : 0..MaxULives]
NoBind   == [cp |-> 0, up |-> 0, life |-> 0]
OpPcs    == {"none", "provisioned", "forwarding", "modify", "delete"}
Ops      == [pc : OpPcs, b : Bindings]
NoOp     == [pc |-> "none", b |-> NoBind]
Contexts == [cp : 1..MaxSeid, up : 1..MaxSeid, owner : Sess, cLife : 1..MaxCLives]
MgrPcs   == {"associate", "associated", "associateNotify", "heartbeat",
             "heartbeatResponse", "heartbeatNotify", "heartbeatFailed", "downNotify"}

TypeOK ==
    /\ cLife \in 1..MaxCLives /\ uLife \in 1..MaxULives
    /\ callbacks \in BOOLEAN
    /\ mgr \in MgrPcs
    /\ seen \in 0..MaxULives /\ peerTS \in 0..MaxULives
    /\ peerState \in {"Pending", "Established", "Down"}
    /\ cSeid \in Seids /\ uSeid \in Seids
    /\ bind \in [Sess -> Bindings]
    /\ op \in [Sess -> Ops]
    /\ assocTS \in 0..MaxCLives
    /\ store \subseteq Contexts
    /\ crossed \in BOOLEAN /\ refused \in BOOLEAN

Init ==
    /\ cLife = 1 /\ uLife = 1
    /\ callbacks = FALSE
    /\ mgr = "associate" /\ seen = 0
    /\ peerState = "Pending" /\ peerTS = 0
    /\ cSeid = 0 /\ uSeid = 0
    /\ bind = [s \in Sess |-> NoBind]
    /\ op = [s \in Sess |-> NoOp]
    /\ assocTS = 0
    /\ store = {}
    /\ crossed = FALSE /\ refused = FALSE

-----------------------------------------------------------------------------
(* SGW-C: managePeer.                                                      *)

sessVars == <<cSeid, bind, op, crossed, refused>>

\* main registers the callbacks after it has started Serve.
SetCallbacks ==
    /\ ~callbacks
    /\ callbacks' = TRUE
    /\ UNCHANGED <<cLife, mgr, seen, peerState, peerTS, sessVars, uVars>>

\* The assumption of the runs in which procedures do not span the loss: the loss
\* waits for the procedures to end, and none starts when it is about to be declared.
Quiet    == OpsOutlive \/ \A s \in Sess : op[s] = NoOp
MayStart == OpsOutlive \/ mgr # "heartbeatFailed"

\* Faulty variant: the bindings stay.
Invalidate_Nothing == UNCHANGED bind

\* InvalidatePFCPBindingsForPeer, if the callback is registered.
Invalidate == bind' = IF callbacks THEN [s \in Sess |-> NoBind] ELSE bind

\* associate, answered by handleAssocSetup: SGW-U records the time stamp of
\* SGW-C and does nothing to the sessions it holds.
Associate ==
    /\ mgr = "associate"
    /\ assocTS' = cLife
    /\ seen' = uLife
    /\ mgr' = "associated"
    /\ UNCHANGED <<cLife, callbacks, peerState, peerTS, sessVars, uLife, uSeid, store>>

\* associate without an answer; managePeer tries again after 5 s.
AssociateTimeout ==
    /\ mgr = "associate"
    /\ peerState' = "Down"
    /\ UNCHANGED <<cLife, callbacks, mgr, seen, peerTS, sessVars, uVars>>

IsRecoveryRestart(old, new) == old # 0 /\ new # old

\* associate commits under p.mu: the peer can be selected from here on.
Associated ==
    /\ mgr = "associated"
    /\ peerState' = "Established"
    /\ peerTS' = seen
    /\ mgr' = IF IsRecoveryRestart(peerTS, seen) THEN "associateNotify" ELSE "heartbeat"
    /\ UNCHANGED <<cLife, callbacks, seen, sessVars, uVars>>

\* associate calls notifyPeerRestart.
AssociateNotify ==
    /\ mgr = "associateNotify"
    /\ Invalidate
    /\ mgr' = "heartbeat"
    /\ UNCHANGED <<cLife, callbacks, seen, peerState, peerTS, cSeid, op, crossed, refused, uVars>>

\* A heartbeat, answered by handleHeartbeat: a time stamp that differs from the
\* recorded one makes SGW-U delete what it holds for SGW-C.
Heartbeat ==
    /\ mgr = "heartbeat"
    /\ IF assocTS # 0
       THEN /\ store' = IF assocTS # cLife THEN {} ELSE store
            /\ assocTS' = cLife
       ELSE UNCHANGED <<store, assocTS>>
    /\ seen' = uLife
    /\ mgr' = "heartbeatResponse"
    /\ UNCHANGED <<cLife, callbacks, peerState, peerTS, sessVars, uLife, uSeid>>

\* A heartbeat without an answer.
HeartbeatTimeout ==
    /\ mgr = "heartbeat"
    /\ mgr' = "heartbeatFailed"
    /\ UNCHANGED <<cLife, callbacks, seen, peerState, peerTS, sessVars, uVars>>

\* Faulty variant: the new time stamp is recorded and nothing else.
HeartbeatResponse_NoRestart ==
    /\ mgr = "heartbeatResponse"
    /\ peerTS' = seen
    /\ mgr' = "heartbeat"
    /\ UNCHANGED <<cLife, callbacks, seen, peerState, sessVars, uVars>>

\* heartbeat processes the response.
HeartbeatResponse ==
    /\ mgr = "heartbeatResponse"
    /\ peerTS' = seen
    /\ mgr' = IF IsRecoveryRestart(peerTS, seen) THEN "heartbeatNotify" ELSE "heartbeat"
    /\ UNCHANGED <<cLife, callbacks, seen, peerState, sessVars, uVars>>

\* heartbeat calls notifyPeerRestart and returns an error.
HeartbeatNotify ==
    /\ mgr = "heartbeatNotify"
    /\ Invalidate
    /\ mgr' = "heartbeatFailed"
    /\ UNCHANGED <<cLife, callbacks, seen, peerState, peerTS, cSeid, op, crossed, refused, uVars>>

\* heartbeatLoop marks the peer Down, then calls the state callback and returns.
MarkDown ==
    /\ mgr = "heartbeatFailed"
    /\ Quiet
    /\ peerState' = "Down"
    /\ mgr' = "downNotify"
    /\ UNCHANGED <<cLife, callbacks, seen, peerTS, sessVars, uVars>>
DownNotify ==
    /\ mgr = "downNotify"
    /\ Invalidate
    /\ mgr' = "associate"
    /\ UNCHANGED <<cLife, callbacks, seen, peerState, peerTS, cSeid, op, crossed, refused, uVars>>

-----------------------------------------------------------------------------
(* Session procedures: the PFCP legs of the S11 handlers. main starts the  *)
(* S11 listener after it has registered the callbacks.                     *)

mgrVars == <<cLife, callbacks, mgr, seen, peerState, peerTS>>

\* The context SGW-U finds for a session-level request: by UP-SEID alone.
FindByUPSEID(up) == {c \in store : c.up = up}

\* Faulty variant: AllocCPSEID returns the counter from before the increment.
Establish_ZeroSEID(s) ==
    LET cp == cSeid
        up == uSeid + 1
        c  == [cp |-> cp, up |-> up, owner |-> s, cLife |-> cLife] IN
    /\ callbacks /\ MayStart
    /\ bind[s] = NoBind /\ op[s] = NoOp
    /\ peerState = "Established" /\ assocTS # 0
    /\ cSeid < MaxSeid /\ up <= MaxSeid
    /\ cSeid' = cSeid + 1
    /\ uSeid' = up
    /\ \A d \in store : d.cp # cp
    /\ store' = store \cup {c}
    /\ op' = [op EXCEPT ![s] = [pc |-> "provisioned", b |-> [cp |-> cp, up |-> up, life |-> uLife]]]
    /\ UNCHANGED <<mgrVars, bind, uLife, assocTS, crossed, refused>>

\* Faulty variant: SGW-U gives every session the same UP-SEID.
Establish_SameUPSEID(s) ==
    LET cp == cSeid + 1
        up == 1
        c  == [cp |-> cp, up |-> up, owner |-> s, cLife |-> cLife] IN
    /\ callbacks /\ MayStart
    /\ bind[s] = NoBind /\ op[s] = NoOp
    /\ peerState = "Established" /\ assocTS # 0
    /\ cSeid < MaxSeid /\ up <= MaxSeid
    /\ cSeid' = cSeid + 1
    /\ uSeid' = uSeid
    /\ \A d \in store : d.cp # cp
    /\ store' = store \cup {c}
    /\ op' = [op EXCEPT ![s] = [pc |-> "provisioned", b |-> [cp |-> cp, up |-> up, life |-> uLife]]]
    /\ UNCHANGED <<mgrVars, bind, uLife, assocTS, crossed, refused>>

\* Faulty variant: SGW-U takes a CP-SEID that is in its store.
Establish_NoDuplicateCheck(s) ==
    LET cp == cSeid + 1
        up == uSeid + 1
        c  == [cp |-> cp, up |-> up, owner |-> s, cLife |-> cLife] IN
    /\ callbacks /\ MayStart
    /\ bind[s] = NoBind /\ op[s] = NoOp
    /\ peerState = "Established" /\ assocTS # 0
    /\ cSeid < MaxSeid /\ up <= MaxSeid
    /\ cSeid' = cSeid + 1
    /\ uSeid' = up
    /\ store' = store \cup {c}
    /\ op' = [op EXCEPT ![s] = [pc |-> "provisioned", b |-> [cp |-> cp, up |-> up, life |-> uLife]]]
    /\ UNCHANGED <<mgrVars, bind, uLife, assocTS, crossed, refused>>

\* EstablishSession: SelectPeer, AllocCPSEID, and handleSessionEstablishment,
\* which refuses without an association or when the CP-SEID is in its store.
\* The answer may be lost: then the context stays and SGW-C knows nothing of it.
Establish(s) ==
    LET cp == cSeid + 1
        up == uSeid + 1
        c  == [cp |-> cp, up |-> up, owner |-> s, cLife |-> cLife]
        taken == \E d \in store : d.cp = cp IN
    /\ callbacks /\ MayStart
    /\ bind[s] = NoBind /\ op[s] = NoOp
    /\ peerState = "Established"
    /\ cp <= MaxSeid /\ up <= MaxSeid
    /\ cSeid' = cp
    /\ IF assocTS = 0
       THEN UNCHANGED <<op, uSeid, store, refused>>
       ELSE /\ uSeid' = up
            /\ refused' = (refused \/ taken)
            /\ IF taken
               THEN UNCHANGED <<op, store>>
               ELSE /\ store' = store \cup {c}
                    /\ \/ op' = [op EXCEPT ![s] = [pc |-> "provisioned",
                                    b |-> [cp |-> cp, up |-> up, life |-> uLife]]]
                       \/ UNCHANGED op
    /\ UNCHANGED <<mgrVars, bind, uLife, assocTS, crossed>>

\* What SGW-U does with a session-level request: it needs an association and a
\* context. The history records a context that belongs to another session.
Accepts(s) == assocTS # 0 /\ FindByUPSEID(op[s].b.up) # {}
Touches(s) ==
    crossed' = (crossed \/ (/\ assocTS # 0
                            /\ \E c \in FindByUPSEID(op[s].b.up) : c.owner # s))

\* The PGW has accepted: modifyPFCPUplinkFAR, which SGW-U executes. When the answer
\* is lost the handler tears the session down. The request may be retransmitted over
\* a restart of SGW-U. (A PGW that gives no S5/S8-U TEID is left out.)
ModifyUplinkFAR(s) ==
    /\ op[s].pc = "provisioned"
    /\ peerState = "Established"
    /\ Accepts(s)
    /\ Touches(s)
    /\ \E l \in {"forwarding", "delete"} : op' = [op EXCEPT ![s].pc = l]
    /\ UNCHANGED <<mgrVars, cSeid, bind, refused, uVars>>

\* The PGW does not accept, or the update of the uplink FAR is refused or not sent:
\* DeleteSessionOnPeer, which needs the peer Established, and the session is given up.
AbortCreate(s) ==
    /\ op[s].pc = "provisioned"
    /\ op' = [op EXCEPT ![s] = IF peerState = "Established" THEN [@ EXCEPT !.pc = "delete"]
                               ELSE NoOp]
    /\ UNCHANGED <<mgrVars, cSeid, bind, refused, crossed, uVars>>

\* SetPFCPBinding.
SetPFCPBinding(s) ==
    /\ op[s].pc = "forwarding"
    /\ bind' = [bind EXCEPT ![s] = op[s].b]
    /\ op' = [op EXCEPT ![s] = NoOp]
    /\ UNCHANGED <<mgrVars, cSeid, refused, crossed, uVars>>

\* A later procedure (Modify Bearer, Release Access Bearers, Delete Session) reads
\* the binding of the session and sends a request to the peer.
StartRequest(s, kind) ==
    /\ callbacks /\ MayStart
    /\ bind[s] # NoBind /\ op[s] = NoOp
    /\ peerState = "Established"
    /\ op' = [op EXCEPT ![s] = [pc |-> kind, b |-> bind[s]]]
    /\ UNCHANGED <<mgrVars, cSeid, bind, refused, crossed, uVars>>

\* handleSessionModification.
ModifySession(s) ==
    /\ op[s].pc = "modify"
    /\ Touches(s)
    /\ op' = [op EXCEPT ![s] = NoOp]
    /\ UNCHANGED <<mgrVars, cSeid, bind, refused, uVars>>

\* handleSessionDeletion; SGW-C drops its session whatever the outcome.
DeleteSession(s) ==
    /\ op[s].pc = "delete"
    /\ Touches(s)
    /\ store' = IF assocTS # 0 THEN store \ FindByUPSEID(op[s].b.up) ELSE store
    /\ op' = [op EXCEPT ![s] = NoOp]
    /\ bind' = [bind EXCEPT ![s] = NoBind]
    /\ UNCHANGED <<mgrVars, cSeid, refused, uLife, assocTS, uSeid>>

\* The request gets no answer and the procedure ends with an error.
RequestTimeout(s) ==
    /\ op[s].pc \in {"modify", "delete"}
    /\ bind' = IF op[s].pc = "delete" THEN [bind EXCEPT ![s] = NoBind] ELSE bind
    /\ op' = [op EXCEPT ![s] = NoOp]
    /\ UNCHANGED <<mgrVars, cSeid, refused, crossed, uVars>>

-----------------------------------------------------------------------------
(* Restarts.                                                               *)

URestart ==
    /\ uLife < MaxULives
    /\ Quiet
    /\ uLife' = uLife + 1
    /\ assocTS' = 0 /\ uSeid' = 0 /\ store' = {}
    /\ UNCHANGED <<cVars, crossed, refused>>

\* With recovery the sessions, with their bindings, and the peer's time stamp come
\* back from the checkpoint; the SEID counter starts again in any case.
CRestart ==
    /\ cLife < MaxCLives
    /\ cLife' = cLife + 1
    /\ callbacks' = FALSE
    /\ mgr' = "associate" /\ seen' = 0
    /\ cSeid' = 0
    /\ op' = [s \in Sess |-> NoOp]
    /\ IF Recovery
       THEN UNCHANGED <<bind, peerState, peerTS>>
       ELSE /\ bind' = [s \in Sess |-> NoBind]
            /\ peerState' = "Pending"
            /\ peerTS' = 0
    /\ UNCHANGED <<uVars, crossed, refused>>

Manage ==
    \/ Associate \/ Associated \/ AssociateNotify
    \/ Heartbeat \/ HeartbeatResponse \/ HeartbeatNotify \/ MarkDown \/ DownNotify

Proceed(s) ==
    \/ ModifyUplinkFAR(s) \/ AbortCreate(s) \/ SetPFCPBinding(s)
    \/ ModifySession(s) \/ DeleteSession(s) \/ RequestTimeout(s)

Next ==
    \/ Manage \/ SetCallbacks \/ AssociateTimeout \/ HeartbeatTimeout
    \/ \E s \in Sess :
        \/ Establish(s) \/ Proceed(s)
        \/ StartRequest(s, "modify") \/ StartRequest(s, "delete")
    \/ URestart \/ CRestart

\* managePeer keeps running, a request that is repeated for ever is answered some
\* time, and a procedure ends, if only because its context has a deadline.
Spec == Init /\ [][Next]_vars
             /\ WF_vars(SetCallbacks)
             /\ SF_vars(Associate) /\ SF_vars(Heartbeat)
             /\ WF_vars(Manage) /\ \A s \in Sess : WF_vars(Proceed(s))

-----------------------------------------------------------------------------
(* Properties.                                                             *)

\* SGW-U holds at most one context per CP-SEID and per UP-SEID, through restarts of
\* SGW-C that reset its numbering: the two indexes of the store name one session.
SeidsIdentify ==
    \A c, d \in store : c.cp = d.cp \/ c.up = d.up => c = d

\* Once managePeer has seen the restart of an SGW-U and is back in its heartbeat
\* loop, no session keeps a binding to the context of an earlier life.
NoStaleBinding ==
    mgr = "heartbeat" /\ peerTS = uLife =>
        \A s \in Sess : bind[s] # NoBind => bind[s].life = uLife

\* No PFCP request for one session is ever applied to the context of another,
\* although a restarted SGW-U gives out the same UP-SEIDs again.
NoCrossSession == ~crossed

\* A new CP-SEID is never one that SGW-U already knows from this SGW-C.
FreshCPSEID == ~refused

\* When SGW-U has recorded a new time stamp of SGW-C, the contexts of SGW-C's
\* earlier lives are gone.
NoOrphanContext == assocTS # 0 => \A c \in store : c.cLife = assocTS

\* A restart of SGW-U is eventually noticed and the association is set up again.
Reassociates ==
    \A n \in 1..MaxULives :
        uLife = n ~> (uLife # n \/ (peerTS = n /\ peerState = "Established" /\ assocTS # 0))
=============================================================================
