----------------------------- MODULE Sxa_proofs -----------------------------
(***************************************************************************)
(* Proofs about the Sxa interface and SGW-U behind it: three modules that  *)
(* share no names, and nothing is assumed across them.                     *)
(*                                                                         *)
(* SxaLifecycle: the SEIDs of SGW-U name one context each; and, when SGW-C *)
(* restarts without its sessions and no procedure spans the loss of the    *)
(* association, a restart of SGW-U leaves no binding behind and no request *)
(* reaches the context of another session.                                 *)
(*                                                                         *)
(* PfcpTransport: a request is executed once in each life of the endpoint  *)
(* that serves it, and Send returns the response of its own request when   *)
(* one side alone opens transactions and does not restart.                 *)
(*                                                                         *)
(* SgwuRules: as long as no write of a modification to the fast path       *)
(* fails, the fast path and user space forward and report by the rules a   *)
(* session has; a TEID in use is found whatever fails.                     *)
(***************************************************************************)
EXTENDS SxaLifecycle, PfcpTransport, SgwuRules, TLAPS

-----------------------------------------------------------------------------
(* SEIDs.                                                                  *)

\* The counter of SGW-U is ahead of every UP-SEID in its store.
Numbered == \A c \in store : c.up <= uSeid

SeidInv == TypeOK /\ Numbered /\ SeidsIdentify

\* The values of a session without binding and without procedure.
LEMMA Nothing ==
    /\ NoBind \in Bindings /\ NoBind.life = 0
    /\ NoOp \in Ops /\ NoOp.pc = "none" /\ NoOp.b = NoBind
  BY SxaAssumption DEF NoBind, Bindings, Seids, NoOp, Ops, OpPcs

\* A procedure that goes on keeps the binding it holds.
LEMMA GoesOn ==
    ASSUME op \in [Sess -> Ops], NEW s \in Sess, NEW l \in OpPcs
    PROVE  /\ [op EXCEPT ![s].pc = l] \in [Sess -> Ops]
           /\ [op EXCEPT ![s].pc = l][s].pc = l
           /\ [op EXCEPT ![s].pc = l][s].b = op[s].b
           /\ \A r \in Sess : r # s => [op EXCEPT ![s].pc = l][r] = op[r]
<1> DEFINE o == op[s]
<1>1. o \in Ops
  OBVIOUS
<1> HIDE DEF o
<1>2. [o EXCEPT !.pc = l] \in Ops /\ [o EXCEPT !.pc = l].pc = l /\ [o EXCEPT !.pc = l].b = o.b
  BY <1>1 DEF Ops
<1>3. [op EXCEPT ![s].pc = l] = [op EXCEPT ![s] = [o EXCEPT !.pc = l]]
  BY DEF o
<1>4. o = op[s]
  BY DEF o
<1> QED
  BY <1>2, <1>3, <1>4

\* What Establish does to the store when SGW-U takes the request.
Taken(s) ==
    /\ assocTS # 0 /\ uSeid' = uSeid + 1 /\ uSeid + 1 <= MaxSeid
    /\ cSeid' = cSeid + 1 /\ cSeid + 1 <= MaxSeid
    /\ \A d \in store : d.cp # cSeid + 1
    /\ store' = store \cup {[cp |-> cSeid + 1, up |-> uSeid + 1, owner |-> s, cLife |-> cLife]}
    /\ \/ op' = [op EXCEPT ![s] = [pc |-> "provisioned",
                    b |-> [cp |-> cSeid + 1, up |-> uSeid + 1, life |-> uLife]]]
       \/ UNCHANGED op

LEMMA EstablishEffect ==
    ASSUME TypeOK, NEW s \in Sess, Establish(s)
    PROVE  /\ UNCHANGED <<mgrVars, bind, uLife, assocTS, crossed>>
           /\ callbacks /\ MayStart /\ op[s] = NoOp /\ bind[s] = NoBind
           /\ peerState = "Established"
           /\ cSeid' \in Seids /\ refused' \in BOOLEAN
           /\ \/ Taken(s)
              \/ UNCHANGED <<op, store>> /\ uSeid' \in {uSeid, uSeid + 1} /\ uSeid + 1 <= MaxSeid
<1>1. cSeid' \in Seids /\ refused' \in BOOLEAN
  <2>1. cSeid' \in Seids
    BY SxaAssumption DEF Establish, TypeOK, Seids
  <2>2. refused' = refused \/ refused' = (refused \/ \E d \in store : d.cp = cSeid + 1)
    BY Zenon DEF Establish
  <2>3. refused \in BOOLEAN
    BY DEF TypeOK
  <2> QED
    BY <2>1, <2>2, <2>3
<1>2. CASE assocTS = 0
  BY <1>1, <1>2 DEF Establish, TypeOK, Seids
<1>3. ASSUME assocTS # 0
      PROVE  /\ uSeid' = uSeid + 1
             /\ (\E d \in store : d.cp = cSeid + 1) => UNCHANGED <<op, store>>
             /\ (~\E d \in store : d.cp = cSeid + 1) => Taken(s)
  <2>1. uSeid' = uSeid + 1 /\ uSeid + 1 <= MaxSeid /\ cSeid' = cSeid + 1 /\ cSeid + 1 <= MaxSeid
    BY <1>3 DEF Establish
  <2>2. ASSUME \E d \in store : d.cp = cSeid + 1 PROVE UNCHANGED <<op, store>>
    BY <1>3, <2>2 DEF Establish
  <2>3. ASSUME ~\E d \in store : d.cp = cSeid + 1 PROVE Taken(s)
    <3>1. /\ store' = store \cup {[cp |-> cSeid + 1, up |-> uSeid + 1, owner |-> s,
                                   cLife |-> cLife]}
          /\ \/ op' = [op EXCEPT ![s] = [pc |-> "provisioned",
                          b |-> [cp |-> cSeid + 1, up |-> uSeid + 1, life |-> uLife]]]
             \/ UNCHANGED op
      BY <1>3, <2>3 DEF Establish
    <3> QED
      BY <1>3, <2>1, <2>3, <3>1 DEF Taken
  <2> QED
    BY <2>1, <2>2, <2>3
<1>4. /\ UNCHANGED <<mgrVars, bind, uLife, assocTS, crossed>>
      /\ callbacks /\ MayStart /\ op[s] = NoOp /\ bind[s] = NoBind
      /\ peerState = "Established" /\ uSeid + 1 <= MaxSeid
  BY DEF Establish
<1> QED
  BY <1>1, <1>2, <1>3, <1>4

\* The context and the binding that an establishment makes are typed.
LEMMA TakenTyped ==
    ASSUME TypeOK, NEW s \in Sess, Taken(s)
    PROVE  /\ [cp |-> cSeid + 1, up |-> uSeid + 1, owner |-> s, cLife |-> cLife] \in Contexts
           /\ [pc |-> "provisioned",
               b |-> [cp |-> cSeid + 1, up |-> uSeid + 1, life |-> uLife]] \in Ops
<1>1. cSeid + 1 \in 1..MaxSeid /\ uSeid + 1 \in 1..MaxSeid
  BY SxaAssumption DEF TypeOK, Taken, Seids
<1>2. [cp |-> cSeid + 1, up |-> uSeid + 1, life |-> uLife] \in Bindings
  BY <1>1, SxaAssumption DEF TypeOK, Bindings, Seids
<1> QED
  BY <1>1, <1>2 DEF TypeOK, Contexts, Ops, OpPcs

\* The types are kept by every step.
LEMMA Typed == ASSUME TypeOK, [Next]_vars PROVE TypeOK'
<1>1. ASSUME Manage \/ SetCallbacks \/ AssociateTimeout \/ HeartbeatTimeout PROVE TypeOK'
  <2>1. UNCHANGED <<cSeid, op, crossed, refused, cLife, uLife, uSeid>>
        /\ callbacks' \in {callbacks, TRUE} /\ store' \subseteq store
    BY <1>1 DEF Manage, SetCallbacks, AssociateTimeout, HeartbeatTimeout, Associate, Associated,
                AssociateNotify, Heartbeat, HeartbeatResponse, HeartbeatNotify, MarkDown,
                DownNotify, sessVars, uVars
  <2>2. mgr' \in MgrPcs /\ peerState' \in {"Pending", "Established", "Down"}
    BY <1>1 DEF Manage, SetCallbacks, AssociateTimeout, HeartbeatTimeout, Associate, Associated,
                AssociateNotify, Heartbeat, HeartbeatResponse, HeartbeatNotify, MarkDown,
                DownNotify, TypeOK, MgrPcs
  <2>3. seen' \in {seen, uLife} /\ peerTS' \in {peerTS, seen} /\ assocTS' \in {assocTS, cLife}
    BY <1>1 DEF Manage, SetCallbacks, AssociateTimeout, HeartbeatTimeout, Associate, Associated,
                AssociateNotify, Heartbeat, HeartbeatResponse, HeartbeatNotify, MarkDown,
                DownNotify, uVars
  <2>4. bind' \in {bind, [s \in Sess |-> NoBind]}
    BY <1>1 DEF Manage, SetCallbacks, AssociateTimeout, HeartbeatTimeout, Associate, Associated,
                AssociateNotify, Heartbeat, HeartbeatResponse, HeartbeatNotify, MarkDown,
                DownNotify, Invalidate, sessVars
  <2>5. bind' \in [Sess -> Bindings]
    BY <2>4, Nothing DEF TypeOK
  <2>6. seen' \in 0..MaxULives /\ peerTS' \in 0..MaxULives /\ assocTS' \in 0..MaxCLives
    BY <2>3, SxaAssumption DEF TypeOK
  <2> QED
    BY <2>1, <2>2, <2>5, <2>6 DEF TypeOK
<1>2. ASSUME NEW s \in Sess, Establish(s) PROVE TypeOK'
  <2>1. CASE Taken(s)
    <3>0. store \subseteq Contexts /\ op \in [Sess -> Ops] /\ uSeid \in Nat
      BY DEF TypeOK, Seids
    <3>1. store' \subseteq Contexts /\ op' \in [Sess -> Ops] /\ uSeid' \in Seids
      <4>1. store' \subseteq Contexts
        BY <2>1, <3>0, TakenTyped DEF Taken
      <4>2. op' \in [Sess -> Ops]
        BY <2>1, <3>0, TakenTyped DEF Taken
      <4>3. uSeid' \in Seids
        BY <2>1, <3>0, SxaAssumption DEF Taken, Seids
      <4> QED
        BY <4>1, <4>2, <4>3
    <3> QED
      BY <1>2, <3>1, EstablishEffect DEF TypeOK, mgrVars
  <2>2. CASE UNCHANGED <<op, store>> /\ uSeid' \in {uSeid, uSeid + 1} /\ uSeid + 1 <= MaxSeid
    <3>1. uSeid' \in Seids
      BY <2>2, SxaAssumption DEF TypeOK, Seids
    <3> QED
      BY <1>2, <2>2, <3>1, EstablishEffect DEF TypeOK, mgrVars
  <2> QED
    BY <1>2, <2>1, <2>2, EstablishEffect
<1>3. ASSUME NEW s \in Sess,
             Proceed(s) \/ StartRequest(s, "modify") \/ StartRequest(s, "delete")
      PROVE  TypeOK'
  <2>1. UNCHANGED <<mgrVars, cSeid, refused, uLife, assocTS, uSeid>> /\ store' \subseteq store
        /\ crossed' \in BOOLEAN
    BY <1>3 DEF Proceed, ModifyUplinkFAR, AbortCreate, SetPFCPBinding, ModifySession,
                DeleteSession, RequestTimeout, StartRequest, uVars, Touches, TypeOK
  <2>2. bind' \in [Sess -> Bindings]
    <3>1. op[s].b \in Bindings
      BY DEF TypeOK, Ops
    <3>2. bind' = bind \/ bind' = [bind EXCEPT ![s] = op[s].b]
          \/ bind' = [bind EXCEPT ![s] = NoBind]
      BY <1>3 DEF Proceed, ModifyUplinkFAR, AbortCreate, SetPFCPBinding, ModifySession,
                  DeleteSession, RequestTimeout, StartRequest
    <3> QED
      BY <3>1, <3>2, Nothing DEF TypeOK
  <2>3. op' \in [Sess -> Ops]
    <3>1. [pc |-> "modify", b |-> bind[s]] \in Ops /\ [pc |-> "delete", b |-> bind[s]] \in Ops
      BY DEF TypeOK, Ops, OpPcs
    <3>2. \/ op' = [op EXCEPT ![s] = NoOp]
          \/ \E l \in OpPcs : op' = [op EXCEPT ![s].pc = l]
          \/ op' = [op EXCEPT ![s] = [pc |-> "modify", b |-> bind[s]]]
          \/ op' = [op EXCEPT ![s] = [pc |-> "delete", b |-> bind[s]]]
      BY <1>3 DEF Proceed, ModifyUplinkFAR, AbortCreate, SetPFCPBinding, ModifySession,
                  DeleteSession, RequestTimeout, StartRequest, OpPcs
    <3> QED
      BY <3>1, <3>2, Nothing, GoesOn DEF TypeOK
  <2> QED
    BY <2>1, <2>2, <2>3 DEF TypeOK, mgrVars
<1>4. ASSUME URestart PROVE TypeOK'
  BY <1>4, SxaAssumption DEF URestart, TypeOK, cVars, Seids
<1>5. ASSUME CRestart PROVE TypeOK'
  <2>1. op' \in [Sess -> Ops] /\ bind' \in [Sess -> Bindings]
    BY <1>5, Nothing DEF CRestart, TypeOK
  <2>2. cLife' \in 1..MaxCLives
    BY <1>5, SxaAssumption DEF CRestart, TypeOK
  <2>3. mgr' \in MgrPcs /\ seen' \in 0..MaxULives /\ cSeid' \in Seids /\ callbacks' \in BOOLEAN
    <3>1. mgr' = "associate" /\ seen' = 0 /\ cSeid' = 0
      BY <1>5 DEF CRestart
    <3>2. callbacks' \in BOOLEAN
      BY <1>5, Zenon DEF CRestart
    <3> QED
      BY <3>1, <3>2, SxaAssumption DEF MgrPcs, Seids
  <2>4. peerTS' \in 0..MaxULives /\ peerState' \in {"Pending", "Established", "Down"}
    BY <1>5, SxaAssumption DEF CRestart, TypeOK
  <2> QED
    BY <1>5, <2>1, <2>2, <2>3, <2>4 DEF CRestart, TypeOK, uVars
<1>6. ASSUME UNCHANGED vars PROVE TypeOK'
  BY <1>6 DEF vars, cVars, uVars, TypeOK
<1> QED
  BY <1>1, <1>2, <1>3, <1>4, <1>5, <1>6 DEF Next

\* An establishment that SGW-U takes puts in one context, under new SEIDs; nothing
\* else puts one in, and only a restart of SGW-U takes its counter back.
LEMMA StoreSteps ==
    ASSUME TypeOK, [Next]_vars
    PROVE  \/ \E s \in Sess : Establish(s) /\ Taken(s)
           \/ store' \subseteq store /\ (uSeid' >= uSeid \/ store' = {})
<1>1. ASSUME NEW s \in Sess, Establish(s), ~Taken(s) PROVE store' = store /\ uSeid' >= uSeid
  BY <1>1, EstablishEffect DEF TypeOK, Seids
<1>2. ASSUME \A s \in Sess : ~Establish(s)
      PROVE  store' \subseteq store /\ (uSeid' = uSeid \/ store' = {})
  BY <1>2 DEF Next, Manage, SetCallbacks, AssociateTimeout, HeartbeatTimeout, Associate, Associated,
              AssociateNotify, Heartbeat, HeartbeatResponse, HeartbeatNotify, MarkDown,
              DownNotify, Proceed, ModifyUplinkFAR, AbortCreate, SetPFCPBinding, ModifySession,
              DeleteSession, RequestTimeout, StartRequest, URestart, CRestart, vars, uVars
<1>3. uSeid \in Nat
  BY DEF TypeOK, Seids
<1> QED
  BY <1>1, <1>2, <1>3

LEMMA SeidStep == ASSUME SeidInv, [Next]_vars PROVE SeidInv'
<1> USE DEF SeidInv
<1>1. TypeOK'
  BY Typed
<1>2. ASSUME store' \subseteq store, uSeid' >= uSeid \/ store' = {}
      PROVE  Numbered' /\ SeidsIdentify'
  <2>1. uSeid \in Nat /\ uSeid' \in Nat /\ \A c \in store : c.up \in Nat
    BY <1>1 DEF TypeOK, Seids, Contexts
  <2> QED
    BY <1>2, <2>1 DEF Numbered, SeidsIdentify
<1>3. ASSUME NEW s \in Sess, Taken(s) PROVE Numbered' /\ SeidsIdentify'
  <2> DEFINE n == [cp |-> cSeid + 1, up |-> uSeid + 1, owner |-> s, cLife |-> cLife]
  <2>1. n.cp = cSeid + 1 /\ n.up = uSeid + 1
    OBVIOUS
  <2>2. store' = store \cup {n} /\ uSeid' = uSeid + 1 /\ \A d \in store : d.cp # cSeid + 1
    BY <1>3 DEF Taken
  <2>3. uSeid \in Nat /\ \A c \in store : c.up \in Nat /\ c.up <= uSeid
    BY DEF TypeOK, Seids, Contexts, Numbered
  <2> HIDE DEF n
  <2>4. Numbered'
    BY <2>1, <2>2, <2>3 DEF Numbered
  <2>5. \A c \in store : c.cp # n.cp /\ c.up # n.up
    BY <2>1, <2>2, <2>3
  <2>6. SeidsIdentify'
    BY <2>2, <2>5 DEF SeidsIdentify
  <2> QED
    BY <2>4, <2>6
<1> QED
  BY <1>1, <1>2, <1>3, StoreSteps

LEMMA SeidInit == ASSUME Init PROVE SeidInv
<1>1. TypeOK
  <2>1. callbacks \in BOOLEAN /\ crossed \in BOOLEAN /\ refused \in BOOLEAN
    BY Zenon DEF Init
  <2>2. bind \in [Sess -> Bindings] /\ op \in [Sess -> Ops]
    BY Nothing DEF Init
  <2>3. /\ cLife \in 1..MaxCLives /\ uLife \in 1..MaxULives /\ assocTS \in 0..MaxCLives
        /\ seen \in 0..MaxULives /\ peerTS \in 0..MaxULives /\ cSeid \in Seids /\ uSeid \in Seids
    BY SxaAssumption DEF Init, Seids
  <2> QED
    BY <2>1, <2>2, <2>3 DEF Init, TypeOK, MgrPcs
<1> QED
  BY <1>1 DEF Init, SeidInv, Numbered, SeidsIdentify

LEMMA SeidInvariant == Spec => []SeidInv
  BY SeidInit, SeidStep, PTL DEF Spec

\* The state of the client and of the server stays typed through restarts of either:
\* no SEID beyond the counters is ever stored.
THEOREM TypeCorrect == Spec => []TypeOK
<1>1. SeidInv => TypeOK
  BY DEF SeidInv
<1> QED
  BY <1>1, SeidInvariant, PTL

\* handleSessionEstablishment: whatever SGW-C and SGW-U do, and whenever either
\* restarts, no two contexts of SGW-U share a CP-SEID or a UP-SEID.
THEOREM SeidsIdentifyHolds == Spec => []SeidsIdentify
<1>1. SeidInv => SeidsIdentify
  BY DEF SeidInv
<1> QED
  BY <1>1, SeidInvariant, PTL

-----------------------------------------------------------------------------
(* Bindings. The managePeer goroutine is between an association and its    *)
(* loss exactly while the peer is Established. All that SGW-C knows of the *)
(* life of SGW-U is current while SGW-U has an association, since a        *)
(* restart of SGW-U loses it and only a new life of the loop restores it.  *)

Looping == {"associateNotify", "heartbeat", "heartbeatResponse", "heartbeatNotify",
            "heartbeatFailed"}

Loop ==
    /\ peerState = "Established" <=> mgr \in Looping
    /\ seen <= uLife /\ peerTS <= uLife
    /\ mgr \in {"associated", "heartbeatResponse"} => seen # 0
    /\ mgr \in {"associated", "heartbeatResponse"} /\ assocTS # 0 => seen = uLife
    /\ mgr \in Looping => peerTS # 0
    /\ mgr \in Looping /\ assocTS # 0 => peerTS = uLife
    /\ mgr = "heartbeatNotify" => assocTS = 0

\* No procedure runs from the loss on, and no binding is left once it is reported.
Idle ==
    /\ mgr \in {"associate", "associated", "downNotify"} => \A s \in Sess : op[s] = NoOp
    /\ mgr \in {"associate", "associated"} => \A s \in Sess : bind[s] = NoBind

\* What there is to invalidate was made after the callbacks were registered.
Called == \A s \in Sess : bind[s] # NoBind \/ op[s] # NoOp => callbacks

\* A life of SGW-U that SGW-C has recorded is the life of every binding, but for the
\* moment between the record and the callback.
Fresh ==
    peerTS = uLife /\ mgr # "heartbeatNotify" =>
        \A s \in Sess : bind[s] # NoBind => bind[s].life = uLife

\* A procedure that creates a session holds a context of this life, and any
\* procedure does while SGW-U has an association.
Held ==
    \A s \in Sess :
        /\ op[s].pc \in {"provisioned", "forwarding"} => op[s].b.life = uLife
        /\ op[s] # NoOp /\ assocTS # 0 => op[s].b.life = uLife

\* A binding to this life of SGW-U names no context but its session's own.
OwnContext(s, b) ==
    /\ b.life <= uLife
    /\ b.life = uLife => b.up <= uSeid /\ \A c \in store : c.up = b.up => c.owner = s
Owns == \A s \in Sess : OwnContext(s, bind[s]) /\ OwnContext(s, op[s].b)

BindInv == SeidInv /\ Loop /\ Idle /\ Called /\ Fresh /\ Held /\ Owns /\ NoCrossSession

\* SGW-C forgets its sessions when it restarts, and no procedure spans the loss of the
\* association: the two conditions that the instances SxaCallback and SxaCross drop.
Contained == ~Recovery /\ ~OpsOutlive

\* The callback leaves no binding.
LEMMA Invalidated == ASSUME Called, Invalidate PROVE \A s \in Sess : bind'[s] = NoBind
  BY DEF Called, Invalidate

\* The empty binding names nothing, and what a binding names is kept while SGW-U
\* adds no context.
LEMMA NothingOwned == ASSUME TypeOK, NEW s \in Sess PROVE OwnContext(s, NoBind)
  BY Nothing DEF TypeOK, OwnContext
LEMMA OwnKept ==
    ASSUME TypeOK, UNCHANGED uLife, uSeid' \in Nat, uSeid' >= uSeid, store' \subseteq store,
           NEW s \in Sess, NEW b \in Bindings, OwnContext(s, b)
    PROVE  OwnContext(s, b)'
  BY DEF TypeOK, OwnContext, Seids, Bindings

\* The steps of managePeer.
LEMMA ManageSteps ==
    ASSUME BindInv, Contained, Manage \/ SetCallbacks \/ AssociateTimeout \/ HeartbeatTimeout
    PROVE  Loop' /\ Idle' /\ Called' /\ Fresh' /\ Held' /\ Owns' /\ NoCrossSession'
<1> USE DEF BindInv, SeidInv
<1>0. /\ uLife \in Nat \ {0} /\ cLife \in Nat \ {0} /\ seen \in Nat /\ peerTS \in Nat
      /\ assocTS \in Nat /\ uSeid \in Nat
  BY SxaAssumption DEF TypeOK, Seids
<1>1. UNCHANGED <<op, uLife, uSeid, crossed>> /\ store' \subseteq store
      /\ (callbacks => callbacks' = TRUE)
  BY DEF Manage, SetCallbacks, AssociateTimeout, HeartbeatTimeout, Associate, Associated,
         AssociateNotify, Heartbeat, HeartbeatResponse, HeartbeatNotify, MarkDown,
         DownNotify, sessVars, uVars, TypeOK
<1>2. \A s \in Sess : bind'[s] \in {bind[s], NoBind}
  <2>1. Invalidate \/ UNCHANGED bind
    BY DEF Manage, SetCallbacks, AssociateTimeout, HeartbeatTimeout, Associate, Associated,
           AssociateNotify, Heartbeat, HeartbeatResponse, HeartbeatNotify, MarkDown,
           DownNotify, sessVars
  <2> QED
    BY <2>1, Invalidated
<1>3. Loop'
  <2>1. CASE Associate \/ SetCallbacks \/ AssociateTimeout
    BY <1>0, <1>1, <2>1 DEF Loop, Looping, Associate, SetCallbacks, AssociateTimeout, uVars, TypeOK
  <2>2. CASE Associated
    BY <1>0, <1>1, <2>2 DEF Loop, Looping, Associated, uVars
  <2>3. CASE Heartbeat
    BY <1>0, <1>1, <2>3 DEF Loop, Looping, Heartbeat
  <2>4. CASE HeartbeatResponse
    BY <1>0, <1>1, <2>4 DEF Loop, Looping, HeartbeatResponse, IsRecoveryRestart, uVars
  <2>5. CASE AssociateNotify \/ HeartbeatNotify \/ MarkDown \/ DownNotify \/ HeartbeatTimeout
    BY <1>0, <1>1, <2>5 DEF Loop, Looping, AssociateNotify, HeartbeatNotify, MarkDown, DownNotify,
                            HeartbeatTimeout, uVars
  <2> QED
    BY <2>1, <2>2, <2>3, <2>4, <2>5 DEF Manage
<1>4. Idle'
  <2>1. CASE MarkDown
    BY <1>1, <2>1 DEF Idle, MarkDown, Quiet, Contained
  <2>2. CASE DownNotify
    BY <1>1, <2>2, Invalidated DEF Idle, DownNotify
  <2>3. CASE ~MarkDown /\ ~DownNotify
    <3>1. mgr' \in {"associate", "associated", "downNotify"} => mgr \in {"associate", "associated", mgr'}
      BY <2>3 DEF Manage, SetCallbacks, AssociateTimeout, HeartbeatTimeout, Associate, Associated,
             AssociateNotify, Heartbeat, HeartbeatResponse, HeartbeatNotify
    <3>2. mgr' \in {"associate", "associated"} => mgr \in {"associate", "associated"}
      BY <2>3 DEF Manage, SetCallbacks, AssociateTimeout, HeartbeatTimeout, Associate, Associated,
             AssociateNotify, Heartbeat, HeartbeatResponse, HeartbeatNotify
    <3> QED
      BY <1>1, <1>2, <3>1, <3>2 DEF Idle
  <2> QED
    BY <2>1, <2>2, <2>3
<1>5. Called'
  BY <1>1, <1>2 DEF Called
<1>6. Fresh'
  <2>1. CASE Associated
    BY <1>1, <1>2, <2>1 DEF Fresh, Idle, Associated
  <2>2. CASE HeartbeatResponse
    BY <1>1, <1>2, <2>2 DEF Fresh, Loop, Looping, HeartbeatResponse, IsRecoveryRestart
  <2>3. CASE HeartbeatNotify
    BY <2>3, Invalidated DEF Fresh, HeartbeatNotify
  <2>4. CASE ~Associated /\ ~HeartbeatResponse /\ ~HeartbeatNotify
    <3>1. peerTS' = peerTS /\ (mgr = "heartbeatNotify" => mgr' = "heartbeatNotify")
      BY <2>4 DEF Manage, SetCallbacks, AssociateTimeout, HeartbeatTimeout, Associate,
             AssociateNotify, Heartbeat, MarkDown, DownNotify
    <3> QED
      BY <1>1, <1>2, <3>1 DEF Fresh
  <2> QED
    BY <2>1, <2>2, <2>3, <2>4
<1>7. Held'
  <2>1. assocTS' # 0 => assocTS # 0 \/ mgr = "associate"
    BY DEF Manage, SetCallbacks, AssociateTimeout, HeartbeatTimeout, Associate, Associated,
           AssociateNotify, Heartbeat, HeartbeatResponse, HeartbeatNotify, MarkDown,
           DownNotify, uVars
  <2> QED
    BY <1>1, <2>1 DEF Held, Idle
<1>8. Owns'
  <2> SUFFICES ASSUME NEW s \in Sess PROVE (OwnContext(s, bind[s]) /\ OwnContext(s, op[s].b))'
    BY DEF Owns
  <2>1. bind[s] \in Bindings /\ op[s].b \in Bindings
    BY DEF TypeOK, Ops
  <2>2. PICK b \in Bindings, d \in Bindings, e \in Bindings :
            b = bind[s] /\ d = op[s].b /\ e = bind'[s]
    BY <1>2, <2>1, Nothing
  <2>3. OwnContext(s, b) /\ OwnContext(s, d) /\ OwnContext(s, e)
    BY <1>2, <2>2, NothingOwned DEF Owns
  <2>4. OwnContext(s, d)' /\ OwnContext(s, e)'
    BY <1>0, <1>1, <2>3, OwnKept
  <2> QED
    BY <1>1, <2>2, <2>4
<1>9. NoCrossSession'
  BY <1>1 DEF NoCrossSession
<1> QED
  BY <1>3, <1>4, <1>5, <1>6, <1>7, <1>8, <1>9

\* What a step of a procedure does to its session: it touches a context only through
\* the binding it holds, ends, goes on with that binding, or begins with the session's.
LEMMA ProcedureEffect ==
    ASSUME TypeOK, NEW s \in Sess,
           Proceed(s) \/ StartRequest(s, "modify") \/ StartRequest(s, "delete")
    PROVE  /\ UNCHANGED <<mgrVars, uLife, assocTS, uSeid>> /\ store' \subseteq store
           /\ \A r \in Sess : r # s => op'[r] = op[r] /\ bind'[r] = bind[r]
           /\ \/ bind'[s] \in {bind[s], NoBind}
              \/ op[s].pc = "forwarding" /\ bind'[s] = op[s].b
           /\ \/ op'[s] = NoOp
              \/ op[s].pc = "provisioned" /\ op'[s].b = op[s].b
              \/ /\ callbacks /\ peerState = "Established" /\ bind[s] # NoBind
                 /\ op'[s].b = bind[s] /\ op'[s].pc \in {"modify", "delete"}
           /\ crossed' = crossed \/ (Touches(s) /\ op[s] # NoOp)
<1>1. UNCHANGED <<mgrVars, uLife, assocTS, uSeid>> /\ store' \subseteq store
  BY DEF Proceed, ModifyUplinkFAR, AbortCreate, SetPFCPBinding, ModifySession,
         DeleteSession, RequestTimeout, StartRequest, uVars
<1>2. /\ \A r \in Sess : r # s => bind'[r] = bind[r]
      /\ bind'[s] \in {bind[s], NoBind} \/ (op[s].pc = "forwarding" /\ bind'[s] = op[s].b)
  <2>1. \/ bind' = bind \/ bind' = [bind EXCEPT ![s] = NoBind]
        \/ op[s].pc = "forwarding" /\ bind' = [bind EXCEPT ![s] = op[s].b]
    BY DEF Proceed, ModifyUplinkFAR, AbortCreate, SetPFCPBinding, ModifySession,
           DeleteSession, RequestTimeout, StartRequest
  <2> QED
    BY <2>1 DEF TypeOK
<1>3. \/ op' = [op EXCEPT ![s] = NoOp]
      \/ op[s].pc = "provisioned" /\ \E l \in OpPcs : op' = [op EXCEPT ![s].pc = l]
      \/ /\ callbacks /\ peerState = "Established" /\ bind[s] # NoBind
         /\ \E l \in {"modify", "delete"} : op' = [op EXCEPT ![s] = [pc |-> l, b |-> bind[s]]]
  BY DEF Proceed, ModifyUplinkFAR, AbortCreate, SetPFCPBinding, ModifySession,
         DeleteSession, RequestTimeout, StartRequest, OpPcs
<1>4. /\ \A r \in Sess : r # s => op'[r] = op[r]
      /\ \/ op'[s] = NoOp
         \/ op[s].pc = "provisioned" /\ op'[s].b = op[s].b
         \/ /\ callbacks /\ peerState = "Established" /\ bind[s] # NoBind
            /\ op'[s].b = bind[s] /\ op'[s].pc \in {"modify", "delete"}
  <2>1. op \in [Sess -> Ops]
    BY DEF TypeOK
  <2>2. CASE op' = [op EXCEPT ![s] = NoOp]
    BY <2>1, <2>2
  <2>3. CASE op[s].pc = "provisioned" /\ \E l \in OpPcs : op' = [op EXCEPT ![s].pc = l]
    BY <2>1, <2>3, GoesOn
  <2>4. CASE /\ callbacks /\ peerState = "Established" /\ bind[s] # NoBind
             /\ \E l \in {"modify", "delete"} : op' = [op EXCEPT ![s] = [pc |-> l, b |-> bind[s]]]
    BY <2>1, <2>4
  <2> QED
    BY <1>3, <2>2, <2>3, <2>4
<1>5. crossed' = crossed \/ (Touches(s) /\ op[s] # NoOp)
  <2>1. CASE ModifyUplinkFAR(s) \/ ModifySession(s) \/ DeleteSession(s)
    BY <2>1, Nothing DEF ModifyUplinkFAR, ModifySession, DeleteSession
  <2>2. CASE ~(ModifyUplinkFAR(s) \/ ModifySession(s) \/ DeleteSession(s))
    BY <2>2 DEF Proceed, AbortCreate, SetPFCPBinding, RequestTimeout, StartRequest
  <2> QED
    BY <2>1, <2>2
<1> QED
  BY <1>1, <1>2, <1>4, <1>5, Nothing

LEMMA ProcedureSteps ==
    ASSUME BindInv, Contained, NEW s \in Sess,
           Proceed(s) \/ StartRequest(s, "modify") \/ StartRequest(s, "delete")
    PROVE  Loop' /\ Idle' /\ Called' /\ Fresh' /\ Held' /\ Owns' /\ NoCrossSession'
<1> USE DEF BindInv, SeidInv
<1>0. /\ uLife \in Nat \ {0} /\ peerTS \in Nat /\ assocTS \in Nat /\ uSeid \in Nat
      /\ \A r \in Sess : bind[r] \in Bindings /\ op[r] \in Ops /\ op[r].b \in Bindings
  BY SxaAssumption DEF TypeOK, Seids, Ops
<1>1. /\ UNCHANGED <<cLife, callbacks, mgr, seen, peerState, peerTS, uLife, assocTS, uSeid>>
      /\ store' \subseteq store
      /\ \A r \in Sess : r # s => op'[r] = op[r] /\ bind'[r] = bind[r]
  BY ProcedureEffect DEF mgrVars
<1>2. bind'[s] \in {bind[s], NoBind} \/ (op[s].pc = "forwarding" /\ bind'[s] = op[s].b)
  BY ProcedureEffect
<1>3. \/ op'[s] = NoOp
      \/ op[s].pc = "provisioned" /\ op'[s].b = op[s].b
      \/ /\ callbacks /\ peerState = "Established" /\ bind[s] # NoBind
         /\ op'[s].b = bind[s] /\ op'[s].pc \in {"modify", "delete"}
  BY ProcedureEffect
<1>4. op[s] = NoOp => op[s].pc = "none"
  BY Nothing
<1>5. Loop'
  BY <1>1 DEF Loop
<1>6. Idle'
  BY <1>1, <1>2, <1>3, <1>4 DEF Idle, Loop, Looping
<1>7. Called'
  BY <1>1, <1>2, <1>3, <1>4 DEF Called
<1>8. Fresh'
  BY <1>1, <1>2 DEF Fresh, Held
<1>9. Held'
  <2>1. peerState = "Established" /\ assocTS # 0 /\ bind[s] # NoBind => bind[s].life = uLife
    BY DEF Loop, Fresh
  <2>2. op'[s].pc \in {"provisioned", "forwarding"} => op'[s].b.life = uLife
    BY <1>3, Nothing DEF Held
  <2>3. op'[s] # NoOp /\ assocTS # 0 => op'[s].b.life = uLife
    BY <1>3, <2>1 DEF Held
  <2> QED
    BY <1>1, <2>2, <2>3 DEF Held
<1>10. Owns'
  <2> SUFFICES ASSUME NEW r \in Sess PROVE (OwnContext(r, bind[r]) /\ OwnContext(r, op[r].b))'
    BY DEF Owns
  <2>1. bind'[r] \in {bind[r], NoBind, op[r].b} /\ op'[r].b \in {op[r].b, NoBind, bind[r]}
    BY <1>1, <1>2, <1>3, Nothing
  <2>2. \A b \in {bind[r], op[r].b, NoBind} : b \in Bindings /\ OwnContext(r, b)
    BY <1>0, Nothing, NothingOwned DEF Owns
  <2>3. PICK d \in Bindings, e \in Bindings :
            d = op'[r].b /\ e = bind'[r] /\ OwnContext(r, d) /\ OwnContext(r, e)
    BY <2>1, <2>2
  <2>4. OwnContext(r, d)' /\ OwnContext(r, e)'
    BY <1>0, <1>1, <2>3, OwnKept
  <2> QED
    BY <2>3, <2>4
<1>11. NoCrossSession'
  <2>1. ASSUME assocTS # 0, op[s] # NoOp, NEW c \in FindByUPSEID(op[s].b.up) PROVE c.owner = s
    <3>1. op[s].b.life = uLife
      BY <2>1 DEF Held
    <3> QED
      BY <2>1, <3>1 DEF Owns, OwnContext, FindByUPSEID
  <2> QED
    BY <2>1, ProcedureEffect DEF NoCrossSession, Touches
<1> QED
  BY <1>5, <1>6, <1>7, <1>8, <1>9, <1>10, <1>11

LEMMA EstablishSteps ==
    ASSUME BindInv, Contained, NEW s \in Sess, Establish(s)
    PROVE  Loop' /\ Idle' /\ Called' /\ Fresh' /\ Held' /\ Owns' /\ NoCrossSession'
<1> USE DEF BindInv, SeidInv
<1>0. /\ uLife \in Nat \ {0} /\ uSeid \in Nat
      /\ \A r \in Sess : bind[r] \in Bindings /\ op[r] \in Ops /\ op[r].b \in Bindings
  BY SxaAssumption DEF TypeOK, Seids, Ops
<1>1. /\ UNCHANGED <<cLife, callbacks, mgr, seen, peerState, peerTS, bind, uLife, assocTS, crossed>>
      /\ callbacks /\ op[s] = NoOp /\ peerState = "Established"
  BY EstablishEffect DEF mgrVars
<1>2. Loop' /\ Fresh' /\ NoCrossSession'
  BY <1>1 DEF Loop, Fresh, NoCrossSession
<1> DEFINE v == [cp |-> cSeid + 1, up |-> uSeid + 1, life |-> uLife]
           n == [cp |-> cSeid + 1, up |-> uSeid + 1, owner |-> s, cLife |-> cLife]
           o == [pc |-> "provisioned", b |-> v]
<1>3. /\ v.up = uSeid + 1 /\ v.life = uLife /\ n.up = uSeid + 1 /\ n.owner = s
      /\ o.pc = "provisioned" /\ o.b = v
  OBVIOUS
<1>4. \/ /\ store' = store \cup {n} /\ uSeid' = uSeid + 1
         /\ op' = [op EXCEPT ![s] = o] \/ op' = op
      \/ UNCHANGED <<op, store>> /\ uSeid' \in {uSeid, uSeid + 1}
  BY EstablishEffect DEF Taken
<1> HIDE DEF v, n, o
<1>5. \A r \in Sess : op'[r] = op[r] \/ (r = s /\ op'[r] = o /\ store' = store \cup {n} /\ uSeid' = uSeid + 1)
  BY <1>4 DEF TypeOK
<1>6. Idle' /\ Called' /\ Held'
  BY <1>1, <1>3, <1>5 DEF Idle, Called, Held, Loop, Looping
<1>7. Owns'
  <2> SUFFICES ASSUME NEW r \in Sess PROVE (OwnContext(r, bind[r]) /\ OwnContext(r, op[r].b))'
    BY DEF Owns
  <2>1. ASSUME NEW b \in Bindings, OwnContext(r, b) PROVE OwnContext(r, b)'
    BY <1>0, <1>1, <1>3, <1>4, <2>1 DEF OwnContext, Bindings, Seids
  <2>2. PICK b \in Bindings, d \in Bindings : b = bind[r] /\ d = op[r].b
    BY <1>0
  <2>3. OwnContext(r, b)' /\ OwnContext(r, d)'
    BY <2>1, <2>2 DEF Owns
  <2>4. CASE op'[r] = op[r]
    BY <1>1, <2>2, <2>3, <2>4
  <2>5. CASE r = s /\ op'[r] = o /\ store' = store \cup {n} /\ uSeid' = uSeid + 1
    <3>0. PICK w : w = v
      OBVIOUS
    <3>1. w.life <= uLife' /\ w.up <= uSeid'
      BY <1>0, <1>1, <1>3, <2>5, <3>0
    <3>2. \A c \in store : c.up \in Nat /\ c.up <= uSeid
      BY DEF TypeOK, Contexts, Numbered
    <3>3. \A c \in store' : c.up = w.up => c.owner = r
      BY <1>0, <1>3, <2>5, <3>0, <3>2
    <3>4. OwnContext(r, w)'
      BY <3>1, <3>3 DEF OwnContext
    <3>5. op'[r].b = w
      BY <1>3, <2>5, <3>0
    <3>6. OwnContext(r, op[r].b)'
      BY <3>4, <3>5
    <3> QED
      BY <1>1, <2>2, <2>3, <3>6
  <2> QED
    BY <1>5, <2>4, <2>5
<1> QED
  BY <1>2, <1>6, <1>7

LEMMA RestartSteps ==
    ASSUME BindInv, Contained, URestart \/ CRestart
    PROVE  Loop' /\ Idle' /\ Called' /\ Fresh' /\ Held' /\ Owns' /\ NoCrossSession'
<1> USE DEF BindInv, SeidInv
<1>0. /\ uLife \in Nat \ {0} /\ seen \in Nat /\ peerTS \in Nat /\ uSeid \in Nat
      /\ \A r \in Sess : bind[r] \in Bindings /\ op[r] \in Ops /\ op[r].b \in Bindings
  BY SxaAssumption DEF TypeOK, Seids, Ops
<1>1. CASE URestart
  <2>1. /\ uLife' = uLife + 1 /\ assocTS' = 0 /\ store' = {}
        /\ UNCHANGED <<mgr, seen, peerState, peerTS, callbacks, bind, op, crossed>>
    BY <1>1 DEF URestart, cVars
  <2>2. \A r \in Sess : op[r] = NoOp
    BY <1>1 DEF URestart, Quiet, Contained
  <2>3. Loop'
    BY <1>0, <2>1 DEF Loop
  <2>4. Fresh'
    BY <1>0, <2>1 DEF Loop, Fresh
  <2>5. Idle' /\ Called' /\ NoCrossSession'
    BY <2>1 DEF Idle, Called, NoCrossSession
  <2>6. Held'
    BY <2>1, <2>2, Nothing DEF Held
  <2>7. Owns'
    <3> SUFFICES ASSUME NEW r \in Sess PROVE (OwnContext(r, bind[r]) /\ OwnContext(r, op[r].b))'
      BY DEF Owns
    <3>1. bind[r].life \in Nat /\ bind[r].life <= uLife /\ op[r].b.life \in Nat /\ op[r].b.life <= uLife
      BY <1>0 DEF Bindings, Owns, OwnContext
    <3> QED
      BY <1>0, <2>1, <3>1 DEF OwnContext
  <2> QED
    BY <2>3, <2>4, <2>5, <2>6, <2>7
<1>2. CASE CRestart
  <2>1. /\ mgr' = "associate" /\ seen' = 0 /\ peerState' = "Pending" /\ peerTS' = 0
        /\ UNCHANGED <<uLife, assocTS, uSeid, store, crossed>>
    BY <1>2 DEF CRestart, Contained, uVars
  <2>2. \A r \in Sess : op'[r] = NoOp /\ bind'[r] = NoBind
    BY <1>2 DEF CRestart, Contained
  <2>3. Loop'
    BY <1>0, <2>1 DEF Loop, Looping
  <2>4. Idle' /\ Called' /\ Fresh' /\ NoCrossSession' /\ Held'
    BY <2>1, <2>2, Nothing DEF Idle, Called, Fresh, NoCrossSession, Held
  <2>5. Owns'
    <3>1. \A r \in Sess : OwnContext(r, NoBind)'
      BY <1>0, <2>1, Nothing DEF OwnContext
    <3> QED
      BY <2>2, <3>1, Nothing DEF Owns
  <2> QED
    BY <2>3, <2>4, <2>5
<1> QED
  BY <1>1, <1>2

LEMMA BindStep == ASSUME BindInv, Contained, [Next]_vars PROVE BindInv'
<1>1. SeidInv'
  BY SeidStep DEF BindInv
<1>2. CASE UNCHANGED vars
  BY <1>1, <1>2 DEF BindInv, vars, cVars, uVars, Loop, Idle, Called, Fresh, Held, Owns, OwnContext,
                    NoCrossSession
<1>3. CASE Next
  <2>1. Loop' /\ Idle' /\ Called' /\ Fresh' /\ Held' /\ Owns' /\ NoCrossSession'
    BY <1>3, ManageSteps, ProcedureSteps, EstablishSteps, RestartSteps DEF Next
  <2> QED
    BY <1>1, <2>1 DEF BindInv
<1> QED
  BY <1>2, <1>3

LEMMA BindInit == ASSUME Init PROVE BindInv
<1>1. \A s \in Sess : bind[s] = NoBind /\ op[s] = NoOp
  BY DEF Init
<1>2. SeidInv
  BY SeidInit
<1>3. Owns
  BY <1>1, <1>2, Nothing, NothingOwned DEF Owns, SeidInv
<1>4. Loop
  BY DEF Init, Loop, Looping
<1> QED
  BY <1>1, <1>2, <1>3, <1>4, Nothing DEF Init, BindInv, Idle, Called, Fresh, Held, NoCrossSession

LEMMA BindInvariant == ASSUME Contained PROVE Spec => []BindInv
  BY BindInit, BindStep, PTL DEF Spec

\* notifyPeerRestart and InvalidatePFCPBindingsForPeer: for any number of sessions and
\* of restarts of both sides, once the heartbeat loop of SGW-C has recorded the life of
\* SGW-U and goes on, every binding is to a context of that life.
THEOREM NoStaleBindingHolds == ASSUME Contained PROVE Spec => []NoStaleBinding
<1>1. BindInv => NoStaleBinding
  BY DEF BindInv, Fresh, NoStaleBinding
<1> QED
  BY <1>1, BindInvariant, PTL

\* handleSessionModification and handleSessionDeletion find a context by its UP-SEID
\* alone, and a restarted SGW-U gives the same ones out again: still no request for a
\* session is applied to the context of another.
THEOREM NoCrossSessionHolds == ASSUME Contained PROVE Spec => []NoCrossSession
<1>1. BindInv => NoCrossSession
  BY DEF BindInv
<1> QED
  BY <1>1, BindInvariant, PTL

-----------------------------------------------------------------------------
(* The wire. Each endpoint is at either end, so everything is proved once. *)

\* A datagram is of a transaction that was opened, carries the number of its request,
\* and comes from the side that opened it exactly if it is the request.
Sane(m) ==
    /\ m.txn.n <= opened[m.txn.from]
    /\ m.seq = seqOf[m.txn]
    /\ m.kind = "request" <=> m.from = m.txn.from

\* So is every datagram on its way, being handled, or cached by its sender.
Traffic ==
    /\ \A m \in net : Sane(m)
    /\ \A e \in Ends : \A m \in inFlight[e] : Sane(m) /\ m.from # e
    /\ \A e \in Ends : \A m \in cache[e] : Sane(m) /\ m.kind = "response" /\ m.from = e

\* An endpoint handles one datagram of a number at a time, and none that it answers
\* from its cache.
Guarded ==
    \A e \in Ends :
        /\ \A h, g \in inFlight[e] : h.seq = g.seq => h = g
        /\ \A h \in inFlight[e], r \in cache[e] : h.seq # r.seq

\* Endpoint e is handling or has answered the request of t in this life.
Busy(e, t) ==
    \/ \E h \in inFlight[e] : h.kind = "request" /\ h.txn = t
    \/ \E r \in cache[e] : r.txn = t

\* A request was executed at most once in every life that has ended, and once more in
\* this one only if the endpoint still knows of it.
Counted ==
    \A t \in Txns, e \in Ends :
        e # t.from =>
            /\ executed[t] <= restarts[e] \/ (executed[t] = restarts[e] + 1 /\ Busy(e, t))
            /\ (\E h \in inFlight[e] : h.kind = "request" /\ h.txn = t) => executed[t] >= 1

\* A number given out in this life was given to a transaction, and what is pending
\* under it is a Send that has not returned.
Opened ==
    /\ \A e \in Ends : seqVal[e] <= opened[e]
    /\ \A t \in Txns : status[t] # "new" => t.n <= opened[t.from] /\ seqOf[t] \in Seqs
    /\ \A e \in Ends : \A p \in pending[e] :
          p.txn.from = e /\ p.seq = seqOf[p.txn] /\ status[p.txn] = "sending"

WireInv == WireTypeOK /\ Traffic /\ Guarded /\ Counted /\ Opened

\* The fields of transactions and of datagrams.
LEMMA Fields ==
    /\ \A t \in Txns : t.from \in Ends /\ t.n \in 1..MaxSends
    /\ \A m \in Msgs : /\ m.from \in Ends /\ m.seq \in Seqs /\ m.txn \in Txns
                            /\ m.kind \in {"request", "response"}
  BY DEF Txns, Msgs

\* An endpoint's peer is the other one.
LEMMA TwoEnds ==
    ASSUME NEW e \in Ends
    PROVE  /\ Peer(e) \in Ends /\ Peer(e) # e
           /\ \A f \in Ends : f # e => f = Peer(e)
<1>1. \E f \in Ends : f # e
  BY PfcpTransportAssumption
<1>2. Peer(e) \in Ends /\ Peer(e) # e
  BY <1>1, Zenon DEF Peer
<1> QED
  BY <1>2, PfcpTransportAssumption

\* A step that opens no transaction keeps what is known of the datagrams.
LEMMA SaneKept ==
    ASSUME UNCHANGED <<opened, seqOf>>, NEW m, Sane(m) PROVE Sane(m)'
  BY DEF Sane

\* Send: the transaction is new, and the number it is given is the next.
LEMMA SendStep ==
    ASSUME WireInv, NEW e \in Ends, Send(e)
    PROVE  WireInv'
<1> USE DEF WireInv
<1>1. opened[e] \in Nat /\ seqVal[e] \in Nat /\ opened[e] < MaxSends /\ seqVal[e] <= opened[e]
  BY DEF WireTypeOK, Send, Opened
<1>2. PICK t, q : t = [from |-> e, n |-> opened[e] + 1] /\ q = seqVal[e] + 1
  OBVIOUS
<1>3. PICK d, p : d = [from |-> e, seq |-> q, kind |-> "request", txn |-> t]
                  /\ p = [seq |-> q, txn |-> t]
  OBVIOUS
<1>4. t \in Txns /\ q \in Seqs /\ t.from = e /\ t.n = opened[e] + 1
  BY <1>1, <1>2, PfcpTransportAssumption DEF Txns, Seqs
<1>5. /\ d \in Msgs /\ d.from = e /\ d.seq = q /\ d.kind = "request" /\ d.txn = t
      /\ p \in [seq : Seqs, txn : Txns] /\ p.seq = q /\ p.txn = t
  BY <1>3, <1>4 DEF Msgs
<1>6. /\ opened' = [opened EXCEPT ![e] = opened[e] + 1] /\ seqVal' = [seqVal EXCEPT ![e] = q]
      /\ status' = [status EXCEPT ![t] = "sending"] /\ seqOf' = [seqOf EXCEPT ![t] = q]
      /\ attempt' = [attempt EXCEPT ![t] = 1]
      /\ pending' = [pending EXCEPT ![e] = {x \in pending[e] : x.seq # q} \cup {p}]
      /\ net' = net \cup {d}
      /\ UNCHANGED <<answer, cache, inFlight, executed, restarts>>
  BY <1>2, <1>3 DEF Send, AllocSeq
<1>7. WireTypeOK'
  <2>1. opened[e] + 1 \in 0..MaxSends /\ q \in 0..MaxSends /\ 1 \in 0..N1
    BY <1>1, <1>4, PfcpTransportAssumption DEF Seqs
  <2>2. opened' \in [Ends -> 0..MaxSends] /\ seqVal' \in [Ends -> 0..MaxSends]
        /\ seqOf' \in [Txns -> 0..MaxSends]
    BY <1>6, <2>1 DEF WireTypeOK
  <2>3. /\ status' \in [Txns -> {"new", "sending", "answered", "failed"}]
        /\ attempt' \in [Txns -> 0..N1]
    BY <1>6, <2>1 DEF WireTypeOK
  <2>4. pending' \in [Ends -> SUBSET [seq : Seqs, txn : Txns]] /\ net' \subseteq Msgs
    BY <1>5, <1>6 DEF WireTypeOK
  <2> QED
    BY <1>6, <2>2, <2>3, <2>4 DEF WireTypeOK
<1>8. \A u \in Txns : u # t => seqOf'[u] = seqOf[u] /\ status'[u] = status[u]
  BY <1>6 DEF WireTypeOK
<1>9. /\ seqOf'[t] = q /\ status'[t] = "sending" /\ seqVal'[e] = q /\ opened'[e] = opened[e] + 1
      /\ pending'[e] = {x \in pending[e] : x.seq # q} \cup {p}
      /\ \A f \in Ends : f # e => /\ seqVal'[f] = seqVal[f] /\ opened'[f] = opened[f]
                                  /\ pending'[f] = pending[f]
  BY <1>4, <1>6 DEF WireTypeOK
<1>10. \A f \in Ends : opened'[f] \in Nat /\ opened[f] \in Nat /\ opened'[f] >= opened[f]
  BY <1>9 DEF WireTypeOK
<1>11. \A u \in Txns : u.n <= opened[u.from] => u # t
  BY <1>1, <1>4
<1>12. ASSUME NEW m \in Msgs, Sane(m) PROVE Sane(m)'
  <2>1. m.txn \in Txns /\ m.txn.n <= opened[m.txn.from] /\ m.txn.from \in Ends /\ m.txn.n \in Nat
    BY <1>12, Fields DEF Sane
  <2> QED
    BY <1>8, <1>10, <1>11, <1>12, <2>1 DEF Sane
<1>13. Sane(d)'
  BY <1>1, <1>4, <1>5, <1>9 DEF Sane
<1>14. Traffic'
  <2>1. /\ net \subseteq Msgs
        /\ \A f \in Ends : inFlight[f] \subseteq Msgs /\ cache[f] \subseteq Msgs
    BY DEF WireTypeOK
  <2> QED
    BY <1>6, <1>12, <1>13, <2>1 DEF Traffic
<1>15. Guarded' /\ Counted'
  BY <1>6 DEF Guarded, Counted, Busy
<1>16. Opened'
  <2>1. \A f \in Ends : seqVal'[f] <= opened'[f]
    BY <1>1, <1>2, <1>9 DEF Opened
  <2>2. \A u \in Txns : status'[u] # "new" => u.n <= opened'[u.from] /\ seqOf'[u] \in Seqs
    <3>1. ASSUME NEW u \in Txns, u # t, status'[u] # "new"
          PROVE  u.n <= opened'[u.from] /\ seqOf'[u] \in Seqs
      BY <1>8, <1>10, <3>1, Fields DEF Opened
    <3> QED
      BY <1>1, <1>4, <1>9, <3>1
  <2>3. ASSUME NEW f \in Ends, NEW x \in pending[f]
        PROVE  x.txn.from = f /\ x.seq = seqOf'[x.txn] /\ status'[x.txn] = "sending"
    <3>1. x.txn \in Txns /\ x.txn.from = f /\ x.seq = seqOf[x.txn] /\ status[x.txn] = "sending"
      BY <2>3 DEF Opened, WireTypeOK
    <3>2. x.txn.n <= opened[x.txn.from]
      BY <3>1 DEF Opened
    <3> QED
      BY <1>8, <1>11, <3>1, <3>2
  <2>4. \A f \in Ends : \A x \in pending'[f] : x = p \/ x \in pending[f]
    BY <1>9
  <2>5. p \in pending'[e] /\ \A f \in Ends : f # e => p \notin pending'[f]
    <3>1. p.txn.from = e
      BY <1>4, <1>5
    <3> QED
      BY <1>9, <2>3, <3>1
  <2> QED
    BY <1>4, <1>5, <1>9, <2>1, <2>2, <2>3, <2>4, <2>5 DEF Opened
<1> QED
  BY <1>7, <1>14, <1>15, <1>16

\* Retransmit, GiveUp and DeliverResponse: the side that opened the transaction.
LEMMA SenderSteps ==
    ASSUME WireInv,
           \/ \E t \in Txns : Retransmit(t) \/ GiveUp(t)
           \/ \E e \in Ends, m \in net : DeliverResponse(e, m)
    PROVE  WireInv'
<1> USE DEF WireInv
<1>1. UNCHANGED <<opened, seqVal, seqOf, cache, inFlight, executed, restarts>>
  BY DEF Retransmit, GiveUp, DeliverResponse
<1>2. Guarded' /\ Counted'
  BY <1>1 DEF Guarded, Counted, Busy
<1>3. ASSUME \A m \in net' : m \in net \/ Sane(m)' PROVE Traffic'
  BY <1>1, <1>3, SaneKept DEF Traffic
<1>4. ASSUME NEW t \in Txns, Retransmit(t) PROVE WireInv'
  <2>1. PICK d : d = [from |-> t.from, seq |-> seqOf[t], kind |-> "request", txn |-> t]
    OBVIOUS
  <2>2. t.from \in Ends /\ t.n <= opened[t.from] /\ seqOf[t] \in Seqs
    BY <1>4, Fields DEF Retransmit, Opened
  <2>3. /\ d \in Msgs /\ d.from = t.from /\ d.seq = seqOf[t] /\ d.kind = "request"
        /\ d.txn = t
    BY <2>1, <2>2 DEF Msgs
  <2>4. /\ net' = net \cup {d} /\ attempt' = [attempt EXCEPT ![t] = attempt[t] + 1]
        /\ attempt[t] < N1 /\ UNCHANGED <<status, answer, pending>>
    BY <1>4, <2>1 DEF Retransmit
  <2>5. WireTypeOK'
    <3>1. attempt[t] + 1 \in 0..N1
      BY <2>4, PfcpTransportAssumption DEF WireTypeOK
    <3>2. attempt' \in [Txns -> 0..N1] /\ net' \subseteq Msgs
      BY <2>3, <2>4, <3>1 DEF WireTypeOK
    <3> QED
      BY <1>1, <2>4, <3>2 DEF WireTypeOK
  <2>6. Sane(d)'
    BY <1>1, <2>2, <2>3 DEF Sane
  <2>7. Traffic'
    BY <1>3, <2>4, <2>6
  <2>8. Opened'
    BY <1>1, <2>4 DEF Opened
  <2> QED
    BY <1>2, <2>5, <2>7, <2>8
<1>5. ASSUME NEW t \in Txns, GiveUp(t) PROVE WireInv'
  <2>1. /\ status' = [status EXCEPT ![t] = "failed"]
        /\ pending' = [pending EXCEPT ![t.from] = {x \in pending[t.from] : x.seq # seqOf[t]}]
        /\ status[t] = "sending" /\ UNCHANGED <<net, attempt, answer>>
    BY <1>5 DEF GiveUp
  <2>2. WireTypeOK'
    <3>1. /\ status' \in [Txns -> {"new", "sending", "answered", "failed"}]
          /\ pending' \in [Ends -> SUBSET [seq : Seqs, txn : Txns]]
      BY <2>1 DEF WireTypeOK
    <3> QED
      BY <1>1, <2>1, <3>1 DEF WireTypeOK
  <2>3. Traffic'
    BY <1>3, <2>1
  <2>4. ASSUME NEW f \in Ends, NEW x \in pending'[f]
        PROVE  x.txn.from = f /\ x.seq = seqOf'[x.txn] /\ status'[x.txn] = "sending"
    <3>1. x \in pending[f] /\ (f = t.from => x.seq # seqOf[t])
      BY <2>1, <2>4 DEF WireTypeOK
    <3>2. x.txn.from = f /\ x.seq = seqOf[x.txn] /\ status[x.txn] = "sending" /\ x.txn \in Txns
      BY <3>1 DEF Opened, WireTypeOK
    <3>3. x.txn # t
      BY <3>1, <3>2
    <3> QED
      BY <1>1, <2>1, <3>2, <3>3 DEF WireTypeOK
  <2>5. \A u \in Txns : status'[u] # "new" => status[u] # "new"
    BY <2>1 DEF WireTypeOK
  <2>6. Opened'
    BY <1>1, <2>4, <2>5 DEF Opened
  <2> QED
    BY <1>2, <2>2, <2>3, <2>6
<1>6. ASSUME NEW e \in Ends, NEW m \in net, DeliverResponse(e, m) PROVE WireInv'
  <2>1. PICK p \in pending[e] : /\ pending' = [pending EXCEPT ![e] = pending[e] \ {p}]
                                /\ status' = [status EXCEPT ![p.txn] = "answered"]
                                /\ answer' \in {answer, [answer EXCEPT ![p.txn] = m]}
    BY <1>6 DEF DeliverResponse, Waiting
  <2>2. UNCHANGED <<net, attempt>> /\ m \in Msgs /\ p \in [seq : Seqs, txn : Txns]
    BY <1>6 DEF DeliverResponse, WireTypeOK
  <2>3. WireTypeOK'
    <3>1. /\ status' \in [Txns -> {"new", "sending", "answered", "failed"}]
          /\ pending' \in [Ends -> SUBSET [seq : Seqs, txn : Txns]]
          /\ answer' \in [Txns -> Msgs \cup {NoMsg}]
      BY <2>1, <2>2 DEF WireTypeOK
    <3> QED
      BY <1>1, <2>2, <3>1 DEF WireTypeOK
  <2>4. Traffic'
    BY <1>3, <2>2
  <2>5. ASSUME NEW f \in Ends, NEW x \in pending'[f]
        PROVE  x.txn.from = f /\ x.seq = seqOf'[x.txn] /\ status'[x.txn] = "sending"
    <3>1. x \in pending[f] /\ x # p
      <4>1. CASE f = e
        BY <2>1, <2>5, <4>1 DEF WireTypeOK
      <4>2. CASE f # e
        BY <2>1, <2>5, <4>2 DEF WireTypeOK, Opened
      <4> QED
        BY <4>1, <4>2
    <3>2. /\ x.txn.from = f /\ x.seq = seqOf[x.txn] /\ status[x.txn] = "sending"
          /\ x \in [seq : Seqs, txn : Txns] /\ p.seq = seqOf[p.txn]
      BY <3>1 DEF Opened, WireTypeOK
    <3>3. x.txn # p.txn
      BY <2>2, <3>1, <3>2
    <3> QED
      BY <1>1, <2>1, <2>2, <3>2, <3>3 DEF WireTypeOK
  <2>6. \A u \in Txns : status'[u] # "new" => status[u] # "new"
    BY <2>1, <2>2 DEF WireTypeOK, Opened
  <2>7. Opened'
    BY <1>1, <2>5, <2>6 DEF Opened
  <2> QED
    BY <1>2, <2>3, <2>4, <2>7
<1> QED
  BY <1>4, <1>5, <1>6

\* The endpoint that serves: what it knows of a request covers every copy of it.
LEMMA ServerSteps ==
    ASSUME WireInv,
           \/ \E e \in Ends, m \in net : ResendCached(e, m) \/ StartHandler(e, m)
           \/ \E e \in Ends : \E m \in inFlight[e] :
                 FinishHandler(e, m) \/ FinishUnanswered(e, m)
    PROVE  WireInv'
<1> USE DEF WireInv
<1>1. UNCHANGED <<seqVal, opened, status, seqOf, attempt, answer, pending, restarts>>
  BY DEF ResendCached, StartHandler, FinishHandler, FinishUnanswered,
         sendVars
<1>2. Opened'
  BY <1>1 DEF Opened
<1>3. ASSUME NEW e \in Ends, NEW m \in net, ResendCached(e, m) PROVE WireInv'
  <2>1. net' = net \cup Cached(e, m) /\ UNCHANGED <<cache, inFlight, executed>>
    BY <1>3 DEF ResendCached
  <2>2. Cached(e, m) \subseteq cache[e]
    BY DEF Cached
  <2>3. WireTypeOK'
    BY <1>1, <2>1, <2>2 DEF WireTypeOK
  <2>4. Traffic'
    BY <1>1, <2>1, <2>2, SaneKept DEF Traffic
  <2>5. Guarded' /\ Counted'
    BY <1>1, <2>1 DEF Guarded, Counted, Busy
  <2> QED
    BY <1>2, <2>3, <2>4, <2>5
<1>4. ASSUME NEW e \in Ends, NEW m \in net, StartHandler(e, m) PROVE WireInv'
  <2>1. /\ m.from # e /\ \A r \in cache[e] : r.seq # m.seq
        /\ \A h \in inFlight[e] : h.seq # m.seq
        /\ inFlight' = [inFlight EXCEPT ![e] = inFlight[e] \cup {m}]
        /\ executed' = IF m.kind = "request" THEN [executed EXCEPT ![m.txn] = executed[m.txn] + 1]
                       ELSE executed
        /\ UNCHANGED <<net, cache>>
    BY <1>4 DEF StartHandler, Cached, Handling
  <2>2. m \in Msgs /\ m.txn \in Txns /\ Sane(m)
    BY Fields DEF WireTypeOK, Traffic
  <2>3. WireTypeOK'
    <3>1. inFlight' \in [Ends -> SUBSET Msgs] /\ executed' \in [Txns -> Nat]
      BY <2>1, <2>2 DEF WireTypeOK
    <3> QED
      BY <1>1, <2>1, <3>1 DEF WireTypeOK
  <2>4. /\ inFlight'[e] = inFlight[e] \cup {m}
        /\ \A f \in Ends : f # e => inFlight'[f] = inFlight[f]
    BY <2>1 DEF WireTypeOK
  <2>5. Traffic'
    BY <1>1, <2>1, <2>2, <2>4, SaneKept DEF Traffic
  <2>6. Guarded'
    BY <2>1, <2>4 DEF Guarded
  <2>7. ASSUME NEW t \in Txns, NEW f \in Ends, f # t.from
        PROVE  /\ executed'[t] <= restarts'[f] \/ (executed'[t] = restarts'[f] + 1 /\ Busy(f, t)')
               /\ (\E h \in inFlight'[f] : h.kind = "request" /\ h.txn = t) => executed'[t] >= 1
    <3>1. /\ executed[t] \in Nat /\ restarts[f] \in Nat
          /\ executed[t] <= restarts[f] \/ (executed[t] = restarts[f] + 1 /\ Busy(f, t))
          /\ (\E h \in inFlight[f] : h.kind = "request" /\ h.txn = t) => executed[t] >= 1
      BY <2>7 DEF Counted, WireTypeOK
    <3>2. Busy(f, t) => Busy(f, t)'
      BY <2>1, <2>4 DEF Busy
    <3>3. CASE m.kind = "request" /\ m.txn = t
      <4>1. executed'[t] = executed[t] + 1
        BY <2>1, <3>3 DEF WireTypeOK
      <4>2. f = e
        BY <2>1, <2>2, <2>7, <3>3, TwoEnds, Fields DEF Sane
      <4>3. Busy(f, t)'
        BY <2>4, <3>3, <4>2 DEF Busy
      <4>4. ~Busy(f, t)
        BY <2>1, <2>2, <3>3, <4>2 DEF Busy, Traffic, Sane
      <4> QED
        BY <1>1, <3>1, <4>1, <4>3, <4>4
    <3>4. CASE ~(m.kind = "request" /\ m.txn = t)
      <4>1. executed'[t] = executed[t]
        BY <2>1, <2>2, <3>4 DEF WireTypeOK
      <4>2. (\E h \in inFlight'[f] : h.kind = "request" /\ h.txn = t)
              => \E h \in inFlight[f] : h.kind = "request" /\ h.txn = t
        BY <2>4, <3>4
      <4> QED
        BY <1>1, <3>1, <3>2, <4>1, <4>2
    <3> QED
      BY <3>3, <3>4
  <2>8. Counted'
    BY <2>7 DEF Counted
  <2> QED
    BY <1>2, <2>3, <2>5, <2>6, <2>8
<1>5. ASSUME NEW e \in Ends, NEW m \in inFlight[e], FinishHandler(e, m) PROVE WireInv'
  <2>0. m \in Msgs /\ m.txn \in Txns /\ m.seq \in Seqs /\ Sane(m) /\ m.from # e
    BY Fields DEF WireTypeOK, Traffic
  <2>1. PICK r : r = [from |-> e, seq |-> m.seq, kind |-> "response", txn |-> m.txn]
    OBVIOUS
  <2>2. r \in Msgs /\ r.from = e /\ r.seq = m.seq /\ r.kind = "response" /\ r.txn = m.txn
    BY <2>0, <2>1 DEF Msgs
  <2>3. /\ inFlight' = [inFlight EXCEPT ![e] = inFlight[e] \ {m}]
        /\ IF m.kind = "request"
           THEN net' = net \cup {r} /\ cache' = [cache EXCEPT ![e] = cache[e] \cup {r}]
           ELSE UNCHANGED <<net, cache>>
        /\ UNCHANGED executed
    BY <1>5, <2>1 DEF FinishHandler
  <2>4. WireTypeOK'
    <3>1. inFlight' \in [Ends -> SUBSET Msgs] /\ cache' \in [Ends -> SUBSET Msgs]
          /\ net' \subseteq Msgs
      BY <2>2, <2>3 DEF WireTypeOK
    <3> QED
      BY <1>1, <2>3, <3>1 DEF WireTypeOK
  <2>5. /\ inFlight'[e] = inFlight[e] \ {m}
        /\ m.kind = "request" => cache'[e] = cache[e] \cup {r}
        /\ m.kind # "request" => cache'[e] = cache[e]
        /\ \A f \in Ends : f # e => inFlight'[f] = inFlight[f] /\ cache'[f] = cache[f]
    BY <2>3 DEF WireTypeOK
  <2>6. m.kind = "request" => Sane(r)'
    BY <1>1, <2>0, <2>2 DEF Sane
  <2>7. Traffic'
    <3>1. \A x \in net' : Sane(x)'
      BY <1>1, <2>3, <2>6, SaneKept DEF Traffic
    <3>2. \A f \in Ends : \A x \in inFlight'[f] : Sane(x)' /\ x.from # f
      BY <1>1, <2>5, SaneKept DEF Traffic
    <3>3. \A f \in Ends : \A x \in cache'[f] : Sane(x)' /\ x.kind = "response" /\ x.from = f
      BY <1>1, <2>2, <2>5, <2>6, SaneKept DEF Traffic
    <3> QED
      BY <3>1, <3>2, <3>3 DEF Traffic
  <2>8. Guarded'
    BY <2>2, <2>5 DEF Guarded
  <2>9. ASSUME NEW t \in Txns, NEW f \in Ends PROVE Busy(f, t) => Busy(f, t)'
    <3>1. CASE f = e
      BY <2>2, <2>5, <3>1 DEF Busy
    <3>2. CASE f # e
      BY <2>5, <3>2 DEF Busy
    <3> QED
      BY <3>1, <3>2
  <2>10. Counted'
    BY <1>1, <2>3, <2>5, <2>9 DEF Counted
  <2> QED
    BY <1>2, <2>4, <2>7, <2>8, <2>10
<1>6. ASSUME NEW e \in Ends, NEW m \in inFlight[e], FinishUnanswered(e, m) PROVE WireInv'
  <2>0. m \in Msgs /\ m.txn \in Txns /\ Sane(m) /\ m.from # e /\ m.from \in Ends
    BY Fields DEF WireTypeOK, Traffic
  <2>1. /\ m.kind = "request" /\ inFlight' = [inFlight EXCEPT ![e] = inFlight[e] \ {m}]
        /\ executed' = [executed EXCEPT ![m.txn] = executed[m.txn] - 1]
        /\ UNCHANGED <<net, cache>>
    BY <1>6 DEF FinishUnanswered
  <2>2. e # m.txn.from
    BY <2>0, <2>1 DEF Sane
  <2>3. executed[m.txn] \in Nat /\ executed[m.txn] >= 1
    BY <2>0, <2>1, <2>2 DEF Counted, WireTypeOK
  <2>4. WireTypeOK'
    <3>0. executed[m.txn] - 1 \in Nat
      BY <2>3
    <3>1. inFlight' \in [Ends -> SUBSET Msgs] /\ executed' \in [Txns -> Nat]
      BY <2>1, <3>0 DEF WireTypeOK
    <3> QED
      BY <1>1, <2>1, <3>1 DEF WireTypeOK
  <2>5. /\ inFlight'[e] = inFlight[e] \ {m}
        /\ \A f \in Ends : f # e => inFlight'[f] = inFlight[f]
    BY <2>1 DEF WireTypeOK
  <2>6. Traffic'
    BY <1>1, <2>1, <2>5, SaneKept DEF Traffic
  <2>7. Guarded'
    BY <2>1, <2>5 DEF Guarded
  <2>8. ASSUME NEW t \in Txns, NEW f \in Ends, f # t.from
        PROVE  /\ executed'[t] <= restarts'[f] \/ (executed'[t] = restarts'[f] + 1 /\ Busy(f, t)')
               /\ (\E h \in inFlight'[f] : h.kind = "request" /\ h.txn = t) => executed'[t] >= 1
    <3>1. /\ executed[t] \in Nat /\ restarts[f] \in Nat
          /\ executed[t] <= restarts[f] \/ (executed[t] = restarts[f] + 1 /\ Busy(f, t))
          /\ (\E h \in inFlight[f] : h.kind = "request" /\ h.txn = t) => executed[t] >= 1
      BY <2>8 DEF Counted, WireTypeOK
    <3>2. CASE t = m.txn
      <4>1. executed'[t] = executed[t] - 1
        BY <2>0, <2>1, <3>2 DEF WireTypeOK
      <4>2. f = e
        BY <2>2, <2>8, <3>2, TwoEnds, Fields
      <4>3. ~\E h \in inFlight'[f] : h.kind = "request" /\ h.txn = t
        BY <2>0, <2>5, <3>2, <4>2 DEF Guarded, Traffic, Sane
      <4> QED
        BY <1>1, <3>1, <4>1, <4>3
    <3>3. CASE t # m.txn
      <4>1. executed'[t] = executed[t]
        BY <2>1, <3>3 DEF WireTypeOK
      <4>2. Busy(f, t) => Busy(f, t)'
        BY <2>1, <2>5, <3>3 DEF Busy
      <4>3. inFlight'[f] \subseteq inFlight[f]
        BY <2>5
      <4> QED
        BY <1>1, <3>1, <4>1, <4>2, <4>3
    <3> QED
      BY <3>2, <3>3
  <2>9. Counted'
    BY <2>8 DEF Counted
  <2> QED
    BY <1>2, <2>4, <2>6, <2>7, <2>9
<1> QED
  BY <1>3, <1>4, <1>5, <1>6

\* A restart ends one life of the endpoint: what it knew is gone, and counted.
LEMMA RestartStep ==
    ASSUME WireInv, NEW e \in Ends, Restart(e)
    PROVE  WireInv'
<1> USE DEF WireInv
<1>1. /\ UNCHANGED <<opened, seqOf, attempt, answer, executed>> /\ net' = {}
      /\ restarts[e] < MaxRestarts
      /\ restarts' = [restarts EXCEPT ![e] = restarts[e] + 1]
      /\ seqVal' = [seqVal EXCEPT ![e] = 0] /\ pending' = [pending EXCEPT ![e] = {}]
      /\ cache' = [cache EXCEPT ![e] = {}] /\ inFlight' = [inFlight EXCEPT ![e] = {}]
      /\ status' = [t \in Txns |-> IF t.from = e /\ status[t] = "sending"
                                        THEN "failed" ELSE status[t]]
  BY DEF Restart
<1>2. WireTypeOK'
  <2>1. restarts[e] + 1 \in 0..MaxRestarts /\ 0 \in 0..MaxSends
    BY <1>1, PfcpTransportAssumption DEF WireTypeOK
  <2>2. restarts' \in [Ends -> 0..MaxRestarts] /\ seqVal' \in [Ends -> 0..MaxSends]
    BY <1>1, <2>1 DEF WireTypeOK
  <2>3. status' \in [Txns -> {"new", "sending", "answered", "failed"}]
    BY <1>1 DEF WireTypeOK
  <2>4. /\ pending' \in [Ends -> SUBSET [seq : Seqs, txn : Txns]]
        /\ cache' \in [Ends -> SUBSET Msgs] /\ inFlight' \in [Ends -> SUBSET Msgs]
    BY <1>1 DEF WireTypeOK
  <2> QED
    BY <1>1, <2>2, <2>3, <2>4 DEF WireTypeOK
<1>3. /\ restarts'[e] = restarts[e] + 1 /\ seqVal'[e] = 0
      /\ pending'[e] = {} /\ cache'[e] = {} /\ inFlight'[e] = {}
      /\ \A f \in Ends : f # e => /\ restarts'[f] = restarts[f] /\ seqVal'[f] = seqVal[f]
                                  /\ pending'[f] = pending[f] /\ cache'[f] = cache[f]
                                  /\ inFlight'[f] = inFlight[f]
  BY <1>1 DEF WireTypeOK
<1>4. Traffic' /\ Guarded'
  BY <1>1, <1>3, SaneKept DEF Traffic, Guarded
<1>5. Counted'
  <2>1. ASSUME NEW t \in Txns, NEW f \in Ends, f # t.from
        PROVE  /\ executed'[t] <= restarts'[f] \/ (executed'[t] = restarts'[f] + 1 /\ Busy(f, t)')
               /\ (\E h \in inFlight'[f] : h.kind = "request" /\ h.txn = t) => executed'[t] >= 1
    <3>1. executed[t] \in Nat /\ restarts[f] \in Nat
      BY DEF WireTypeOK
    <3>2. CASE f = e
      BY <1>1, <1>3, <2>1, <3>1, <3>2 DEF Counted
    <3>3. CASE f # e
      BY <1>1, <1>3, <2>1, <3>1, <3>3 DEF Counted, Busy
    <3> QED
      BY <3>2, <3>3
  <2> QED
    BY <2>1 DEF Counted
<1>6. Opened'
  <2>1. \A f \in Ends : seqVal'[f] <= opened'[f]
    BY <1>1, <1>3 DEF Opened, WireTypeOK
  <2>2. \A u \in Txns : status'[u] # "new" => status[u] # "new"
    BY <1>1
  <2>3. ASSUME NEW f \in Ends, NEW x \in pending'[f]
        PROVE  x.txn.from = f /\ x.seq = seqOf'[x.txn] /\ status'[x.txn] = "sending"
    <3>1. f # e /\ x \in pending[f]
      BY <1>3, <2>3
    <3>2. x.txn \in Txns /\ x.txn.from = f /\ x.seq = seqOf[x.txn] /\ status[x.txn] = "sending"
      BY <3>1 DEF Opened, WireTypeOK
    <3> QED
      BY <1>1, <3>1, <3>2
  <2> QED
    BY <1>1, <2>1, <2>2, <2>3 DEF Opened
<1> QED
  BY <1>2, <1>4, <1>5, <1>6

LEMMA WireStep ==
    ASSUME WireInv, [WireNext]_wireVars PROVE WireInv'
<1>1. CASE UNCHANGED wireVars
  BY <1>1 DEF WireInv, wireVars, sendVars, WireTypeOK, Traffic, Sane, Guarded, Counted, Busy,
              Opened
<1>2. CASE WireNext
  BY <1>2, SendStep, SenderSteps, ServerSteps, RestartStep DEF WireNext
<1> QED
  BY <1>1, <1>2

LEMMA WireInitial == ASSUME WireInit PROVE WireInv
<1>1. WireTypeOK
  BY PfcpTransportAssumption DEF WireInit, WireTypeOK
<1>2. Traffic /\ Guarded
  BY DEF WireInit, Traffic, Guarded
<1>3. Counted
  BY DEF WireInit, Counted
<1>4. Opened
  BY DEF WireInit, Opened
<1> QED
  BY <1>1, <1>2, <1>3, <1>4 DEF WireInv

LEMMA WireInvariant == WireSpec => []WireInv
  BY WireInitial, WireStep, PTL DEF WireSpec

\* Both endpoints stay typed; above all, no handler is uncounted that never ran.
THEOREM WireTypeCorrect == WireSpec => []WireTypeOK
<1>1. WireInv => WireTypeOK
  BY DEF WireInv
<1> QED
  BY <1>1, WireInvariant, PTL

\* dispatch of the PFCP Conn: whoever opens transactions, whoever restarts, and however
\* many copies of a request arrive, a handler runs to an answer at most once in each
\* life of the endpoint that serves the request.
THEOREM ExecutedOnceHolds == WireSpec => []ExecutedOnce
<1>1. ASSUME WireInv PROVE ExecutedOnce
  <2>1. ASSUME NEW t \in Txns PROVE executed[t] <= restarts[Peer(t.from)] + 1
    <3>1. PICK f \in Ends : f = Peer(t.from) /\ f # t.from
      BY TwoEnds, Fields
    <3>2. executed[t] \in Nat /\ restarts[f] \in Nat
      BY <1>1 DEF WireInv, WireTypeOK
    <3>3. executed[t] <= restarts[f] \/ executed[t] = restarts[f] + 1
      BY <1>1, <3>1 DEF WireInv, Counted
    <3> QED
      BY <3>1, <3>2, <3>3
  <2> QED
    BY <2>1 DEF ExecutedOnce
<1> QED
  BY <1>1, WireInvariant, PTL

\* While endpoint i alone opens transactions and does not restart, the number of a
\* request is the number of its transaction.
Straight(i) ==
    /\ \A f \in Ends : f # i => opened[f] = 0
    /\ seqVal[i] = opened[i]
    /\ \A t \in Txns : t.n <= opened[t.from] => seqOf[t] = t.n

LEMMA StraightStep ==
    ASSUME NEW i \in Ends, Initiators \subseteq {i}, i \notin Restarters,
           WireInv, Straight(i), OwnResponse, [WireNext]_wireVars
    PROVE  Straight(i)' /\ OwnResponse'
<1>0. \A f \in Ends : opened[f] \in Nat
  BY DEF WireInv, WireTypeOK
<1>1. ASSUME NEW e \in Ends, Send(e) PROVE Straight(i)' /\ OwnResponse'
  <2>1. PICK t, q : t = [from |-> e, n |-> opened[e] + 1] /\ q = seqVal[e] + 1
    OBVIOUS
  <2>2. /\ e = i /\ opened' = [opened EXCEPT ![e] = opened[e] + 1] /\ UNCHANGED answer
        /\ seqVal' = [seqVal EXCEPT ![e] = q] /\ seqOf' = [seqOf EXCEPT ![t] = q]
    BY <1>1, <2>1 DEF Send, AllocSeq
  <2>3. /\ opened'[i] = opened[i] + 1 /\ seqVal'[i] = opened[i] + 1
        /\ \A f \in Ends : f # i => opened'[f] = opened[f]
    BY <2>1, <2>2 DEF WireInv, WireTypeOK, Straight
  <2>4. ASSUME NEW u \in Txns, u.n <= opened'[u.from] PROVE seqOf'[u] = u.n
    <3>1. u.from \in Ends /\ u.n \in Nat /\ u = [from |-> u.from, n |-> u.n]
      BY DEF Txns
    <3>2. CASE u = t
      BY <2>1, <2>2, <3>2 DEF WireInv, WireTypeOK, Straight
    <3>3. CASE u # t
      <4>1. u.from # i \/ u.n # opened[i] + 1
        BY <2>1, <2>2, <3>1, <3>3
      <4>2. u.n <= opened[u.from]
        BY <1>0, <2>3, <2>4, <3>1, <4>1
      <4>3. seqOf'[u] = seqOf[u]
        BY <2>2, <3>3 DEF WireInv, WireTypeOK
      <4> QED
        BY <4>2, <4>3 DEF Straight
    <3> QED
      BY <3>2, <3>3
  <2>5. OwnResponse'
    BY <2>2 DEF OwnResponse
  <2> QED
    BY <2>3, <2>4, <2>5 DEF Straight
<1>2. ASSUME NEW e \in Ends, NEW m \in net, DeliverResponse(e, m)
      PROVE  Straight(i)' /\ OwnResponse'
  <2>1. PICK p \in pending[e] : p.seq = m.seq /\ answer' \in {answer, [answer EXCEPT ![p.txn] = m]}
    BY <1>2 DEF DeliverResponse, Waiting
  <2>2. /\ p \in [seq : Seqs, txn : Txns] /\ m \in Msgs /\ p.txn \in Txns
        /\ m.txn \in Txns /\ Sane(m) /\ m.from # e
    BY <1>2, Fields DEF WireInv, WireTypeOK, Traffic, DeliverResponse
  <2>3. p.txn.from = e /\ p.seq = seqOf[p.txn] /\ p.txn.n <= opened[e]
    BY <2>2 DEF WireInv, Opened
  <2>4. e = i /\ m.txn.from = i
    BY <1>0, <2>2, <2>3, Fields DEF Straight, Sane
  <2>5. m.kind = "response"
    BY <2>2, <2>4, Fields DEF Sane
  <2>6. m.txn.n = p.txn.n
    BY <2>1, <2>2, <2>3 DEF Straight, Sane
  <2>7. m.txn = p.txn
    BY <2>2, <2>3, <2>4, <2>6 DEF Txns
  <2>8. OwnResponse'
    BY <2>1, <2>2, <2>5, <2>7 DEF OwnResponse, WireInv, WireTypeOK
  <2>9. Straight(i)'
    BY <1>2 DEF DeliverResponse, Straight
  <2> QED
    BY <2>8, <2>9
<1>3. ASSUME NEW e \in Ends, Restart(e) PROVE Straight(i)' /\ OwnResponse'
  <2>1. e # i /\ UNCHANGED <<opened, seqOf, answer>> /\ seqVal' = [seqVal EXCEPT ![e] = 0]
    BY <1>3 DEF Restart
  <2>2. seqVal'[i] = seqVal[i]
    BY <2>1 DEF WireInv, WireTypeOK
  <2> QED
    BY <2>1, <2>2 DEF Straight, OwnResponse
<1>4. ASSUME UNCHANGED <<opened, seqVal, seqOf, answer>> PROVE Straight(i)' /\ OwnResponse'
  BY <1>4 DEF Straight, OwnResponse
<1>5. ASSUME \/ \E t \in Txns : Retransmit(t) \/ GiveUp(t)
             \/ \E e \in Ends, m \in net : ResendCached(e, m) \/ StartHandler(e, m)
             \/ \E e \in Ends : \E m \in inFlight[e] :
                   FinishHandler(e, m) \/ FinishUnanswered(e, m)
             \/ UNCHANGED wireVars
      PROVE  UNCHANGED <<opened, seqVal, seqOf, answer>>
  BY <1>5 DEF Retransmit, GiveUp, ResendCached, StartHandler,
              FinishHandler, FinishUnanswered, wireVars, sendVars
<1> QED
  BY <1>1, <1>2, <1>3, <1>4, <1>5 DEF WireNext

\* deliverResponse matches a datagram by its number alone. When one endpoint opens all
\* transactions and does not restart, the datagram Send returns is still the response
\* to its own request, however many are outstanding, lost, repeated or reordered and
\* whenever the other endpoint restarts.
THEOREM OwnResponseHolds ==
    ASSUME NEW i \in Ends, Initiators \subseteq {i}, i \notin Restarters
    PROVE  WireSpec => []OwnResponse
<1>1. WireInit => Straight(i) /\ OwnResponse
  <2> SUFFICES ASSUME WireInit PROVE Straight(i) /\ OwnResponse
    OBVIOUS
  <2>1. Straight(i)
    BY Fields DEF WireInit, Straight
  <2>2. OwnResponse
    BY DEF WireInit, OwnResponse
  <2> QED
    BY <2>1, <2>2
<1>2. WireInv /\ Straight(i) /\ OwnResponse /\ [WireNext]_wireVars
        => Straight(i)' /\ OwnResponse'
  BY StraightStep
<1> QED
  BY <1>1, <1>2, WireInvariant, PTL DEF WireSpec

-----------------------------------------------------------------------------
(* The user plane of SGW-U, behind the requests of Sxa.                    *)

Requests == [pc : {"new", "alloc", "store", "install", "rollback", "find", "lock", "choose",
                   "apply", "clear", "delete", "ok", "rejected"},
             op : ReqOps, r : Rules, tun : Tunnels \cup {NoTunnel}]
Packets  == [pc : {"idle", "look", "visit", "far", "send", "done"}, r : Rules,
             todo : SUBSET SEIDs, res : {"none", "sent", "dropped", "reported", "unknown"},
             tun : Tunnels \cup {NoTunnel}, was : BOOLEAN, known : BOOLEAN,
             idle : BOOLEAN, ok : SUBSET Tunnels]

\* A FAR forwards or has a reason for which it drops, never both.
Reasoned ==
    \A p \in Rules :
        /\ rules[p].act = "forw" => rules[p].why = "none"
        /\ rules[p].why # "none" => rules[p].act = "drop"

\* Where a request may be: a session that was never established has none but for its
\* establishment, and only modifications lock a session.
Placed(S, x) ==
    /\ S[x.r[1]] = "none" => x.pc \in {"new", "alloc", "store"}
    /\ x.pc = "find" => x.op \in SmrOps \cup {"delete"}
    /\ x.pc \in {"lock", "choose", "apply"} => x.op \in SmrOps

\* A session that was never established has no rule and no entry.
Untouched ==
    /\ \A s \in AtStart : st[s] # "none"
    /\ \A p \in Rules : st[p[1]] = "none" => ~There(rules, p) /\ bpf[p] = NoEntry
    /\ \A t \in Reqs : Placed(st, req[t])

\* The fast path has no entry for a rule, or the one compiled from its FAR, as long as
\* no write of a modification fails.
Whole == "apply" \notin MayFail
Mirrored ==
    /\ Whole => \A p \in Rules :
          There(rules, p) => bpf[p] \in {NoEntry, Compiled(p, rules[p])}
    /\ ~UseBPF => \A p \in Rules : bpf[p] = NoEntry

\* What a forwarder has noted of the rule of its packet is true, and the search of the
\* store has not passed the rule's session by.
Tracked(x) ==
    /\ Current(rules, x.r) \subseteq x.ok
    /\ x.known => InUse(st, rules, x.r)
    /\ x.idle => x.known /\ Released(st, rules, x.r)
    /\ x.pc = "visit" /\ x.known => x.r[1] \in x.todo
    /\ x.pc = "send" => x.tun \in x.ok /\ ~x.idle
    /\ Whole /\ x.pc = "done" /\ x.res = "sent" /\ x.was => x.tun \in x.ok
    /\ Whole /\ x.pc = "done" /\ x.idle => x.res = "reported"
    /\ x.pc = "done" /\ x.res = "unknown" => ~x.known
Watched == \A f \in Fwd : fwd[f].pc # "idle" => Tracked(fwd[f])

PlaneInv == PlaneTypeOK /\ Reasoned /\ Untouched /\ Mirrored /\ Watched

\* Values and their types.
LEMMA PlaneTypes ==
    ASSUME PlaneTypeOK
    PROVE  /\ st \in [SEIDs -> {"none", "in", "gone"}] /\ rules \in [Rules -> FAR]
           /\ bpf \in [Rules -> Entry]
           /\ req \in [Reqs -> Requests] /\ fwd \in [Fwd -> Packets]
  BY DEF PlaneTypeOK, Requests, Packets

LEMMA Pairs == \A p \in Rules : p[1] \in SEIDs /\ p[2] \in Ids
  BY DEF Rules

LEMMA PlaneValues ==
    /\ Initial \in FAR /\ Absent \in FAR
    /\ \A k \in Tunnels \cup {NoTunnel} : Forw(k) \in FAR
    /\ NoEntry \in Entry
    /\ \A s \in SEIDs : DefaultRule(s) \in Rules /\ DefaultRule(s)[1] = s
    /\ NewReq \in Requests /\ NewReq.pc = "new"
    /\ NoPacket \in Packets /\ NoPacket.pc = "idle"
<1>1. \E p \in Rules : TRUE
  <2>1. PICK s \in SEIDs, i \in Ids : TRUE
    BY RulesAssumption
  <2>2. <<s, i>> \in Rules
    BY DEF Rules
  <2> QED
    BY <2>2
<1>2. PICK r \in Rules : r = CHOOSE p \in Rules : TRUE
  <2>1. (CHOOSE p \in Rules : TRUE) \in Rules
    BY <1>1, Zenon
  <2> QED
    BY <2>1
<1>3. NewReq = [pc |-> "new", op |-> "none", r |-> r, tun |-> NoTunnel]
  BY <1>2 DEF NewReq
<1>4. NoPacket = [pc |-> "idle", r |-> r, todo |-> {}, res |-> "none", tun |-> NoTunnel,
                        was |-> FALSE, known |-> FALSE, idle |-> FALSE, ok |-> {}]
  BY <1>2 DEF NoPacket
<1>5. NewReq \in Requests /\ NewReq.pc = "new"
  BY <1>3 DEF Requests, ReqOps
<1>6. NoPacket \in Packets /\ NoPacket.pc = "idle"
  BY <1>4 DEF Packets
<1>7. ASSUME NEW s \in SEIDs
      PROVE  DefaultRule(s) \in Rules /\ DefaultRule(s)[1] = s
  <2>1. (CHOOSE i \in Default : TRUE) \in Default
    BY RulesAssumption
  <2>2. PICK j \in Ids : j = CHOOSE i \in Default : TRUE
    BY <2>1, RulesAssumption
  <2>3. DefaultRule(s) = <<s, j>>
    BY <2>2 DEF DefaultRule
  <2> QED
    BY <2>3 DEF Rules
<1>8. /\ Initial \in FAR /\ Absent \in FAR
      /\ \A k \in Tunnels \cup {NoTunnel} : Forw(k) \in FAR
      /\ NoEntry \in Entry
  BY DEF Initial, Absent, Forw, FAR, NoEntry, Entry
<1> QED
  BY <1>5, <1>6, <1>7, <1>8

\* An entry that forwards or drops does what the FAR says.
LEMMA CompiledTyped ==
    ASSUME NEW p \in Rules, NEW x \in FAR
    PROVE  /\ Compiled(p, x) \in Entry
           /\ Compiled(p, x).act = "forward" =>
                 x.act = "forw" /\ x.tun \in Tunnels /\ Compiled(p, x).tun = x.tun
           /\ Compiled(p, x).act = "drop" =>
                 x.act = "drop" /\ ~(p[2] \in Core /\ x.why = "release")
<1>1. x.tun \in Tunnels \cup {NoTunnel}
  BY DEF FAR
<1>2. CASE x.act = "forw" /\ x.tun # NoTunnel
  <2>1. Compiled(p, x) = [act |-> "forward", tun |-> x.tun]
    BY <1>2 DEF Compiled
  <2> QED
    BY <1>1, <1>2, <2>1 DEF Entry
<1>3. CASE x.act = "drop" /\ ~(p[2] \in Core /\ x.why = "release")
  <2>1. Compiled(p, x) = [act |-> "drop", tun |-> NoTunnel]
    BY <1>3 DEF Compiled
  <2> QED
    BY <1>3, <2>1 DEF Entry
<1>4. CASE /\ ~(x.act = "forw" /\ x.tun # NoTunnel)
           /\ ~(x.act = "drop" /\ ~(p[2] \in Core /\ x.why = "release"))
  <2>1. Compiled(p, x) = [act |-> "punt", tun |-> NoTunnel]
    BY <1>4 DEF Compiled
  <2> QED
    BY <2>1 DEF Entry
<1> QED
  BY <1>2, <1>3, <1>4

\* A request that moves on stays with its session.
LEMMA Moves ==
    ASSUME req \in [Reqs -> Requests], NEW t \in Reqs,
           NEW l \in {"store", "install", "rollback", "lock", "choose", "apply", "clear",
                      "delete", "ok", "rejected"},
           Go(t, l)
    PROVE  /\ req' \in [Reqs -> Requests] /\ req'[t].pc = l /\ req'[t].r = req[t].r /\ req'[t].op = req[t].op
           /\ \A u \in Reqs : u # t => req'[u] = req[u]
<1>1. PICK x \in Requests : x = req[t]
  OBVIOUS
<1>2. req' = [req EXCEPT ![t] = [x EXCEPT !.pc = l]]
  BY <1>1 DEF Go
<1>3. [x EXCEPT !.pc = l] \in Requests /\ [x EXCEPT !.pc = l].pc = l
      /\ [x EXCEPT !.pc = l].r = x.r /\ [x EXCEPT !.pc = l].op = x.op
  BY DEF Requests
<1> QED
  BY <1>1, <1>2, <1>3

\* Witness notes what has become of the rules, and keeps the notes true.
LEMMA WitnessKeeps ==
    ASSUME fwd \in [Fwd -> Packets], Watched, Witness
    PROVE  fwd' \in [Fwd -> Packets] /\ Watched'
<1>1. ASSUME NEW f \in Fwd PROVE fwd'[f] \in Packets /\ (fwd[f].pc # "idle" => Tracked(fwd[f]))'
  <2>1. PICK x \in Packets : x = fwd[f]
    OBVIOUS
  <2>2. CASE x.pc = "idle"
    BY <2>1, <2>2 DEF Witness
  <2>3. CASE x.pc # "idle"
    <3>1. PICK y : y = fwd'[f]
      OBVIOUS
    <3>2. y = [x EXCEPT !.ok = x.ok \cup Current(rules', x.r),
                        !.known = x.known /\ InUse(st', rules', x.r),
                        !.idle = x.idle /\ Released(st', rules', x.r)]
      BY <2>1, <2>3, <3>1 DEF Witness
    <3>3. /\ y.pc = x.pc /\ y.r = x.r /\ y.todo = x.todo /\ y.res = x.res /\ y.tun = x.tun
          /\ y.was = x.was
          /\ y.ok = x.ok \cup Current(rules', x.r)
          /\ y.known = (x.known /\ InUse(st', rules', x.r))
          /\ y.idle = (x.idle /\ Released(st', rules', x.r))
      BY <3>2 DEF Packets
    <3>4. y \in Packets
      <4>1. Current(rules', x.r) \subseteq Tunnels
        BY DEF Current
      <4>2. y.ok \in SUBSET Tunnels /\ y.known \in BOOLEAN /\ y.idle \in BOOLEAN
        BY <3>3, <4>1 DEF Packets
      <4> QED
        BY <3>2, <4>1 DEF Packets
    <3>5. Tracked(x)
      BY <2>1, <2>3 DEF Watched
    <3>6. x.known \in BOOLEAN /\ x.idle \in BOOLEAN
      BY DEF Packets
    <3>7. y.known <=> (x.known /\ InUse(st', rules', x.r))
      BY <3>3, <3>6
    <3>8. y.idle <=> (x.idle /\ Released(st', rules', x.r))
      BY <3>3, <3>6
    <3>9. Tracked(y)'
      BY <3>3, <3>5, <3>7, <3>8 DEF Tracked, Released
    <3> QED
      BY <3>1, <3>4, <3>9
  <2> QED
    BY <2>2, <2>3
<1>2. fwd' = [f \in Fwd |-> fwd'[f]]
  BY DEF Witness
<1>3. fwd' \in [Fwd -> Packets]
  BY <1>1, <1>2
<1>4. Watched'
  BY <1>1 DEF Watched
<1> QED
  BY <1>3, <1>4

\* A step of one forwarder changes nothing but its packet.
LEMMA PacketKeeps ==
    ASSUME PlaneInv, NEW f \in Fwd, NEW x \in Packets, Step(f, x), x.pc # "idle" => Tracked(x)
    PROVE  PlaneInv'
<1> USE DEF PlaneInv
<1>1. UNCHANGED <<st, rules, bpf, req>> /\ fwd' = [fwd EXCEPT ![f] = x] /\ fwd \in [Fwd -> Packets]
  BY PlaneTypes DEF Step
<1>2. fwd' \in [Fwd -> Packets] /\ fwd'[f] = x /\ \A g \in Fwd : g # f => fwd'[g] = fwd[g]
  BY <1>1
<1>3. PlaneTypeOK'
  BY <1>1, <1>2 DEF PlaneTypeOK, Packets
<1>4. Reasoned' /\ Untouched' /\ Mirrored'
  BY <1>1 DEF Reasoned, Untouched, Mirrored
<1>5. \A y : Tracked(y) => Tracked(y)'
  BY <1>1 DEF Tracked
<1>6. Watched'
  BY <1>2, <1>5 DEF Watched
<1> QED
  BY <1>3, <1>4, <1>6

\* The steps of a forwarder.
LEMMA PacketSteps ==
    ASSUME PlaneInv, NEW f \in Fwd,
           Forward(f) \/ \E p \in Rules : Arrive(f, p)
    PROVE  PlaneInv'
<1> USE DEF PlaneInv
<1>0. PICK w \in Packets : w = fwd[f]
  BY PlaneTypes
<1>1. w.pc # "idle" => Tracked(w)
  BY <1>0 DEF Watched
<1>2. /\ w.r \in Rules /\ w.r[1] \in SEIDs /\ rules[w.r] \in FAR
      /\ w.known \in BOOLEAN /\ w.idle \in BOOLEAN /\ w.was \in BOOLEAN /\ w.ok \subseteq Tunnels
      /\ w.tun \in Tunnels \cup {NoTunnel}
  BY Pairs, PlaneTypes DEF Packets
<1>3. CASE Look(f)
  <2>1. PICK x : x = [w EXCEPT !.pc = "visit", !.todo = {s \in SEIDs : st[s] = "in"}]
    OBVIOUS
  <2>2. /\ x \in Packets /\ x.pc = "visit" /\ x.todo = {s \in SEIDs : st[s] = "in"} /\ x.r = w.r
        /\ x.ok = w.ok /\ x.known = w.known /\ x.idle = w.idle
    BY <2>1 DEF Packets
  <2>3. w.pc = "look" /\ Step(f, x)
    BY <1>0, <1>3, <2>1 DEF Look
  <2>4. Tracked(x)
    BY <1>1, <1>2, <2>2, <2>3 DEF Tracked, InUse
  <2> QED
    BY <2>2, <2>3, <2>4, PacketKeeps
<1>4. CASE Unknown(f)
  <2>1. PICK x : x = [w EXCEPT !.pc = "done", !.todo = {}, !.res = "unknown", !.tun = NoTunnel]
    OBVIOUS
  <2>2. /\ x \in Packets /\ x.pc = "done" /\ x.res = "unknown" /\ x.r = w.r
        /\ x.ok = w.ok /\ x.known = w.known /\ x.idle = w.idle
    BY <2>1 DEF Packets
  <2>3. w.pc = "visit" /\ w.todo = {} /\ Step(f, x)
    BY <1>0, <1>4, <2>1 DEF Unknown, Done
  <2>4. Tracked(x)
    BY <1>1, <2>2, <2>3 DEF Tracked
  <2> QED
    BY <2>2, <2>3, <2>4, PacketKeeps
<1>5. ASSUME NEW s \in SEIDs, Visit(f, s) PROVE PlaneInv'
  <2>1. CASE Sees(f, s)
    <3>1. PICK x : x = [w EXCEPT !.pc = "far", !.todo = {}]
      OBVIOUS
    <3>2. /\ x \in Packets /\ x.pc = "far" /\ x.r = w.r
          /\ x.ok = w.ok /\ x.known = w.known /\ x.idle = w.idle
      BY <3>1 DEF Packets
    <3>3. w.pc = "visit" /\ Step(f, x)
      BY <1>0, <1>5, <2>1, <3>1 DEF Visit
    <3>4. Tracked(x)
      BY <1>1, <3>2, <3>3 DEF Tracked
    <3> QED
      BY <3>2, <3>3, <3>4, PacketKeeps
  <2>2. CASE ~Sees(f, s)
    <3>1. PICK x : x = [w EXCEPT !.todo = w.todo \ {s}]
      OBVIOUS
    <3>2. /\ x \in Packets /\ x.pc = w.pc /\ x.r = w.r /\ x.todo = w.todo \ {s}
          /\ x.ok = w.ok /\ x.known = w.known /\ x.idle = w.idle
      BY <3>1 DEF Packets
    <3>3. w.pc = "visit" /\ Step(f, x)
      BY <1>0, <1>5, <2>2, <3>1 DEF Visit
    <3>4. w.known => w.r[1] # s
      BY <1>0, <1>1, <2>2, <3>3 DEF Tracked, Sees, InUse
    <3>5. Tracked(x)
      BY <1>1, <3>2, <3>3, <3>4 DEF Tracked
    <3> QED
      BY <3>2, <3>3, <3>5, PacketKeeps
  <2> QED
    BY <2>1, <2>2
<1>6. CASE CopyFAR(f)
  <2>0. PICK r \in FAR : r = rules[w.r]
    BY <1>2
  <2>1. w.pc = "far" /\ Tracked(w)
    BY <1>0, <1>1, <1>6 DEF CopyFAR
  <2>2. ASSUME w.idle PROVE r.act = "drop" /\ w.r[2] \in Core /\ r.why = "release"
    BY <1>2, <2>0, <2>1, <2>2 DEF Tracked, Released, Reasoned
  <2>3. CASE r.act = "forw" /\ r.tun # NoTunnel /\ Step(f, [w EXCEPT !.pc = "send", !.tun = r.tun])
    <3>1. PICK x : x = [w EXCEPT !.pc = "send", !.tun = r.tun]
      OBVIOUS
    <3>2. r.tun \in Tunnels /\ r.why = "none"
      BY <1>2, <2>0, <2>3 DEF FAR, Reasoned
    <3>3. /\ x \in Packets /\ x.pc = "send" /\ x.r = w.r /\ x.tun = r.tun
          /\ x.ok = w.ok /\ x.known = w.known /\ x.idle = w.idle
      BY <3>1, <3>2 DEF Packets
    <3>4. r = Forw(r.tun)
      BY <2>3, <3>2 DEF Forw, FAR
    <3>5. r.tun \in w.ok
      BY <2>0, <2>1, <3>2, <3>4 DEF Tracked, Current
    <3>6. Tracked(x)
      BY <2>1, <2>2, <2>3, <3>3, <3>5 DEF Tracked
    <3> QED
      BY <2>3, <3>1, <3>3, <3>6, PacketKeeps
  <2>4. ASSUME NEW res \in {"reported", "dropped"}, Done(f, res, NoTunnel),
               res = "reported" \/ ~w.idle
        PROVE  PlaneInv'
    <3>1. PICK x : x = [w EXCEPT !.pc = "done", !.todo = {}, !.res = res, !.tun = NoTunnel]
      OBVIOUS
    <3>2. /\ x \in Packets /\ x.pc = "done" /\ x.res = res /\ x.r = w.r
          /\ x.ok = w.ok /\ x.known = w.known /\ x.idle = w.idle
      BY <3>1 DEF Packets
    <3>3. Step(f, x)
      BY <1>0, <2>4, <3>1 DEF Done
    <3>4. Tracked(x)
      BY <2>1, <2>4, <3>2 DEF Tracked
    <3> QED
      BY <3>2, <3>3, <3>4, PacketKeeps
  <2>5. \/ r.act = "forw" /\ r.tun # NoTunnel /\ Step(f, [w EXCEPT !.pc = "send", !.tun = r.tun])
        \/ Done(f, "reported", NoTunnel)
        \/ ~(w.r[2] \in Core /\ r.why = "release") /\ Done(f, "dropped", NoTunnel)
    BY <1>0, <1>6, <2>0 DEF CopyFAR
  <2> QED
    BY <2>2, <2>3, <2>4, <2>5
<1>7. CASE ForwardGPDU(f)
  <2>1. PICK x : x = [w EXCEPT !.pc = "done", !.todo = {}, !.res = "sent", !.tun = w.tun]
    OBVIOUS
  <2>2. /\ x \in Packets /\ x.pc = "done" /\ x.res = "sent" /\ x.r = w.r /\ x.tun = w.tun
        /\ x.ok = w.ok /\ x.known = w.known /\ x.idle = w.idle
    BY <2>1 DEF Packets
  <2>3. w.pc = "send" /\ Step(f, x)
    BY <1>0, <1>7, <2>1 DEF ForwardGPDU, Done
  <2>4. Tracked(x)
    BY <1>1, <2>2, <2>3 DEF Tracked
  <2> QED
    BY <2>2, <2>3, <2>4, PacketKeeps
<1>8. CASE NextPacket(f)
  <2>1. NoPacket \in Packets /\ NoPacket.pc = "idle"
    BY PlaneValues
  <2>2. Step(f, NoPacket)
    BY <1>8 DEF NextPacket
  <2> QED
    BY <2>1, <2>2, PacketKeeps
<1>9. ASSUME NEW p \in Rules, Arrive(f, p) PROVE PlaneInv'
  <2>0. /\ rules[p] \in FAR /\ bpf[p] \in Entry
        /\ InUse(st, rules, p) \in BOOLEAN /\ Released(st, rules, p) \in BOOLEAN
        /\ Current(rules, p) \subseteq Tunnels
    BY PlaneTypes DEF InUse, Released, Current
  <2>a. PICK u \in BOOLEAN, i \in BOOLEAN, o \in SUBSET Tunnels :
            /\ u = InUse(st, rules, p) /\ i = Released(st, rules, p)
            /\ o = Current(rules, p)
    BY <2>0
  <2> DEFINE y(pc, res, k) ==
        [pc |-> pc, r |-> p, todo |-> {}, res |-> res, tun |-> k,
         was |-> u, known |-> u, idle |-> i, ok |-> o]
  <2>1. \/ bpf[p].act = "forward" /\ Step(f, y("done", "sent", bpf[p].tun))
        \/ bpf[p].act = "drop" /\ Step(f, y("done", "dropped", NoTunnel))
        \/ Step(f, y("look", "none", NoTunnel))
    <3>1. PICK x : x = [NoPacket EXCEPT !.r = p, !.was = u, !.known = u, !.idle = i, !.ok = o]
      OBVIOUS
    <3>2. x = y("idle", "none", NoTunnel)
      BY <3>1 DEF NoPacket
    <3>a. PICK k : k = bpf[p].tun
      OBVIOUS
    <3>3. [y("idle", "none", NoTunnel) EXCEPT !.pc = "done"] = y("done", "none", NoTunnel)
      OBVIOUS
    <3>d. [y("done", "none", NoTunnel) EXCEPT !.res = "sent"] = y("done", "sent", NoTunnel)
      OBVIOUS
    <3>e. [y("done", "none", NoTunnel) EXCEPT !.res = "dropped"] = y("done", "dropped", NoTunnel)
      OBVIOUS
    <3>f. [y("done", "sent", NoTunnel) EXCEPT !.tun = k] = y("done", "sent", k)
      OBVIOUS
    <3>b. /\ [x EXCEPT !.pc = "done", !.res = "sent", !.tun = k] = y("done", "sent", k)
          /\ [x EXCEPT !.pc = "done", !.res = "dropped"] = y("done", "dropped", NoTunnel)
      <4> HIDE DEF y
      <4> QED
        BY <3>2, <3>3, <3>d, <3>e, <3>f
    <3>c. [x EXCEPT !.pc = "look"] = y("look", "none", NoTunnel)
      BY <3>2
    <3>4. \/ bpf[p].act = "forward"
             /\ Step(f, [x EXCEPT !.pc = "done", !.res = "sent", !.tun = k])
          \/ bpf[p].act = "drop" /\ Step(f, [x EXCEPT !.pc = "done", !.res = "dropped"])
          \/ Step(f, [x EXCEPT !.pc = "look"])
      BY <1>9, <2>a, <3>1, <3>a DEF Arrive
    <3> HIDE DEF y
    <3> QED
      BY <3>4, <3>a, <3>b, <3>c
  <2>2. ASSUME NEW pc \in {"look", "done"}, NEW res \in {"none", "sent", "dropped"},
               NEW k \in Tunnels \cup {NoTunnel}
        PROVE  /\ y(pc, res, k) \in Packets
               /\ y(pc, res, k).pc = pc /\ y(pc, res, k).r = p /\ y(pc, res, k).res = res
               /\ y(pc, res, k).tun = k /\ y(pc, res, k).ok = Current(rules, p)
               /\ y(pc, res, k).was = u /\ y(pc, res, k).known = u /\ y(pc, res, k).idle = i
    BY <2>a DEF Packets
  <2> HIDE DEF y
  <2>3. Released(st, rules, p) => InUse(st, rules, p)
    BY DEF Released
  <2>4. CASE Step(f, y("look", "none", NoTunnel))
    <3>1. Tracked(y("look", "none", NoTunnel))
      BY <2>a, <2>2, <2>3 DEF Tracked
    <3> QED
      BY <2>2, <2>4, <3>1, PacketKeeps
  <2>5. Whole /\ InUse(st, rules, p) => bpf[p] \in {NoEntry, Compiled(p, rules[p])}
    BY DEF InUse, Mirrored
  <2>6. NoEntry.act = "none" /\ bpf[p].tun \in Tunnels \cup {NoTunnel}
    BY <2>0 DEF NoEntry, Entry
  <2>7. CASE bpf[p].act = "forward" /\ Step(f, y("done", "sent", bpf[p].tun))
    <3>1. Whole /\ InUse(st, rules, p) => bpf[p].tun \in Current(rules, p)
                                                /\ ~Released(st, rules, p)
      <4> SUFFICES ASSUME Whole, InUse(st, rules, p)
                   PROVE  bpf[p].tun \in Current(rules, p) /\ ~Released(st, rules, p)
        OBVIOUS
      <4>1. rules[p].act = "forw" /\ rules[p].tun \in Tunnels /\ bpf[p].tun = rules[p].tun
        BY <2>0, <2>5, <2>6, <2>7, CompiledTyped
      <4>2. rules[p].why = "none"
        BY <4>1 DEF Reasoned
      <4>3. rules[p] = Forw(rules[p].tun)
        BY <2>0, <4>1, <4>2 DEF FAR, Forw
      <4> QED
        BY <4>1, <4>2, <4>3 DEF Current, Released
    <3>2. PICK k \in Tunnels \cup {NoTunnel} : k = bpf[p].tun
      BY <2>6
    <3>3. Tracked(y("done", "sent", k))
      BY <2>a, <2>2, <2>3, <3>1, <3>2 DEF Tracked
    <3> QED
      BY <2>2, <2>7, <3>2, <3>3, PacketKeeps
  <2>8. CASE bpf[p].act = "drop" /\ Step(f, y("done", "dropped", NoTunnel))
    <3>1. Whole => ~Released(st, rules, p)
      BY <2>0, <2>3, <2>5, <2>6, <2>8, CompiledTyped DEF Released
    <3>2. Tracked(y("done", "dropped", NoTunnel))
      BY <2>a, <2>2, <2>3, <3>1 DEF Tracked
    <3> QED
      BY <2>2, <2>8, <3>2, PacketKeeps
  <2> QED
    BY <2>1, <2>4, <2>7, <2>8
<1> QED
  BY <1>3, <1>4, <1>5, <1>6, <1>7, <1>8, <1>9 DEF Forward

\* A request goes on to where its session allows it to be.
LEMMA RequestGoesOn ==
    ASSUME req \in [Reqs -> Requests], st \in [SEIDs -> {"none", "in", "gone"}], Untouched,
           NEW t \in Reqs,
           NEW l \in {"store", "install", "rollback", "lock", "choose", "apply", "clear",
                      "delete", "ok", "rejected"},
           Go(t, l), \A s \in SEIDs : st'[s] = "none" => st[s] = "none",
           l = "store" \/ st'[req[t].r[1]] # "none",
           l \in {"lock", "choose", "apply"} => req[t].op \in SmrOps
    PROVE  /\ req' \in [Reqs -> Requests]
           /\ \A u \in Reqs : Placed(st', req'[u])
<1>1. /\ req' \in [Reqs -> Requests] /\ req'[t].pc = l /\ req'[t].r = req[t].r /\ req'[t].op = req[t].op
      /\ \A u \in Reqs : u # t => req'[u] = req[u]
  BY Moves
<1>2. \A u \in Reqs : req[u].r \in Rules
  BY DEF Requests
<1>3. \A u \in Reqs : req[u].r[1] \in SEIDs
  BY <1>2, Pairs
<1>4. ASSUME NEW u \in Reqs PROVE Placed(st', req'[u])
  <2>1. CASE u = t
    BY <1>1, <2>1 DEF Placed
  <2>2. CASE u # t
    BY <1>1, <1>3, <2>2 DEF Untouched, Placed
  <2> QED
    BY <2>1, <2>2
<1> QED
  BY <1>1, <1>4

\* A step that only moves a request.
LEMMA MovesKeep ==
    ASSUME PlaneInv, UNCHANGED <<st, rules, bpf, fwd>>, req' \in [Reqs -> Requests],
           \A u \in Reqs : Placed(st', req'[u])
    PROVE  PlaneInv'
<1> USE DEF PlaneInv
<1>1. PlaneTypeOK'
  BY DEF PlaneTypeOK, Requests
<1>2. Reasoned' /\ Mirrored'
  BY DEF Reasoned, Mirrored
<1>3. Untouched'
  BY DEF Untouched
<1>4. \A y : Tracked(y) => Tracked(y)'
  BY DEF Tracked
<1>5. Watched'
  BY <1>4 DEF Watched
<1> QED
  BY <1>1, <1>2, <1>3, <1>5

\* A step that writes the fast path and leaves the rules alone.
LEMMA WritesKeep ==
    ASSUME PlaneInv, UNCHANGED <<st, rules, fwd>>, req' \in [Reqs -> Requests],
           \A u \in Reqs : Placed(st', req'[u]),
           bpf' \in [Rules -> Entry],
           \A p \in Rules :
              \/ bpf'[p] = bpf[p] \/ bpf'[p] = NoEntry
              \/ UseBPF /\ There(rules, p) /\ bpf'[p] = Compiled(p, rules[p])
    PROVE  PlaneInv'
<1> USE DEF PlaneInv
<1>1. PlaneTypeOK'
  BY DEF PlaneTypeOK, Requests
<1>2. Reasoned'
  BY DEF Reasoned
<1>3. Untouched'
  BY DEF Untouched
<1>4. Mirrored'
  BY DEF Mirrored
<1>5. \A y : Tracked(y) => Tracked(y)'
  BY DEF Tracked
<1>6. Watched'
  BY <1>5 DEF Watched
<1> QED
  BY <1>1, <1>2, <1>3, <1>4, <1>6

\* A session that leaves the store keeps its rules and its entries.
LEMMA LeavesKeep ==
    ASSUME PlaneInv, NEW s \in SEIDs, st' = [st EXCEPT ![s] = "gone"], UNCHANGED <<rules, bpf>>,
           req' \in [Reqs -> Requests],
           \A u \in Reqs : Placed(st', req'[u]),
           Witness
    PROVE  PlaneInv'
<1> USE DEF PlaneInv
<1>1. st \in [SEIDs -> {"none", "in", "gone"}] /\ fwd \in [Fwd -> Packets]
  BY PlaneTypes
<1>2. /\ st' \in [SEIDs -> {"none", "in", "gone"}]
      /\ \A q \in SEIDs : st'[q] = "none" => st[q] = "none"
  BY <1>1
<1>3. fwd' \in [Fwd -> Packets] /\ Watched'
  BY <1>1, WitnessKeeps
<1>4. PlaneTypeOK'
  BY <1>2, <1>3 DEF PlaneTypeOK, Requests, Packets
<1>5. Reasoned' /\ Mirrored'
  BY DEF Reasoned, Mirrored
<1>6. Untouched'
  BY <1>2, Pairs, RulesAssumption DEF Untouched
<1> QED
  BY <1>3, <1>4, <1>5, <1>6

\* What syncRules leaves in the fast path.
LEMMA InstalledIs ==
    ASSUME bpf \in [Rules -> Entry], NEW R \in [Rules -> FAR],
           NEW s \in SEIDs, NEW F
    PROVE  /\ Installed(R, s, F) \in [Rules -> Entry]
           /\ ~UseBPF => Installed(R, s, F) = bpf
           /\ \A p \in Rules :
                 \/ ~(p[1] = s /\ There(R, p) /\ p \notin F) /\ Installed(R, s, F)[p] = bpf[p]
                 \/ /\ p[1] = s /\ There(R, p) /\ UseBPF
                    /\ Installed(R, s, F)[p] = Compiled(p, R[p])
                 \/ ~UseBPF
<1>1. \A p \in Rules : Compiled(p, R[p]) \in Entry
  BY CompiledTyped
<1>2. CASE UseBPF
  <2>1. Installed(R, s, F) = [p \in Rules |->
            IF p[1] = s /\ There(R, p) /\ p \notin F THEN Compiled(p, R[p]) ELSE bpf[p]]
    BY <1>2 DEF Installed, Synced
  <2> QED
    BY <1>1, <1>2, <2>1
<1>3. CASE ~UseBPF
  BY <1>3 DEF Installed
<1> QED
  BY <1>2, <1>3

\* The candidate differs in one rule, and that one forwards or has a reason.
LEMMA CandidateIs ==
    ASSUME rules \in [Rules -> FAR], Reasoned,
           NEW x \in Requests, x.op \in SmrOps
    PROVE  /\ Candidate(x) \in [Rules -> FAR]
           /\ \A p \in Rules : p # x.r => Candidate(x)[p] = rules[p]
           /\ Candidate(x)[x.r].act = "forw" => Candidate(x)[x.r].why = "none"
           /\ Candidate(x)[x.r].why # "none" => Candidate(x)[x.r].act = "drop"
<1>1. PICK r \in Rules : r = x.r
  BY DEF Requests
<1>2. PICK y \in FAR : y = rules[r]
  OBVIOUS
<1>3. PICK z : Candidate(x) = [rules EXCEPT ![r] = z]
                /\ (x.op = "create" => z = Initial) /\ (x.op = "remove" => z = Absent)
                /\ (x.op = "forward" => z = Forw(x.tun))
                /\ (x.op = "drop" => z = Dropped(r, y))
  <2>1. CASE x.op = "create"
    BY <1>1, <2>1 DEF Candidate
  <2>2. CASE x.op = "remove"
    BY <1>1, <2>2 DEF Candidate
  <2>3. CASE x.op = "forward"
    BY <1>1, <2>3 DEF Candidate
  <2>4. CASE x.op = "drop"
    BY <1>1, <1>2, <2>4 DEF Candidate
  <2> QED
    BY <2>1, <2>2, <2>3, <2>4 DEF SmrOps
<1>4. z \in FAR /\ (z.act = "forw" => z.why = "none") /\ (z.why # "none" => z.act = "drop")
  <2>1. CASE x.op \in {"create", "remove"}
    BY <1>3, <2>1 DEF Initial, Absent, FAR
  <2>2. CASE x.op = "forward"
    <3>1. x.tun \in Tunnels \cup {NoTunnel}
      BY DEF Requests
    <3> QED
      BY <1>3, <2>2, <3>1 DEF Forw, FAR
  <2>3. CASE x.op = "drop"
    <3>1. PICK w \in {"none", "release", "policy"} :
              w = IF y.act = "forw" /\ r[2] \in Core THEN "release"
                  ELSE IF y.why = "none" THEN "policy" ELSE y.why
      BY DEF FAR
    <3>2. z = [y EXCEPT !.act = "drop", !.why = w]
      BY <1>3, <2>3, <3>1 DEF Dropped
    <3>3. z \in FAR /\ z.act = "drop"
      BY <3>2 DEF FAR
    <3> QED
      BY <3>3
  <2> QED
    BY <2>1, <2>2, <2>3 DEF SmrOps
<1>5. [rules EXCEPT ![r] = z] \in [Rules -> FAR]
      /\ [rules EXCEPT ![r] = z][r] = z
      /\ \A p \in Rules : p # r => [rules EXCEPT ![r] = z][p] = rules[p]
  BY <1>4
<1> QED
  BY <1>1, <1>3, <1>4, <1>5

\* A request comes only for a session that is known, or to establish one.
LEMMA ReceiveKeeps ==
    ASSUME PlaneInv, NEW t \in Reqs, NEW o \in ReqOps \ {"none"},
           NEW p \in Rules, NEW k \in Tunnels \cup {NoTunnel}, Receive(t, o, p, k)
    PROVE  PlaneInv'
<1> USE DEF PlaneInv
<1>1. req \in [Reqs -> Requests] /\ UNCHANGED <<st, rules, bpf, fwd>> /\ p[1] \in SEIDs
  BY PlaneTypes, Pairs DEF Receive
<1>2. PICK l \in {"alloc", "find"} : l = IF o = "establish" THEN "alloc" ELSE "find"
  OBVIOUS
<1>3. PICK x : x = [pc |-> l, op |-> o, r |-> p, tun |-> k]
  OBVIOUS
<1>4. x \in Requests /\ x.pc = l /\ x.op = o /\ x.r = p
  BY <1>3 DEF Requests
<1>5. req' = [req EXCEPT ![t] = x]
  BY <1>2, <1>3 DEF Receive
<1>6. o # "establish" => st[p[1]] # "none"
  <2> SUFFICES ASSUME o # "establish" PROVE st[p[1]] # "none"
    OBVIOUS
  <2>1. CASE p[1] \in AtStart
    BY <2>1 DEF Untouched
  <2>2. ASSUME NEW u \in Reqs, req[u] = [Establishing(p[1]) EXCEPT !.pc = "ok"]
        PROVE  st[p[1]] # "none"
    <3>1. PICK d \in Rules : d = DefaultRule(p[1]) /\ d[1] = p[1]
      BY <1>1, PlaneValues
    <3>2. req[u].pc = "ok" /\ req[u].r = d
      BY <2>2, <3>1 DEF Establishing
    <3> QED
      BY <3>1, <3>2 DEF Untouched, Placed
  <2> QED
    BY <2>1, <2>2 DEF Receive
<1>7. Placed(st, x)
  BY <1>2, <1>4, <1>6 DEF Placed, ReqOps
<1>8. req' \in [Reqs -> Requests] /\ \A u \in Reqs : req'[u] = IF u = t THEN x ELSE req[u]
  BY <1>1, <1>4, <1>5
<1>9. \A u \in Reqs : Placed(st', req'[u])
  BY <1>1, <1>7, <1>8 DEF Untouched
<1> QED
  BY <1>1, <1>8, <1>9, MovesKeep

\* The steps that write neither the store nor the rules.
LEMMA LooksKeep ==
    ASSUME PlaneInv, NEW t \in Reqs,
           \/ AllocTEIDs(t) \/ Install(t) \/ Find(t) \/ Lock(t)
           \/ ChooseTEID(t) \/ Clear(t)
    PROVE  PlaneInv'
<1> USE DEF PlaneInv
<1>1. /\ req \in [Reqs -> Requests] /\ st \in [SEIDs -> {"none", "in", "gone"}]
      /\ bpf \in [Rules -> Entry] /\ rules \in [Rules -> FAR]
  BY PlaneTypes
<1>2. PICK x \in Requests : x = req[t] /\ x.r \in Rules /\ x.r[1] \in SEIDs
  BY <1>1, Pairs DEF Requests
<1>3. Placed(st, x)
  BY <1>2 DEF Untouched
<1>4. CASE AllocTEIDs(t)
  <2>1. Go(t, "store") /\ UNCHANGED <<st, rules, bpf, fwd>>
    BY <1>4 DEF AllocTEIDs
  <2>2. req' \in [Reqs -> Requests] /\ \A u \in Reqs : Placed(st', req'[u])
    BY <1>1, <2>1, RequestGoesOn
  <2> QED
    BY <2>1, <2>2, MovesKeep
<1>5. CASE Find(t)
  <2>1. PICK l \in {"rejected", "clear", "lock"} :
            l = IF st[x.r[1]] # "in" THEN "rejected" ELSE IF x.op = "delete" THEN "clear" ELSE "lock"
    OBVIOUS
  <2>2. Go(t, l) /\ UNCHANGED <<st, rules, bpf, fwd>> /\ x.pc = "find"
    BY <1>2, <1>5, <2>1 DEF Find
  <2>3. st[x.r[1]] # "none" /\ (l = "lock" => x.op \in SmrOps)
    BY <1>3, <2>1, <2>2 DEF Placed
  <2>4. req' \in [Reqs -> Requests] /\ \A u \in Reqs : Placed(st', req'[u])
    BY <1>1, <1>2, <2>2, <2>3, RequestGoesOn
  <2> QED
    BY <2>2, <2>4, MovesKeep
<1>6. CASE Lock(t) \/ ChooseTEID(t)
  <2>1. PICK l \in {"choose", "apply"} : Go(t, l)
    BY <1>6 DEF Lock, ChooseTEID
  <2>2. UNCHANGED <<st, rules, bpf, fwd>> /\ x.pc \in {"lock", "choose"}
    BY <1>2, <1>6 DEF Lock, ChooseTEID
  <2>3. st[x.r[1]] # "none" /\ x.op \in SmrOps
    BY <1>3, <2>2 DEF Placed
  <2>4. req' \in [Reqs -> Requests] /\ \A u \in Reqs : Placed(st', req'[u])
    BY <1>1, <1>2, <2>1, <2>2, <2>3, RequestGoesOn
  <2> QED
    BY <2>2, <2>4, MovesKeep
<1>7. CASE Install(t)
  <2>1. PICK F : bpf' = Installed(rules, x.r[1], F) /\ Go(t, IF F = {} THEN "ok" ELSE "rollback")
    BY <1>2, <1>7 DEF Install
  <2>2. PICK l \in {"ok", "rollback"} : Go(t, l)
    BY <2>1
  <2>3. UNCHANGED <<st, rules, fwd>> /\ x.pc = "install"
    BY <1>2, <1>7 DEF Install
  <2>4. st[x.r[1]] # "none"
    BY <1>3, <2>3 DEF Placed
  <2>5. req' \in [Reqs -> Requests] /\ \A u \in Reqs : Placed(st', req'[u])
    BY <1>1, <1>2, <2>2, <2>3, <2>4, RequestGoesOn
  <2>6. /\ bpf' \in [Rules -> Entry]
        /\ \A p \in Rules :
              \/ bpf'[p] = bpf[p] \/ bpf'[p] = NoEntry
              \/ UseBPF /\ There(rules, p) /\ bpf'[p] = Compiled(p, rules[p])
    BY <1>1, <1>2, <2>1, InstalledIs
  <2> QED
    BY <2>3, <2>5, <2>6, WritesKeep
<1>8. CASE Clear(t)
  <2>1. PICK F : bpf' = Cleared(x.r[1], F)
    BY <1>2, <1>8 DEF Clear
  <2>2. UNCHANGED <<st, rules, fwd>> /\ x.pc = "clear" /\ Go(t, "delete")
    BY <1>2, <1>8 DEF Clear
  <2>3. st[x.r[1]] # "none"
    BY <1>3, <2>2 DEF Placed
  <2>4. req' \in [Reqs -> Requests] /\ \A u \in Reqs : Placed(st', req'[u])
    BY <1>1, <1>2, <2>2, <2>3, RequestGoesOn
  <2>5. NoEntry \in Entry
    BY DEF NoEntry, Entry
  <2>6. /\ bpf' \in [Rules -> Entry]
        /\ \A p \in Rules : bpf'[p] = bpf[p] \/ bpf'[p] = NoEntry
    BY <1>1, <2>1, <2>5 DEF Cleared
  <2> QED
    BY <2>2, <2>4, <2>6, WritesKeep
<1> QED
  BY <1>4, <1>5, <1>6, <1>7, <1>8

\* A session that is established had no rule before, so what the fast path has is
\* nothing; one that leaves the store keeps both.
LEMMA StoreKeeps ==
    ASSUME PlaneInv, NEW t \in Reqs,
           CreateStored(t) \/ Rollback(t) \/ DeleteStored(t)
    PROVE  PlaneInv'
<1> USE DEF PlaneInv
<1>1. /\ req \in [Reqs -> Requests] /\ st \in [SEIDs -> {"none", "in", "gone"}]
      /\ bpf \in [Rules -> Entry] /\ rules \in [Rules -> FAR]
      /\ fwd \in [Fwd -> Packets]
  BY PlaneTypes
<1>2. PICK x \in Requests : x = req[t] /\ x.r \in Rules /\ x.r[1] \in SEIDs
  BY <1>1, Pairs DEF Requests
<1>3. PICK s \in SEIDs : s = x.r[1]
  BY <1>2
<1>4. CASE Rollback(t) \/ DeleteStored(t)
  <2>1. PICK l \in {"rejected", "ok"} : Go(t, l)
    BY <1>4 DEF Rollback, DeleteStored
  <2>2. st' = [st EXCEPT ![s] = "gone"] /\ UNCHANGED <<rules, bpf>> /\ Witness
    BY <1>2, <1>3, <1>4 DEF Rollback, DeleteStored
  <2>3. st'[s] # "none" /\ \A q \in SEIDs : st'[q] = "none" => st[q] = "none"
    BY <1>1, <2>2
  <2>4. req' \in [Reqs -> Requests] /\ \A u \in Reqs : Placed(st', req'[u])
    BY <1>1, <1>2, <1>3, <2>1, <2>3, RequestGoesOn
  <2> QED
    BY <2>2, <2>4, LeavesKeep
<1>5. CASE CreateStored(t)
  <2>1. CASE st[s] = "in" /\ Go(t, "rejected") /\ UNCHANGED <<st, rules, bpf, fwd>>
    <3>1. req' \in [Reqs -> Requests] /\ \A u \in Reqs : Placed(st', req'[u])
      BY <1>1, <1>2, <1>3, <2>1, RequestGoesOn
    <3> QED
      BY <2>1, <3>1, MovesKeep
  <2>2. CASE /\ st[s] = "none" /\ st' = [st EXCEPT ![s] = "in"]
             /\ rules' = [p \in Rules |->
                             IF p[1] = s /\ p[2] \in Default THEN Initial ELSE rules[p]]
             /\ Go(t, "install") /\ Witness /\ bpf' = bpf
    <3>1. /\ st' \in [SEIDs -> {"none", "in", "gone"}] /\ st'[s] = "in"
          /\ \A q \in SEIDs : st'[q] = "none" => st[q] = "none" /\ q # s
      BY <1>1, <2>2
    <3>2. req' \in [Reqs -> Requests] /\ \A u \in Reqs : Placed(st', req'[u])
      BY <1>1, <1>2, <1>3, <2>2, <3>1, RequestGoesOn
    <3>3. /\ rules' \in [Rules -> FAR]
          /\ \A p \in Rules : rules'[p] = rules[p] \/ (p[1] = s /\ rules'[p] = Initial)
      <4>1. Initial \in FAR
        BY PlaneValues
      <4> QED
        BY <1>1, <2>2, <4>1
    <3>4. fwd' \in [Fwd -> Packets] /\ Watched'
      BY <1>1, <2>2, WitnessKeeps
    <3>5. PlaneTypeOK'
      BY <2>2, <3>1, <3>2, <3>3, <3>4 DEF PlaneTypeOK, Requests, Packets
    <3>6. Initial.act = "drop" /\ Initial.why = "none"
      BY DEF Initial
    <3>7. Reasoned'
      BY <3>3, <3>6 DEF Reasoned
    <3>8. ASSUME NEW p \in Rules, p[1] = s PROVE bpf'[p] = NoEntry
      BY <2>2, <3>8 DEF Untouched
    <3>9. Mirrored'
      BY <2>2, <3>3, <3>8 DEF Mirrored, There
    <3>10. Untouched'
      BY <2>2, <3>1, <3>2, <3>3, Pairs, RulesAssumption DEF Untouched, There
    <3> QED
      BY <3>4, <3>5, <3>7, <3>9, <3>10
  <2> QED
    BY <1>2, <1>3, <1>5, <2>1, <2>2 DEF CreateStored
<1> QED
  BY <1>4, <1>5

\* A modification writes every rule of its session to the fast path; when a write fails
\* the rules stay what they are.
LEMMA ApplyKeeps ==
    ASSUME PlaneInv, NEW t \in Reqs, Apply(t)
    PROVE  PlaneInv'
<1> USE DEF PlaneInv
<1>1. /\ req \in [Reqs -> Requests] /\ st \in [SEIDs -> {"none", "in", "gone"}]
      /\ bpf \in [Rules -> Entry] /\ rules \in [Rules -> FAR]
      /\ fwd \in [Fwd -> Packets]
  BY PlaneTypes
<1>2. PICK x \in Requests : x = req[t] /\ x.r \in Rules /\ x.r[1] \in SEIDs
  BY <1>1, Pairs DEF Requests
<1>3. x.pc = "apply" /\ st' = st
  BY <1>2 DEF Apply
<1>4. st[x.r[1]] # "none" /\ x.op \in SmrOps
  BY <1>2, <1>3 DEF Untouched, Placed
<1>5. ASSUME NEW l \in {"ok", "rejected"}, Go(t, l)
      PROVE  req' \in [Reqs -> Requests] /\ \A u \in Reqs : Placed(st', req'[u])
  BY <1>1, <1>2, <1>3, <1>4, <1>5, RequestGoesOn
<1>6. CASE Go(t, "rejected") /\ UNCHANGED <<rules, bpf, fwd>>
  BY <1>3, <1>5, <1>6, MovesKeep
<1>7. ASSUME NEW F, Whole => F = {}, NEW l \in {"ok", "rejected"}, Go(t, l), Witness,
             bpf' = Installed(Candidate(x), x.r[1], F),
             rules' = IF F = {} THEN Candidate(x) ELSE rules
      PROVE  PlaneInv'
  <2>a. PICK C \in [Rules -> FAR] :
            /\ C = Candidate(x)
            /\ \A p \in Rules : p # x.r => C[p] = rules[p]
            /\ C[x.r].act = "forw" => C[x.r].why = "none"
            /\ C[x.r].why # "none" => C[x.r].act = "drop"
    BY <1>1, <1>4, CandidateIs
  <2>1. /\ rules' \in [Rules -> FAR] /\ (Whole => rules' = C)
        /\ \A p \in Rules : p # x.r => rules'[p] = rules[p]
    BY <1>1, <1>7, <2>a
  <2>2. /\ bpf' \in [Rules -> Entry] /\ (~UseBPF => bpf' = bpf)
        /\ \A p \in Rules :
              \/ ~(p[1] = x.r[1] /\ There(C, p) /\ p \notin F) /\ bpf'[p] = bpf[p]
              \/ p[1] = x.r[1] /\ UseBPF /\ bpf'[p] = Compiled(p, C[p])
              \/ ~UseBPF
    BY <1>1, <1>2, <1>7, <2>a, InstalledIs
  <2>3. fwd' \in [Fwd -> Packets] /\ Watched'
    BY <1>1, <1>7, WitnessKeeps
  <2>4. req' \in [Reqs -> Requests] /\ \A u \in Reqs : Placed(st', req'[u])
    BY <1>5, <1>7
  <2>5. PlaneTypeOK'
    BY <1>1, <1>3, <2>1, <2>2, <2>3, <2>4 DEF PlaneTypeOK, Requests, Packets
  <2>6. Reasoned'
    BY <1>7, <2>a, <2>1 DEF Reasoned
  <2>7. ASSUME Whole, NEW p \in Rules, There(rules', p)
        PROVE  bpf'[p] \in {NoEntry, Compiled(p, rules'[p])}
    <3>0. F = {} /\ rules' = C
      BY <1>7, <2>1, <2>7
    <3>1. CASE UseBPF /\ p[1] = x.r[1]
      BY <2>2, <2>7, <3>0, <3>1
    <3>2. CASE p[1] # x.r[1]
      <4>1. rules'[p] = rules[p] /\ bpf'[p] = bpf[p]
        BY <2>1, <2>2, <3>2
      <4>2. There(rules, p)
        BY <2>7, <4>1 DEF There
      <4> QED
        BY <2>7, <4>1, <4>2 DEF Mirrored
    <3>3. CASE ~UseBPF
      BY <2>2, <3>3 DEF Mirrored
    <3> QED
      BY <3>1, <3>2, <3>3
  <2>8. Mirrored'
    BY <2>2, <2>7 DEF Mirrored, Whole
  <2>9. ASSUME NEW p \in Rules, st'[p[1]] = "none"
        PROVE  ~There(rules', p) /\ bpf'[p] = NoEntry
    <3>1. p[1] # x.r[1]
      BY <1>3, <1>4, <2>9
    <3>2. rules'[p] = rules[p] /\ bpf'[p] = bpf[p]
      BY <2>1, <2>2, <3>1
    <3> QED
      BY <1>3, <2>9, <3>2 DEF Untouched, There
  <2>10. Untouched'
    BY <1>3, <2>4, <2>9 DEF Untouched
  <2> QED
    BY <2>3, <2>5, <2>6, <2>8, <2>10
<1>8. Whole => Failing("apply", x.r[1]) = {{}}
  BY DEF Failing, Whole
<1>9. CASE \E F \in Failing("apply", x.r[1]) :
              /\ bpf' = Installed(Candidate(x), x.r[1], F)
              /\ rules' = IF F = {} THEN Candidate(x) ELSE rules
              /\ Go(t, IF F = {} THEN "ok" ELSE "rejected")
              /\ Witness
  <2>1. PICK F \in Failing("apply", x.r[1]) :
              /\ bpf' = Installed(Candidate(x), x.r[1], F)
              /\ rules' = IF F = {} THEN Candidate(x) ELSE rules
              /\ Go(t, IF F = {} THEN "ok" ELSE "rejected")
              /\ Witness
    BY <1>9
  <2>2. PICK l \in {"ok", "rejected"} : Go(t, l)
    BY <2>1
  <2>3. Whole => F = {}
    BY <1>8, <2>1
  <2> QED
    BY <1>7, <2>1, <2>2, <2>3
<1> QED
  BY <1>2, <1>6, <1>9 DEF Apply

LEMMA PlaneInitial ==
    ASSUME PlaneInit
    PROVE  PlaneInv
<1>1. \A p \in Rules : p[1] \in SEIDs
  BY Pairs
<1>a. Initial \in FAR /\ Absent \in FAR /\ NoEntry \in Entry
  BY PlaneValues
<1>2. /\ rules \in [Rules -> FAR]
      /\ \A p \in Rules : rules[p] = Absent \/ (p[1] \in AtStart /\ rules[p] = Initial)
  BY <1>a DEF PlaneInit
<1>3. \A p \in Rules : Compiled(p, rules[p]) \in Entry
  BY <1>2, CompiledTyped
<1>b. bpf = [p \in Rules |-> IF UseBPF /\ There(rules, p)
                                  THEN Compiled(p, rules[p]) ELSE NoEntry]
  BY DEF PlaneInit
<1>4. /\ bpf \in [Rules -> Entry]
      /\ \A p \in Rules :
            \/ bpf[p] = NoEntry
            \/ UseBPF /\ There(rules, p) /\ bpf[p] = Compiled(p, rules[p])
  BY <1>3, <1>a, <1>b
<1>c. NewReq \in Requests /\ NewReq.pc = "new" /\ NoPacket \in Packets /\ NoPacket.pc = "idle"
  BY PlaneValues
<1>5. req \in [Reqs -> Requests] /\ \A t \in Reqs : req[t].pc = "new"
  BY <1>c DEF PlaneInit
<1>6. fwd \in [Fwd -> Packets] /\ \A f \in Fwd : fwd[f].pc = "idle"
  BY <1>c DEF PlaneInit
<1>7. st \in [SEIDs -> {"none", "in", "gone"}] /\ \A s \in SEIDs : st[s] = "none" <=> s \notin AtStart
  BY DEF PlaneInit
<1>8. PlaneTypeOK
  BY <1>2, <1>4, <1>5, <1>6, <1>7 DEF PlaneTypeOK, Requests, Packets
<1>9. Reasoned
  BY <1>2 DEF Reasoned, Absent, Initial
<1>10. Mirrored
  BY <1>4 DEF Mirrored
<1>11. \A t \in Reqs : Placed(st, req[t])
  BY <1>5 DEF Placed
<1>12. ASSUME NEW p \in Rules, st[p[1]] = "none" PROVE ~There(rules, p)
  BY <1>1, <1>2, <1>7, <1>12 DEF There, Absent
<1>13. Untouched
  BY <1>4, <1>7, <1>11, <1>12, RulesAssumption DEF Untouched
<1>14. Watched
  BY <1>6 DEF Watched
<1> QED
  BY <1>8, <1>9, <1>10, <1>13, <1>14 DEF PlaneInv

LEMMA PlaneStep ==
    ASSUME PlaneInv, [PlaneNext]_planeVars
    PROVE  PlaneInv'
<1>1. ASSUME NEW t \in Reqs, NEW o \in ReqOps \ {"none"}, NEW p \in Rules,
             NEW k \in Tunnels \cup {NoTunnel}, Receive(t, o, p, k)
      PROVE  PlaneInv'
  BY <1>1, ReceiveKeeps
<1>2. ASSUME NEW t \in Reqs, Serve(t) PROVE PlaneInv'
  BY <1>2, LooksKeep, StoreKeeps, ApplyKeeps DEF Serve
<1>3. ASSUME NEW f \in Fwd, Forward(f) \/ \E p \in Rules : Arrive(f, p)
      PROVE  PlaneInv'
  BY <1>3, PacketSteps
<1>4. CASE UNCHANGED planeVars
  <2>1. UNCHANGED <<st, rules, bpf, fwd>> /\ req' = req
    BY <1>4 DEF planeVars
  <2>2. req' \in [Reqs -> Requests] /\ \A u \in Reqs : Placed(st', req'[u])
    BY <2>1, PlaneTypes DEF PlaneInv, Untouched
  <2> QED
    BY <2>1, <2>2, MovesKeep
<1> QED
  BY <1>1, <1>2, <1>3, <1>4 DEF PlaneNext

LEMMA PlaneInvariant == PlaneSpec => []PlaneInv
<1>1. PlaneInit => PlaneInv
  BY PlaneInitial
<1>2. PlaneInv /\ [PlaneNext]_planeVars => PlaneInv'
  BY PlaneStep
<1> QED
  BY <1>1, <1>2, PTL DEF PlaneSpec

\* The store, the rules, the fast path and the goroutines of SGW-U have their types.
THEOREM PlaneTypeCorrect == PlaneSpec => []PlaneTypeOK
<1>1. PlaneInv => PlaneTypeOK
  BY DEF PlaneInv
<1> QED
  BY <1>1, PlaneInvariant, PTL

\* However many sessions, rules, requests and forwarders there are, with the fast path or
\* without: when no write of a modification to the fast path fails, a packet for a rule
\* in use leaves through a tunnel the rule had since the packet came.
THEOREM SentIsCurrentHolds ==
    ASSUME Whole
    PROVE  PlaneSpec => []SentIsCurrent
<1>1. PlaneInv => SentIsCurrent
  BY DEF PlaneInv, Watched, Tracked, SentIsCurrent
<1> QED
  BY <1>1, PlaneInvariant, PTL

\* Under the same condition a downlink packet of a bearer that stays released is reported
\* for paging, whichever of the two paths takes it.
THEOREM IdleReportedHolds ==
    ASSUME Whole
    PROVE  PlaneSpec => []IdleReported
<1>1. PlaneInv => IdleReported
  BY DEF PlaneInv, Watched, Tracked, IdleReported
<1> QED
  BY <1>1, PlaneInvariant, PTL

\* Whatever fails: FindByLocalTEID misses a TEID, and an Error Indication is sent, only if
\* the rule or its session was not there for a moment of the search.
THEOREM UnknownIsTrueHolds == PlaneSpec => []UnknownIsTrue
<1>1. PlaneInv => UnknownIsTrue
  BY DEF PlaneInv, Watched, Tracked, UnknownIsTrue
<1> QED
  BY <1>1, PlaneInvariant, PTL
=============================================================================
