--------------------------- MODULE S11Procedures ---------------------------
(***************************************************************************)
(* The S11 procedures of SGW-C for one UE, each with its legs: the PFCP    *)
(* session on SGW-U, the session at the PGW over S5/S8-C, and the session  *)
(* of SGW-C itself. Handlers are goroutines; a step ends where a handler   *)
(* waits for an answer, so that other handlers run between two legs.       *)
(*                                                                         *)
(* The sessions of the UE share one S11 TEID and are numbered as they are  *)
(* created. The transports, the association and the indexes of the store   *)
(* are the business of GtpcTransport, PfcpTransport, SxaLifecycle and      *)
(* SessionManager; dedicated bearers that of BearerTransactions.           *)
(***************************************************************************)
EXTENDS Naturals, FiniteSets

CONSTANTS
    EBIs,       \* the default bearers of the UE's PDN connections
    ENBs,       \* eNodeB S1-U F-TEIDs
    NoENB,      \* none: the downlink FAR drops
    Handlers,   \* goroutines that serve S11 requests
    MmeSerial,  \* does the MME wait with Modify Bearer and Release Access Bearers
                \* until the one it sent before is answered?
    MaxSess,    \* bound: sessions created
    MaxFail     \* bound: exchanges that fail and procedures refused to a down peer

ASSUME S11Assumption ==
    /\ EBIs \subseteq Nat \ {0} /\ EBIs # {}
    /\ NoENB \notin ENBs
    /\ MmeSerial \in BOOLEAN
    /\ MaxSess \in Nat /\ MaxFail \in Nat

VARIABLES
    made,    \* sessions created so far
    stored,  \* the sessions in the store of SGW-C
    ses,     \* the session objects
    up,      \* the PFCP sessions SGW-U holds: its two FARs, or NoUp
    pgw,     \* the sessions the PGW holds
    pc, cur, old, enb, prev, list, todo, hold,  \* a handler: where it is, its session,
             \* the session it evicted, the new and the old eNodeB, the sessions or
             \* bearers it goes through, those left, and the session it holds
    fails,
    overtaken,         \* history: evicted, or its deletion begun, while being created
    failUp, failPgw,   \* history: an exchange about the session failed on that leg
    unsure             \* history: SGW-U may not have the downlink SGW-C believes

hVars == <<pc, cur, old, enb, prev, list, todo, hold>>
hist  == <<fails, overtaken, failUp, failPgw, unsure>>
vars  == <<made, stored, ses, up, pgw, hVars, hist>>

Sids  == 1..MaxSess
NoSid == 0
Min(S) == CHOOSE x \in S : \A y \in S : x <= y
Max(S) == CHOOSE x \in S : \A y \in S : y <= x

States == {"Pending", "Active", "Deleting"}
Sess   == [ebi : EBIs, st : States, pgw : BOOLEAN, bound : BOOLEAN, enb : ENBs \cup {NoENB}]
NoUp   == [ul |-> "none", dl |-> NoENB]
Fars   == [ul : {"none", "drop", "forw"}, dl : ENBs \cup {NoENB}]

Creating == {"evictPgw", "evictUp", "establish", "s5c", "uplink", "undoPgw", "undoUp", "bind"}
PCs == Creating \cup {"idle", "mb", "mbSent", "rab", "dsPgw", "dsUp"}

TypeOK ==
    /\ made \in 0..MaxSess
    /\ stored \subseteq 1..made
    /\ ses \in [1..made -> Sess]
    /\ up \in [Sids -> Fars]
    /\ pgw \subseteq 1..made
    /\ pc \in [Handlers -> PCs]
    /\ cur \in [Handlers -> 0..made] /\ old \in [Handlers -> 0..made]
    /\ enb \in [Handlers -> ENBs \cup {NoENB}] /\ prev \in [Handlers -> ENBs \cup {NoENB}]
    /\ list \in [Handlers -> SUBSET (EBIs \cup Sids)]
    /\ todo \in [Handlers -> SUBSET (EBIs \cup Sids)]
    /\ hold \in [Handlers -> 0..made]
    /\ fails \in 0..MaxFail
    /\ overtaken \subseteq Sids /\ failUp \subseteq Sids
    /\ failPgw \subseteq Sids /\ unsure \subseteq Sids

Init ==
    /\ made = 0 /\ stored = {} /\ ses = <<>>
    /\ up = [s \in Sids |-> NoUp] /\ pgw = {}
    /\ pc = [h \in Handlers |-> "idle"]
    /\ cur = [h \in Handlers |-> NoSid] /\ old = [h \in Handlers |-> NoSid]
    /\ enb = [h \in Handlers |-> NoENB] /\ prev = [h \in Handlers |-> NoENB]
    /\ list = [h \in Handlers |-> {}] /\ todo = [h \in Handlers |-> {}]
    /\ hold = [h \in Handlers |-> NoSid]
    /\ fails = 0
    /\ overtaken = {} /\ failUp = {} /\ failPgw = {} /\ unsure = {}

-----------------------------------------------------------------------------
(* Exchanges and the end of a procedure.                                   *)

InCreation(s) == \E h \in Handlers : cur[h] = s /\ pc[h] \in Creating

Goto(h, l) == pc' = [pc EXCEPT ![h] = l]

\* The handler answers the MME and returns; its deferred finishProcedure runs.
Return(h) ==
    /\ Goto(h, "idle")
    /\ cur' = [cur EXCEPT ![h] = NoSid] /\ old' = [old EXCEPT ![h] = NoSid]
    /\ enb' = [enb EXCEPT ![h] = NoENB] /\ prev' = [prev EXCEPT ![h] = NoENB]
    /\ list' = [list EXCEPT ![h] = {}] /\ todo' = [todo EXCEPT ![h] = {}]
    /\ hold' = [hold EXCEPT ![h] = NoSid]

\* What may become of a request that the peer would accept: accepted; refused or
\* never delivered; executed, but its answer is lost or cannot be used.
Outcomes == {"ok", "no", "lost"}
Exchange(o) ==
    /\ o \in Outcomes
    /\ IF o = "ok" THEN fails' = fails ELSE fails < MaxFail /\ fails' = fails + 1
Done(o)     == o # "no"
Mark(S, s, o) == IF o = "ok" THEN S ELSE S \cup {s}

\* Manager.Delete.
DeleteStored(s) == stored' = stored \ {s}

-----------------------------------------------------------------------------
(* handleCreateSessionRequest.                                             *)

\* Where the handler goes after Create: PGW leg, then SGW-U leg of the evicted session.
AfterCreate(o) == CASE o # NoSid /\ ses[o].pgw                    -> "evictPgw"
                    [] o # NoSid /\ ~ses[o].pgw /\ ses[o].bound -> "evictUp"
                    [] OTHER                                      -> "establish"

\* Manager.Create replaces the session of the same PDN connection.
CreateSession(h, e) ==
    LET s == made + 1
        E == {x \in stored : ses[x].ebi = e}
        o == IF E = {} THEN NoSid ELSE Max(E) IN
    /\ pc[h] = "idle"
    /\ made < MaxSess
    /\ made' = s
    /\ ses' = [x \in 1..s |-> IF x = s THEN [ebi |-> e, st |-> "Pending", pgw |-> FALSE,
                                            bound |-> FALSE, enb |-> NoENB]
                              ELSE ses[x]]
    /\ stored' = (stored \ E) \cup {s}
    /\ overtaken' = overtaken \cup {x \in E : InCreation(x)}
    /\ Goto(h, AfterCreate(o))
    /\ cur' = [cur EXCEPT ![h] = s]
    /\ old' = [old EXCEPT ![h] = IF pc'[h] = "establish" THEN NoSid ELSE o]
    /\ UNCHANGED <<up, pgw, enb, prev, list, todo, hold, fails, failUp, failPgw, unsure>>

\* s5c.DeleteSession for session s: the PGW refuses what it does not hold. An error
\* or a refusal is logged.
DeleteAtPgw(s) == \E o \in Outcomes :
    /\ Exchange(o)
    /\ pgw' = IF Done(o) THEN pgw \ {s} ELSE pgw
    /\ failPgw' = Mark(failPgw, s, o)

\* pfcp.DeleteSessionOnPeer for session s.
DeleteAtUp(s) == \E o \in Outcomes :
    /\ Exchange(o)
    /\ up' = IF Done(o) THEN [up EXCEPT ![s] = NoUp] ELSE up
    /\ failUp' = Mark(failUp, s, o)

\* Faulty variant: the PFCP session of the evicted session stays.
AfterEvictPgw_Skip(o) == "establish"

AfterEvictPgw(o) == IF ses[o].bound THEN "evictUp" ELSE "establish"

\* The evicted session goes at the PGW, and then at SGW-U if it is bound by then.
EvictPgw(h) ==
    /\ pc[h] = "evictPgw"
    /\ DeleteAtPgw(old[h])
    /\ Goto(h, AfterEvictPgw(old[h]))
    /\ old' = IF pc'[h] = "evictUp" THEN old ELSE [old EXCEPT ![h] = NoSid]
    /\ UNCHANGED <<made, stored, ses, up, cur, enb, prev, list, todo, hold,
                   overtaken, failUp, unsure>>

EvictUp(h) ==
    /\ pc[h] = "evictUp"
    /\ DeleteAtUp(old[h])
    /\ Goto(h, "establish")
    /\ old' = [old EXCEPT ![h] = NoSid]
    /\ UNCHANGED <<made, stored, ses, pgw, cur, enb, prev, list, todo, hold,
                   overtaken, failPgw, unsure>>

\* The request names no PGW, or one that is down (allowPeerProcedure): give up.
NoPgw(h) ==
    /\ pc[h] = "establish"
    /\ Exchange("no")
    /\ DeleteStored(cur[h])
    /\ Return(h)
    /\ UNCHANGED <<made, ses, up, pgw, overtaken, failUp, failPgw, unsure>>

\* establishProvisionalPFCPSession asks for two PDRs whose FARs both drop.
Provisional == [ul |-> "drop", dl |-> NoENB]

Establish(h) == \E o \in Outcomes :
    LET s == cur[h] IN
    /\ pc[h] = "establish"
    /\ Exchange(o)
    /\ up' = IF Done(o) THEN [up EXCEPT ![s] = Provisional] ELSE up
    /\ failUp' = Mark(failUp, s, o)
    /\ IF o = "ok" THEN /\ Goto(h, "s5c")
                        /\ UNCHANGED <<stored, cur, old, enb, prev, list, todo, hold>>
                   ELSE DeleteStored(s) /\ Return(h)
    /\ UNCHANGED <<made, ses, pgw, overtaken, failPgw, unsure>>

\* s5c.AllocTEID finds no TEID.
NoS5CTEID(h) ==
    /\ pc[h] = "s5c"
    /\ Exchange("no")
    /\ Goto(h, "undoUp")
    /\ UNCHANGED <<made, stored, ses, up, pgw, cur, old, enb, prev, list, todo, hold,
                   overtaken, failUp, failPgw, unsure>>

AfterUplink(o) == IF o = "ok" THEN "bind" ELSE "undoPgw"

\* s5c.CreateSession: accepted; refused; or an error, after which the PGW may hold the
\* session: no answer, or an acceptance without the F-TEIDs SGW-C needs.
CreatedAtPgw(s, o) ==
    /\ Exchange(o)
    /\ pgw' = IF Done(o) THEN pgw \cup {s} ELSE pgw
    /\ failPgw' = Mark(failPgw, s, o)

\* A PGW that gives no S5/S8-U TEID leaves the uplink FAR as it is.
CreateAtPgw(h) == \E o \in Outcomes :
    LET s == cur[h] IN
    /\ pc[h] = "s5c"
    /\ CreatedAtPgw(s, o)
    /\ IF o = "ok" THEN /\ ses' = [ses EXCEPT ![s].pgw = TRUE]
                        /\ \E l \in {"uplink", "bind"} : Goto(h, l)
                   ELSE UNCHANGED ses /\ Goto(h, "undoUp")
    /\ UNCHANGED <<made, stored, up, cur, old, enb, prev, list, todo, hold, overtaken, failUp, unsure>>

\* ModifySessionOnPeer sets the FARs of session s to f. SGW-U refuses a session it does
\* not hold.
ModifyAtUp(s, f, o) ==
    /\ IF up[s] = NoUp THEN o = "no" /\ UNCHANGED fails ELSE Exchange(o)
    /\ up' = IF Done(o) THEN [up EXCEPT ![s] = f] ELSE up

\* modifyPFCPUplinkFAR.
ModifyUplinkFAR(h) == \E o \in Outcomes :
    /\ pc[h] = "uplink"
    /\ ModifyAtUp(cur[h], [up[cur[h]] EXCEPT !.ul = "forw"], o)
    /\ Goto(h, AfterUplink(o))
    /\ UNCHANGED <<made, stored, ses, pgw, cur, old, enb, prev, list, todo, hold,
                   overtaken, failUp, failPgw, unsure>>

\* The tear-down after a failed update begins at the PGW.
UndoPgw(h) ==
    /\ pc[h] = "undoPgw"
    /\ DeleteAtPgw(cur[h])
    /\ Goto(h, "undoUp")
    /\ UNCHANGED <<made, stored, ses, up, cur, old, enb, prev, list, todo, hold,
                   overtaken, failUp, unsure>>

\* The rollback at SGW-U; then the session goes and the MME is answered.
UndoUp(h) ==
    /\ pc[h] = "undoUp"
    /\ DeleteAtUp(cur[h])
    /\ DeleteStored(cur[h])
    /\ Return(h)
    /\ UNCHANGED <<made, ses, pgw, overtaken, failPgw, unsure>>

\* Faulty variant: a session being deleted may become Active.
validTransition_Reopen(st, next) == next \in {"Active", "Deleting"}

validTransition(st, next) ==
    \/ st = "Pending" /\ next \in {"Active", "Deleting"}
    \/ st = "Active" /\ next = "Deleting"
Transition(st, next) == IF validTransition(st, next) THEN next ELSE st

\* SetPFCPBinding, Transition, and the response: the handler does not look whether
\* the session is still in the store.
Bind(h) ==
    /\ pc[h] = "bind"
    /\ ses' = [ses EXCEPT ![cur[h]].bound = TRUE,
                          ![cur[h]].st = Transition(@, "Active")]
    /\ Return(h)
    /\ UNCHANGED <<made, stored, up, pgw, hist>>

-----------------------------------------------------------------------------
(* beginProcedure: the procedures on one session, from who holds it.       *)

Kind(h) == CASE pc[h] \in {"mb", "mbSent"} -> "mb"
             [] pc[h] = "rab"              -> "rab"
             [] OTHER                      -> "ds"

\* Delete Session may join a Modify Bearer; two Modify Bearers need disjoint bearers;
\* all else excludes each other.
Admits(g, k, E) ==
    \/ Kind(g) = "mb" /\ k = "ds"
    \/ Kind(g) = "mb" /\ k = "mb" /\ E \cap list[g] = {}
MayBegin(s, k, E) == \A g \in Handlers : hold[g] = s => Admits(g, k, E)

\* The MME has been given the S11 TEID in the answer to some Create Session Request.
MmeKnows == \E s \in stored : ~InCreation(s)

\* Nothing of the kind is outstanding at the MME, if the MME waits.
MmeFree == MmeSerial => \A g \in Handlers : pc[g] \notin {"mb", "mbSent", "rab"}

OwnerOf(e) == LET E == {x \in stored : ses[x].ebi = e} IN IF E = {} THEN NoSid ELSE Max(E)

-----------------------------------------------------------------------------
(* handleModifyBearerRequest.                                              *)

\* The procedure is begun on the session FindByS11TEID gives, the newest.
ModifyBearer(h, E, n) ==
    /\ pc[h] = "idle" /\ MmeKnows /\ MmeFree
    /\ MayBegin(Max(stored), "mb", E)
    /\ Goto(h, "mb")
    /\ hold' = [hold EXCEPT ![h] = Max(stored)]
    /\ list' = [list EXCEPT ![h] = E] /\ todo' = [todo EXCEPT ![h] = E]
    /\ enb' = [enb EXCEPT ![h] = n]
    /\ UNCHANGED <<made, stored, ses, up, pgw, cur, old, prev, hist>>

\* The next bearer context: refused without an owner or a PFCP binding, else the new
\* F-TEID is stored and sent to SGW-U.
ModifyContext(h) ==
    /\ pc[h] = "mb" /\ todo[h] # {}
    /\ LET e == Min(todo[h])
           s == OwnerOf(e) IN
        IF s = NoSid \/ (s # NoSid /\ ~ses[s].bound)
        THEN /\ todo' = [todo EXCEPT ![h] = @ \ {e}]
             /\ UNCHANGED <<ses, pc, cur, prev>>
        ELSE /\ prev' = [prev EXCEPT ![h] = ses[s].enb]
             /\ ses' = [ses EXCEPT ![s].enb = enb[h]]
             /\ cur' = [cur EXCEPT ![h] = s]
             /\ Goto(h, "mbSent")
             /\ UNCHANGED todo
    /\ UNCHANGED <<made, stored, up, pgw, old, enb, list, hold, hist>>

\* Faulty variant: the old F-TEID is not put back.
Restore_Keep(h, o) == ses

\* R15-006: on an error the bearer gets its old F-TEID back.
Restore(h, o) == IF o = "ok" THEN ses ELSE [ses EXCEPT ![cur[h]].enb = prev[h]]

\* The answer of SGW-U.
ModifyAnswer(h) == \E o \in Outcomes :
    LET s == cur[h] IN
    /\ pc[h] = "mbSent"
    /\ ModifyAtUp(s, [up[s] EXCEPT !.dl = enb[h]], o)
    /\ ses' = Restore(h, o)
    /\ unsure' = CASE o = "ok" -> unsure \ {s} [] o = "no" -> unsure [] OTHER -> unsure \cup {s}
    /\ todo' = [todo EXCEPT ![h] = @ \ {ses[s].ebi}]
    /\ cur' = [cur EXCEPT ![h] = NoSid] /\ prev' = [prev EXCEPT ![h] = NoENB]
    /\ Goto(h, "mb")
    /\ UNCHANGED <<made, stored, pgw, old, enb, list, hold, overtaken, failUp, failPgw>>

ModifyReturn(h) ==
    /\ pc[h] = "mb" /\ todo[h] = {}
    /\ Return(h)
    /\ UNCHANGED <<made, stored, ses, up, pgw, hist>>

-----------------------------------------------------------------------------
(* handleReleaseAccessBearersRequest.                                      *)

\* The sessions under the TEID are read once.
ReleaseAccess(h) ==
    /\ pc[h] = "idle" /\ MmeKnows /\ MmeFree
    /\ MayBegin(Max(stored), "rab", {})
    /\ Goto(h, "rab")
    /\ hold' = [hold EXCEPT ![h] = Max(stored)]
    /\ list' = [list EXCEPT ![h] = stored] /\ todo' = [todo EXCEPT ![h] = stored]
    /\ UNCHANGED <<made, stored, ses, up, pgw, cur, old, enb, prev, hist>>

\* One session: without a PFCP binding it is passed over; else its downlink FARs are
\* set to drop. At the first error the MME is refused, with the FARs of the sessions
\* before it dropped and all F-TEIDs kept.
ReleaseSession(h) ==
    /\ pc[h] = "rab" /\ todo[h] # {}
    /\ LET s == Min(todo[h]) IN
        \/ /\ ~ses[s].bound
           /\ todo' = [todo EXCEPT ![h] = @ \ {s}]
           /\ UNCHANGED <<up, fails, unsure, pc, cur, old, enb, prev, list, hold>>
        \/ /\ ses[s].bound
           /\ \E o \in Outcomes :
               /\ ModifyAtUp(s, [up[s] EXCEPT !.dl = NoENB], o)
               /\ IF o = "ok"
                  THEN /\ todo' = [todo EXCEPT ![h] = @ \ {s}]
                       /\ UNCHANGED <<unsure, pc, cur, old, enb, prev, list, hold>>
                  ELSE /\ unsure' = unsure \cup (list[h] \ todo[h])
                                           \cup (IF o = "lost" THEN {s} ELSE {})
                       /\ Return(h)
    /\ UNCHANGED <<made, stored, ses, pgw, overtaken, failUp, failPgw>>

Cleared(h) == list[h]

\* All sessions done: ClearENBFTEIDs on each, and the MME is answered.
ReleaseReturn(h) ==
    /\ pc[h] = "rab" /\ todo[h] = {}
    /\ ses' = [s \in DOMAIN ses |-> IF s \in Cleared(h) THEN [ses[s] EXCEPT !.enb = NoENB]
                                    ELSE ses[s]]
    /\ unsure' = unsure \ {s \in list[h] : ses[s].bound}
    /\ Return(h)
    /\ UNCHANGED <<made, stored, up, pgw, fails, overtaken, failUp, failPgw>>

-----------------------------------------------------------------------------
(* handleDeleteSessionRequest.                                             *)

\* The session is Deleting from here on, whatever becomes of the request.
DeleteSession(h, e) ==
    LET s == OwnerOf(e) IN
    /\ pc[h] = "idle" /\ MmeKnows /\ s # NoSid
    /\ MayBegin(s, "ds", {e})
    /\ overtaken' = IF InCreation(s) THEN overtaken \cup {s} ELSE overtaken
    /\ ses' = [ses EXCEPT ![s].st = Transition(@, "Deleting")]
    /\ hold' = [hold EXCEPT ![h] = s] /\ cur' = [cur EXCEPT ![h] = s]
    /\ Goto(h, IF ses[s].pgw THEN "dsPgw" ELSE "dsUp")
    /\ UNCHANGED <<made, stored, up, pgw, old, enb, prev, list, todo,
                   fails, failUp, failPgw, unsure>>

\* R15-005: unless the PGW accepts, the session is retained.
AfterDeletePgw(s, o) == o = "ok"

\* DeleteSessionFromS11, not sent to a PGW that is down. The PGW refuses a session
\* it does not hold.
DeletePgw(h) == \E o \in Outcomes :
    LET s == cur[h] IN
    /\ pc[h] = "dsPgw"
    /\ IF s \in pgw THEN Exchange(o) ELSE o = "no" /\ UNCHANGED fails
    /\ pgw' = IF Done(o) THEN pgw \ {s} ELSE pgw
    /\ IF AfterDeletePgw(s, o)
       THEN Goto(h, "dsUp") /\ UNCHANGED <<cur, old, enb, prev, list, todo, hold>>
       ELSE Return(h)
    /\ UNCHANGED <<made, stored, ses, up, overtaken, failUp, failPgw, unsure>>

\* The SGW-U leg, whose failure is logged, and the end of the session.
DeleteUp(h) ==
    LET s == cur[h] IN
    /\ pc[h] = "dsUp"
    /\ IF ses[s].bound /\ up[s] # NoUp THEN DeleteAtUp(s) ELSE UNCHANGED <<up, fails, failUp>>
    /\ DeleteStored(s)
    /\ Return(h)
    /\ UNCHANGED <<made, ses, pgw, overtaken, failPgw, unsure>>

-----------------------------------------------------------------------------
Step(h) ==
    \/ EvictPgw(h) \/ EvictUp(h) \/ NoPgw(h) \/ Establish(h) \/ NoS5CTEID(h)
    \/ CreateAtPgw(h) \/ ModifyUplinkFAR(h) \/ UndoPgw(h) \/ UndoUp(h) \/ Bind(h)
    \/ ModifyContext(h) \/ ModifyAnswer(h) \/ ModifyReturn(h)
    \/ ReleaseSession(h) \/ ReleaseReturn(h) \/ DeletePgw(h) \/ DeleteUp(h)

Requests(h) ==
    \/ \E e \in EBIs : CreateSession(h, e) \/ DeleteSession(h, e)
    \/ \E E \in SUBSET EBIs \ {{}}, n \in ENBs : ModifyBearer(h, E, n)
    \/ ReleaseAccess(h)

Next == \E h \in Handlers : Step(h) \/ Requests(h)

\* A handler comes to its end, for each exchange has a deadline; an MME asks again for
\* the deletion of a session it has not been told is deleted.
Spec ==
    /\ Init /\ [][Next]_vars
    /\ \A h \in Handlers : WF_vars(Step(h))
    /\ \A e \in EBIs : SF_vars(\E h \in Handlers : DeleteSession(h, e))

-----------------------------------------------------------------------------
(* Properties.                                                             *)

InEviction(s) == \E h \in Handlers : old[h] = s

\* Create Session rolls back all it made, and eviction and Delete Session release
\* both legs: a PFCP session or a PGW session without a session of SGW-C is there
\* only after an exchange about it failed on that leg, or when the session was
\* evicted, or deleted by the MME, while it was being created.
NothingLeaked ==
    \A s \in 1..made :
        s \notin stored /\ ~InCreation(s) /\ ~InEviction(s) /\ s \notin overtaken =>
            /\ up[s] # NoUp => s \in failUp
            /\ s \in pgw => s \in failPgw

\* R15-001: an Active session of the store has its PFCP binding, its PFCP session and
\* its PGW session; a failed Delete Session, which may have lost them, does not leave
\* it Active.
ActiveHasLegs ==
    \A s \in stored : ses[s].st = "Active" => ses[s].bound /\ up[s] # NoUp /\ s \in pgw

\* R15-005, R15-006: between Modify Bearer and Release Access Bearers, SGW-C and SGW-U
\* agree on the eNodeB the downlink goes to, unless the last answer was lost or a
\* Release Access Bearers stopped half way.
DownlinkAgrees ==
    \A s \in stored :
        /\ ses[s].bound /\ up[s] # NoUp /\ s \notin unsure
        /\ \A h \in Handlers : pc[h] \notin {"mbSent", "rab"}
        => up[s].dl = ses[s].enb

\* "retain local state on failure for retry" (handler.go): the retry succeeds.
DeleteRetrySucceeds ==
    \A s \in Sids : (s \in stored /\ ses[s].st = "Deleting") ~> (s \notin stored)
=============================================================================
