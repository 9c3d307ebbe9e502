-------------------------- MODULE CollisionTracker --------------------------
(***************************************************************************)
(* GTPv2-C transaction collision handling: one collision.Tracker per PDN   *)
(* session, and the S11 and S5-C handlers that run their procedures under  *)
(* beginProcedure and finishProcedure.                                     *)
(*                                                                         *)
(* The sessions are those of one subscriber, under one S11 TEID. A request *)
(* says under which session's tracker the handler begins it (at) and which *)
(* sessions the handler then works on (touches): the two are not the same  *)
(* for the procedures that an MME addresses to the whole S11 context.      *)
(***************************************************************************)
EXTENDS Naturals, FiniteSets

CONSTANTS
    Sessions,      \* the subscriber's PDN sessions
    Control,       \* the most recently stored one, which FindByS11TEID returns
    EBIs,          \* their bearers
    Owner,         \* bearer -> session
    Default,       \* session -> its default bearer
    Mode,          \* "strict" or "permissive"
    BlockDownPGW,  \* block_new_procedures_to_down_pgw
    Handlers,      \* goroutines that run procedures
    MaxBegins,     \* bound: procedures begun
    MaxOverruns    \* bound: procedures that outlast active_procedure_timeout_seconds

ASSUME CollisionTrackerAssumption ==
    /\ Control \in Sessions
    /\ Owner \in [EBIs -> Sessions] /\ Default \in [Sessions -> EBIs]
    /\ Mode \in {"strict", "permissive"} /\ BlockDownPGW \in BOOLEAN
    /\ MaxBegins \in Nat /\ MaxOverruns \in Nat

BearerScoped == {"MODIFY_BEARER", "CREATE_BEARER", "CREATE_BEARER_RESPONSE",
                 "UPDATE_BEARER", "DELETE_BEARER"}
SessionWide  == {"CREATE_SESSION", "DELETE_SESSION", "RELEASE_ACCESS_BEARERS"}
Procedures   == BearerScoped \cup SessionWide

EBIsOf(s) == {e \in EBIs : Owner[e] = s}

\* What the handlers ask for. CREATE_BEARER_RESPONSE and CREATE_SESSION are never begun.
Request(p, o, at, E, T) == [proc |-> p, owner |-> o, at |-> at, ebis |-> E, touches |-> T]

Requests ==
    {Request("MODIFY_BEARER", "mme", Control, E, {Owner[e] : e \in E}) : E \in SUBSET EBIs}
    \cup {Request("RELEASE_ACCESS_BEARERS", "mme", Control, {}, Sessions)}
    \cup UNION {
        {Request("DELETE_SESSION", "mme", s, {Default[s]}, {s}),
         Request("CREATE_BEARER", "pgw", s, {Default[s]}, {s})}
        \cup {Request("UPDATE_BEARER", "pgw", s, E, {s}) : E \in SUBSET EBIsOf(s)}
        \cup {Request("DELETE_BEARER", o, s, E, {s}) :
                 o \in {"mme", "pgw"}, E \in SUBSET EBIsOf(s) \ {{}}}
        : s \in Sessions}

VARIABLES
    nextID,   \* t.nextID of each tracker
    active,   \* t.active of each tracker
    overrun,  \* the entries older than the timeout
    pc, job,  \* a handler: where it is, and the procedure it runs
    begun,    \* procedures begun so far
    pgwDown   \* peerHealth holds the PGW down

vars == <<nextID, active, overrun, pc, job, begun, pgwDown>>

IDs     == 0..MaxBegins
Entries == [id : IDs, proc : Procedures, ebis : SUBSET EBIs]
NoJob   == [req |-> CHOOSE r \in Requests : TRUE, id |-> 0, stamp |-> 0]

TypeOK ==
    /\ nextID \in [Sessions -> IDs]
    /\ active \in [Sessions -> SUBSET Entries]
    /\ overrun \subseteq Sessions \X IDs
    /\ pc \in [Handlers -> {"idle", "begun", "running"}]
    /\ job \in [Handlers -> [req : Requests, id : IDs, stamp : IDs]]
    /\ begun \in IDs
    /\ pgwDown \in BOOLEAN

Init ==
    /\ nextID = [s \in Sessions |-> 0]
    /\ active = [s \in Sessions |-> {}]
    /\ overrun = {}
    /\ pc = [h \in Handlers |-> "idle"]
    /\ job = [h \in Handlers |-> NoJob]
    /\ begun = 0
    /\ pgwDown = FALSE

-----------------------------------------------------------------------------
\* procedurePairRules: the pairs (active, new) that are let pass outright.
PairRules ==
    {<<"CREATE_BEARER", "CREATE_BEARER_RESPONSE">>, <<"CREATE_BEARER_RESPONSE", "CREATE_BEARER">>}
    \cup {<<p, "DELETE_SESSION">> : p \in BearerScoped}
    \cup {"DELETE_BEARER", "UPDATE_BEARER"} \X {"RELEASE_ACCESS_BEARERS"}
    \cup {"RELEASE_ACCESS_BEARERS"} \X {"DELETE_BEARER", "UPDATE_BEARER"}

\* decide: may a procedure p with bearers E start while procedure c with bearers C
\* is active? Session-wide procedures exclude all others but for the pair rules;
\* bearer procedures exclude each other when their bearers overlap or are unknown.
Allows(c, C, p, E) ==
    \/ <<c, p>> \in PairRules
    \/ /\ c \in BearerScoped /\ p \in BearerScoped
       /\ IF C = {} \/ E = {} THEN Mode = "permissive" ELSE C \cap E = {}

\* sweepExpiredLocked: what is left of a tracker.
Swept(s) == {a \in active[s] : <<s, a.id>> \notin overrun}

\* Faulty variant: the ID is drawn twice.
Begin_TwoIDs(h, r) ==
    LET s == r.at
        n == nextID[s] + 2 IN
    /\ pc[h] = "idle"
    /\ begun < MaxBegins
    /\ \A a \in Swept(s) : Allows(a.proc, a.ebis, r.proc, r.ebis)
    /\ nextID' = [nextID EXCEPT ![s] = n]
    /\ active' = [active EXCEPT ![s] = Swept(s) \cup {[id |-> n, proc |-> r.proc, ebis |-> r.ebis]}]
    /\ begun' = begun + 1
    /\ job' = [job EXCEPT ![h] = [req |-> r, id |-> n, stamp |-> begun + 1]]
    /\ pc' = [pc EXCEPT ![h] = "begun"]
    /\ UNCHANGED <<overrun, pgwDown>>

\* Tracker.Begin lets the request in.
Begin(h, r) ==
    LET s == r.at
        n == nextID[s] + 1 IN
    /\ pc[h] = "idle"
    /\ begun < MaxBegins
    /\ \A a \in Swept(s) : Allows(a.proc, a.ebis, r.proc, r.ebis)
    /\ nextID' = [nextID EXCEPT ![s] = n]
    /\ active' = [active EXCEPT ![s] = Swept(s) \cup {[id |-> n, proc |-> r.proc, ebis |-> r.ebis]}]
    /\ begun' = begun + 1
    /\ job' = [job EXCEPT ![h] = [req |-> r, id |-> n, stamp |-> begun + 1]]
    /\ pc' = [pc EXCEPT ![h] = "begun"]
    /\ UNCHANGED <<overrun, pgwDown>>

\* Tracker.Begin refuses it: the peer is answered Request Rejected.
Reject(h, r) ==
    LET s == r.at IN
    /\ pc[h] = "idle"
    /\ \E a \in Swept(s) : ~Allows(a.proc, a.ebis, r.proc, r.ebis)
    /\ active' = [active EXCEPT ![s] = Swept(s)]
    /\ UNCHANGED <<nextID, overrun, pc, job, begun, pgwDown>>

\* Faulty variant: the tracker is emptied.
Finish_All(h) ==
    /\ active' = [active EXCEPT ![job[h].req.at] = {}]
    /\ job' = [job EXCEPT ![h] = NoJob]
    /\ pc' = [pc EXCEPT ![h] = "idle"]

\* Tracker.Finish: the entry with the procedure's ID, if it is still there.
Finish(h) ==
    LET s == job[h].req.at IN
    /\ active' = [active EXCEPT ![s] = {a \in @ : a.id # job[h].id}]
    /\ job' = [job EXCEPT ![h] = NoJob]
    /\ pc' = [pc EXCEPT ![h] = "idle"]

\* allowPeerProcedure, after Begin: a procedure of a PGW that is down may be blocked.
BlocksPeer(h) == BlockDownPGW /\ pgwDown /\ job[h].req.owner = "pgw"

Run(h) ==
    /\ pc[h] = "begun"
    /\ ~BlocksPeer(h)
    /\ pc' = [pc EXCEPT ![h] = "running"]
    /\ UNCHANGED <<nextID, active, overrun, job, begun, pgwDown>>

\* Faulty variant: the handler waits for the PGW to come back.
Block_Wait(h) ==
    /\ pc[h] = "begun"
    /\ BlocksPeer(h)
    /\ UNCHANGED vars

Block(h) ==
    /\ pc[h] = "begun"
    /\ BlocksPeer(h)
    /\ Finish(h)
    /\ UNCHANGED <<nextID, overrun, begun, pgwDown>>

\* Faulty variant: a path that returns without finishProcedure.
End_NoFinish(h) ==
    /\ pc[h] = "running"
    /\ job' = [job EXCEPT ![h] = NoJob]
    /\ pc' = [pc EXCEPT ![h] = "idle"]
    /\ UNCHANGED <<nextID, active, overrun, begun, pgwDown>>

\* The handler returns, on any path, and finishProcedure runs.
End(h) ==
    /\ pc[h] = "running"
    /\ Finish(h)
    /\ UNCHANGED <<nextID, overrun, begun, pgwDown>>

\* The handler has not returned when its entry reaches the timeout.
Overrun(h) ==
    /\ pc[h] = "running"
    /\ Cardinality(overrun) < MaxOverruns
    /\ overrun' = overrun \cup {<<job[h].req.at, job[h].id>>}
    /\ UNCHANGED <<nextID, active, pc, job, begun, pgwDown>>

\* Peer health changes its mind about the PGW.
PGWHealth ==
    /\ BlockDownPGW
    /\ pgwDown' = ~pgwDown
    /\ UNCHANGED <<nextID, active, overrun, pc, job, begun>>

Step(h) == Run(h) \/ Block(h) \/ End(h)

Next ==
    \/ \E h \in Handlers :
        \/ \E r \in Requests : Begin(h, r) \/ Reject(h, r)
        \/ Run(h) \/ Block(h) \/ End(h) \/ Overrun(h)
    \/ PGWHealth

\* Every handler runs under an operation context with a deadline, so it goes on.
Spec == Init /\ [][Next]_vars /\ \A h \in Handlers : WF_vars(Step(h))

-----------------------------------------------------------------------------
(* Properties.                                                             *)

\* The handler's procedure has not outlasted the timeout.
InTime(h) == <<job[h].req.at, job[h].id>> \notin overrun

\* Two procedures that work on the same session at the same time, the earlier one
\* within its timeout, are such that the later one is allowed beside the earlier one,
\* whatever finished, was refused, blocked or swept in between ("strict rejects unsafe
\* overlaps").
NoUnsafeOverlap ==
    \A h, g \in Handlers :
        LET p == job[h].req
            q == job[g].req IN
        (/\ pc[h] = "running" /\ pc[g] = "running"
         /\ InTime(h)
         /\ job[h].stamp < job[g].stamp
         /\ p.touches \cap q.touches # {})
        => Allows(p.proc, p.ebis, q.proc, q.ebis)

\* Nothing stays in a tracker without a handler that will take it out: a refused or
\* blocked procedure leaves no entry that would refuse the session's next ones.
TrackedIsLive ==
    \A s \in Sessions : \A a \in active[s] :
        \E h \in Handlers : pc[h] # "idle" /\ job[h].req.at = s /\ job[h].id = a.id

\* The procedure an entry stands for eventually ends, and no tracker stays busy for
\* ever on its account.
TrackersDrain ==
    \A s \in Sessions, n \in 1..MaxBegins :
        (\E a \in active[s] : a.id = n) ~> (\A a \in active[s] : a.id # n)
=============================================================================
