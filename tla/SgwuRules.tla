----------------------------- MODULE SgwuRules -----------------------------
(***************************************************************************)
(* The user plane of SGW-U: the store of PFCP sessions with their rules,   *)
(* the goroutines that serve PFCP session requests, the compiler that      *)
(* copies the rules to the XDP fast path, and the GTP-U forwarders that    *)
(* take what the fast path lets pass.                                      *)
(*                                                                         *)
(* Two kinds of locks: the store's (Store.mu) and one per session          *)
(* (Session.Mu), both sync.RWMutex: a writer that waits keeps new readers  *)
(* out. Sections that take one lock are one step; the two that hold one    *)
(* and take another are several: Store.FindByLocalTEID holds the store     *)
(* while it locks sessions, applySessionModification holds a session while *)
(* AllocTEID locks the store. Who holds and who waits follows from where   *)
(* each goroutine is.                                                      *)
(*                                                                         *)
(* A rule is a PDR with the FAR it refers to, <<session, id>>; its TEID is *)
(* random and taken to be nobody else's, so that the rule stands for it.   *)
(* Associations and restarts are in SxaLifecycle.                          *)
(***************************************************************************)
EXTENDS Naturals, FiniteSets

CONSTANTS
    SEIDs,       \* sessions by CP-SEID, each established at most once
    AtStart,     \* those established already
    Ids,         \* rule IDs
    Default,     \* the rules a session is established with
    Core,        \* the rules for packets from the core: downlink
    Tunnels,     \* outer headers a FAR may be given
    NoTunnel,
    Reqs,        \* PFCP requests, a goroutine each
    Fwd,         \* forwarders, a goroutine each
    UseBPF,      \* attach_on_start
    MayFail      \* for whom a write to the map of the fast path may fail

ASSUME RulesAssumption ==
    /\ SEIDs # {} /\ AtStart \subseteq SEIDs
    /\ Default # {} /\ Default \subseteq Ids /\ Core \subseteq Ids
    /\ NoTunnel \notin Tunnels
    /\ UseBPF \in BOOLEAN /\ MayFail \subseteq {"install", "apply", "clear"}

VARIABLES
    st,     \* sessions: "none", "in" the store, "gone"
    rules,  \* the rules of a session, also of one that is gone
    bpf,    \* the fast path: what it does for each rule's TEID
    req,    \* requests
    fwd     \* forwarders, and the packet each has

planeVars == <<st, rules, bpf, req, fwd>>

Rules    == SEIDs \X Ids
Absent   == [act |-> "absent", tun |-> NoTunnel, why |-> "none"]
Initial  == [act |-> "drop", tun |-> NoTunnel, why |-> "none"]
Forw(k)  == [act |-> "forw", tun |-> k, why |-> "none"]
FAR      == [act : {"absent", "drop", "forw"}, tun : Tunnels \cup {NoTunnel},
             why : {"none", "release", "policy"}]
NoEntry  == [act |-> "none", tun |-> NoTunnel]
Entry    == [act : {"none", "forward", "drop", "punt"}, tun : Tunnels \cup {NoTunnel}]
SmrOps   == {"create", "remove", "forward", "drop"}
ReqOps   == {"none", "establish", "delete"} \cup SmrOps
NewReq   == [pc |-> "new", op |-> "none", r |-> CHOOSE p \in Rules : TRUE, tun |-> NoTunnel]
NoPacket == [pc |-> "idle", r |-> CHOOSE p \in Rules : TRUE, todo |-> {}, res |-> "none",
             tun |-> NoTunnel, was |-> FALSE, known |-> FALSE, idle |-> FALSE, ok |-> {}]

There(R, p) == R[p].act # "absent"
Of(s)       == {p \in Rules : p[1] = s}

PlaneTypeOK ==
    /\ st \in [SEIDs -> {"none", "in", "gone"}]
    /\ rules \in [Rules -> FAR] /\ bpf \in [Rules -> Entry]
    /\ req \in [Reqs -> [pc : {"new", "alloc", "store", "install", "rollback", "find", "lock", "choose",
                               "apply", "clear", "delete", "ok", "rejected"},
                         op : ReqOps, r : Rules, tun : Tunnels \cup {NoTunnel}]]
    /\ fwd \in [Fwd -> [pc : {"idle", "look", "visit", "far", "send", "done"}, r : Rules,
                        todo : SUBSET SEIDs, res : {"none", "sent", "dropped", "reported", "unknown"},
                        tun : Tunnels \cup {NoTunnel}, was : BOOLEAN, known : BOOLEAN,
                        idle : BOOLEAN, ok : SUBSET Tunnels]]

-----------------------------------------------------------------------------
(* The compiler.                                                           *)

\* Faulty variant: every drop stays in the fast path.
Compiled_Drop(p, x) == [act |-> IF x.act = "forw" THEN "forward" ELSE "drop", tun |-> x.tun]

\* buildValue: what the fast path does for rule p with FAR x. A downlink packet of a
\* released bearer goes to user space, to be reported.
Compiled(p, x) ==
    CASE x.act = "forw" /\ x.tun # NoTunnel                        -> [act |-> "forward", tun |-> x.tun]
      [] x.act = "drop" /\ ~(p[2] \in Core /\ x.why = "release")   -> [act |-> "drop", tun |-> NoTunnel]
      [] OTHER                                                     -> [act |-> "punt", tun |-> NoTunnel]

\* Faulty variant: a rule that is there already is taken to be unchanged.
Synced_Once(R, s, F) == [p \in Rules |->
    IF p[1] = s /\ There(R, p) /\ p \notin F /\ bpf[p] = NoEntry THEN Compiled(p, R[p]) ELSE bpf[p]]

\* syncRules with the rules R of session s: each is written, but for those (F) whose
\* write fails; the others are not undone. A rule that is no longer in R is left alone.
Synced(R, s, F) == [p \in Rules |->
    IF p[1] = s /\ There(R, p) /\ p \notin F THEN Compiled(p, R[p]) ELSE bpf[p]]
Failing(pc, s) == IF UseBPF /\ pc \in MayFail THEN SUBSET {p \in Of(s) : There(rules, p)} ELSE {{}}
Installed(R, s, F) == IF UseBPF THEN Synced(R, s, F) ELSE bpf

\* RemoveSession.
Cleared(s, F) == [p \in Rules |-> IF p[1] = s /\ There(rules, p) /\ p \notin F THEN NoEntry ELSE bpf[p]]

-----------------------------------------------------------------------------
(* Locks.                                                                  *)

Writers      == {"store", "rollback", "delete"}
StoreRead    == \A t \in Reqs : req[t].pc \notin Writers
StoreWrite   == \A f \in Fwd : fwd[f].pc # "visit"
Locked(s)    == \E t \in Reqs : req[t].pc \in {"choose", "apply"} /\ req[t].r[1] = s

-----------------------------------------------------------------------------
(* What a packet under way may still see.                                  *)

InUse(S, R, p)    == S[p[1]] = "in" /\ There(R, p)
Current(R, p)     == {k \in Tunnels : R[p] = Forw(k)}
Released(S, R, p) == InUse(S, R, p) /\ R[p].why = "release" /\ p[2] \in Core

\* History: the tunnels the rule had since the packet came, and whether it was there,
\* and released, all the time.
Witness ==
    fwd' = [f \in Fwd |-> IF fwd[f].pc = "idle" THEN fwd[f] ELSE
              [fwd[f] EXCEPT !.ok = @ \cup Current(rules', fwd[f].r),
                             !.known = @ /\ InUse(st', rules', fwd[f].r),
                             !.idle = @ /\ Released(st', rules', fwd[f].r)]]

-----------------------------------------------------------------------------
(* Session requests.                                                       *)

Go(t, pc) == req' = [req EXCEPT ![t].pc = pc]

PlaneInit ==
    /\ st = [s \in SEIDs |-> IF s \in AtStart THEN "in" ELSE "none"]
    /\ rules = [p \in Rules |-> IF p[1] \in AtStart /\ p[2] \in Default THEN Initial ELSE Absent]
    /\ bpf = [p \in Rules |-> IF UseBPF /\ There(rules, p) THEN Compiled(p, rules[p]) ELSE NoEntry]
    /\ req = [t \in Reqs |-> NewReq]
    /\ fwd = [f \in Fwd |-> NoPacket]

DefaultRule(s) == <<s, CHOOSE i \in Default : TRUE>>
Establishing(s) == [pc |-> "alloc", op |-> "establish", r |-> DefaultRule(s), tun |-> NoTunnel]

\* A request comes in. SGW-C knows a session from the answer to its establishment, and
\* chooses rule IDs it has not used for the session.
Receive(t, op, p, k) ==
    /\ req[t].pc = "new"
    /\ op = "forward" \/ k = NoTunnel
    /\ op # "establish" => \/ p[1] \in AtStart
                           \/ \E u \in Reqs : req[u] = [Establishing(p[1]) EXCEPT !.pc = "ok"]
    /\ op \in {"establish", "delete"} => p = DefaultRule(p[1])
    /\ op = "create" => p[2] \notin Default /\ \A u \in Reqs : req[u].op = "create" => req[u].r # p
    /\ req' = [req EXCEPT ![t] = [pc |-> IF op = "establish" THEN "alloc" ELSE "find",
                                  op |-> op, r |-> p, tun |-> k]]
    /\ UNCHANGED <<st, rules, bpf, fwd>>

\* handleSessionEstablishment: AllocTEID, Store.Create, InstallSession, and the rollback
\* when the fast path refuses.
AllocTEIDs(t) ==
    /\ req[t].pc = "alloc" /\ StoreRead
    /\ Go(t, "store")
    /\ UNCHANGED <<st, rules, bpf, fwd>>
CreateStored(t) ==
    LET s == req[t].r[1] IN
    /\ req[t].pc = "store" /\ StoreWrite
    /\ \/ st[s] = "in" /\ Go(t, "rejected") /\ UNCHANGED <<st, rules, fwd>>
       \/ /\ st[s] = "none"
          /\ st' = [st EXCEPT ![s] = "in"]
          /\ rules' = [p \in Rules |-> IF p[1] = s /\ p[2] \in Default THEN Initial ELSE rules[p]]
          /\ Go(t, "install")
          /\ Witness
    /\ UNCHANGED bpf
Install(t) ==
    /\ req[t].pc = "install" /\ ~Locked(req[t].r[1])
    /\ \E F \in Failing("install", req[t].r[1]) :
        /\ bpf' = Installed(rules, req[t].r[1], F)
        /\ Go(t, IF F = {} THEN "ok" ELSE "rollback")
    /\ UNCHANGED <<st, rules, fwd>>
Rollback(t) ==
    /\ req[t].pc = "rollback" /\ StoreWrite
    /\ st' = [st EXCEPT ![req[t].r[1]] = "gone"]
    /\ Go(t, "rejected")
    /\ UNCHANGED <<rules, bpf>>
    /\ Witness

\* handleSessionModification and handleSessionDeletion find the session ...
Find(t) ==
    /\ req[t].pc = "find" /\ StoreRead
    /\ Go(t, IF st[req[t].r[1]] # "in" THEN "rejected"
             ELSE IF req[t].op = "delete" THEN "clear" ELSE "lock")
    /\ UNCHANGED <<st, rules, bpf, fwd>>

\* ... and a modification locks it, which may be gone by then.
Lock(t) ==
    /\ req[t].pc = "lock" /\ ~Locked(req[t].r[1])
    /\ Go(t, IF req[t].op = "create" THEN "choose" ELSE "apply")
    /\ UNCHANGED <<st, rules, bpf, fwd>>

\* AllocTEID for a new PDR, with the session locked.
ChooseTEID(t) ==
    /\ req[t].pc = "choose" /\ StoreRead
    /\ Go(t, "apply")
    /\ UNCHANGED <<st, rules, bpf, fwd>>

\* applyFARUpdatesToCandidate: the reason of a drop.
Dropped(p, x) == [x EXCEPT !.act = "drop",
    !.why = IF x.act = "forw" /\ p[2] \in Core THEN "release"
            ELSE IF x.why = "none" THEN "policy" ELSE x.why]

\* The candidate: what the rules of the session are to be.
Candidate(x) == [rules EXCEPT ![x.r] =
    CASE x.op = "create"  -> Initial
      [] x.op = "remove"  -> Absent
      [] x.op = "forward" -> Forw(x.tun)
      [] x.op = "drop"    -> Dropped(x.r, @)]

\* applySessionModification: all or nothing, the fast path first. A rule to be created
\* must not be there, one to be removed or updated must.
Apply(t) ==
    LET x == req[t]
        valid == (x.op = "create") # There(rules, x.r) IN
    /\ x.pc = "apply"
    /\ UNCHANGED st
    /\ \/ ~valid /\ Go(t, "rejected") /\ UNCHANGED <<rules, bpf, fwd>>
       \/ /\ valid
          /\ \E F \in Failing("apply", x.r[1]) :
                /\ bpf' = Installed(Candidate(x), x.r[1], F)
                /\ rules' = IF F = {} THEN Candidate(x) ELSE rules
                /\ Go(t, IF F = {} THEN "ok" ELSE "rejected")
          /\ Witness

\* handleSessionDeletion: the fast path first, whatever fails there.
Clear(t) ==
    LET s == req[t].r[1] IN
    /\ req[t].pc = "clear" /\ ~Locked(s)
    /\ \E F \in Failing("clear", s) : bpf' = Cleared(s, F)
    /\ Go(t, "delete")
    /\ UNCHANGED <<st, rules, fwd>>
DeleteStored(t) ==
    /\ req[t].pc = "delete" /\ StoreWrite
    /\ st' = [st EXCEPT ![req[t].r[1]] = "gone"]
    /\ Go(t, "ok")
    /\ UNCHANGED <<rules, bpf>>
    /\ Witness

-----------------------------------------------------------------------------
(* Packets.                                                                *)

Step(f, x) == fwd' = [fwd EXCEPT ![f] = x] /\ UNCHANGED <<st, rules, bpf, req>>
Done(f, res, k) == Step(f, [fwd[f] EXCEPT !.pc = "done", !.todo = {}, !.res = res, !.tun = k])

\* A packet for the TEID of rule p. The fast path forwards or drops it, or it goes to the
\* socket: without an entry or with one that says so, and always when it is a fragment or
\* has an extension header.
Arrive(f, p) ==
    /\ fwd[f].pc = "idle"
    /\ LET x == [NoPacket EXCEPT !.r = p, !.was = InUse(st, rules, p),
                                 !.known = InUse(st, rules, p), !.idle = Released(st, rules, p),
                                 !.ok = Current(rules, p)] IN
       \/ bpf[p].act = "forward" /\ Step(f, [x EXCEPT !.pc = "done", !.res = "sent", !.tun = bpf[p].tun])
       \/ bpf[p].act = "drop"    /\ Step(f, [x EXCEPT !.pc = "done", !.res = "dropped"])
       \/ Step(f, [x EXCEPT !.pc = "look"])

\* FindByLocalTEID takes the store's lock ...
Look(f) ==
    /\ fwd[f].pc = "look" /\ StoreRead
    /\ Step(f, [fwd[f] EXCEPT !.pc = "visit", !.todo = {s \in SEIDs : st[s] = "in"}])

\* Faulty variant: only the rules a session was established with are searched.
Sees_Default(f, s) == fwd[f].r[1] = s /\ There(rules, fwd[f].r) /\ fwd[f].r[2] \in Default

\* ... and each session's in turn, until one has the TEID.
Sees(f, s) == fwd[f].r[1] = s /\ There(rules, fwd[f].r)
Visit(f, s) ==
    /\ fwd[f].pc = "visit" /\ s \in fwd[f].todo /\ ~Locked(s)
    /\ IF Sees(f, s)
       THEN Step(f, [fwd[f] EXCEPT !.pc = "far", !.todo = {}])
       ELSE Step(f, [fwd[f] EXCEPT !.todo = @ \ {s}])

\* No session has it: Error Indication.
Unknown(f) ==
    /\ fwd[f].pc = "visit" /\ fwd[f].todo = {}
    /\ Done(f, "unknown", NoTunnel)

\* handleGPDU copies the FAR under the session's lock.
CopyFAR(f) ==
    LET x == rules[fwd[f].r] IN
    /\ fwd[f].pc = "far" /\ ~Locked(fwd[f].r[1])
    /\ \/ x.act = "forw" /\ x.tun # NoTunnel /\ Step(f, [fwd[f] EXCEPT !.pc = "send", !.tun = x.tun])
       \/ x.act = "drop" /\ fwd[f].r[2] \in Core /\ x.why = "release" /\ Done(f, "reported", NoTunnel)
       \/ /\ ~(x.act = "forw" /\ x.tun # NoTunnel) /\ ~(fwd[f].r[2] \in Core /\ x.why = "release")
          /\ Done(f, "dropped", NoTunnel)

\* forwardGPDU.
ForwardGPDU(f) == fwd[f].pc = "send" /\ Done(f, "sent", fwd[f].tun)

NextPacket(f) == fwd[f].pc = "done" /\ Step(f, NoPacket)

-----------------------------------------------------------------------------
Serve(t) ==
    \/ AllocTEIDs(t) \/ CreateStored(t) \/ Install(t) \/ Rollback(t)
    \/ Find(t) \/ Lock(t) \/ ChooseTEID(t) \/ Apply(t) \/ Clear(t) \/ DeleteStored(t)
Forward(f) ==
    \/ Look(f) \/ Unknown(f) \/ CopyFAR(f) \/ ForwardGPDU(f) \/ NextPacket(f)
    \/ \E s \in SEIDs : Visit(f, s)

PlaneNext ==
    \/ \E t \in Reqs, op \in ReqOps \ {"none"}, p \in Rules, k \in Tunnels \cup {NoTunnel} : Receive(t, op, p, k)
    \/ \E t \in Reqs : Serve(t)
    \/ \E f \in Fwd : Forward(f) \/ \E p \in Rules : Arrive(f, p)

PlaneSpec == PlaneInit /\ [][PlaneNext]_planeVars

\* Goroutines that can run, run.
FairSpec == PlaneSpec /\ (\A t \in Reqs : WF_planeVars(Serve(t))) /\ (\A f \in Fwd : WF_planeVars(Forward(f)))

-----------------------------------------------------------------------------
(* Properties.                                                             *)

\* A packet that came for a rule in use leaves through a tunnel the rule had since: never
\* through the one it had before a handover that was already made, in the fast path and
\* in user space.
SentIsCurrent == \A f \in Fwd :
    fwd[f].pc = "done" /\ fwd[f].res = "sent" /\ fwd[f].was => fwd[f].tun \in fwd[f].ok

\* A downlink packet of a bearer that is released all the time is reported, for the UE to
\* be paged; neither path drops it in silence.
IdleReported == \A f \in Fwd : fwd[f].pc = "done" /\ fwd[f].idle => fwd[f].res = "reported"

\* The peer is told that a TEID is unknown, and gives the bearer up, only if it was not in
\* use for a moment: a session being modified or established at the same time does not
\* hide the others.
UnknownIsTrue == \A f \in Fwd : fwd[f].pc = "done" /\ fwd[f].res = "unknown" => ~fwd[f].known

\* The rules of the fast path are overwritten with those of the session (bpf): it forwards
\* nothing for a rule that was removed, or whose session is gone or was refused.
RemovedIsDead == \A f \in Fwd :
    fwd[f].pc = "done" /\ fwd[f].res = "sent" => fwd[f].was

\* "Serve runs the receive loop until ctx is cancelled" (gtpu): every packet is done with.
LoopRuns == \A f \in Fwd : fwd[f].pc # "idle" ~> fwd[f].pc = "idle"
=============================================================================
