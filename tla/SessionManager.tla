--------------------------- MODULE SessionManager ---------------------------
(***************************************************************************)
(* The session store of SGW-C: session.Manager with its six indexes, the   *)
(* allocator of S11 TEIDs (under a lock of its own), the allocator of      *)
(* S5/S8-C TEIDs kept by the S5-C client, and the goroutines of the S11    *)
(* handler that create and delete sessions between them.                   *)
(*                                                                         *)
(* A session is named by the order in which the sessions were created, so  *)
(* that a later CreatedAt is a larger number. What the Manager does under  *)
(* one hold of its mutex is one step; what the handler reads before is     *)
(* another.                                                                *)
(***************************************************************************)
EXTENDS Naturals, FiniteSets, Sequences

CONSTANTS
    IMSIs, EBIs,  \* subscribers, and the default bearers of their PDN connections
    Teids,        \* the S11 TEIDs that may be drawn
    S5Teids,      \* the S5/S8-C TEIDs that may be drawn
    PGWs,
    Handlers,     \* goroutines that serve S11 requests
    NoTeid, NoPGW,
    MaxSessions,  \* bound: sessions created over all lives of the process
    MaxRestarts   \* bound: restarts of SGW-C

ASSUME SessionManagerAssumption ==
    /\ IMSIs # {} /\ EBIs # {}
    /\ NoTeid \notin Teids \cup S5Teids
    /\ NoPGW \notin PGWs
    /\ MaxSessions \in Nat /\ MaxRestarts \in Nat

NoId == 0
Ids  == 1..MaxSessions
Sess == [imsi : IMSIs, ebi : EBIs, s11 : Teids,
         s5c : S5Teids \cup {NoTeid}, pgw : PGWs \cup {NoPGW}]

VARIABLES
    sess,      \* the session objects made so far
    byID,      \* m.byID: the sessions stored
    byS11,     \* m.byS11: S11 TEID -> sessions that share it
    byS5C,     \* m.byS5C: S5/S8-C TEID -> session
    byPGW,     \* m.byPGW: PGW -> sessions
    byIMSI,    \* m.byIMSI: subscriber -> most recent session
    byPDN,     \* m.byPDN: subscriber and default bearer -> session
    used,      \* m.teidAlloc.used
    usedS5C,   \* s5c.Client.teidAlloc.used
    pc, req, teid, cur,  \* a handler: where it is, its request, its TEID, its session
    restarts

mgrVars == <<byID, byS11, byS5C, byPGW, byIMSI, byPDN>>
hVars   == <<pc, req, teid, cur>>
vars    == <<sess, mgrVars, used, usedS5C, hVars, restarts>>

PCs == {"idle", "found", "made", "stored", "s5c", "indexed", "answered", "freeing"}

TypeOK ==
    /\ sess \in Seq(Sess) /\ Len(sess) <= MaxSessions
    /\ byID \subseteq 1..Len(sess)
    /\ byS11 \in [Teids -> SUBSET (1..Len(sess))]
    /\ byS5C \in [S5Teids -> 0..Len(sess)]
    /\ byPGW \in [PGWs -> SUBSET (1..Len(sess))]
    /\ byIMSI \in [IMSIs -> 0..Len(sess)]
    /\ byPDN \in [IMSIs \X EBIs -> 0..Len(sess)]
    /\ used \subseteq Teids
    /\ usedS5C \subseteq S5Teids
    /\ pc \in [Handlers -> PCs]
    /\ req \in [Handlers -> IMSIs \X EBIs]
    /\ teid \in [Handlers -> Teids \cup {NoTeid}]
    /\ cur \in [Handlers -> 0..Len(sess)]
    /\ restarts \in 0..MaxRestarts

Init ==
    /\ sess = <<>>
    /\ byID = {}
    /\ byS11 = [t \in Teids |-> {}]
    /\ byS5C = [t \in S5Teids |-> NoId]
    /\ byPGW = [p \in PGWs |-> {}]
    /\ byIMSI = [i \in IMSIs |-> NoId]
    /\ byPDN = [k \in IMSIs \X EBIs |-> NoId]
    /\ used = {}
    /\ usedS5C = {}
    /\ pc = [h \in Handlers |-> "idle"]
    /\ req = [h \in Handlers |-> CHOOSE k \in IMSIs \X EBIs : TRUE]
    /\ teid = [h \in Handlers |-> NoTeid]
    /\ cur = [h \in Handlers |-> NoId]
    /\ restarts = 0

-----------------------------------------------------------------------------
(* The pieces of removeLocked: what is left of each index without session x. *)

\* The most recent of a set of sessions, by CreatedAt.
Newest(S) == IF S = {} THEN NoId ELSE CHOOSE x \in S : \A y \in S : y <= x

OfIMSI(i, S) == {x \in S : sess[x].imsi = i}
PDN(x)       == <<sess[x].imsi, sess[x].ebi>>

\* Faulty variant: the whole entry under the TEID goes.
ByS11Without_WholeEntry(x) == [byS11 EXCEPT ![sess[x].s11] = {}]

ByS11Without(x) == [byS11 EXCEPT ![sess[x].s11] = @ \ {x}]

\* Faulty variant: the entry stays.
ByS5CWithout_Keep(x) == byS5C

\* The entry under the session's S5/S8-C TEID goes, whoever it points to.
ByS5CWithout(x) == [t \in S5Teids |-> IF t = sess[x].s5c THEN NoId ELSE byS5C[t]]

ByPGWWithout(x) == [p \in PGWs |-> IF p = sess[x].pgw THEN byPGW[p] \ {x} ELSE byPGW[p]]

ByPDNWithout(x) ==
    [k \in IMSIs \X EBIs |-> IF k = PDN(x) /\ byPDN[k] = x THEN NoId ELSE byPDN[k]]

ByIMSIWithout(x) ==
    [i \in IMSIs |-> IF i = sess[x].imsi /\ byIMSI[i] = x
                     THEN Newest(OfIMSI(i, byID \ {x})) ELSE byIMSI[i]]

\* Faulty variant: the TEID is never freed.
UsedWithout_Keep(x) == used

\* The S11 TEID goes back to the allocator with the last session under it.
UsedWithout(x) == IF byS11[sess[x].s11] \subseteq {x} THEN used \ {sess[x].s11} ELSE used

\* Manager.Delete. Nothing happens when the session is no longer stored.
Delete(x) ==
    IF x \in byID
    THEN /\ byID' = byID \ {x}
         /\ byS11' = ByS11Without(x)
         /\ byS5C' = ByS5CWithout(x)
         /\ byPGW' = ByPGWWithout(x)
         /\ byPDN' = ByPDNWithout(x)
         /\ byIMSI' = ByIMSIWithout(x)
         /\ used' = UsedWithout(x)
    ELSE UNCHANGED <<mgrVars, used>>

-----------------------------------------------------------------------------
(* Create Session Request.                                                 *)

\* The sessions of a subscriber whose S11 TEID the MME was given in a response.
KnownToMME(i) == {x \in OfIMSI(i, byID) : \A h \in Handlers : cur[h] # x}

\* A Create Session Request for bearer e of subscriber i arrives. An MME that has a
\* connection of the subscriber addresses the S11 TEID it was given for it; the
\* handler looks the TEID up to share it, and lets go of the mutex.
FindReuse(h, i, e) ==
    /\ pc[h] = "idle"
    /\ Len(sess) < MaxSessions
    /\ \E t \in {NoTeid} \cup {sess[x].s11 : x \in KnownToMME(i)} :
        teid' = [teid EXCEPT ![h] = t]
    /\ req' = [req EXCEPT ![h] = <<i, e>>]
    /\ pc' = [pc EXCEPT ![h] = "found"]
    /\ UNCHANGED <<sess, mgrVars, used, usedS5C, cur, restarts>>

\* Faulty variant: the allocator may draw zero.
NewSession_ZeroTeid(h) ==
    /\ pc[h] = "found"
    /\ Len(sess) < MaxSessions
    /\ \E t \in Teids \cup {NoTeid} :
        /\ t \notin used
        /\ used' = used \cup {t}
        /\ teid' = [teid EXCEPT ![h] = t]
        /\ sess' = Append(sess, [imsi |-> req[h][1], ebi |-> req[h][2], s11 |-> t,
                                 s5c |-> NoTeid, pgw |-> NoPGW])
    /\ cur' = [cur EXCEPT ![h] = Len(sess) + 1]
    /\ pc' = [pc EXCEPT ![h] = "made"]
    /\ UNCHANGED <<mgrVars, usedS5C, req, restarts>>

\* Manager.Create up to the lock: a TEID is drawn unless one is shared, and the
\* session object is made with its CreatedAt.
NewSession(h) ==
    /\ pc[h] = "found"
    /\ Len(sess) < MaxSessions
    /\ \E t \in Teids :
        /\ IF teid[h] = NoTeid
           THEN t \notin used /\ used' = used \cup {t}
           ELSE t = teid[h] /\ UNCHANGED used
        /\ teid' = [teid EXCEPT ![h] = t]
        /\ sess' = Append(sess, [imsi |-> req[h][1], ebi |-> req[h][2], s11 |-> t,
                                 s5c |-> NoTeid, pgw |-> NoPGW])
    /\ cur' = [cur EXCEPT ![h] = Len(sess) + 1]
    /\ pc' = [pc EXCEPT ![h] = "made"]
    /\ UNCHANGED <<mgrVars, usedS5C, req, restarts>>

\* The TEID or the session ID cannot be drawn: what was drawn is given back.
CreateFails(h) ==
    /\ pc[h] = "found"
    /\ pc' = [pc EXCEPT ![h] = "idle"]
    /\ teid' = [teid EXCEPT ![h] = NoTeid]
    /\ UNCHANGED <<sess, mgrVars, used, usedS5C, req, cur, restarts>>

\* Manager.Create under the lock: the session stored for the same subscriber and
\* bearer is evicted, its TEID freed if nothing else is under it, and the new
\* session goes into the indexes.
Store(h) ==
    LET n   == cur[h]
        old == byPDN[req[h]]
        ev  == old # NoId
        s11 == IF ev THEN ByS11Without(old) ELSE byS11
        imsi == IF ev THEN ByIMSIWithout(old) ELSE byIMSI
        pdn == IF ev THEN ByPDNWithout(old) ELSE byPDN
    IN
    /\ pc[h] = "made"
    /\ byID' = (byID \ {old}) \cup {n}
    /\ byS11' = [s11 EXCEPT ![teid[h]] = @ \cup {n}]
    /\ byS5C' = IF ev THEN ByS5CWithout(old) ELSE byS5C
    /\ byPGW' = IF ev THEN ByPGWWithout(old) ELSE byPGW
    /\ byPDN' = [pdn EXCEPT ![req[h]] = n]
    /\ byIMSI' = [imsi EXCEPT ![req[h][1]] = n]
    /\ used' = IF ev /\ sess[old].s11 # teid[h] THEN UsedWithout(old) ELSE used
    /\ pc' = [pc EXCEPT ![h] = "stored"]
    /\ UNCHANGED <<sess, usedS5C, req, teid, cur, restarts>>

\* The PFCP session is established; the handler draws the S5/S8-C TEID and writes it
\* into the session object.
SetSGWS5CFTEID(h) ==
    /\ pc[h] = "stored"
    /\ \E t \in S5Teids \ usedS5C :
        /\ usedS5C' = usedS5C \cup {t}
        /\ sess' = [sess EXCEPT ![cur[h]].s5c = t]
    /\ pc' = [pc EXCEPT ![h] = "s5c"]
    /\ UNCHANGED <<mgrVars, used, req, teid, cur, restarts>>

\* RegisterS5CTEID: nothing happens when the session was removed meanwhile.
RegisterS5CTEID(h) ==
    /\ pc[h] = "s5c"
    /\ byS5C' = IF cur[h] \in byID THEN [byS5C EXCEPT ![sess[cur[h]].s5c] = cur[h]]
                ELSE byS5C
    /\ pc' = [pc EXCEPT ![h] = "indexed"]
    /\ UNCHANGED <<sess, byID, byS11, byPGW, byIMSI, byPDN, used, usedS5C, req, teid, cur, restarts>>

\* RegisterPGW, once the PGW has accepted.
RegisterPGW(h, p) ==
    /\ pc[h] = "indexed"
    /\ IF cur[h] \in byID
       THEN /\ byPGW' = [byPGW EXCEPT ![p] = @ \cup {cur[h]}]
            /\ sess' = [sess EXCEPT ![cur[h]].pgw = p]
       ELSE UNCHANGED <<byPGW, sess>>
    /\ pc' = [pc EXCEPT ![h] = "answered"]
    /\ UNCHANGED <<byID, byS11, byS5C, byIMSI, byPDN, used, usedS5C, req, teid, cur, restarts>>

\* The Create Session Response goes out.
CreateDone(h) ==
    /\ pc[h] = "answered"
    /\ pc' = [pc EXCEPT ![h] = "idle"]
    /\ teid' = [teid EXCEPT ![h] = NoTeid]
    /\ cur' = [cur EXCEPT ![h] = NoId]
    /\ UNCHANGED <<sess, mgrVars, used, usedS5C, req, restarts>>

\* No PGW address, no PFCP session, no S5/S8-C TEID, a PGW that rejects or does not
\* answer, or a failed update of the uplink FAR: the session is deleted.
AbortCreate(h) ==
    /\ pc[h] \in {"stored", "indexed", "answered"}
    /\ Delete(cur[h])
    /\ IF pc[h] = "stored"
       THEN /\ pc' = [pc EXCEPT ![h] = "idle"]
            /\ cur' = [cur EXCEPT ![h] = NoId]
       ELSE /\ pc' = [pc EXCEPT ![h] = "freeing"]
            /\ UNCHANGED cur
    /\ teid' = [teid EXCEPT ![h] = NoTeid]
    /\ UNCHANGED <<sess, usedS5C, req, restarts>>

\* releaseS5CTEID, after the session is gone from the indexes.
ReleaseS5CTEID(h) ==
    /\ pc[h] = "freeing"
    /\ usedS5C' = usedS5C \ {sess[cur[h]].s5c}
    /\ pc' = [pc EXCEPT ![h] = "idle"]
    /\ cur' = [cur EXCEPT ![h] = NoId]
    /\ UNCHANGED <<sess, mgrVars, used, req, teid, restarts>>

-----------------------------------------------------------------------------
\* The end of Delete Session, or of a deletion after an MME restart. The S5/S8-C
\* TEID stays allocated.
DeleteSession(h, x) ==
    /\ pc[h] = "idle"
    /\ x \in byID
    /\ Delete(x)
    /\ UNCHANGED <<sess, usedS5C, hVars, restarts>>

\* RestoreSnapshots refuses, as a whole, snapshots in which two sessions have the
\* same S5/S8-C TEID (two with the same PDN connection are never stored).
Restorable(S) ==
    \A x, y \in S : x # y => sess[x].s5c = NoTeid \/ sess[x].s5c # sess[y].s5c

\* The process restarts and restores the sessions S whose snapshots were written.
\* The S11 allocator gets their TEIDs reserved; the S5/S8-C allocator is new.
Restart(S) ==
    LET R == IF Restorable(S) THEN S ELSE {} IN
    /\ restarts < MaxRestarts
    /\ S \subseteq byID
    /\ restarts' = restarts + 1
    /\ byID' = R
    /\ byS11' = [t \in Teids |-> {x \in R : sess[x].s11 = t}]
    /\ byS5C' = [t \in S5Teids |-> Newest({x \in R : sess[x].s5c = t})]
    /\ byPGW' = [p \in PGWs |-> {x \in R : sess[x].pgw = p}]
    /\ byIMSI' = [i \in IMSIs |-> Newest(OfIMSI(i, R))]
    /\ byPDN' = [k \in IMSIs \X EBIs |-> Newest({x \in R : PDN(x) = k})]
    /\ used' = {sess[x].s11 : x \in R}
    /\ usedS5C' = {}
    /\ pc' = [h \in Handlers |-> "idle"]
    /\ teid' = [h \in Handlers |-> NoTeid]
    /\ cur' = [h \in Handlers |-> NoId]
    /\ UNCHANGED <<sess, req>>

Next ==
    \/ \E h \in Handlers :
        \/ \E i \in IMSIs, e \in EBIs : FindReuse(h, i, e)
        \/ NewSession(h) \/ CreateFails(h) \/ Store(h)
        \/ SetSGWS5CFTEID(h) \/ RegisterS5CTEID(h)
        \/ \E p \in PGWs : RegisterPGW(h, p)
        \/ CreateDone(h) \/ AbortCreate(h) \/ ReleaseS5CTEID(h)
        \/ \E x \in byID : DeleteSession(h, x)
    \/ \E S \in SUBSET byID : Restart(S)

Spec == Init /\ [][Next]_vars

-----------------------------------------------------------------------------
(* Properties.                                                             *)

\* The indexes by TEID, PGW and subscriber point to nothing but stored sessions, each
\* under its own key: no procedure finds a session that is gone or another's.
NoDanglingEntry ==
    /\ \A t \in Teids : \A x \in byS11[t] : x \in byID /\ sess[x].s11 = t
    /\ \A t \in S5Teids : byS5C[t] # NoId => byS5C[t] \in byID /\ sess[byS5C[t]].s5c = t
    /\ \A p \in PGWs : \A x \in byPGW[p] : x \in byID /\ sess[x].pgw = p
    /\ \A i \in IMSIs : byIMSI[i] # NoId => byIMSI[i] \in byID /\ sess[byIMSI[i]].imsi = i
    /\ \A k \in IMSIs \X EBIs : byPDN[k] # NoId => byPDN[k] \in byID /\ PDN(byPDN[k]) = k

\* Every stored session is found under its S11 TEID, its PGW and its subscriber and
\* bearer, and its subscriber is found: a session cannot be stored yet unreachable.
Reachable ==
    \A x \in byID :
        /\ x \in byS11[sess[x].s11]
        /\ byPDN[PDN(x)] = x
        /\ byIMSI[sess[x].imsi] # NoId
        /\ sess[x].pgw # NoPGW => x \in byPGW[sess[x].pgw]

\* An S11 TEID that the allocator holds is that of a stored session or of one about
\* to be stored: no path of create, evict, abort, delete or restore leaks one.
NoS11TeidLeak ==
    \A t \in used :
        byS11[t] # {} \/ \E h \in Handlers : pc[h] = "made" /\ teid[h] = t

\* All sessions under one S11 TEID belong to one subscriber ("PDN sessions sharing
\* the UE/MME S11 context"). This needs the TEID a handler shares to stay allocated
\* until its session is stored.
OneUEPerS11Teid ==
    \A t \in Teids : \A x, y \in byS11[t] : sess[x].imsi = sess[y].imsi

\* The session a PGW-initiated procedure finds under an S5/S8-C TEID is the session
\* that was given the TEID: once a session's TEID is registered, the entry stays its own.
S5CTeidFindsOwner ==
    \A x \in byID :
        \/ sess[x].s5c = NoTeid
        \/ \E h \in Handlers : pc[h] = "s5c" /\ cur[h] = x
        \/ byS5C[sess[x].s5c] = x
=============================================================================
