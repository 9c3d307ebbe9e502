-------------------------- MODULE CheckpointWriter --------------------------
(***************************************************************************)
(* Durable session checkpoints of SGW-C: the goroutines that change        *)
(* sessions and report it to sessioncheckpoint.Writer, the writer's        *)
(* periodic flush into the SQLite store, and the restart that restores the *)
(* sessions from the store.                                                *)
(*                                                                         *)
(* The contents of a session or of a peer is a version number. Manager,    *)
(* session, writer and store have locks of their own: a handler changes    *)
(* the session, takes its snapshot and hands it to the writer in steps     *)
(* that others interleave with.                                            *)
(***************************************************************************)
EXTENDS Naturals, FiniteSets

CONSTANTS
    Sessions,   \* session IDs, never reused
    PDNs,       \* subscriber and default bearer
    Peers,      \* peers whose Recovery values are saved
    Handlers,   \* goroutines that change sessions
    NoSession, NoPDN,
    MaxVer,     \* bound: changes of one session or peer
    MaxErrors,  \* bound: failures of the store
    MaxCrashes  \* bound: crashes of SGW-C

ASSUME CheckpointWriterAssumption ==
    /\ NoSession \notin Sessions /\ NoPDN \notin PDNs
    /\ Sessions \cap Peers = {}
    /\ MaxVer \in Nat \ {0} /\ MaxErrors \in Nat /\ MaxCrashes \in Nat

Keys == Sessions \cup Peers
None == 0

VARIABLES
    live,    \* the sessions in Manager.byID
    pdn,     \* the PDN connection of a session made so far
    ver,     \* the current contents
    pc, sx, sv, ev,  \* a handler: where it is, its session, its snapshot, whom it removed
    dirty,   \* w.dirty and w.peers: the snapshots to be saved
    deleted, \* w.deleted
    fpc, fdirty, fdeleted, \* the flush under way and what it has drained
    store,   \* the rows of the database
    errors, crashes

hVars == <<pc, sx, sv, ev>>
fVars == <<fpc, fdirty, fdeleted>>
vars  == <<live, pdn, ver, hVars, dirty, deleted, fVars, store, errors, crashes>>

Made == {x \in Sessions : pdn[x] # NoPDN}

TypeOK ==
    /\ live \subseteq Made
    /\ pdn \in [Sessions -> PDNs \cup {NoPDN}]
    /\ ver \in [Keys -> 0..MaxVer]
    /\ pc \in [Handlers -> {"idle", "held", "changed", "snapped", "removed"}]
    /\ sx \in [Handlers -> Sessions \cup {NoSession}]
    /\ sv \in [Handlers -> 0..MaxVer]
    /\ ev \in [Handlers -> Sessions \cup {NoSession}]
    /\ dirty \in [Keys -> 0..MaxVer]
    /\ deleted \subseteq Sessions
    /\ fpc \in {"idle", "flushing"}
    /\ fdirty \in [Keys -> 0..MaxVer]
    /\ fdeleted \subseteq Sessions
    /\ store \in [Keys -> 0..MaxVer]
    /\ errors \in 0..MaxErrors
    /\ crashes \in 0..MaxCrashes

Nothing == [k \in Keys |-> None]

Init ==
    /\ live = {}
    /\ pdn = [x \in Sessions |-> NoPDN]
    /\ ver = Nothing
    /\ pc = [h \in Handlers |-> "idle"]
    /\ sx = [h \in Handlers |-> NoSession]
    /\ sv = [h \in Handlers |-> None]
    /\ ev = [h \in Handlers |-> NoSession]
    /\ dirty = Nothing
    /\ deleted = {}
    /\ fpc = "idle"
    /\ fdirty = Nothing
    /\ fdeleted = {}
    /\ store = Nothing
    /\ errors = 0
    /\ crashes = 0

-----------------------------------------------------------------------------
(* The handlers.                                                           *)

\* Faulty variant: the session is stored without its PDN key.
Create_NoKey(h, x, p) ==
    /\ pc[h] = "idle"
    /\ x \notin Made
    /\ live' = live \cup {x}
    /\ ver' = [ver EXCEPT ![x] = 1]
    /\ sx' = [sx EXCEPT ![h] = x]
    /\ pc' = [pc EXCEPT ![h] = "changed"]
    /\ UNCHANGED <<pdn, sv, ev, dirty, deleted, fVars, store, errors, crashes>>

\* Manager.Create under the lock: the session of the same PDN connection is evicted.
Create(h, x, p) ==
    LET old == {y \in live : pdn[y] = p} IN
    /\ pc[h] = "idle"
    /\ x \notin Made
    /\ pdn' = [pdn EXCEPT ![x] = p]
    /\ live' = (live \ old) \cup {x}
    /\ ver' = [ver EXCEPT ![x] = 1]
    /\ sx' = [sx EXCEPT ![h] = x]
    /\ ev' = [ev EXCEPT ![h] = IF old = {} THEN NoSession ELSE CHOOSE y \in old : TRUE]
    /\ pc' = [pc EXCEPT ![h] = "changed"]
    /\ UNCHANGED <<sv, dirty, deleted, fVars, store, errors, crashes>>

\* A handler finds a session and keeps the pointer.
Find(h, x) ==
    /\ pc[h] = "idle"
    /\ x \in live
    /\ sx' = [sx EXCEPT ![h] = x]
    /\ pc' = [pc EXCEPT ![h] = "held"]
    /\ UNCHANGED <<live, pdn, ver, sv, ev, dirty, deleted, fVars, store, errors, crashes>>

\* It changes the session, which may be gone from the Manager by now.
Change(h) ==
    LET x == sx[h] IN
    /\ pc[h] = "held"
    /\ ver[x] < MaxVer
    /\ ver' = [ver EXCEPT ![x] = @ + 1]
    /\ pc' = [pc EXCEPT ![h] = "changed"]
    /\ UNCHANGED <<live, pdn, sx, sv, ev, dirty, deleted, fVars, store, errors, crashes>>

\* checkpoint: Snapshot, under the lock of the session.
Snapshot(h) ==
    /\ pc[h] = "changed"
    /\ sv' = [sv EXCEPT ![h] = ver[sx[h]]]
    /\ pc' = [pc EXCEPT ![h] = "snapped"]
    /\ UNCHANGED <<live, pdn, ver, sx, ev, dirty, deleted, fVars, store, errors, crashes>>

\* checkpoint: the snapshot goes to the writer. Create goes on with what it evicted.
SaveSessionSnapshot(h) ==
    LET x == sx[h] IN
    /\ pc[h] = "snapped"
    /\ dirty' = [dirty EXCEPT ![x] = sv[h]]
    /\ deleted' = deleted \ {x}
    /\ pc' = [pc EXCEPT ![h] = IF ev[h] = NoSession THEN "idle" ELSE "removed"]
    /\ sx' = [sx EXCEPT ![h] = NoSession]
    /\ sv' = [sv EXCEPT ![h] = None]
    /\ UNCHANGED <<live, pdn, ver, ev, fVars, store, errors, crashes>>

\* Manager.Delete: nothing more to do when another handler was first.
Delete(h) ==
    LET x == sx[h] IN
    /\ pc[h] = "held"
    /\ live' = live \ {x}
    /\ pc' = [pc EXCEPT ![h] = IF x \in live THEN "removed" ELSE "idle"]
    /\ ev' = [ev EXCEPT ![h] = IF x \in live THEN x ELSE NoSession]
    /\ sx' = [sx EXCEPT ![h] = NoSession]
    /\ UNCHANGED <<pdn, ver, sv, dirty, deleted, fVars, store, errors, crashes>>

\* Faulty variant: a snapshot that waits to be saved stays in the queue.
DeleteSessionSnapshot_KeepDirty(h) ==
    /\ pc[h] = "removed"
    /\ deleted' = deleted \cup {ev[h]}
    /\ pc' = [pc EXCEPT ![h] = "idle"]
    /\ ev' = [ev EXCEPT ![h] = NoSession]
    /\ UNCHANGED <<live, pdn, ver, sx, sv, dirty, fVars, store, errors, crashes>>

\* Delete and Create report the removed session, after they let go of the lock.
DeleteSessionSnapshot(h) ==
    /\ pc[h] = "removed"
    /\ dirty' = [dirty EXCEPT ![ev[h]] = None]
    /\ deleted' = deleted \cup {ev[h]}
    /\ pc' = [pc EXCEPT ![h] = "idle"]
    /\ ev' = [ev EXCEPT ![h] = NoSession]
    /\ UNCHANGED <<live, pdn, ver, sx, sv, fVars, store, errors, crashes>>

\* A peer's Recovery value changes and is reported.
SavePeerSnapshot(p) ==
    /\ ver[p] < MaxVer
    /\ ver' = [ver EXCEPT ![p] = @ + 1]
    /\ dirty' = [dirty EXCEPT ![p] = ver[p] + 1]
    /\ UNCHANGED <<live, pdn, hVars, deleted, fVars, store, errors, crashes>>

-----------------------------------------------------------------------------
(* The writer.                                                             *)

\* Faulty variant: without snapshots to save there is nothing to flush.
Drain_OnlySaves ==
    /\ fpc = "idle"
    /\ dirty # Nothing
    /\ fpc' = "flushing"
    /\ fdirty' = dirty
    /\ fdeleted' = deleted
    /\ dirty' = Nothing
    /\ deleted' = {}
    /\ UNCHANGED <<live, pdn, ver, hVars, store, errors, crashes>>

\* Flush: drain. (A flush with nothing to do is left out.)
Drain ==
    /\ fpc = "idle"
    /\ deleted # {} \/ dirty # Nothing
    /\ fpc' = "flushing"
    /\ fdirty' = dirty
    /\ fdeleted' = deleted
    /\ dirty' = Nothing
    /\ deleted' = {}
    /\ UNCHANGED <<live, pdn, ver, hVars, store, errors, crashes>>

\* The saves that may come next: sessions before peers, in the order of a Go map.
NextSaves ==
    LET S == {x \in Sessions : fdirty[x] # None} IN
    IF S # {} THEN S ELSE {p \in Peers : fdirty[p] # None}

\* Flush: one deletion.
WriteDelete(x) ==
    /\ x \in fdeleted
    /\ store' = [store EXCEPT ![x] = None]
    /\ fdeleted' = fdeleted \ {x}
    /\ UNCHANGED <<live, pdn, ver, hVars, dirty, deleted, fpc, fdirty, errors, crashes>>

\* Flush: one save, once the deletions are done.
WriteSave(k) ==
    /\ fdeleted = {}
    /\ k \in NextSaves
    /\ store' = [store EXCEPT ![k] = fdirty[k]]
    /\ fdirty' = [fdirty EXCEPT ![k] = None]
    /\ UNCHANGED <<live, pdn, ver, hVars, dirty, deleted, fpc, fdeleted, errors, crashes>>

\* Flush returns the error of a deletion: that one is queued again.
DeleteFails(x) ==
    /\ x \in fdeleted
    /\ errors < MaxErrors
    /\ errors' = errors + 1
    /\ dirty' = [dirty EXCEPT ![x] = None]
    /\ deleted' = deleted \cup {x}
    /\ fpc' = "idle"
    /\ fdirty' = Nothing
    /\ fdeleted' = {}
    /\ UNCHANGED <<live, pdn, ver, hVars, store, crashes>>

\* Faulty variant: what failed is queued again although it was deleted meanwhile.
SaveFails_Always(k) ==
    /\ fdeleted = {}
    /\ k \in NextSaves
    /\ errors < MaxErrors
    /\ errors' = errors + 1
    /\ dirty' = [dirty EXCEPT ![k] = fdirty[k]]
    /\ fpc' = "idle"
    /\ fdirty' = Nothing
    /\ UNCHANGED <<live, pdn, ver, hVars, deleted, fdeleted, store, crashes>>

\* Flush returns the error of a save: that one is queued again unless its session
\* was deleted meanwhile.
SaveFails(k) ==
    /\ fdeleted = {}
    /\ k \in NextSaves
    /\ errors < MaxErrors
    /\ errors' = errors + 1
    /\ dirty' = IF k \in deleted THEN dirty ELSE [dirty EXCEPT ![k] = fdirty[k]]
    /\ fpc' = "idle"
    /\ fdirty' = Nothing
    /\ UNCHANGED <<live, pdn, ver, hVars, deleted, fdeleted, store, crashes>>

\* Faulty variant: the queue is emptied after the flush instead of before it.
FlushDone_Empty ==
    /\ fpc = "flushing"
    /\ fdeleted = {} /\ fdirty = Nothing
    /\ fpc' = "idle"
    /\ dirty' = Nothing
    /\ UNCHANGED <<live, pdn, ver, hVars, deleted, fdirty, fdeleted, store, errors, crashes>>

FlushDone ==
    /\ fpc = "flushing"
    /\ fdeleted = {} /\ fdirty = Nothing
    /\ fpc' = "idle"
    /\ UNCHANGED <<live, pdn, ver, hVars, dirty, deleted, fdirty, fdeleted, store, errors, crashes>>

-----------------------------------------------------------------------------
Stored == {x \in Sessions : store[x] # None}

\* RestoreSnapshots gives up, and restores nothing, when two snapshots are of the
\* same PDN connection.
Restored == IF \E x, y \in Stored : x # y /\ pdn[x] = pdn[y] THEN {} ELSE Stored

\* The process ends and starts again: what was not in the store is lost.
Crash ==
    /\ crashes < MaxCrashes
    /\ crashes' = crashes + 1
    /\ live' = Restored
    /\ ver' = [k \in Keys |-> IF k \in Sessions \ Restored THEN ver[k] ELSE store[k]]
    /\ pc' = [h \in Handlers |-> "idle"]
    /\ sx' = [h \in Handlers |-> NoSession]
    /\ sv' = [h \in Handlers |-> None]
    /\ ev' = [h \in Handlers |-> NoSession]
    /\ dirty' = Nothing
    /\ deleted' = {}
    /\ fpc' = "idle"
    /\ fdirty' = Nothing
    /\ fdeleted' = {}
    /\ UNCHANGED <<pdn, store, errors>>

HandlerStep(h) == Change(h) \/ Snapshot(h) \/ SaveSessionSnapshot(h) \/ Delete(h)
                  \/ DeleteSessionSnapshot(h)
FlushStep ==
    \/ Drain
    \/ \E x \in Sessions : WriteDelete(x) \/ DeleteFails(x)
    \/ \E k \in Keys : WriteSave(k) \/ SaveFails(k)
    \/ FlushDone

Next ==
    \/ \E h \in Handlers :
        \/ \E x \in Sessions, p \in PDNs : Create(h, x, p)
        \/ \E x \in Sessions : Find(h, x)
        \/ Change(h) \/ Snapshot(h) \/ SaveSessionSnapshot(h)
        \/ Delete(h) \/ DeleteSessionSnapshot(h)
    \/ \E p \in Peers : SavePeerSnapshot(p)
    \/ Drain
    \/ \E x \in Sessions : WriteDelete(x) \/ DeleteFails(x)
    \/ \E k \in Keys : WriteSave(k) \/ SaveFails(k)
    \/ FlushDone
    \/ Crash

\* The ticker fires, and a handler that has begun goes on.
Spec == Init /\ [][Next]_vars
             /\ WF_vars(FlushStep) /\ \A h \in Handlers : WF_vars(HandlerStep(h))

-----------------------------------------------------------------------------
(* Properties.                                                             *)

\* A snapshot of version v of x is in the store or on its way there.
OnItsWay(k, v) ==
    \/ store[k] = v \/ dirty[k] = v \/ fdirty[k] = v
    \/ \E h \in Handlers : sx[h] = k /\ (pc[h] = "changed" \/ (pc[h] = "snapped" /\ sv[h] = v))

\* No change is forgotten: the latest contents of every stored session and of every
\* peer is in the database or on its way there, whatever flush runs meanwhile.
NothingForgotten == \A k \in live \cup Peers : OnItsWay(k, ver[k])

\* The same for as long as no store operation has failed, across crashes.
NothingForgottenUntilError == errors = 0 => NothingForgotten

\* No zombie: a session gone from the Manager is gone from the database and from the
\* writer's queues, or its deletion is still to come.
NoZombie ==
    \A x \in Made \ live :
        \/ x \in deleted
        \/ x \in fdeleted /\ dirty[x] = None
        \/ \E h \in Handlers : pc[h] \in {"changed", "snapped", "removed"} /\ ev[h] = x
        \/ store[x] = None /\ dirty[x] = None /\ fdirty[x] = None

\* The same for as long as no store operation has failed and SGW-C has not crashed.
NoZombieUntilFailure == errors = 0 /\ crashes = 0 => NoZombie

\* The writer's two queues never hold the same session, also when failed items come
\* back to them: a flush deletes and then saves, so a session in both would return.
QueuesDisjoint ==
    \A x \in Sessions :
        /\ x \in deleted => dirty[x] = None
        /\ x \in fdeleted => fdirty[x] = None

\* The database comes to agree with the Manager: every removed session leaves it,
\* unless the store fails or SGW-C crashes first.
RemovedLeaveStore ==
    \A x \in Sessions :
        (x \in Made \ live) ~> \/ store[x] = None /\ dirty[x] = None
                               \/ errors > 0 \/ crashes > 0

\* A restart restores every session whose snapshot is in the database ("Reload
\* checkpointed SGW-C session state at startup").
RestoreComplete == [][crashes' # crashes => live' = Stored]_vars
=============================================================================
