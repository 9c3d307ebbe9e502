----------------------- MODULE CheckpointWriter_proofs -----------------------
(***************************************************************************)
(* Proofs about CheckpointWriter: its types; that no session is queued to  *)
(* be saved and to be deleted at once; and, while one handler works at a   *)
(* time, that no change is forgotten and no deleted session comes back.    *)
(***************************************************************************)
EXTENDS CheckpointWriter, TLAPS

\* Keys contain the sessions; versions start at 1.
LEMMA Basics ==
    /\ Sessions \subseteq Keys /\ Peers \subseteq Keys
    /\ None \in 0..MaxVer /\ 1 \in 0..MaxVer
    /\ Nothing \in [Keys -> 0..MaxVer]
  BY CheckpointWriterAssumption DEF Keys, None, Nothing

\* A handler that is past Find or Create has a session, and one that has removed a
\* session knows which.
Holds ==
    \A h \in Handlers :
        /\ pc[h] \in {"held", "changed", "snapped"} => sx[h] \in Made
        /\ pc[h] = "removed" => ev[h] \in Sessions

\* The queues and the database hold snapshots only of sessions that were made.
Known ==
    \A x \in Sessions \ Made : store[x] = None /\ dirty[x] = None /\ fdirty[x] = None

IInv == TypeOK /\ Holds /\ Known /\ QueuesDisjoint

\* The steps of the handlers keep the invariant.
LEMMA HandlerSteps ==
    ASSUME IInv, NEW h \in Handlers,
           \/ \E x \in Sessions, p \in PDNs : Create(h, x, p)
           \/ \E x \in Sessions : Find(h, x)
           \/ Change(h) \/ Snapshot(h) \/ SaveSessionSnapshot(h)
           \/ Delete(h) \/ DeleteSessionSnapshot(h)
    PROVE  IInv'
<1> USE Basics DEF IInv
<1>1. ASSUME NEW x \in Sessions, NEW p \in PDNs, Create(h, x, p) PROVE IInv'
  <2> DEFINE old == {y \in live : pdn[y] = p}
             e == IF old = {} THEN NoSession ELSE CHOOSE y \in old : TRUE
  <2>1. e \in Sessions \cup {NoSession}
    <3>1. old \subseteq Sessions
      BY DEF TypeOK, Made
    <3> QED
      BY <3>1
  <2>2. ev' = [ev EXCEPT ![h] = e] /\ live' = (live \ old) \cup {x}
        /\ pdn' = [pdn EXCEPT ![x] = p] /\ ver' = [ver EXCEPT ![x] = 1]
        /\ sx' = [sx EXCEPT ![h] = x] /\ pc' = [pc EXCEPT ![h] = "changed"]
        /\ UNCHANGED <<sv, dirty, deleted, fVars, store, errors, crashes>>
    BY <1>1 DEF Create
  <2> HIDE DEF e, old
  <2>3. live' \subseteq Made'
    BY <2>2, CheckpointWriterAssumption DEF TypeOK, Made
  <2>4. TypeOK'
    BY <2>1, <2>2, <2>3 DEF TypeOK, fVars
  <2>5. Holds' /\ Known'
    BY <2>2, CheckpointWriterAssumption DEF TypeOK, Holds, Known, Made, fVars
  <2> QED
    BY <2>2, <2>4, <2>5 DEF QueuesDisjoint, fVars
<1>2. ASSUME NEW x \in Sessions, Find(h, x) PROVE IInv'
  BY <1>2 DEF Find, TypeOK, Made, Holds, Known, QueuesDisjoint, fVars
<1>3. CASE Change(h)
  <2>1. sx[h] \in Sessions
    BY <1>3 DEF Change, Holds, Made
  <2>2. ver' \in [Keys -> 0..MaxVer]
    BY <1>3, <2>1, CheckpointWriterAssumption DEF Change, TypeOK
  <2> QED
    BY <1>3, <2>2 DEF Change, TypeOK, Made, Holds, Known, QueuesDisjoint, fVars
<1>4. CASE Snapshot(h)
  <2>1. sx[h] \in Sessions
    BY <1>4 DEF Snapshot, Holds, Made
  <2> QED
    BY <1>4, <2>1 DEF Snapshot, TypeOK, Made, Holds, Known, QueuesDisjoint, fVars
<1>5. CASE SaveSessionSnapshot(h)
  <2>1. sx[h] \in Made /\ sx[h] \in Sessions
    BY <1>5 DEF SaveSessionSnapshot, Holds, Made
  <2>2. TypeOK'
    BY <1>5, <2>1 DEF SaveSessionSnapshot, TypeOK, Made, fVars
  <2>3. Holds' /\ Known'
    BY <1>5, <2>1, CheckpointWriterAssumption
    DEF SaveSessionSnapshot, TypeOK, Holds, Known, Made, fVars
  <2>4. QueuesDisjoint'
    BY <1>5, <2>1 DEF SaveSessionSnapshot, TypeOK, QueuesDisjoint, fVars
  <2> QED
    BY <2>2, <2>3, <2>4
<1>6. CASE Delete(h)
  <2>1. sx[h] \in Made /\ sx[h] \in Sessions
    BY <1>6 DEF Delete, Holds, Made
  <2>2. TypeOK'
    BY <1>6, <2>1 DEF Delete, TypeOK, Made, fVars
  <2>3. Holds' /\ Known'
    BY <1>6, <2>1 DEF Delete, TypeOK, Holds, Known, Made, fVars
  <2> QED
    BY <1>6, <2>2, <2>3 DEF Delete, QueuesDisjoint, fVars
<1>7. CASE DeleteSessionSnapshot(h)
  <2>1. ev[h] \in Sessions
    BY <1>7 DEF DeleteSessionSnapshot, Holds
  <2>2. TypeOK'
    BY <1>7, <2>1 DEF DeleteSessionSnapshot, TypeOK, Made, fVars
  <2>3. Holds' /\ Known'
    BY <1>7, <2>1 DEF DeleteSessionSnapshot, TypeOK, Holds, Known, Made, fVars
  <2>4. QueuesDisjoint'
    BY <1>7, <2>1 DEF DeleteSessionSnapshot, TypeOK, QueuesDisjoint, fVars
  <2> QED
    BY <2>2, <2>3, <2>4
<1> QED
  BY <1>1, <1>2, <1>3, <1>4, <1>5, <1>6, <1>7

\* The steps of the flush keep the invariant.
LEMMA FlushSteps ==
    ASSUME IInv, FlushStep
    PROVE  IInv'
<1> USE Basics DEF IInv
<1>1. CASE Drain
  BY <1>1 DEF Drain, TypeOK, Made, Holds, Known, QueuesDisjoint, hVars, Nothing
<1>2. ASSUME NEW x \in Sessions, WriteDelete(x) PROVE IInv'
  BY <1>2 DEF WriteDelete, TypeOK, Made, Holds, Known, QueuesDisjoint, hVars
<1>3. ASSUME NEW x \in Sessions, DeleteFails(x) PROVE IInv'
  <2>1. TypeOK'
    BY <1>3, CheckpointWriterAssumption DEF DeleteFails, TypeOK, Made, hVars
  <2>2. QueuesDisjoint'
    BY <1>3 DEF DeleteFails, TypeOK, QueuesDisjoint
  <2> QED
    BY <1>3, <2>1, <2>2 DEF DeleteFails, Holds, Known, Made, Nothing, NextSaves, hVars, TypeOK
<1>4. ASSUME NEW k \in Keys, WriteSave(k) PROVE IInv'
  BY <1>4 DEF WriteSave, TypeOK, Made, Holds, Known, QueuesDisjoint, hVars
<1>5. ASSUME NEW k \in Keys, SaveFails(k) PROVE IInv'
  <2>1. TypeOK'
    BY <1>5, CheckpointWriterAssumption DEF SaveFails, TypeOK, Made, hVars
  <2>2. QueuesDisjoint'
    BY <1>5 DEF SaveFails, TypeOK, QueuesDisjoint
  <2> QED
    BY <1>5, <2>1, <2>2 DEF SaveFails, Holds, Known, Made, Nothing, NextSaves, hVars, TypeOK
<1>6. CASE FlushDone
  BY <1>6 DEF FlushDone, TypeOK, Made, Holds, Known, QueuesDisjoint, hVars
<1> QED
  BY <1>1, <1>2, <1>3, <1>4, <1>5, <1>6 DEF FlushStep

\* A crash keeps the invariant: what it restores was made before.
LEMMA CrashStep ==
    ASSUME IInv, Crash
    PROVE  IInv'
<1> USE Basics DEF IInv
<1>1. Restored \subseteq Made /\ Restored \subseteq Sessions
  BY DEF Restored, Stored, Known, Made
<1>2. TypeOK'
  BY <1>1, CheckpointWriterAssumption DEF Crash, TypeOK, Made
<1>3. QueuesDisjoint' /\ Holds' /\ Known'
  BY DEF Crash, QueuesDisjoint, Holds, Known, Made, Nothing
<1> QED
  BY <1>2, <1>3

\* The empty writer satisfies the invariant.
LEMMA InitIInv == Init => IInv
  BY Basics, CheckpointWriterAssumption
  DEF Init, IInv, TypeOK, Holds, Known, Made, QueuesDisjoint, Nothing

\* Every step keeps the invariant.
LEMMA NextIInv == IInv /\ [Next]_vars => IInv'
<1> SUFFICES ASSUME IInv, [Next]_vars PROVE IInv'
  OBVIOUS
<1>1. ASSUME NEW p \in Peers, SavePeerSnapshot(p) PROVE IInv'
  <2>1. p \notin Sessions /\ p \in Keys
    BY Basics, CheckpointWriterAssumption
  <2>2. ver' \in [Keys -> 0..MaxVer] /\ dirty' \in [Keys -> 0..MaxVer]
    BY <1>1, <2>1, CheckpointWriterAssumption DEF SavePeerSnapshot, IInv, TypeOK
  <2>3. TypeOK'
    BY <1>1, <2>2 DEF SavePeerSnapshot, IInv, TypeOK, Made, hVars, fVars
  <2>4. Holds' /\ Known' /\ QueuesDisjoint'
    BY <1>1, <2>1 DEF SavePeerSnapshot, IInv, TypeOK, Holds, Known, Made, QueuesDisjoint,
                      hVars, fVars
  <2> QED
    BY <2>3, <2>4 DEF IInv
<1>2. CASE UNCHANGED vars
  BY <1>2 DEF vars, hVars, fVars, IInv, TypeOK, Holds, Known, Made, QueuesDisjoint
<1>3. CASE Next
  BY <1>1, <1>3, HandlerSteps, FlushSteps, CrashStep DEF Next, FlushStep
<1> QED
  BY <1>2, <1>3

\* The handlers, the writer and the database keep their types.
THEOREM TypeCorrect == Spec => []TypeOK
<1>1. IInv => TypeOK
  BY DEF IInv
<1> QED
  BY <1>1, InitIInv, NextIInv, PTL DEF Spec

\* However handlers, flushes, failures of the store and crashes interleave, the writer
\* never has one session to save and to delete at once.
THEOREM QueuesNeverMeet == Spec => []QueuesDisjoint
<1>1. IInv => QueuesDisjoint
  BY DEF IInv
<1> QED
  BY <1>1, InitIInv, NextIInv, PTL DEF Spec

-----------------------------------------------------------------------------
(* No change is forgotten. Snapshots pass through three places, the queue, *)
(* the flush and the database, and a newer one must always be behind an    *)
(* older one: Newest is what the database will hold when both queues are   *)
(* empty. Nothing is forgotten while that is the current contents, or a    *)
(* handler still has the current contents to hand over.                    *)
(*                                                                         *)
(* Two handlers that hold one session may hand their snapshots over in the *)
(* wrong order, so the premise is that no two of them hold one session.    *)

Serial == \A g, h \in Handlers : g # h /\ sx[g] # NoSession => sx[g] # sx[h]

Newest(k) == IF dirty[k] # None THEN dirty[k] ELSE IF fdirty[k] # None THEN fdirty[k] ELSE store[k]

\* A handler has changed session k and will hand its snapshot over.
Changing(k) == \E h \in Handlers : sx[h] = k /\ pc[h] \in {"changed", "snapped"}

\* A flush that has ended has nothing drained.
Drained == fpc = "idle" => fdirty = Nothing /\ fdeleted = {}

\* Sessions of the Manager have contents, and what is being deleted was made and is not
\* among them.
Alive == \A x \in live : ver[x] # None
Leaving ==
    /\ \A x \in deleted \cup fdeleted : x \in Made /\ x \notin live
    /\ \A h \in Handlers : ev[h] # NoSession => ev[h] \in Made /\ ev[h] \notin live

\* The snapshot a handler is about to hand over is the current one.
Current == \A h \in Handlers : pc[h] = "snapped" => sv[h] = ver[sx[h]]

UpToDate == errors = 0 => \A k \in live \cup Peers : Changing(k) \/ Newest(k) = ver[k]

KeepInv == Drained /\ Alive /\ Leaving /\ Current /\ UpToDate

\* The parts together say that nothing is forgotten.
LEMMA KeepSuffices == IInv /\ KeepInv => NothingForgottenUntilError
<1> SUFFICES ASSUME IInv, KeepInv, errors = 0, NEW k \in live \cup Peers PROVE OnItsWay(k, ver[k])
  BY DEF NothingForgottenUntilError, NothingForgotten
<1>1. CASE Changing(k)
  BY <1>1 DEF KeepInv, Current, Changing, OnItsWay
<1>2. CASE Newest(k) = ver[k]
  BY <1>2 DEF Newest, OnItsWay
<1> QED
  BY <1>1, <1>2 DEF KeepInv, UpToDate

\* The handlers.
LEMMA HandlersKeep ==
    ASSUME IInv, KeepInv, Serial, NEW h \in Handlers,
           \/ \E x \in Sessions, p \in PDNs : Create(h, x, p)
           \/ \E x \in Sessions : Find(h, x)
           \/ Change(h) \/ Snapshot(h) \/ SaveSessionSnapshot(h)
           \/ Delete(h) \/ DeleteSessionSnapshot(h)
    PROVE  KeepInv'
<1> USE Basics, CheckpointWriterAssumption DEF IInv, KeepInv, TypeOK
<1>0. live \subseteq Sessions /\ Made \subseteq Sessions
  BY DEF Made
<1>1. ASSUME NEW x \in Sessions, NEW p \in PDNs, Create(h, x, p) PROVE KeepInv'
  <2> DEFINE old == {y \in live : pdn[y] = p}
             e == IF old = {} THEN NoSession ELSE CHOOSE y \in old : TRUE
  <2>1. e \in old \cup {NoSession}
    OBVIOUS
  <2>2. ev' = [ev EXCEPT ![h] = e] /\ live' = (live \ old) \cup {x}
        /\ pc[h] = "idle" /\ x \notin Made
        /\ pdn' = [pdn EXCEPT ![x] = p] /\ ver' = [ver EXCEPT ![x] = 1]
        /\ sx' = [sx EXCEPT ![h] = x] /\ pc' = [pc EXCEPT ![h] = "changed"]
        /\ UNCHANGED <<sv, dirty, deleted, fdirty, fdeleted, fpc, store, errors, crashes>>
    BY <1>1 DEF Create, fVars
  <2>3. e \notin live' /\ x \notin live /\ e # x /\ (e # NoSession => e \in Made)
    BY <2>1, <2>2, <1>0
  <2>4. Made' = Made \cup {x} /\ live' \subseteq live \cup {x} /\ x \in live'
    BY <2>2 DEF Made
  <2> HIDE DEF e, old
  <2>5. Drained'
    BY <2>2 DEF Drained
  <2>6. Alive'
    BY <2>2, <2>4, <1>0 DEF Alive, None
  <2>7. Leaving'
    BY <2>2, <2>3, <2>4, <1>0 DEF Leaving
  <2>8. Current'
    BY <2>2, <1>0 DEF Current, Holds
  <2>9. ASSUME NEW k \in live' \cup Peers, errors' = 0 PROVE Changing(k)' \/ Newest(k)' = ver'[k]
    <3>1. CASE k = x
      BY <2>2, <3>1 DEF Changing
    <3>2. CASE k # x
      <4>1. k \in live \cup Peers /\ k \in Keys
        BY <2>4, <3>2, <1>0
      <4>2. Newest(k)' = Newest(k) /\ ver'[k] = ver[k]
        BY <2>2, <3>2 DEF Newest
      <4>3. Changing(k) => Changing(k)'
        BY <2>2 DEF Changing
      <4> QED
        BY <2>2, <2>9, <4>1, <4>2, <4>3 DEF UpToDate
    <3> QED
      BY <3>1, <3>2
  <2> QED
    BY <2>5, <2>6, <2>7, <2>8, <2>9 DEF UpToDate
<1>2. ASSUME NEW x \in Sessions, Find(h, x) PROVE KeepInv'
  <2>1. Drained' /\ Alive' /\ Leaving' /\ Current'
    BY <1>2, <1>0 DEF Find, Drained, Alive, Leaving, Current, Made, fVars
  <2>2. \A k : Newest(k)' = Newest(k) /\ (Changing(k) => Changing(k)')
    BY <1>2 DEF Find, Newest, Changing, fVars
  <2> QED
    BY <1>2, <2>1, <2>2 DEF Find, UpToDate
<1>3. CASE Change(h)
  <2>1. sx[h] \in Sessions /\ sx[h] \in Keys
    BY <1>3 DEF Change, Holds, Made
  <2>2. /\ pc[h] = "held" /\ ver' = [ver EXCEPT ![sx[h]] = @ + 1] /\ pc' = [pc EXCEPT ![h] = "changed"]
        /\ UNCHANGED <<live, pdn, sx, sv, ev, dirty, deleted, fpc, fdirty, fdeleted, store, errors, crashes>>
    BY <1>3 DEF Change, fVars
  <2>3. Drained' /\ Leaving'
    BY <2>2 DEF Drained, Leaving, Made
  <2>4. Alive'
    BY <2>2, <2>1, <1>0 DEF Alive, None
  <2>5. Current'
    <3> SUFFICES ASSUME NEW g \in Handlers, pc'[g] = "snapped" PROVE sv'[g] = ver'[sx'[g]]
      BY DEF Current
    <3>1. g # h /\ pc[g] = "snapped"
      BY <2>2
    <3>2. sx[g] \in Sessions /\ sx[g] # NoSession
      BY <3>1 DEF Holds, Made
    <3>3. sx[g] # sx[h]
      BY <3>1, <3>2 DEF Serial
    <3> QED
      BY <2>1, <2>2, <3>1, <3>2, <3>3 DEF Current
  <2>6. ASSUME NEW k \in live \cup Peers, errors = 0 PROVE Changing(k)' \/ Newest(k)' = ver'[k]
    <3>1. CASE k = sx[h]
      BY <2>2, <3>1 DEF Changing
    <3>2. CASE k # sx[h]
      <4>1. Newest(k)' = Newest(k) /\ (Changing(k) => Changing(k)')
        BY <2>2 DEF Newest, Changing
      <4>2. ver'[k] = ver[k]
        BY <2>1, <2>2, <3>2, <1>0
      <4> QED
        BY <2>6, <4>1, <4>2 DEF UpToDate
    <3> QED
      BY <3>1, <3>2
  <2> QED
    BY <2>2, <2>3, <2>4, <2>5, <2>6 DEF UpToDate
<1>4. CASE Snapshot(h)
  <2>1. sx[h] \in Sessions /\ sx[h] \in Keys
    BY <1>4 DEF Snapshot, Holds, Made
  <2>2. Drained' /\ Leaving' /\ Alive' /\ Current'
    BY <1>4, <2>1 DEF Snapshot, Drained, Leaving, Alive, Current, Made, fVars
  <2>3. \A k : Newest(k)' = Newest(k) /\ (Changing(k) => Changing(k)')
    BY <1>4 DEF Snapshot, Newest, Changing, fVars
  <2> QED
    BY <1>4, <2>2, <2>3 DEF Snapshot, UpToDate
<1>5. CASE SaveSessionSnapshot(h)
  <2> DEFINE x == sx[h]
  <2>1. x \in Sessions /\ x \in Keys /\ x # NoSession
    BY <1>5 DEF SaveSessionSnapshot, Holds, Made
  <2>2. /\ pc[h] = "snapped" /\ sv[h] = ver[x]
        /\ dirty' = [dirty EXCEPT ![x] = sv[h]] /\ deleted' = deleted \ {x}
        /\ pc'[h] \in {"idle", "removed"} /\ \A g \in Handlers \ {h} : pc'[g] = pc[g]
        /\ sx' = [sx EXCEPT ![h] = NoSession] /\ sv' = [sv EXCEPT ![h] = None]
        /\ UNCHANGED <<live, pdn, ver, ev, fpc, fdirty, fdeleted, store, errors, crashes>>
    BY <1>5 DEF SaveSessionSnapshot, fVars, Current
  <2>3. Drained' /\ Leaving' /\ Alive' /\ Current'
    BY <2>1, <2>2 DEF Drained, Leaving, Alive, Current, Made
  <2>4. ASSUME NEW k \in live \cup Peers, errors = 0 PROVE Changing(k)' \/ Newest(k)' = ver'[k]
    <3>1. CASE k = x
      <4>1. k \in live
        BY <2>1, <3>1
      <4>2. dirty'[k] = ver[k] /\ ver[k] # None
        BY <2>1, <2>2, <3>1, <4>1 DEF Alive
      <4> QED
        BY <2>2, <4>2 DEF Newest
    <3>2. CASE k # x
      <4>1. Newest(k)' = Newest(k)
        BY <2>1, <2>2, <3>2, <1>0 DEF Newest
      <4>2. Changing(k) => Changing(k)'
        BY <2>1, <2>2, <3>2 DEF Changing
      <4> QED
        BY <2>2, <2>4, <4>1, <4>2 DEF UpToDate
    <3> QED
      BY <3>1, <3>2
  <2> QED
    BY <2>2, <2>3, <2>4 DEF UpToDate
<1>6. CASE Delete(h)
  <2>1. sx[h] \in Made /\ sx[h] \in Sessions
    BY <1>6 DEF Delete, Holds, Made
  <2>2. Drained' /\ Leaving' /\ Alive' /\ Current'
    BY <1>6, <2>1, <1>0 DEF Delete, Drained, Leaving, Alive, Current, Made, fVars
  <2>3. \A k : Newest(k)' = Newest(k) /\ (Changing(k) => Changing(k)')
    BY <1>6 DEF Delete, Newest, Changing, fVars
  <2> QED
    BY <1>6, <2>2, <2>3 DEF Delete, UpToDate
<1>7. CASE DeleteSessionSnapshot(h)
  <2>1. ev[h] \in Sessions /\ ev[h] \in Made /\ ev[h] \notin live
    BY <1>7 DEF DeleteSessionSnapshot, Holds, Leaving
  <2>2. Drained' /\ Leaving' /\ Alive' /\ Current'
    BY <1>7, <2>1, <1>0 DEF DeleteSessionSnapshot, Drained, Leaving, Alive, Current, Made, fVars
  <2>3. ASSUME NEW k \in live \cup Peers PROVE Newest(k)' = Newest(k) /\ (Changing(k) => Changing(k)')
    <3>1. k # ev[h] /\ k \in Keys
      BY <2>1, <1>0
    <3> QED
      BY <1>7, <3>1 DEF DeleteSessionSnapshot, Newest, Changing, fVars
  <2> QED
    BY <1>7, <2>2, <2>3 DEF DeleteSessionSnapshot, UpToDate
<1> QED
  BY <1>1, <1>2, <1>3, <1>4, <1>5, <1>6, <1>7

\* The flush. A deletion concerns no session of the Manager, a save moves the newest
\* snapshot on, and a failure is excepted.
LEMMA FlushKeeps ==
    ASSUME IInv, KeepInv, FlushStep
    PROVE  KeepInv'
<1> USE Basics, CheckpointWriterAssumption DEF IInv, KeepInv, TypeOK
<1>0. live \subseteq Sessions /\ Made \subseteq Sessions
  BY DEF Made
<1>1. ASSUME UNCHANGED <<live, pdn, ver, hVars>>
      PROVE  /\ Alive' /\ Current' /\ UNCHANGED Made
             /\ \A k : Changing(k)' = Changing(k)
  BY <1>1 DEF hVars, Alive, Current, Made, Changing
<1>2. CASE Drain
  <2>1. Drained' /\ Leaving'
    BY <1>2 DEF Drain, Drained, Leaving, Made, hVars
  <2>2. ASSUME NEW k \in Keys PROVE Newest(k)' = Newest(k)
    BY <1>2 DEF Drain, Drained, Newest, Nothing
  <2> QED
    BY <1>0, <1>1, <1>2, <2>1, <2>2 DEF Drain, UpToDate
<1>3. ASSUME NEW x \in Sessions, WriteDelete(x) PROVE KeepInv'
  <2>1. Drained' /\ Leaving'
    BY <1>3 DEF WriteDelete, Drained, Leaving, Made, hVars
  <2>2. ASSUME NEW k \in live \cup Peers PROVE Newest(k)' = Newest(k)
    <3>1. k # x /\ k \in Keys
      BY <1>0, <1>3 DEF WriteDelete, Leaving
    <3> QED
      BY <1>3, <3>1 DEF WriteDelete, Newest
  <2> QED
    BY <1>1, <1>3, <2>1, <2>2 DEF WriteDelete, UpToDate
<1>4. ASSUME NEW k \in Keys, WriteSave(k) PROVE KeepInv'
  <2>1. fdirty[k] # None
    BY <1>4 DEF WriteSave, NextSaves
  <2>2. fpc # "idle"
    BY <2>1 DEF Drained, Nothing
  <2>3. Drained' /\ Leaving'
    BY <1>4, <2>2 DEF WriteSave, Drained, Leaving, Made, hVars
  <2>4. ASSUME NEW j \in Keys PROVE Newest(j)' = Newest(j)
    BY <1>4, <2>1 DEF WriteSave, Newest
  <2> QED
    BY <1>0, <1>1, <1>4, <2>3, <2>4 DEF WriteSave, UpToDate
<1>5. ASSUME NEW x \in Sessions, DeleteFails(x) PROVE KeepInv'
  <2>1. errors' # 0
    BY <1>5 DEF DeleteFails
  <2>2. Drained' /\ Leaving'
    BY <1>5 DEF DeleteFails, Drained, Leaving, Made, hVars
  <2> QED
    BY <1>1, <1>5, <2>1, <2>2 DEF DeleteFails, UpToDate
<1>6. ASSUME NEW k \in Keys, SaveFails(k) PROVE KeepInv'
  <2>1. errors' # 0
    BY <1>6 DEF SaveFails
  <2>2. Drained' /\ Leaving'
    BY <1>6 DEF SaveFails, Drained, Leaving, Made, hVars
  <2> QED
    BY <1>1, <1>6, <2>1, <2>2 DEF SaveFails, UpToDate
<1>7. CASE FlushDone
  <2>1. Drained' /\ Leaving'
    BY <1>7 DEF FlushDone, Drained, Leaving, Made, hVars
  <2>2. \A k : Newest(k)' = Newest(k)
    BY <1>7 DEF FlushDone, Newest
  <2> QED
    BY <1>1, <1>7, <2>1, <2>2 DEF FlushDone, UpToDate
<1> QED
  BY <1>2, <1>3, <1>4, <1>5, <1>6, <1>7 DEF FlushStep

\* Every step keeps it: a crash puts memory back to what the database holds.
LEMMA NextKeeps == IInv /\ KeepInv /\ Serial /\ [Next]_vars => KeepInv'
<1> SUFFICES ASSUME IInv, KeepInv, Serial, [Next]_vars PROVE KeepInv'
  OBVIOUS
<1> USE Basics, CheckpointWriterAssumption
<1>0. live \subseteq Sessions
  BY DEF IInv, TypeOK, Made
<1>1. CASE Crash
  <2>1. Restored \subseteq Stored /\ Stored \subseteq Sessions
    BY DEF Restored, Stored
  <2>2. live' = Restored /\ dirty' = Nothing /\ fdirty' = Nothing /\ deleted' = {} /\ fdeleted' = {}
        /\ store' = store /\ ver' = [k \in Keys |-> IF k \in Sessions \ Restored THEN ver[k] ELSE store[k]]
        /\ pc' = [h \in Handlers |-> "idle"] /\ ev' = [h \in Handlers |-> NoSession]
    BY <1>1 DEF Crash
  <2>3. Drained' /\ Leaving' /\ Current'
    BY <2>2 DEF Drained, Leaving, Current, Nothing
  <2>4. Alive'
    BY <2>1, <2>2 DEF Alive, Stored
  <2>5. ASSUME NEW k \in Restored \cup Peers PROVE Newest(k)' = ver'[k]
    <3>1. k \in Keys /\ k \notin Sessions \ Restored
      BY <2>1
    <3> QED
      BY <2>2, <3>1 DEF Newest, Nothing
  <2> QED
    BY <2>2, <2>3, <2>4, <2>5 DEF KeepInv, UpToDate
<1>2. ASSUME NEW p \in Peers, SavePeerSnapshot(p) PROVE KeepInv'
  <2>1. p \notin Sessions /\ p \in Keys
    OBVIOUS
  <2>2. /\ ver' = [ver EXCEPT ![p] = @ + 1] /\ dirty' = [dirty EXCEPT ![p] = ver[p] + 1]
        /\ UNCHANGED <<live, pdn, pc, sx, sv, ev, deleted, fpc, fdirty, fdeleted, store, errors>>
    BY <1>2 DEF SavePeerSnapshot, hVars, fVars
  <2>3. Drained' /\ Leaving'
    BY <2>2 DEF KeepInv, Drained, Leaving, Made
  <2>4. Alive'
    BY <1>0, <2>1, <2>2 DEF KeepInv, Alive, IInv, TypeOK
  <2>5. Current'
    BY <2>1, <2>2 DEF KeepInv, Current, IInv, TypeOK, Holds, Made
  <2>6. ASSUME NEW k \in live \cup Peers, errors = 0 PROVE Changing(k)' \/ Newest(k)' = ver'[k]
    <3>1. CASE k = p
      <4>1. ver[p] \in Nat /\ dirty'[p] = ver[p] + 1 /\ ver'[p] = ver[p] + 1
        BY <2>1, <2>2 DEF IInv, TypeOK
      <4> QED
        BY <3>1, <4>1 DEF Newest, None
    <3>2. CASE k # p
      <4>1. Newest(k)' = Newest(k) /\ ver'[k] = ver[k]
        BY <1>0, <2>1, <2>2, <3>2 DEF IInv, TypeOK, Newest
      <4>2. Changing(k)' = Changing(k)
        BY <2>2 DEF Changing
      <4> QED
        BY <2>6, <4>1, <4>2 DEF KeepInv, UpToDate
    <3> QED
      BY <3>1, <3>2
  <2> QED
    BY <2>2, <2>3, <2>4, <2>5, <2>6 DEF KeepInv, UpToDate
<1>3. CASE UNCHANGED vars
  BY <1>3 DEF vars, hVars, fVars, KeepInv, Drained, Alive, Leaving, Current, UpToDate, Made, Newest, Changing
<1>4. CASE Next
  BY <1>1, <1>2, <1>4, HandlersKeep, FlushKeeps DEF Next, FlushStep
<1> QED
  BY <1>3, <1>4

\* The empty writer has forgotten nothing.
LEMMA InitKeeps == Init => KeepInv
  BY Basics, CheckpointWriterAssumption
  DEF Init, KeepInv, Drained, Alive, Leaving, Current, UpToDate, Newest, Nothing

\* As long as no two handlers hold one session and no operation of the store has failed,
\* the latest contents of every session and of every peer is in the database or on its
\* way there, across flushes and crashes.
THEOREM NothingIsForgotten == Spec /\ []Serial => []NothingForgottenUntilError
<1>1. Init => IInv /\ KeepInv
  BY InitIInv, InitKeeps
<1>2. IInv /\ KeepInv /\ Serial /\ [Next]_vars => (IInv /\ KeepInv)'
  BY NextIInv, NextKeeps
<1> QED
  BY <1>1, <1>2, KeepSuffices, PTL DEF Spec

-----------------------------------------------------------------------------
(* No zombies. The only step that could put a removed session back into    *)
(* the queue is a handler that still holds it. The premise excludes it: no *)
(* session is held by one handler and removed by another.                  *)

Unevicted == \A g, h \in Handlers : sx[g] # NoSession => sx[g] # ev[h]

\* Handlers hold sessions of the Manager, which has one of each PDN connection, so that
\* Create evicts the one it reports.
HeldLive  == \A h \in Handlers : sx[h] # NoSession => sx[h] \in live
OnePerPDN == \A x, y \in live : pdn[x] = pdn[y] => x = y

NoZombieYet == errors = 0 /\ crashes = 0 => NoZombie

GoneInv == Drained /\ HeldLive /\ OnePerPDN /\ NoZombieYet

\* The handlers.
LEMMA HandlersBury ==
    ASSUME IInv, GoneInv, Serial, Unevicted', NEW h \in Handlers,
           \/ \E x \in Sessions, p \in PDNs : Create(h, x, p)
           \/ \E x \in Sessions : Find(h, x)
           \/ Change(h) \/ Snapshot(h) \/ SaveSessionSnapshot(h)
           \/ Delete(h) \/ DeleteSessionSnapshot(h)
    PROVE  GoneInv'
<1> USE Basics, CheckpointWriterAssumption DEF IInv, GoneInv, TypeOK
<1>0. live \subseteq Sessions /\ Made \subseteq Sessions
  BY DEF Made
<1>1. ASSUME NEW x \in Sessions, NEW p \in PDNs, Create(h, x, p) PROVE GoneInv'
  <2> DEFINE old == {y \in live : pdn[y] = p}
             e == IF old = {} THEN NoSession ELSE CHOOSE y \in old : TRUE
  <2>1. e \in old \cup {NoSession} /\ old \ {e} = {} /\ (e = NoSession => old = {})
    <3>1. \A y, z \in old : y = z
      BY DEF OnePerPDN
    <3>2. old # {} => e \in old
      OBVIOUS
    <3> HIDE DEF e
    <3>3. old = {} => e = NoSession
      BY DEF e
    <3> QED
      BY <1>0, <3>1, <3>2, <3>3
  <2>2. ev' = [ev EXCEPT ![h] = e] /\ live' = (live \ old) \cup {x}
        /\ pc[h] = "idle" /\ x \notin Made
        /\ pdn' = [pdn EXCEPT ![x] = p]
        /\ sx' = [sx EXCEPT ![h] = x] /\ pc' = [pc EXCEPT ![h] = "changed"]
        /\ UNCHANGED <<sv, dirty, deleted, fdirty, fdeleted, fpc, store, errors, crashes>>
    BY <1>1 DEF Create, fVars
  <2>3. Made' = Made \cup {x} /\ x \notin live /\ \A y \in live' \ {x} : pdn[y] # p
    BY <2>2 DEF Made
  <2>4. live \ {e} = live \ old
    BY <2>1, <1>0
  <2> HIDE DEF e, old
  <2>5. Drained' /\ OnePerPDN'
    BY <1>0, <2>2, <2>3 DEF Drained, OnePerPDN
  <2>6. HeldLive'
    BY <1>0, <2>2, <2>4 DEF HeldLive, Unevicted
  <2>7. ASSUME errors = 0, crashes = 0, NEW y \in Made' \ live'
        PROVE  \/ y \in deleted
               \/ y \in fdeleted /\ dirty[y] = None
               \/ \E g \in Handlers : pc'[g] \in {"changed", "snapped", "removed"} /\ ev'[g] = y
               \/ store[y] = None /\ dirty[y] = None /\ fdirty[y] = None
    <3>1. y \in Made /\ (y \in live => y = e)
      BY <2>2, <2>3, <2>4
    <3>2. CASE y = e
      BY <2>2, <3>2
    <3>3. CASE y # e
      BY <2>2, <2>7, <3>1, <3>3 DEF NoZombieYet, NoZombie
    <3> QED
      BY <3>2, <3>3
  <2> QED
    BY <2>2, <2>5, <2>6, <2>7 DEF NoZombieYet, NoZombie
<1>2. ASSUME NEW x \in Sessions, Find(h, x) PROVE GoneInv'
  BY <1>2 DEF Find, Drained, HeldLive, OnePerPDN, NoZombieYet, NoZombie, Made, fVars
<1>3. CASE Change(h) \/ Snapshot(h)
  BY <1>3 DEF Change, Snapshot, Drained, HeldLive, OnePerPDN, NoZombieYet, NoZombie, Made, fVars
<1>4. CASE SaveSessionSnapshot(h)
  <2> DEFINE x == sx[h]
  <2>1. x \in Sessions /\ x # NoSession /\ x \in live
    BY <1>4 DEF SaveSessionSnapshot, Holds, Made, HeldLive
  <2>2. /\ pc[h] = "snapped"
        /\ dirty' = [dirty EXCEPT ![x] = sv[h]] /\ deleted' = deleted \ {x}
        /\ pc' = [pc EXCEPT ![h] = IF ev[h] = NoSession THEN "idle" ELSE "removed"]
        /\ sx' = [sx EXCEPT ![h] = NoSession]
        /\ UNCHANGED <<live, pdn, ev, fpc, fdirty, fdeleted, store, errors, crashes>>
    BY <1>4 DEF SaveSessionSnapshot, fVars
  <2>3. Drained' /\ HeldLive' /\ OnePerPDN'
    BY <2>2 DEF Drained, HeldLive, OnePerPDN
  <2>4. UNCHANGED Made
    BY <2>2 DEF Made
  <2>5. ASSUME errors = 0, crashes = 0, NEW y \in Made \ live
        PROVE  \/ y \in deleted'
               \/ y \in fdeleted /\ dirty'[y] = None
               \/ \E g \in Handlers : pc'[g] \in {"changed", "snapped", "removed"} /\ ev[g] = y
               \/ store[y] = None /\ dirty'[y] = None /\ fdirty[y] = None
    <3>1. y # x /\ y \in Sessions /\ y # NoSession /\ dirty'[y] = dirty[y]
      BY <1>0, <2>1, <2>2
    <3>2. ASSUME NEW g \in Handlers, pc[g] \in {"changed", "snapped", "removed"}, ev[g] = y
          PROVE  pc'[g] \in {"changed", "snapped", "removed"}
      BY <2>2, <3>1, <3>2
    <3> QED
      BY <2>2, <2>5, <3>1, <3>2 DEF NoZombieYet, NoZombie
  <2> HIDE DEF x
  <2> QED
    BY <2>2, <2>3, <2>4, <2>5 DEF NoZombieYet, NoZombie
<1>5. CASE Delete(h)
  <2> DEFINE x == sx[h]
  <2>1. x \in Sessions /\ x # NoSession /\ x \in live
    BY <1>5 DEF Delete, Holds, Made, HeldLive
  <2>2. /\ pc[h] = "held" /\ live' = live \ {x}
        /\ pc' = [pc EXCEPT ![h] = "removed"] /\ ev' = [ev EXCEPT ![h] = x]
        /\ sx' = [sx EXCEPT ![h] = NoSession]
        /\ UNCHANGED <<pdn, dirty, deleted, fpc, fdirty, fdeleted, store, errors, crashes>>
    BY <1>5, <2>1 DEF Delete, fVars
  <2>3. Drained' /\ OnePerPDN'
    BY <2>2 DEF Drained, OnePerPDN
  <2>4. HeldLive'
    BY <2>1, <2>2 DEF HeldLive, Serial
  <2>5. UNCHANGED Made
    BY <2>2 DEF Made
  <2> HIDE DEF x
  <2>6. NoZombieYet'
    BY <2>1, <2>2, <2>5 DEF NoZombieYet, NoZombie
  <2> QED
    BY <2>3, <2>4, <2>6
<1>6. CASE DeleteSessionSnapshot(h)
  <2>1. ev[h] \in Sessions
    BY <1>6 DEF DeleteSessionSnapshot, Holds
  <2>2. Drained' /\ HeldLive' /\ OnePerPDN' /\ UNCHANGED Made
    BY <1>6 DEF DeleteSessionSnapshot, Drained, HeldLive, OnePerPDN, Made, fVars
  <2>3. NoZombieYet'
    BY <1>6, <1>0, <2>1, <2>2 DEF DeleteSessionSnapshot, NoZombieYet, NoZombie, fVars
  <2> QED
    BY <2>2, <2>3
<1> QED
  BY <1>1, <1>2, <1>3, <1>4, <1>5, <1>6

\* The flush: what it deletes it does not save, and what is queued for deletion behind it
\* will be deleted.
LEMMA FlushBuries ==
    ASSUME IInv, GoneInv, FlushStep
    PROVE  GoneInv'
<1> USE Basics, CheckpointWriterAssumption DEF IInv, GoneInv, TypeOK
<1>0. live \subseteq Sessions /\ Made \subseteq Sessions
  BY DEF Made
<1>1. ASSUME UNCHANGED <<live, pdn, ver, hVars>> PROVE HeldLive' /\ OnePerPDN' /\ UNCHANGED Made
  BY <1>1 DEF hVars, HeldLive, OnePerPDN, Made
<1>2. CASE Drain
  <2>1. Drained'
    BY <1>2 DEF Drain, Drained
  <2>2. NoZombieYet'
    BY <1>0, <1>1, <1>2 DEF Drain, Drained, NoZombieYet, NoZombie, Nothing, hVars
  <2> QED
    BY <1>1, <1>2, <2>1, <2>2 DEF Drain
<1>3. ASSUME NEW x \in Sessions, WriteDelete(x) PROVE GoneInv'
  <2>1. Drained'
    BY <1>3 DEF WriteDelete, Drained
  <2>2. NoZombieYet'
    BY <1>0, <1>1, <1>3 DEF WriteDelete, QueuesDisjoint, NoZombieYet, NoZombie, hVars
  <2> QED
    BY <1>1, <1>3, <2>1, <2>2 DEF WriteDelete
<1>4. ASSUME NEW k \in Keys, WriteSave(k) PROVE GoneInv'
  <2>1. fdirty[k] # None
    BY <1>4 DEF WriteSave, NextSaves
  <2>2. Drained'
    BY <1>4, <2>1 DEF WriteSave, Drained, Nothing
  <2>3. NoZombieYet'
    BY <1>0, <1>1, <1>4, <2>1 DEF WriteSave, NoZombieYet, NoZombie, hVars
  <2> QED
    BY <1>1, <1>4, <2>2, <2>3 DEF WriteSave
<1>5. ASSUME NEW x \in Sessions, DeleteFails(x) PROVE GoneInv'
  <2>1. errors' # 0 /\ Drained'
    BY <1>5 DEF DeleteFails, Drained
  <2> QED
    BY <1>1, <1>5, <2>1 DEF DeleteFails, NoZombieYet
<1>6. ASSUME NEW k \in Keys, SaveFails(k) PROVE GoneInv'
  <2>1. errors' # 0 /\ Drained'
    BY <1>6 DEF SaveFails, Drained
  <2> QED
    BY <1>1, <1>6, <2>1 DEF SaveFails, NoZombieYet
<1>7. CASE FlushDone
  <2>1. Drained'
    BY <1>7 DEF FlushDone, Drained
  <2>2. NoZombieYet'
    BY <1>1, <1>7 DEF FlushDone, NoZombieYet, NoZombie, hVars
  <2> QED
    BY <1>1, <1>7, <2>1, <2>2 DEF FlushDone
<1> QED
  BY <1>2, <1>3, <1>4, <1>5, <1>6, <1>7 DEF FlushStep

\* Every step.
LEMMA NextBuries == IInv /\ GoneInv /\ Serial /\ Unevicted' /\ [Next]_vars => GoneInv'
<1> SUFFICES ASSUME IInv, GoneInv, Serial, Unevicted', [Next]_vars PROVE GoneInv'
  OBVIOUS
<1> USE Basics, CheckpointWriterAssumption
<1>1. CASE Crash
  <2>1. \A x, y \in Restored : pdn[x] = pdn[y] => x = y
    BY DEF Restored
  <2>2. crashes' # 0
    BY <1>1 DEF Crash, IInv, TypeOK
  <2> QED
    BY <1>1, <2>1, <2>2 DEF Crash, GoneInv, Drained, HeldLive, OnePerPDN, NoZombieYet
<1>2. ASSUME NEW p \in Peers, SavePeerSnapshot(p) PROVE GoneInv'
  <2>1. p \notin Sessions /\ p \in Keys
    OBVIOUS
  <2>2. Drained' /\ HeldLive' /\ OnePerPDN' /\ UNCHANGED Made
    BY <1>2 DEF SavePeerSnapshot, GoneInv, Drained, HeldLive, OnePerPDN, Made, hVars, fVars
  <2>3. \A x \in Sessions : dirty'[x] = dirty[x]
    BY <1>2, <2>1 DEF SavePeerSnapshot, IInv, TypeOK
  <2>4. NoZombieYet'
    BY <1>2, <2>2, <2>3 DEF SavePeerSnapshot, GoneInv, NoZombieYet, NoZombie, Made, hVars, fVars
  <2> QED
    BY <2>2, <2>4 DEF GoneInv
<1>3. CASE UNCHANGED vars
  BY <1>3 DEF vars, hVars, fVars, GoneInv, Drained, HeldLive, OnePerPDN, NoZombieYet, NoZombie, Made
<1>4. CASE Next
  BY <1>1, <1>2, <1>4, HandlersBury, FlushBuries DEF Next, FlushStep
<1> QED
  BY <1>3, <1>4

\* Before a failure of the store or a crash, a session gone from the Manager is gone from
\* the database and from the queues or its deletion is still to come, as long as no
\* session is held by two handlers or removed by one while another holds it.
THEOREM NoZombies == Spec /\ []Serial /\ []Unevicted => []NoZombieUntilFailure
<1>1. Init => IInv /\ GoneInv
  <2>1. Init => GoneInv
    BY CheckpointWriterAssumption
    DEF Init, GoneInv, Drained, HeldLive, OnePerPDN, NoZombieYet, NoZombie, Made, Nothing
  <2> QED
    BY <2>1, InitIInv
<1>2. IInv /\ GoneInv /\ Serial /\ Unevicted' /\ [Next]_vars => (IInv /\ GoneInv)'
  BY NextIInv, NextBuries
<1>3. GoneInv => NoZombieUntilFailure
  BY DEF GoneInv, NoZombieYet, NoZombieUntilFailure
<1> QED
  BY <1>1, <1>2, <1>3, PTL DEF Spec

-----------------------------------------------------------------------------
(* One handler at a time satisfies both premises.                          *)

OwnApart == \A h \in Handlers : (pc[h] \in {"idle", "held"} => ev[h] = NoSession)
                                /\ (sx[h] # NoSession => sx[h] # ev[h])

\* What a handler holds is not what it removed.
LEMMA NextApart == IInv /\ OwnApart /\ [Next]_vars => OwnApart'
<1> SUFFICES ASSUME IInv, OwnApart, [Next]_vars PROVE OwnApart'
  OBVIOUS
<1> USE CheckpointWriterAssumption DEF IInv, TypeOK, OwnApart
<1>1. ASSUME NEW h \in Handlers, NEW x \in Sessions, NEW p \in PDNs, Create(h, x, p) PROVE OwnApart'
  <2> DEFINE old == {y \in live : pdn[y] = p}
             e == IF old = {} THEN NoSession ELSE CHOOSE y \in old : TRUE
  <2>1. e \in live \cup {NoSession}
    OBVIOUS
  <2>2. ev' = [ev EXCEPT ![h] = e] /\ sx' = [sx EXCEPT ![h] = x] /\ pc' = [pc EXCEPT ![h] = "changed"]
        /\ x \notin Made
    BY <1>1 DEF Create
  <2> HIDE DEF e, old
  <2> QED
    BY <2>1, <2>2
<1>2. ASSUME NEW h \in Handlers, NEW x \in Sessions, Find(h, x) PROVE OwnApart'
  BY <1>2 DEF Find
<1>3. ASSUME NEW h \in Handlers, Change(h) \/ Snapshot(h) \/ SaveSessionSnapshot(h) PROVE OwnApart'
  BY <1>3 DEF Change, Snapshot, SaveSessionSnapshot
<1>4. ASSUME NEW h \in Handlers, Delete(h) \/ DeleteSessionSnapshot(h) PROVE OwnApart'
  BY <1>4 DEF Delete, DeleteSessionSnapshot
<1>5. ASSUME UNCHANGED hVars PROVE OwnApart'
  BY <1>5 DEF hVars
<1>6. CASE Crash
  BY <1>6 DEF Crash
<1>7. ASSUME FlushStep PROVE UNCHANGED hVars
  BY <1>7 DEF FlushStep, Drain, WriteDelete, DeleteFails, WriteSave, SaveFails, FlushDone
<1>8. ASSUME NEW p \in Peers, SavePeerSnapshot(p) PROVE UNCHANGED hVars
  BY <1>8 DEF SavePeerSnapshot
<1>9. CASE UNCHANGED vars
  BY <1>5, <1>9 DEF vars
<1>10. CASE Next
  BY <1>1, <1>2, <1>3, <1>4, <1>5, <1>6, <1>7, <1>8, <1>10 DEF Next, FlushStep
<1> QED
  BY <1>9, <1>10

\* With one handler at a time nothing is forgotten before a store operation fails, and
\* nothing comes back before a failure or a crash.
THEOREM OneHandlerSuffices ==
    ASSUME NEW h, Handlers = {h}
    PROVE  Spec => [](NothingForgottenUntilError /\ NoZombieUntilFailure)
<1>1. Init => IInv /\ OwnApart
  <2>1. Init => OwnApart
    BY DEF Init, OwnApart
  <2> QED
    BY <2>1, InitIInv
<1>2. IInv /\ OwnApart /\ [Next]_vars => (IInv /\ OwnApart)'
  BY NextIInv, NextApart
<1>3. OwnApart => Serial /\ Unevicted
  BY DEF OwnApart, Serial, Unevicted
<1>4. Spec => [](Serial /\ Unevicted)
  BY <1>1, <1>2, <1>3, PTL DEF Spec
<1> QED
  BY <1>4, NothingIsForgotten, NoZombies, PTL
=============================================================================
