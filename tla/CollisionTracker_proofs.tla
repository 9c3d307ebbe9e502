----------------------- MODULE CollisionTracker_proofs -----------------------
(***************************************************************************)
(* Proofs about CollisionTracker: its types; that nothing is tracked       *)
(* without a handler that will take it out; and that, for one PDN session, *)
(* a procedure that runs beside another that is within its timeout is      *)
(* allowed beside it.                                                      *)
(***************************************************************************)
EXTENDS CollisionTracker, TLAPS

\* The fields of a request. Every request names a tracker that exists, and bearers
\* and sessions that exist.
RequestType == [proc : Procedures, owner : {"mme", "pgw"}, at : Sessions,
                ebis : SUBSET EBIs, touches : SUBSET Sessions]

\* What the handlers pass to beginProcedure is well formed.
LEMMA RequestsTyped == Requests \subseteq RequestType /\ Requests # {}
<1>1. ASSUME NEW r \in Requests PROVE r \in RequestType
  <2> USE CollisionTrackerAssumption DEF RequestType, Request, Procedures, BearerScoped, SessionWide, EBIsOf
  <2>1. CASE r \in {Request("MODIFY_BEARER", "mme", Control, E, {Owner[e] : e \in E}) : E \in SUBSET EBIs}
    BY <2>1
  <2>2. CASE r = Request("RELEASE_ACCESS_BEARERS", "mme", Control, {}, Sessions)
    BY <2>2
  <2>3. ASSUME NEW s \in Sessions,
               r \in {Request("DELETE_SESSION", "mme", s, {Default[s]}, {s}),
                      Request("CREATE_BEARER", "pgw", s, {Default[s]}, {s})}
        PROVE  r \in RequestType
    BY <2>3
  <2>4. ASSUME NEW s \in Sessions, NEW E \in SUBSET EBIsOf(s),
               r = Request("UPDATE_BEARER", "pgw", s, E, {s})
        PROVE  r \in RequestType
    BY <2>4
  <2>5. ASSUME NEW s \in Sessions, NEW o \in {"mme", "pgw"}, NEW E \in SUBSET EBIsOf(s),
               r = Request("DELETE_BEARER", o, s, E, {s})
        PROVE  r \in RequestType
    BY <2>5
  <2> QED
    BY <2>1, <2>2, <2>3, <2>4, <2>5 DEF Requests
<1>2. Request("RELEASE_ACCESS_BEARERS", "mme", Control, {}, Sessions) \in Requests
  BY DEF Requests
<1> QED
  BY <1>1, <1>2

\* NoJob is a job.
LEMMA NoJobTyped == NoJob \in [req : Requests, id : IDs, stamp : IDs]
BY RequestsTyped, CollisionTrackerAssumption DEF NoJob, IDs

-----------------------------------------------------------------------------
(* Types. nextID stays within the bound on begun procedures because a      *)
(* tracker never numbers more procedures than were begun.                  *)

Numbered == \A s \in Sessions : nextID[s] <= begun

\* Every step keeps the types, and the identifiers below the tracker's counter.
LEMMA TypeStep == TypeOK /\ Numbered /\ [Next]_vars => TypeOK' /\ Numbered'
<1> SUFFICES ASSUME TypeOK, Numbered, [Next]_vars PROVE TypeOK' /\ Numbered'
  OBVIOUS
<1> USE CollisionTrackerAssumption DEF IDs
<1>0. \A r \in Requests : r \in RequestType
  BY RequestsTyped
<1>f. ASSUME NEW h \in Handlers, Finish(h), UNCHANGED <<nextID, overrun, begun, pgwDown>>
      PROVE  TypeOK' /\ Numbered'
  <2>1. job[h].req.at \in Sessions
    BY <1>0 DEF TypeOK, RequestType
  <2>2. active' \in [Sessions -> SUBSET Entries]
    BY <1>f, <2>1 DEF Finish, TypeOK
  <2>3. job' \in [Handlers -> [req : Requests, id : IDs, stamp : IDs]]
    BY <1>f, NoJobTyped DEF Finish, TypeOK
  <2> QED
    BY <1>f, <2>2, <2>3 DEF Finish, TypeOK, Numbered
<1>1. ASSUME NEW h \in Handlers, NEW r \in Requests, Begin(h, r) PROVE TypeOK' /\ Numbered'
  <2>1. r \in RequestType
    BY <1>0
  <2>2. nextID[r.at] + 1 \in IDs /\ begun + 1 \in IDs
    BY <1>1, <2>1 DEF Begin, TypeOK, Numbered, RequestType
  <2>3. [id |-> nextID[r.at] + 1, proc |-> r.proc, ebis |-> r.ebis] \in Entries
    BY <2>1, <2>2 DEF Entries, RequestType
  <2>4. Swept(r.at) \subseteq Entries
    BY <2>1 DEF Swept, TypeOK, RequestType
  <2>5. active' \in [Sessions -> SUBSET Entries]
    BY <1>1, <2>1, <2>3, <2>4 DEF Begin, TypeOK, RequestType
  <2>6. job' \in [Handlers -> [req : Requests, id : IDs, stamp : IDs]]
    BY <1>1, <2>2 DEF Begin, TypeOK
  <2> QED
    BY <1>1, <2>1, <2>2, <2>5, <2>6 DEF Begin, TypeOK, Numbered, RequestType
<1>2. ASSUME NEW h \in Handlers, NEW r \in Requests, Reject(h, r) PROVE TypeOK' /\ Numbered'
  <2>1. r \in RequestType
    BY <1>0
  <2>2. Swept(r.at) \subseteq Entries
    BY <2>1 DEF Swept, TypeOK, RequestType
  <2> QED
    BY <1>2, <2>1, <2>2 DEF Reject, TypeOK, Numbered, RequestType
<1>3. ASSUME NEW h \in Handlers, Run(h) PROVE TypeOK' /\ Numbered'
  BY <1>3 DEF Run, TypeOK, Numbered
<1>4. ASSUME NEW h \in Handlers, Block(h) PROVE TypeOK' /\ Numbered'
  BY <1>4, <1>f DEF Block
<1>5. ASSUME NEW h \in Handlers, End(h) PROVE TypeOK' /\ Numbered'
  BY <1>5, <1>f DEF End
<1>6. ASSUME NEW h \in Handlers, Overrun(h) PROVE TypeOK' /\ Numbered'
  <2>1. job[h].req.at \in Sessions /\ job[h].id \in IDs
    BY <1>0 DEF TypeOK, RequestType
  <2> QED
    BY <1>6, <2>1 DEF Overrun, TypeOK, Numbered
<1>7. CASE PGWHealth
  BY <1>7 DEF PGWHealth, TypeOK, Numbered
<1>8. CASE UNCHANGED vars
  BY <1>8 DEF vars, TypeOK, Numbered
<1> QED
  BY <1>1, <1>2, <1>3, <1>4, <1>5, <1>6, <1>7, <1>8 DEF Next

\* The empty trackers have their types.
LEMMA TypeInit == Init => TypeOK /\ Numbered
<1> SUFFICES ASSUME Init PROVE TypeOK /\ Numbered
  OBVIOUS
<1>1. 0 \in IDs
  BY CollisionTrackerAssumption DEF IDs
<1>2. job \in [Handlers -> [req : Requests, id : IDs, stamp : IDs]]
  BY NoJobTyped DEF Init
<1>3. nextID \in [Sessions -> IDs] /\ begun \in IDs /\ Numbered
  BY <1>1 DEF Init, Numbered
<1> QED
  BY <1>2, <1>3 DEF Init, TypeOK

\* Type correctness of the trackers and of the handlers that use them.
THEOREM TypeCorrect == Spec => []TypeOK
<1>1. Spec => [](TypeOK /\ Numbered)
  BY TypeInit, TypeStep, PTL DEF Spec
<1> QED
  BY <1>1, PTL

-----------------------------------------------------------------------------
\* Every entry of a tracker belongs to a handler that has not finished, for all
\* interleavings of procedures that are begun, refused, blocked or swept.
THEOREM NoOrphanEntry == Spec => []TrackedIsLive
<1>1. Init => TrackedIsLive
  BY DEF Init, TrackedIsLive
<1>2. TypeOK /\ TrackedIsLive /\ [Next]_vars => TrackedIsLive'
  <2> SUFFICES ASSUME TypeOK, TrackedIsLive, [Next]_vars PROVE TrackedIsLive'
    OBVIOUS
  <2>0. \A r \in Requests : r \in RequestType
    BY RequestsTyped
  <2>f. ASSUME NEW h \in Handlers, Finish(h) PROVE TrackedIsLive'
    <3>1. SUFFICES ASSUME NEW s \in Sessions, NEW a \in active'[s]
                   PROVE  \E g \in Handlers : /\ pc'[g] # "idle" /\ job'[g].req.at = s
                                              /\ job'[g].id = a.id
      BY DEF TrackedIsLive
    <3>2. a \in active[s] /\ (s = job[h].req.at => a.id # job[h].id)
      BY <2>f, <3>1 DEF Finish, TypeOK
    <3>3. PICK g \in Handlers : pc[g] # "idle" /\ job[g].req.at = s /\ job[g].id = a.id
      BY <3>2 DEF TrackedIsLive
    <3>4. g # h
      BY <3>2, <3>3
    <3> QED
      BY <2>f, <3>3, <3>4 DEF Finish, TypeOK
  <2>1. ASSUME NEW h \in Handlers, NEW r \in Requests, Begin(h, r) PROVE TrackedIsLive'
    <3>1. SUFFICES ASSUME NEW s \in Sessions, NEW a \in active'[s]
                   PROVE  \E g \in Handlers : /\ pc'[g] # "idle" /\ job'[g].req.at = s
                                              /\ job'[g].id = a.id
      BY DEF TrackedIsLive
    <3>2. CASE a \in active[s]
      <4>1. PICK g \in Handlers : pc[g] # "idle" /\ job[g].req.at = s /\ job[g].id = a.id
        BY <3>2 DEF TrackedIsLive
      <4>2. g # h
        BY <2>1, <4>1 DEF Begin
      <4> QED
        BY <2>1, <4>1, <4>2 DEF Begin, TypeOK
    <3>3. CASE a \notin active[s]
      <4>1. s = r.at /\ a.id = nextID[r.at] + 1
        BY <2>1, <3>1, <3>3, <2>0 DEF Begin, TypeOK, Swept, RequestType
      <4> QED
        BY <2>1, <4>1 DEF Begin, TypeOK
    <3> QED
      BY <3>2, <3>3
  <2>2. ASSUME NEW h \in Handlers, NEW r \in Requests, Reject(h, r) PROVE TrackedIsLive'
    BY <2>2, <2>0 DEF Reject, Swept, TrackedIsLive, TypeOK, RequestType
  <2>3. ASSUME NEW h \in Handlers, Run(h) PROVE TrackedIsLive'
    BY <2>3 DEF Run, TrackedIsLive, TypeOK
  <2>4. ASSUME NEW h \in Handlers, Block(h) PROVE TrackedIsLive'
    BY <2>4, <2>f DEF Block
  <2>5. ASSUME NEW h \in Handlers, End(h) PROVE TrackedIsLive'
    BY <2>5, <2>f DEF End
  <2>6. ASSUME NEW h \in Handlers, Overrun(h) PROVE TrackedIsLive'
    BY <2>6 DEF Overrun, TrackedIsLive
  <2>7. CASE PGWHealth
    BY <2>7 DEF PGWHealth, TrackedIsLive
  <2>8. CASE UNCHANGED vars
    BY <2>8 DEF vars, TrackedIsLive
  <2> QED
    BY <2>1, <2>2, <2>3, <2>4, <2>5, <2>6, <2>7, <2>8 DEF Next
<1> QED
  BY <1>1, <1>2, TypeCorrect, PTL DEF Spec

-----------------------------------------------------------------------------
(* Mutual exclusion. What a handler runs is not, by itself, known to be in *)
(* the tracker that Begin consults: another handler's Finish or a sweep    *)
(* could have taken it out. The invariant says that it is in there until   *)
(* its timeout, because IDs are not reused.                                *)

Busy(h) == pc[h] # "idle"

\* The entry of a handler's procedure.
EntryOf(h) == [id |-> job[h].id, proc |-> job[h].req.proc, ebis |-> job[h].req.ebis]

Tracked == \A h \in Handlers : Busy(h) /\ InTime(h) => EntryOf(h) \in active[job[h].req.at]

Known == \A h \in Handlers :
    Busy(h) => job[h].id <= nextID[job[h].req.at] /\ job[h].stamp <= begun

Distinct == \A h, g \in Handlers :
    Busy(h) /\ Busy(g) /\ h # g /\ job[h].req.at = job[g].req.at => job[h].id # job[g].id

Exclusive == \A h, g \in Handlers :
    Busy(h) /\ Busy(g) /\ InTime(h)
    /\ job[h].req.at = job[g].req.at /\ job[h].stamp < job[g].stamp
        => Allows(job[h].req.proc, job[h].req.ebis, job[g].req.proc, job[g].req.ebis)

ExclInv == Tracked /\ Known /\ Distinct /\ Exclusive

\* Every step keeps the inductive invariant of MutualExclusion.
LEMMA ExclStep == TypeOK /\ ExclInv /\ [Next]_vars => ExclInv'
<1> SUFFICES ASSUME TypeOK, ExclInv, [Next]_vars PROVE ExclInv'
  OBVIOUS
<1> USE CollisionTrackerAssumption DEF IDs
<1>0. \A r \in Requests : r \in RequestType
  BY RequestsTyped
<1>t. \A h \in Handlers : /\ job[h].req \in RequestType /\ job[h].req.at \in Sessions
                          /\ job[h].id \in Nat /\ job[h].stamp \in Nat
  BY <1>0 DEF TypeOK, RequestType
<1>f. ASSUME NEW h \in Handlers, Busy(h), Finish(h), UNCHANGED <<nextID, overrun, begun, pgwDown>>
      PROVE  ExclInv'
  <2>1. \A g \in Handlers : Busy(g)' => g # h /\ Busy(g) /\ job'[g] = job[g]
    BY <1>f DEF Finish, Busy, TypeOK
  <2>2. Tracked'
    <3> SUFFICES ASSUME NEW g \in Handlers, Busy(g)', InTime(g)'
                 PROVE  EntryOf(g)' \in active'[job'[g].req.at]
      BY DEF Tracked
    <3>1. g # h /\ Busy(g) /\ job'[g] = job[g]
      BY <2>1
    <3>2. EntryOf(g) \in active[job[g].req.at] /\ EntryOf(g).id = job[g].id
      BY <1>f, <3>1 DEF ExclInv, Tracked, EntryOf, InTime
    <3>3. job[g].req.at = job[h].req.at => job[g].id # job[h].id
      BY <1>f, <3>1 DEF ExclInv, Distinct
    <3>4. EntryOf(g) \in active'[job[g].req.at]
      BY <1>f, <1>t, <3>2, <3>3 DEF Finish, TypeOK
    <3>5. EntryOf(g)' = EntryOf(g)
      BY <3>1 DEF EntryOf
    <3> QED
      BY <3>1, <3>4, <3>5, <1>f
  <2> QED
    BY <1>f, <2>1, <2>2 DEF ExclInv, Known, Distinct, Exclusive, InTime
<1>s. \A g \in Handlers : Busy(g) /\ InTime(g) => EntryOf(g) \in Swept(job[g].req.at)
  BY <1>t DEF ExclInv, Tracked, EntryOf, Swept, InTime
<1>1. ASSUME NEW h \in Handlers, NEW r \in Requests, Begin(h, r) PROVE ExclInv'
  <2> DEFINE s == r.at
             n == nextID[s] + 1
             new == [id |-> n, proc |-> r.proc, ebis |-> r.ebis]
  <2>1. s \in Sessions /\ n \in Nat /\ begun \in Nat /\ nextID[s] \in Nat
    BY <1>0 DEF RequestType, TypeOK
  <2>2. active' = [active EXCEPT ![s] = Swept(s) \cup {new}]
    BY <1>1 DEF Begin
  <2>3. /\ Busy(h)' /\ ~Busy(h) /\ job'[h].req = r /\ job'[h].id = n /\ job'[h].stamp = begun + 1
        /\ \A g \in Handlers \ {h} : job'[g] = job[g] /\ (Busy(g)' <=> Busy(g))
        /\ nextID' = [nextID EXCEPT ![s] = n] /\ begun' = begun + 1 /\ overrun' = overrun
    BY <1>1 DEF Begin, Busy, TypeOK
  <2>4. Tracked'
    <3> SUFFICES ASSUME NEW g \in Handlers, Busy(g)', InTime(g)'
                 PROVE  EntryOf(g)' \in active'[job'[g].req.at]
      BY DEF Tracked
    <3>1. CASE g = h
      BY <3>1, <2>1, <2>2, <2>3 DEF EntryOf, TypeOK
    <3>2. CASE g # h
      <4>1. Busy(g) /\ InTime(g) /\ job'[g] = job[g] /\ EntryOf(g)' = EntryOf(g)
        BY <3>2, <2>3 DEF InTime, EntryOf
      <4>2. EntryOf(g) \in Swept(job[g].req.at) /\ EntryOf(g) \in active[job[g].req.at]
        BY <4>1, <1>s DEF Swept
      <4> QED
        BY <4>1, <4>2, <2>1, <2>2, <1>t DEF TypeOK
    <3> QED
      BY <3>1, <3>2
  <2>5. Known'
    <3> SUFFICES ASSUME NEW g \in Handlers, Busy(g)'
                 PROVE  job'[g].id <= nextID'[job'[g].req.at] /\ job'[g].stamp <= begun'
      BY DEF Known
    <3>1. CASE g = h
      BY <3>1, <2>1, <2>3 DEF TypeOK
    <3>2. CASE g # h
      <4>1. Busy(g) /\ job'[g] = job[g]
        BY <3>2, <2>3
      <4>2. job[g].id <= nextID[job[g].req.at] /\ job[g].stamp <= begun
        BY <4>1 DEF ExclInv, Known
      <4>3. nextID[job[g].req.at] \in Nat
        BY <1>t DEF TypeOK
      <4> QED
        BY <4>1, <4>2, <4>3, <2>1, <2>3, <1>t DEF TypeOK
    <3> QED
      BY <3>1, <3>2
  <2>6. Distinct'
    <3> SUFFICES ASSUME NEW g \in Handlers, NEW k \in Handlers, Busy(g)', Busy(k)', g # k,
                        job'[g].req.at = job'[k].req.at
                 PROVE  job'[g].id # job'[k].id
      BY DEF Distinct
    <3>1. ASSUME NEW j \in Handlers, j # h, Busy(j)', job'[j].req.at = s PROVE job'[j].id < n
      BY <3>1, <2>1, <2>3, <1>t DEF ExclInv, Known
    <3>2. CASE g = h
      BY <3>2, <3>1, <2>1, <2>3, <1>t
    <3>3. CASE k = h
      BY <3>3, <3>1, <2>1, <2>3, <1>t
    <3>4. CASE g # h /\ k # h
      BY <3>4, <2>3 DEF ExclInv, Distinct
    <3> QED
      BY <3>2, <3>3, <3>4
  <2>7. Exclusive'
    <3> SUFFICES ASSUME NEW g \in Handlers, NEW k \in Handlers, Busy(g)', Busy(k)', InTime(g)',
                        job'[g].req.at = job'[k].req.at, job'[g].stamp < job'[k].stamp
                 PROVE  Allows(job'[g].req.proc, job'[g].req.ebis, job'[k].req.proc, job'[k].req.ebis)
      BY DEF Exclusive, Allows
    <3>1. CASE k = h
      <4>1. g # h
        BY <3>1, <2>1, <2>3
      <4>2. Busy(g) /\ job'[g] = job[g] /\ job[g].req.at = s
        BY <3>1, <4>1, <2>3
      <4>3. EntryOf(g) \in Swept(s)
        BY <4>2, <2>3, <1>s DEF InTime
      <4>4. Allows(EntryOf(g).proc, EntryOf(g).ebis, r.proc, r.ebis)
        BY <1>1, <4>3 DEF Begin
      <4> QED
        BY <3>1, <4>2, <4>4, <2>3 DEF EntryOf
    <3>2. CASE g = h /\ k # h
      <4>1. job[k].stamp <= begun /\ job'[k] = job[k]
        BY <3>2, <2>3 DEF ExclInv, Known
      <4> QED
        BY <3>2, <4>1, <2>1, <2>3, <1>t
    <3>3. CASE g # h /\ k # h
      BY <3>3, <2>3 DEF ExclInv, Exclusive, InTime
    <3> QED
      BY <3>1, <3>2, <3>3
  <2> QED
    BY <2>3, <2>4, <2>5, <2>6, <2>7 DEF ExclInv
<1>2. ASSUME NEW h \in Handlers, NEW r \in Requests, Reject(h, r) PROVE ExclInv'
  <2>1. r.at \in Sessions
    BY <1>0 DEF RequestType
  <2>2. Tracked'
    <3> SUFFICES ASSUME NEW g \in Handlers, Busy(g)', InTime(g)'
                 PROVE  EntryOf(g)' \in active'[job'[g].req.at]
      BY DEF Tracked
    <3>1. Busy(g) /\ InTime(g) /\ job'[g] = job[g] /\ EntryOf(g)' = EntryOf(g)
      BY <1>2 DEF Reject, Busy, InTime, EntryOf
    <3>2. EntryOf(g) \in Swept(job[g].req.at) /\ EntryOf(g) \in active[job[g].req.at]
      BY <3>1, <1>s DEF Swept
    <3> QED
      BY <1>2, <2>1, <3>1, <3>2, <1>t DEF Reject, TypeOK
  <2> QED
    BY <1>2, <2>2 DEF Reject, ExclInv, Busy, InTime, Known, Distinct, Exclusive, Allows
<1>3. ASSUME NEW h \in Handlers, Run(h) PROVE ExclInv'
  <2>1. \A g \in Handlers : Busy(g)' <=> Busy(g)
    BY <1>3 DEF Run, Busy, TypeOK
  <2> QED
    BY <1>3, <2>1 DEF Run, ExclInv, Tracked, EntryOf, InTime, Known, Distinct, Exclusive, Allows
<1>4. ASSUME NEW h \in Handlers, Block(h) PROVE ExclInv'
  BY <1>4, <1>f DEF Block, Busy
<1>5. ASSUME NEW h \in Handlers, End(h) PROVE ExclInv'
  BY <1>5, <1>f DEF End, Busy
<1>6. ASSUME NEW h \in Handlers, Overrun(h) PROVE ExclInv'
  BY <1>6 DEF Overrun, ExclInv, Tracked, EntryOf, Busy, InTime, Known, Distinct, Exclusive, Allows
<1>7. CASE PGWHealth
  BY <1>7 DEF PGWHealth, ExclInv, Tracked, EntryOf, Busy, InTime, Known, Distinct, Exclusive, Allows
<1>8. CASE UNCHANGED vars
  BY <1>8 DEF vars, ExclInv, Tracked, EntryOf, Busy, InTime, Known, Distinct, Exclusive, Allows
<1> QED
  BY <1>1, <1>2, <1>3, <1>4, <1>5, <1>6, <1>7, <1>8 DEF Next

\* With one PDN session under the S11 TEID, a procedure that runs beside an earlier
\* one within its timeout is allowed beside it, for any number of handlers, bearers
\* and requests, in either mode and whatever else is swept.
THEOREM MutualExclusion ==
    ASSUME Sessions = {Control}
    PROVE  Spec => []NoUnsafeOverlap
<1>1. Init => ExclInv
  BY DEF Init, ExclInv, Tracked, Known, Distinct, Exclusive, Busy
<1>2. TypeOK /\ ExclInv /\ [Next]_vars => ExclInv'
  BY ExclStep
<1>3. TypeOK /\ ExclInv => NoUnsafeOverlap
  <2> SUFFICES ASSUME TypeOK, ExclInv, NEW h \in Handlers, NEW g \in Handlers,
                      pc[h] = "running", pc[g] = "running", InTime(h), job[h].stamp < job[g].stamp
               PROVE  Allows(job[h].req.proc, job[h].req.ebis, job[g].req.proc, job[g].req.ebis)
    BY DEF NoUnsafeOverlap
  <2>1. job[h].req.at = Control /\ job[g].req.at = Control
    BY RequestsTyped DEF TypeOK, RequestType
  <2> QED
    BY <2>1 DEF ExclInv, Exclusive, Busy
<1> QED
  BY <1>1, <1>2, <1>3, TypeCorrect, PTL DEF Spec
=============================================================================
