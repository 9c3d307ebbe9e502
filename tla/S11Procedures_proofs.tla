----------------------- MODULE S11Procedures_proofs -----------------------
(***************************************************************************)
(* Theorems about S11Procedures: its types, the legs of Active sessions,   *)
(* that nothing is leaked, and the downlink.                               *)
(*                                                                         *)
(* The 21 actions are first reduced to 14 effects on the sessions and      *)
(* their legs (Effect). What a step of one handler cannot do to the        *)
(* sessions of the others is one lemma (Gentles); what is left for each    *)
(* conjunct of the invariant is the step's own handler.                    *)
(***************************************************************************)
EXTENDS S11Procedures, WellFoundedInduction, TLAPS

-----------------------------------------------------------------------------
(* Operators of the model.                                                 *)

\* A set of naturals that is not empty has a least element.
LEMMA HasMin ==
    ASSUME NEW S \in SUBSET Nat, S # {}
    PROVE  \E x \in S : \A y \in S : x <= y
<1>1. PICK x \in S : \A y \in S : ~(<<y, x>> \in OpToRel(<, Nat))
  BY NatLessThanWellFounded, WFMin
<1>2. \A y \in S : ~(y < x)
  BY <1>1 DEF OpToRel
<1>3. \A y \in S : y \in Nat
  OBVIOUS
<1>4. \A y \in S : x <= y
  BY <1>2, <1>3
<1>. QED  BY <1>4

\* A bounded set of naturals that is not empty has a greatest one.
LEMMA HasMax ==
    ASSUME NEW n \in Nat, NEW S \in SUBSET (1..n), S # {}
    PROVE  \E x \in S : \A y \in S : y <= x
<1>. DEFINE T == {n - x : x \in S}
<1>0. \A x \in S : n - x \in Nat
  OBVIOUS
<1>1. T \in SUBSET Nat /\ T # {}
  BY <1>0
<1>2. PICK t \in T : \A u \in T : t <= u
  BY <1>1, HasMin
<1>3. PICK x \in S : t = n - x
  OBVIOUS
<1>4. \A y \in S : n - y \in T
  OBVIOUS
<1>5. \A y \in S : n - x <= n - y
  BY <1>2, <1>3, <1>4
<1>6. \A y \in S : y <= x
  BY <1>5
<1>. QED  BY <1>6

\* Min picks an element.
LEMMA MinIn ==
    ASSUME NEW S \in SUBSET Nat, S # {}
    PROVE  Min(S) \in S
BY HasMin DEF Min

\* Max picks an element.
LEMMA MaxIn ==
    ASSUME NEW n \in Nat, NEW S \in SUBSET (1..n), S # {}
    PROVE  Max(S) \in S
BY HasMax DEF Max

\* OwnerOf gives a session of the store, with the bearer asked for.
LEMMA Owner ==
    ASSUME TypeOK, NEW e, OwnerOf(e) # NoSid
    PROVE  OwnerOf(e) \in stored /\ ses[OwnerOf(e)].ebi = e /\ OwnerOf(e) \in 1..made
<1>. DEFINE E == {x \in stored : ses[x].ebi = e}
<1>1. OwnerOf(e) = IF E = {} THEN NoSid ELSE Max(E)
  BY DEF OwnerOf
<1>a. made \in Nat /\ stored \subseteq 1..made
  BY S11Assumption DEF TypeOK
<1>2. E \in SUBSET (1..made) /\ E # {}
  BY <1>1, <1>a
<1>3. Max(E) \in E
  BY <1>2, <1>a, MaxIn
<1>. QED  BY <1>1, <1>2, <1>3

\* The fields of a session object have their types.
LEMMA SesFields ==
    ASSUME TypeOK, NEW s \in 1..made
    PROVE  /\ ses[s] \in Sess /\ ses[s].ebi \in EBIs /\ ses[s].st \in States
           /\ ses[s].pgw \in BOOLEAN /\ ses[s].bound \in BOOLEAN /\ ses[s].enb \in ENBs \cup {NoENB}
<1>. DEFINE x == ses[s]
<1>1. x \in Sess
  BY DEF TypeOK
<1>. HIDE DEF x
<1>2. /\ x.ebi \in EBIs /\ x.st \in States /\ x.pgw \in BOOLEAN /\ x.bound \in BOOLEAN
      /\ x.enb \in ENBs \cup {NoENB}
  BY <1>1 DEF Sess
<1>. QED  BY <1>1, <1>2 DEF x

\* A step changes no session object but s.
Kept(s) ==
    /\ ses' \in [1..made -> Sess]
    /\ \A t \in 1..made : t # s => ses'[t] = ses[t]

\* What a step leaves in session object s; the bearer never changes.
Fields(s, st, p, b, n) ==
    /\ ses'[s].ebi = ses[s].ebi /\ ses'[s].st = st
    /\ ses'[s].pgw = p /\ ses'[s].bound = b /\ ses'[s].enb = n

\* An EXCEPT on ses, for one whole session object.
LEMMA SesUpdate ==
    ASSUME TypeOK, NEW s \in 1..made, NEW y \in Sess, ses' = [ses EXCEPT ![s] = y]
    PROVE  Kept(s) /\ ses'[s] = y
BY DEF TypeOK, Kept

\* SetPGW: the PGW leg is recorded.
LEMMA SetPgw ==
    ASSUME TypeOK, NEW s \in 1..made, ses' = [ses EXCEPT ![s].pgw = TRUE]
    PROVE  Kept(s) /\ Fields(s, ses[s].st, TRUE, ses[s].bound, ses[s].enb)
<1>. DEFINE x == ses[s]
            y == [x EXCEPT !.pgw = TRUE]
<1>1. x \in Sess
  BY SesFields
<1>2. ses' = [ses EXCEPT ![s] = y]
  BY DEF TypeOK
<1>. HIDE DEF x
<1>3. /\ y \in Sess /\ y.ebi = x.ebi /\ y.st = x.st /\ y.pgw = TRUE /\ y.bound = x.bound /\ y.enb = x.enb
  BY <1>1 DEF Sess
<1>. HIDE DEF y
<1>4. Kept(s) /\ ses'[s] = y
  BY <1>2, <1>3, SesUpdate
<1>. QED  BY <1>3, <1>4 DEF Fields, x

\* SetPFCPBinding with a transition.
LEMMA SetBound ==
    ASSUME TypeOK, NEW s \in 1..made, NEW st \in States,
           ses' = [ses EXCEPT ![s].bound = TRUE, ![s].st = st]
    PROVE  Kept(s) /\ Fields(s, st, ses[s].pgw, TRUE, ses[s].enb)
<1>. DEFINE x == ses[s]
            y == [x EXCEPT !.bound = TRUE, !.st = st]
<1>1. x \in Sess
  BY SesFields
<1>2. ses' = [ses EXCEPT ![s] = y]
  BY DEF TypeOK
<1>. HIDE DEF x
<1>3. /\ y \in Sess /\ y.ebi = x.ebi /\ y.st = st /\ y.pgw = x.pgw /\ y.bound = TRUE /\ y.enb = x.enb
  BY <1>1 DEF Sess
<1>. HIDE DEF y
<1>4. Kept(s) /\ ses'[s] = y
  BY <1>2, <1>3, SesUpdate
<1>. QED  BY <1>3, <1>4 DEF Fields, x

\* A transition.
LEMMA SetState ==
    ASSUME TypeOK, NEW s \in 1..made, NEW st \in States, ses' = [ses EXCEPT ![s].st = st]
    PROVE  Kept(s) /\ Fields(s, st, ses[s].pgw, ses[s].bound, ses[s].enb)
<1>. DEFINE x == ses[s]
            y == [x EXCEPT !.st = st]
<1>1. x \in Sess
  BY SesFields
<1>2. ses' = [ses EXCEPT ![s] = y]
  BY DEF TypeOK
<1>. HIDE DEF x
<1>3. /\ y \in Sess /\ y.ebi = x.ebi /\ y.st = st /\ y.pgw = x.pgw /\ y.bound = x.bound /\ y.enb = x.enb
  BY <1>1 DEF Sess
<1>. HIDE DEF y
<1>4. Kept(s) /\ ses'[s] = y
  BY <1>2, <1>3, SesUpdate
<1>. QED  BY <1>3, <1>4 DEF Fields, x

\* The eNodeB F-TEID of the bearer is set.
LEMMA SetEnb ==
    ASSUME TypeOK, NEW s \in 1..made, NEW n \in ENBs \cup {NoENB},
           ses' = [ses EXCEPT ![s].enb = n]
    PROVE  Kept(s) /\ Fields(s, ses[s].st, ses[s].pgw, ses[s].bound, n)
<1>. DEFINE x == ses[s]
            y == [x EXCEPT !.enb = n]
<1>1. x \in Sess
  BY SesFields
<1>2. ses' = [ses EXCEPT ![s] = y]
  BY DEF TypeOK
<1>. HIDE DEF x
<1>3. /\ y \in Sess /\ y.ebi = x.ebi /\ y.st = x.st /\ y.pgw = x.pgw /\ y.bound = x.bound /\ y.enb = n
  BY <1>1 DEF Sess
<1>. HIDE DEF y
<1>4. Kept(s) /\ ses'[s] = y
  BY <1>2, <1>3, SesUpdate
<1>. QED  BY <1>3, <1>4 DEF Fields, x

-----------------------------------------------------------------------------
(* Types.                                                                  *)

\* Handler h serves a Create Session Request.
Making(h) == pc[h] \in Creating

\* The locals of a handler name sessions that exist, and bearers, where it uses them.
Frames ==
    \A h \in Handlers :
        /\ pc[h] \in Creating \cup {"dsPgw", "dsUp", "mbSent"} => cur[h] \in 1..made
        /\ pc[h] \in {"evictPgw", "evictUp"} => old[h] \in 1..made
        /\ pc[h] = "rab" => list[h] \subseteq 1..made /\ todo[h] \subseteq list[h]
        /\ pc[h] \in {"mb", "mbSent"} => todo[h] \subseteq EBIs

\* TypeOK is inductive together with Frames.
TypeInv == TypeOK /\ Frames

\* It holds initially.
LEMMA TypeInit == Init => TypeInv
<1>. SUFFICES ASSUME Init PROVE TypeInv
  OBVIOUS
<1>1. NoUp \in Fars
  BY DEF NoUp, Fars
<1>2. MaxSess \in Nat /\ MaxFail \in Nat /\ 1..0 = {}
  BY S11Assumption
<1>3. /\ made \in 0..MaxSess /\ stored \subseteq 1..made /\ pgw \subseteq 1..made /\ fails \in 0..MaxFail
      /\ overtaken \subseteq Sids /\ failUp \subseteq Sids /\ failPgw \subseteq Sids /\ unsure \subseteq Sids
  BY <1>2 DEF Init
<1>4. /\ cur \in [Handlers -> 0..made] /\ old \in [Handlers -> 0..made] /\ hold \in [Handlers -> 0..made]
      /\ pc \in [Handlers -> PCs]
  BY DEF Init, PCs, NoSid
<1>5. /\ enb \in [Handlers -> ENBs \cup {NoENB}] /\ prev \in [Handlers -> ENBs \cup {NoENB}]
      /\ list \in [Handlers -> SUBSET (EBIs \cup Sids)] /\ todo \in [Handlers -> SUBSET (EBIs \cup Sids)]
  BY DEF Init
<1>6. up \in [Sids -> Fars]
  BY <1>1 DEF Init
<1>7. ses \in [1..made -> Sess]
  <2>1. ses = <<>> /\ made = 0
    BY DEF Init
  <2>2. <<>> \in [{} -> Sess]
    OBVIOUS
  <2>. QED  BY <1>2, <2>1, <2>2
<1>8. Frames
  BY DEF Init, Frames, Creating
<1>. QED  BY <1>3, <1>4, <1>5, <1>6, <1>7, <1>8 DEF TypeInv, TypeOK

\* The bounds in a form the provers use.
LEMMA Types ==
    TypeInv => /\ made \in Nat /\ MaxSess \in Nat /\ made <= MaxSess
               /\ stored \subseteq 1..made /\ pgw \subseteq 1..made /\ 1..made \subseteq Sids
               /\ fails \in 0..MaxFail /\ MaxFail \in Nat
BY S11Assumption DEF TypeInv, TypeOK, Sids

\* An exchange keeps to the bound of failures.
LEMMA Outcome ==
    ASSUME fails \in 0..MaxFail, MaxFail \in Nat, NEW o \in Outcomes, Exchange(o)
    PROVE  fails' \in 0..MaxFail
BY DEF Exchange

\* The end of a handler keeps the types.
LEMMA Returned ==
    ASSUME TypeInv, NEW h \in Handlers, Return(h), made' = made
    PROVE  /\ pc' \in [Handlers -> PCs] /\ cur' \in [Handlers -> 0..made] /\ old' \in [Handlers -> 0..made]
           /\ enb' \in [Handlers -> ENBs \cup {NoENB}] /\ prev' \in [Handlers -> ENBs \cup {NoENB}]
           /\ list' \in [Handlers -> SUBSET (EBIs \cup Sids)] /\ todo' \in [Handlers -> SUBSET (EBIs \cup Sids)]
           /\ hold' \in [Handlers -> 0..made] /\ Frames'
<1>1. /\ pc' \in [Handlers -> PCs] /\ cur' \in [Handlers -> 0..made] /\ old' \in [Handlers -> 0..made]
      /\ hold' \in [Handlers -> 0..made]
  BY Types DEF TypeInv, TypeOK, Return, Goto, PCs, NoSid
<1>2. /\ enb' \in [Handlers -> ENBs \cup {NoENB}] /\ prev' \in [Handlers -> ENBs \cup {NoENB}]
      /\ list' \in [Handlers -> SUBSET (EBIs \cup Sids)] /\ todo' \in [Handlers -> SUBSET (EBIs \cup Sids)]
  BY DEF TypeInv, TypeOK, Return
<1>3. Frames'
  BY DEF TypeInv, TypeOK, Frames, Return, Goto, Creating
<1>. QED  BY <1>1, <1>2, <1>3

\* s5c.DeleteSession: afterwards the PGW no longer holds the session, or the failure
\* is on record.
LEMMA PgwLeg ==
    ASSUME TypeInv, NEW s \in 1..made, DeleteAtPgw(s)
    PROVE  /\ fails' \in 0..MaxFail /\ failPgw' \subseteq Sids
           /\ pgw' \subseteq pgw /\ pgw \ {s} \subseteq pgw' /\ failPgw \subseteq failPgw'
           /\ s \notin pgw' \/ s \in failPgw'
<1>1. PICK o \in Outcomes :
        /\ Exchange(o) /\ failPgw' = Mark(failPgw, s, o)
        /\ pgw' = (IF Done(o) THEN pgw \ {s} ELSE pgw)
  BY DEF DeleteAtPgw
<1>2. fails' \in 0..MaxFail
  BY <1>1, Types, Outcome
<1>. QED  BY <1>1, <1>2, Types DEF TypeInv, TypeOK, Done, Mark, Outcomes

\* pfcp.DeleteSessionOnPeer: likewise for SGW-U.
LEMMA UpLeg ==
    ASSUME TypeInv, NEW s \in 1..made, DeleteAtUp(s)
    PROVE  /\ fails' \in 0..MaxFail /\ failUp' \subseteq Sids /\ failUp \subseteq failUp'
           /\ up' \in [Sids -> Fars] /\ \A t \in Sids : t # s => up'[t] = up[t]
           /\ up'[s] \in {up[s], NoUp}
           /\ up'[s] = NoUp \/ s \in failUp'
<1>1. PICK o \in Outcomes :
        /\ Exchange(o) /\ up' = IF Done(o) THEN [up EXCEPT ![s] = NoUp] ELSE up
        /\ failUp' = Mark(failUp, s, o)
  BY DEF DeleteAtUp
<1>2. fails' \in 0..MaxFail
  BY <1>1, Types, Outcome
<1>3. NoUp \in Fars /\ s \in Sids
  BY Types DEF NoUp, Fars
<1>4. up' \in [Sids -> Fars] /\ (\A t \in Sids : t # s => up'[t] = up[t]) /\ up'[s] \in {up[s], NoUp}
  BY <1>1, <1>3 DEF TypeInv, TypeOK
<1>5. failUp' \subseteq Sids /\ failUp \subseteq failUp' /\ (up'[s] = NoUp \/ s \in failUp')
  BY <1>1, <1>3 DEF TypeInv, TypeOK, Done, Mark, Outcomes
<1>. QED  BY <1>2, <1>4, <1>5

\* ModifySessionOnPeer changes the FARs of a session SGW-U holds, unless it is
\* refused.
LEMMA UpModified ==
    ASSUME TypeInv, NEW s \in 1..made, NEW f \in Fars, NEW o \in Outcomes, ModifyAtUp(s, f, o)
    PROVE  /\ fails' \in 0..MaxFail /\ up' \in [Sids -> Fars]
           /\ \A t \in Sids : t # s => up'[t] = up[t]
           /\ up[s] = NoUp => o = "no"
           /\ up'[s] = IF o # "no" THEN f ELSE up[s]
<1>1. fails' \in 0..MaxFail
  BY Types, Outcome DEF ModifyAtUp
<1>2. s \in Sids
  BY Types
<1>. QED  BY <1>1, <1>2 DEF ModifyAtUp, Done, TypeInv, TypeOK

\* The FARs of a PFCP session, and the two ways they are modified, have their types.
LEMMA FarFields ==
    ASSUME TypeInv, NEW s \in Sids
    PROVE  /\ up[s] \in Fars /\ up[s].ul \in {"none", "drop", "forw"} /\ up[s].dl \in ENBs \cup {NoENB}
           /\ [up[s] EXCEPT !.ul = "forw"] \in Fars
           /\ [up[s] EXCEPT !.ul = "forw"].ul = "forw" /\ [up[s] EXCEPT !.ul = "forw"].dl = up[s].dl
           /\ \A n \in ENBs \cup {NoENB} :
                /\ [up[s] EXCEPT !.dl = n] \in Fars
                /\ [up[s] EXCEPT !.dl = n].ul = up[s].ul /\ [up[s] EXCEPT !.dl = n].dl = n
<1>. DEFINE x == up[s]
<1>1. x \in Fars
  BY DEF TypeInv, TypeOK
<1>. HIDE DEF x
<1>2. x.ul \in {"none", "drop", "forw"} /\ x.dl \in ENBs \cup {NoENB}
  BY <1>1 DEF Fars
<1>3. /\ [x EXCEPT !.ul = "forw"] \in Fars
      /\ [x EXCEPT !.ul = "forw"].ul = "forw" /\ [x EXCEPT !.ul = "forw"].dl = x.dl
  BY <1>1 DEF Fars
<1>4. ASSUME NEW n \in ENBs \cup {NoENB}
      PROVE  /\ [x EXCEPT !.dl = n] \in Fars
             /\ [x EXCEPT !.dl = n].ul = x.ul /\ [x EXCEPT !.dl = n].dl = n
  BY <1>1 DEF Fars
<1>. QED  BY <1>1, <1>2, <1>3, <1>4 DEF x

\* Every step keeps the types.
LEMMA TypeStep ==
    ASSUME TypeInv, [Next]_vars
    PROVE  TypeInv'
<1>. TypeOK /\ Frames
  BY DEF TypeInv
<1>0. /\ made \in Nat /\ MaxSess \in Nat /\ made <= MaxSess /\ fails \in 0..MaxFail
      /\ stored \subseteq 1..made /\ pgw \subseteq 1..made /\ 1..made \subseteq Sids
  BY Types
<1>1. CASE UNCHANGED vars
  BY <1>1 DEF TypeInv, TypeOK, Frames, vars, hVars, hist
<1>2. ASSUME NEW h \in Handlers, NEW e \in EBIs, CreateSession(h, e) PROVE TypeInv'
  <2>. DEFINE E == {x \in stored : ses[x].ebi = e}
              o == IF E = {} THEN NoSid ELSE Max(E)
              n == [ebi |-> e, st |-> "Pending", pgw |-> FALSE, bound |-> FALSE, enb |-> NoENB]
  <2>1. /\ made < MaxSess /\ made' = made + 1
        /\ ses' = [x \in 1..(made + 1) |-> IF x = made + 1 THEN n ELSE ses[x]]
        /\ stored' = (stored \ E) \cup {made + 1}
        /\ overtaken' = overtaken \cup {x \in E : InCreation(x)}
        /\ pc' = [pc EXCEPT ![h] = AfterCreate(o)]
        /\ cur' = [cur EXCEPT ![h] = made + 1]
        /\ old' = [old EXCEPT ![h] = IF pc'[h] = "establish" THEN NoSid ELSE o]
        /\ UNCHANGED <<up, pgw, enb, prev, list, todo, hold, fails, failUp, failPgw, unsure>>
    BY <1>2 DEF CreateSession, Goto
  <2>2. E \in SUBSET (1..made)
    BY <1>0
  <2>3. o \in 0..made /\ (o # NoSid => o \in 1..made)
    <3>1. E # {} => Max(E) \in E
      BY <1>0, <2>2, MaxIn
    <3>2. E # {} => Max(E) \in 1..made
      BY <2>2, <3>1
    <3>3. NoSid \in 0..made /\ 1..made \subseteq 0..made
      BY <1>0 DEF NoSid
    <3>. QED  BY <3>2, <3>3
  <2>4. AfterCreate(o) \in {"evictPgw", "evictUp", "establish"} /\ (AfterCreate(o) # "establish" => o # NoSid)
    BY DEF AfterCreate
  <2>5. n \in Sess
    BY DEF Sess, States
  <2>6. overtaken' \subseteq Sids
    BY <1>0, <2>1, <2>2 DEF TypeOK
  <2>. HIDE DEF E, o, n
  <2>7. ses' \in [1..made' -> Sess]
    <3>1. \A x \in 1..(made + 1) : x # made + 1 => x \in 1..made
      BY <1>0
    <3>. QED  BY <2>1, <2>5, <3>1 DEF TypeOK
  <2>8. made' \in 0..MaxSess /\ stored' \subseteq 1..made' /\ pgw' \subseteq 1..made' /\ 0..made \subseteq 0..made'
        /\ made + 1 \in 0..made' /\ 1..made \subseteq 1..made' /\ made + 1 \in 1..made'
    <3>1. made' = made + 1 /\ made' \in 0..MaxSess /\ 0..made \subseteq 0..made' /\ made + 1 \in 0..made'
      BY <1>0, <2>1
    <3>2. 1..made \subseteq 1..made' /\ made + 1 \in 1..made'
      BY <1>0, <2>1
    <3>3. stored' \subseteq 1..made' /\ pgw' \subseteq 1..made'
      BY <1>0, <2>1, <3>2
    <3>. QED  BY <3>1, <3>2, <3>3
  <2>9. cur' \in [Handlers -> 0..made'] /\ old' \in [Handlers -> 0..made'] /\ hold' \in [Handlers -> 0..made']
    <3>1. NoSid \in 0..made'
      BY <2>8 DEF NoSid
    <3>2. (IF pc'[h] = "establish" THEN NoSid ELSE o) \in 0..made'
      BY <2>3, <2>8, <3>1
    <3>. QED  BY <2>1, <2>8, <3>2 DEF TypeOK
  <2>10. pc' \in [Handlers -> PCs]
    BY <2>1, <2>4 DEF TypeOK, PCs, Creating
  <2>11. TypeOK'
    BY <2>1, <2>6, <2>7, <2>8, <2>9, <2>10 DEF TypeOK
  <2>12. Frames'
    <3>1. pc'[h] = AfterCreate(o) /\ cur'[h] = made + 1 /\ (pc'[h] # "establish" => old'[h] = o)
      BY <2>1 DEF TypeOK
    <3>2. pc'[h] \in {"evictPgw", "evictUp"} => old'[h] \in 1..made'
      BY <2>3, <2>4, <2>8, <3>1
    <3>3. \A g \in Handlers : g # h => pc'[g] = pc[g] /\ cur'[g] = cur[g] /\ old'[g] = old[g]
      BY <2>1 DEF TypeOK
    <3>. QED  BY <2>1, <2>4, <2>8, <3>1, <3>2, <3>3 DEF Frames
  <2>. QED  BY <2>11, <2>12 DEF TypeInv
<1>3. ASSUME NEW h \in Handlers, EvictPgw(h) PROVE TypeInv'
  <2>1. old[h] \in 1..made /\ DeleteAtPgw(old[h])
    BY <1>3 DEF EvictPgw, Frames
  <2>2. fails' \in 0..MaxFail /\ failPgw' \subseteq Sids /\ pgw' \subseteq pgw
    BY <2>1, PgwLeg
  <2>3. /\ pc' = [pc EXCEPT ![h] = AfterEvictPgw(old[h])] /\ AfterEvictPgw(old[h]) \in {"evictUp", "establish"}
        /\ old' = IF pc'[h] = "evictUp" THEN old ELSE [old EXCEPT ![h] = NoSid]
        /\ UNCHANGED <<made, stored, ses, up, cur, enb, prev, list, todo, hold, overtaken, failUp, unsure>>
    BY <1>3 DEF EvictPgw, Goto, AfterEvictPgw
  <2>4. pc' \in [Handlers -> PCs] /\ old' \in [Handlers -> 0..made]
    BY <1>0, <2>3 DEF TypeOK, PCs, Creating, NoSid
  <2>5. TypeOK'
    BY <1>0, <2>2, <2>3, <2>4 DEF TypeOK
  <2>6. Frames'
    BY <1>3, <2>1, <2>3 DEF TypeOK, Frames, EvictPgw, Creating
  <2>. QED  BY <2>5, <2>6 DEF TypeInv
<1>4. ASSUME NEW h \in Handlers, EvictUp(h) PROVE TypeInv'
  <2>1. old[h] \in 1..made /\ DeleteAtUp(old[h])
    BY <1>4 DEF EvictUp, Frames
  <2>2. fails' \in 0..MaxFail /\ failUp' \subseteq Sids /\ up' \in [Sids -> Fars]
    BY <2>1, UpLeg
  <2>3. /\ pc' = [pc EXCEPT ![h] = "establish"] /\ old' = [old EXCEPT ![h] = NoSid]
        /\ UNCHANGED <<made, stored, ses, pgw, cur, enb, prev, list, todo, hold, overtaken, failPgw, unsure>>
    BY <1>4 DEF EvictUp, Goto
  <2>4. pc' \in [Handlers -> PCs] /\ old' \in [Handlers -> 0..made]
    BY <1>0, <2>3 DEF TypeOK, PCs, Creating, NoSid
  <2>5. TypeOK'
    BY <1>0, <2>2, <2>3, <2>4 DEF TypeOK
  <2>6. Frames'
    BY <1>4, <2>3 DEF TypeOK, Frames, EvictUp, Creating
  <2>. QED  BY <2>5, <2>6 DEF TypeInv
<1>5. ASSUME NEW h \in Handlers, NoPgw(h) PROVE TypeInv'
  <2>1. /\ Return(h) /\ stored' = stored \ {cur[h]} /\ fails' \in 0..MaxFail
        /\ UNCHANGED <<made, ses, up, pgw, overtaken, failUp, failPgw, unsure>>
    BY <1>5, Types, Outcome DEF NoPgw, DeleteStored, Outcomes
  <2>. QED  BY <1>0, <2>1, Returned DEF TypeInv, TypeOK
<1>6. ASSUME NEW h \in Handlers, Establish(h) PROVE TypeInv'
  <2>1. PICK o \in Outcomes :
          /\ Exchange(o) /\ up' = IF Done(o) THEN [up EXCEPT ![cur[h]] = Provisional] ELSE up
          /\ failUp' = Mark(failUp, cur[h], o)
          /\ IF o = "ok" THEN /\ Goto(h, "s5c")
                              /\ UNCHANGED <<stored, cur, old, enb, prev, list, todo, hold>>
                         ELSE DeleteStored(cur[h]) /\ Return(h)
    BY <1>6 DEF Establish
  <2>2. pc[h] = "establish" /\ UNCHANGED <<made, ses, pgw, overtaken, failPgw, unsure>>
    BY <1>6 DEF Establish
  <2>3. cur[h] \in 1..made /\ Provisional \in Fars
    BY <2>2 DEF Frames, Creating, Provisional, Fars
  <2>4. fails' \in 0..MaxFail
    BY <2>1, Types, Outcome
  <2>5. up' \in [Sids -> Fars] /\ failUp' \subseteq Sids
    BY <1>0, <2>1, <2>3 DEF TypeOK, Mark
  <2>6. CASE o = "ok"
    <3>1. pc' = [pc EXCEPT ![h] = "s5c"] /\ UNCHANGED <<stored, cur, old, enb, prev, list, todo, hold>>
      BY <2>1, <2>6 DEF Goto
    <3>2. pc' \in [Handlers -> PCs]
      BY <3>1 DEF TypeOK, PCs, Creating
    <3>3. TypeOK'
      BY <2>2, <2>4, <2>5, <3>1, <3>2 DEF TypeOK
    <3>4. Frames'
      BY <2>2, <2>3, <3>1 DEF TypeOK, Frames, Creating
    <3>. QED  BY <3>3, <3>4 DEF TypeInv
  <2>7. CASE o # "ok"
    <3>1. stored' = stored \ {cur[h]} /\ Return(h)
      BY <2>1, <2>7 DEF DeleteStored
    <3>. QED  BY <1>0, <2>2, <2>4, <2>5, <3>1, Returned DEF TypeInv, TypeOK
  <2>. QED  BY <2>6, <2>7
<1>7. ASSUME NEW h \in Handlers, NoS5CTEID(h) PROVE TypeInv'
  <2>1. fails' \in 0..MaxFail
    BY <1>7, Types, Outcome DEF NoS5CTEID, Outcomes
  <2>2. /\ pc[h] = "s5c" /\ pc' = [pc EXCEPT ![h] = "undoUp"]
        /\ UNCHANGED <<made, stored, ses, up, pgw, cur, old, enb, prev, list, todo, hold,
                   overtaken, failUp, failPgw, unsure>>
    BY <1>7 DEF NoS5CTEID, Goto
  <2>3. pc' \in [Handlers -> PCs]
    BY <2>2 DEF TypeOK, PCs, Creating
  <2>4. Frames'
    BY <2>2 DEF TypeOK, Frames, Creating
  <2>. QED  BY <2>1, <2>2, <2>3, <2>4 DEF TypeInv, TypeOK
<1>8. ASSUME NEW h \in Handlers, CreateAtPgw(h) PROVE TypeInv'
  <2>1. PICK o \in Outcomes :
          /\ CreatedAtPgw(cur[h], o)
          /\ IF o = "ok" THEN /\ ses' = [ses EXCEPT ![cur[h]].pgw = TRUE]
                              /\ \E l \in {"uplink", "bind"} : Goto(h, l)
                         ELSE UNCHANGED ses /\ Goto(h, "undoUp")
    BY <1>8 DEF CreateAtPgw
  <2>2. /\ pc[h] = "s5c"
        /\ UNCHANGED <<made, stored, up, cur, old, enb, prev, list, todo, hold, overtaken, failUp, unsure>>
    BY <1>8 DEF CreateAtPgw
  <2>3. cur[h] \in 1..made
    BY <2>2 DEF Frames, Creating
  <2>4. fails' \in 0..MaxFail
    BY <2>1, Types, Outcome DEF CreatedAtPgw
  <2>5. pgw' \subseteq 1..made /\ failPgw' \subseteq Sids
    BY <1>0, <2>1, <2>3 DEF CreatedAtPgw, Mark, TypeOK
  <2>6. PICK l \in {"uplink", "bind", "undoUp"} : pc' = [pc EXCEPT ![h] = l]
    BY <2>1 DEF Goto
  <2>7. ses' \in [1..made -> Sess]
    BY <2>1, <2>3, SetPgw DEF Kept, TypeOK
  <2>8. pc' \in [Handlers -> PCs]
    BY <2>6 DEF TypeOK, PCs, Creating
  <2>9. Frames'
    BY <2>2, <2>3, <2>6 DEF TypeOK, Frames, Creating
  <2>. QED  BY <2>2, <2>4, <2>5, <2>7, <2>8, <2>9 DEF TypeInv, TypeOK
<1>9. ASSUME NEW h \in Handlers, ModifyUplinkFAR(h) PROVE TypeInv'
  <2>1. PICK o \in Outcomes :
          /\ ModifyAtUp(cur[h], [up[cur[h]] EXCEPT !.ul = "forw"], o)
          /\ pc' = [pc EXCEPT ![h] = AfterUplink(o)]
    BY <1>9 DEF ModifyUplinkFAR, Goto
  <2>2. /\ pc[h] = "uplink"
        /\ UNCHANGED <<made, stored, ses, pgw, cur, old, enb, prev, list, todo, hold,
                       overtaken, failUp, failPgw, unsure>>
    BY <1>9 DEF ModifyUplinkFAR
  <2>3. cur[h] \in 1..made /\ cur[h] \in Sids
    BY <1>0, <2>2 DEF Frames, Creating
  <2>4. [up[cur[h]] EXCEPT !.ul = "forw"] \in Fars
    BY <2>3, FarFields
  <2>5. fails' \in 0..MaxFail /\ up' \in [Sids -> Fars]
    BY <2>1, <2>3, <2>4, UpModified
  <2>6. AfterUplink(o) \in {"bind", "undoPgw"}
    BY DEF AfterUplink
  <2>7. pc' \in [Handlers -> PCs]
    BY <2>1, <2>6 DEF TypeOK, PCs, Creating
  <2>8. Frames'
    BY <2>1, <2>2, <2>3, <2>6 DEF TypeOK, Frames, Creating
  <2>. QED  BY <2>2, <2>5, <2>7, <2>8 DEF TypeInv, TypeOK
<1>10. ASSUME NEW h \in Handlers, UndoPgw(h) PROVE TypeInv'
  <2>1. cur[h] \in 1..made /\ DeleteAtPgw(cur[h])
    BY <1>10 DEF UndoPgw, Frames, Creating
  <2>2. fails' \in 0..MaxFail /\ failPgw' \subseteq Sids /\ pgw' \subseteq pgw
    BY <2>1, PgwLeg
  <2>3. /\ pc' = [pc EXCEPT ![h] = "undoUp"]
        /\ UNCHANGED <<made, stored, ses, up, cur, old, enb, prev, list, todo, hold, overtaken, failUp, unsure>>
    BY <1>10 DEF UndoPgw, Goto
  <2>4. pc' \in [Handlers -> PCs]
    BY <2>3 DEF TypeOK, PCs, Creating
  <2>5. Frames'
    BY <2>1, <2>3 DEF TypeOK, Frames, Creating
  <2>. QED  BY <1>0, <2>2, <2>3, <2>4, <2>5 DEF TypeInv, TypeOK
<1>11. ASSUME NEW h \in Handlers, UndoUp(h) PROVE TypeInv'
  <2>1. cur[h] \in 1..made /\ DeleteAtUp(cur[h])
    BY <1>11 DEF UndoUp, Frames, Creating
  <2>2. fails' \in 0..MaxFail /\ failUp' \subseteq Sids /\ up' \in [Sids -> Fars]
    BY <2>1, UpLeg
  <2>3. Return(h) /\ stored' = stored \ {cur[h]} /\ UNCHANGED <<made, ses, pgw, overtaken, failPgw, unsure>>
    BY <1>11 DEF UndoUp, DeleteStored
  <2>. QED  BY <1>0, <2>2, <2>3, Returned DEF TypeInv, TypeOK
<1>12. ASSUME NEW h \in Handlers, Bind(h) PROVE TypeInv'
  <2>1. cur[h] \in 1..made
    BY <1>12 DEF Bind, Frames, Creating
  <2>2. Transition(ses[cur[h]].st, "Active") \in States
    BY <2>1, SesFields DEF Transition, States
  <2>3. ses' = [ses EXCEPT ![cur[h]].bound = TRUE, ![cur[h]].st = Transition(ses[cur[h]].st, "Active")]
    BY <1>12, <2>1 DEF Bind, TypeOK
  <2>4. ses' \in [1..made -> Sess]
    BY <2>1, <2>2, <2>3, SetBound DEF Kept
  <2>5. Return(h) /\ UNCHANGED <<made, stored, up, pgw, hist>>
    BY <1>12 DEF Bind
  <2>. QED  BY <1>0, <2>4, <2>5, Returned DEF TypeInv, TypeOK, hist
<1>13. ASSUME NEW h \in Handlers, NEW E \in SUBSET EBIs, NEW n \in ENBs, ModifyBearer(h, E, n) PROVE TypeInv'
  <2>1. stored # {}
    BY <1>13 DEF ModifyBearer, MmeKnows
  <2>2. Max(stored) \in 0..made
    <3>1. stored \in SUBSET (1..made)
      BY <1>0
    <3>2. Max(stored) \in stored
      BY <1>0, <2>1, <3>1, MaxIn
    <3>3. Max(stored) \in 1..made
      BY <3>1, <3>2
    <3>4. 1..made \subseteq 0..made
      BY <1>0
    <3>. QED  BY <3>3, <3>4
  <2>3. /\ pc' = [pc EXCEPT ![h] = "mb"] /\ hold' = [hold EXCEPT ![h] = Max(stored)]
        /\ list' = [list EXCEPT ![h] = E] /\ todo' = [todo EXCEPT ![h] = E] /\ enb' = [enb EXCEPT ![h] = n]
        /\ UNCHANGED <<made, stored, ses, up, pgw, cur, old, prev, hist>>
    BY <1>13 DEF ModifyBearer, Goto
  <2>4. /\ pc' \in [Handlers -> PCs] /\ hold' \in [Handlers -> 0..made]
        /\ list' \in [Handlers -> SUBSET (EBIs \cup Sids)] /\ todo' \in [Handlers -> SUBSET (EBIs \cup Sids)]
        /\ enb' \in [Handlers -> ENBs \cup {NoENB}]
    BY <2>2, <2>3 DEF TypeOK, PCs
  <2>5. Frames'
    BY <2>3 DEF TypeOK, Frames, Creating
  <2>. QED  BY <2>3, <2>4, <2>5 DEF TypeInv, TypeOK, hist
<1>14. ASSUME NEW h \in Handlers, ModifyContext(h) PROVE TypeInv'
  <2>. DEFINE e == Min(todo[h])
              s == OwnerOf(e)
  <2>1. /\ pc[h] = "mb" /\ todo[h] # {}
        /\ IF s = NoSid \/ (s # NoSid /\ ~ses[s].bound)
           THEN /\ todo' = [todo EXCEPT ![h] = @ \ {e}]
                /\ UNCHANGED <<ses, pc, cur, prev>>
           ELSE /\ prev' = [prev EXCEPT ![h] = ses[s].enb]
                /\ ses' = [ses EXCEPT ![s].enb = enb[h]]
                /\ cur' = [cur EXCEPT ![h] = s]
                /\ pc' = [pc EXCEPT ![h] = "mbSent"]
                /\ UNCHANGED todo
        /\ UNCHANGED <<made, stored, up, pgw, old, enb, list, hold, hist>>
    BY <1>14 DEF ModifyContext, Goto
  <2>2. s # NoSid => s \in 1..made
    BY Owner
  <2>. HIDE DEF s, e
  <2>3. CASE UNCHANGED <<ses, pc, cur, prev>> /\ todo' = [todo EXCEPT ![h] = @ \ {e}]
    <3>1. Frames'
      BY <2>1, <2>3 DEF TypeOK, Frames
    <3>. QED  BY <2>1, <2>3, <3>1 DEF TypeInv, TypeOK, hist
  <2>4. CASE /\ s # NoSid /\ prev' = [prev EXCEPT ![h] = ses[s].enb]
             /\ ses' = [ses EXCEPT ![s].enb = enb[h]]
             /\ cur' = [cur EXCEPT ![h] = s] /\ pc' = [pc EXCEPT ![h] = "mbSent"] /\ UNCHANGED todo
    <3>1. s \in 1..made /\ s \in 0..made /\ enb[h] \in ENBs \cup {NoENB} /\ ses[s].enb \in ENBs \cup {NoENB}
      BY <1>0, <2>2, <2>4, SesFields DEF TypeOK
    <3>2. ses' \in [1..made -> Sess]
      BY <2>4, <3>1, SetEnb DEF Kept
    <3>3. /\ prev' \in [Handlers -> ENBs \cup {NoENB}] /\ cur' \in [Handlers -> 0..made]
          /\ pc' \in [Handlers -> PCs]
      BY <2>4, <3>1 DEF TypeOK, PCs
    <3>4. Frames'
      BY <2>1, <2>4, <3>1 DEF TypeOK, Frames, Creating
    <3>. QED  BY <2>1, <2>4, <3>2, <3>3, <3>4 DEF TypeInv, TypeOK, hist
  <2>. QED  BY <2>1, <2>3, <2>4
<1>15. ASSUME NEW h \in Handlers, ModifyAnswer(h) PROVE TypeInv'
  <2>1. PICK o \in Outcomes :
          /\ ModifyAtUp(cur[h], [up[cur[h]] EXCEPT !.dl = enb[h]], o)
          /\ ses' = Restore(h, o)
          /\ unsure' = CASE o = "ok" -> unsure \ {cur[h]} [] o = "no" -> unsure [] OTHER -> unsure \cup {cur[h]}
    BY <1>15 DEF ModifyAnswer
  <2>2. /\ pc[h] = "mbSent" /\ pc' = [pc EXCEPT ![h] = "mb"]
        /\ todo' = [todo EXCEPT ![h] = @ \ {ses[cur[h]].ebi}]
        /\ cur' = [cur EXCEPT ![h] = NoSid] /\ prev' = [prev EXCEPT ![h] = NoENB]
        /\ UNCHANGED <<made, stored, pgw, old, enb, list, hold, overtaken, failUp, failPgw>>
    BY <1>15 DEF ModifyAnswer, Goto
  <2>3. /\ cur[h] \in 1..made /\ cur[h] \in Sids
        /\ enb[h] \in ENBs \cup {NoENB} /\ prev[h] \in ENBs \cup {NoENB}
    BY <1>0, <2>2 DEF Frames, TypeOK
  <2>4. fails' \in 0..MaxFail /\ up' \in [Sids -> Fars]
    BY <2>1, <2>3, FarFields, UpModified
  <2>5. ses' \in [1..made -> Sess]
    BY <2>1, <2>3, SetEnb DEF Kept, Restore, TypeOK
  <2>6. unsure' \subseteq Sids
    BY <2>1, <2>3 DEF TypeOK, Outcomes
  <2>7. /\ pc' \in [Handlers -> PCs] /\ cur' \in [Handlers -> 0..made]
        /\ prev' \in [Handlers -> ENBs \cup {NoENB}] /\ todo' \in [Handlers -> SUBSET (EBIs \cup Sids)]
    BY <1>0, <2>2 DEF TypeOK, PCs, NoSid
  <2>8. Frames'
    BY <2>2 DEF TypeOK, Frames, Creating
  <2>. QED  BY <2>2, <2>4, <2>5, <2>6, <2>7, <2>8 DEF TypeInv, TypeOK
<1>16. ASSUME NEW h \in Handlers, ModifyReturn(h) PROVE TypeInv'
  BY <1>16, Returned DEF ModifyReturn, TypeInv, TypeOK, hist
<1>17. ASSUME NEW h \in Handlers, ReleaseAccess(h) PROVE TypeInv'
  <2>1. stored # {}
    BY <1>17 DEF ReleaseAccess, MmeKnows
  <2>2. Max(stored) \in 0..made
    <3>1. stored \in SUBSET (1..made)
      BY <1>0
    <3>2. Max(stored) \in stored
      BY <1>0, <2>1, <3>1, MaxIn
    <3>3. Max(stored) \in 1..made
      BY <3>1, <3>2
    <3>4. 1..made \subseteq 0..made
      BY <1>0
    <3>. QED  BY <3>3, <3>4
  <2>3. /\ pc' = [pc EXCEPT ![h] = "rab"] /\ hold' = [hold EXCEPT ![h] = Max(stored)]
        /\ list' = [list EXCEPT ![h] = stored] /\ todo' = [todo EXCEPT ![h] = stored]
        /\ UNCHANGED <<made, stored, ses, up, pgw, cur, old, enb, prev, hist>>
    BY <1>17 DEF ReleaseAccess, Goto
  <2>4. /\ pc' \in [Handlers -> PCs] /\ hold' \in [Handlers -> 0..made]
        /\ list' \in [Handlers -> SUBSET (EBIs \cup Sids)] /\ todo' \in [Handlers -> SUBSET (EBIs \cup Sids)]
    BY <1>0, <2>2, <2>3 DEF TypeOK, PCs
  <2>5. Frames'
    BY <1>0, <2>3 DEF TypeOK, Frames, Creating
  <2>. QED  BY <2>3, <2>4, <2>5 DEF TypeInv, TypeOK, hist
<1>18. ASSUME NEW h \in Handlers, ReleaseSession(h) PROVE TypeInv'
  <2>1. PICK s \in 1..made : s = Min(todo[h])
    <3>1. todo[h] \in SUBSET Nat /\ todo[h] # {} /\ todo[h] \subseteq 1..made
      BY <1>0, <1>18 DEF ReleaseSession, Frames
    <3>. QED  BY <3>1, MinIn
  <2>2. pc[h] = "rab" /\ UNCHANGED <<made, stored, ses, pgw, overtaken, failUp, failPgw>>
    BY <1>18 DEF ReleaseSession
  <2>3. CASE todo' = [todo EXCEPT ![h] = @ \ {s}] /\ UNCHANGED <<up, fails, unsure, pc, cur, old, enb, prev, list, hold>>
    <3>1. Frames'
      BY <2>2, <2>3 DEF TypeOK, Frames
    <3>. QED  BY <2>2, <2>3, <3>1 DEF TypeInv, TypeOK
  <2>4. ASSUME NEW o \in Outcomes, ModifyAtUp(s, [up[s] EXCEPT !.dl = NoENB], o),
               IF o = "ok"
               THEN /\ todo' = [todo EXCEPT ![h] = @ \ {s}]
                    /\ UNCHANGED <<unsure, pc, cur, old, enb, prev, list, hold>>
               ELSE /\ unsure' = unsure \cup (list[h] \ todo[h]) \cup (IF o = "lost" THEN {s} ELSE {})
                    /\ Return(h)
        PROVE  TypeInv'
    <3>1. s \in Sids
      BY <1>0
    <3>2. fails' \in 0..MaxFail /\ up' \in [Sids -> Fars]
      BY <2>4, <3>1, FarFields, UpModified
    <3>3. CASE o = "ok"
      <4>0. todo' = [todo EXCEPT ![h] = @ \ {s}] /\ UNCHANGED <<unsure, pc, cur, old, enb, prev, list, hold>>
        BY <2>4, <3>3
      <4>1. Frames'
        BY <2>2, <4>0 DEF TypeOK, Frames
      <4>2. todo' \in [Handlers -> SUBSET (EBIs \cup Sids)]
        BY <4>0 DEF TypeOK
      <4>. QED  BY <2>2, <3>2, <4>0, <4>1, <4>2 DEF TypeInv, TypeOK
    <3>4. CASE o # "ok"
      <4>1. unsure' \subseteq Sids
        BY <1>0, <2>2, <2>4, <3>1, <3>4 DEF TypeOK, Frames
      <4>2. Return(h)
        BY <2>4, <3>4
      <4>. QED  BY <1>0, <2>2, <3>2, <4>1, <4>2, Returned DEF TypeInv, TypeOK
    <3>. QED  BY <3>3, <3>4
  <2>. QED  BY <1>18, <2>1, <2>3, <2>4 DEF ReleaseSession
<1>19. ASSUME NEW h \in Handlers, ReleaseReturn(h) PROVE TypeInv'
  <2>1. ses' \in [1..made -> Sess]
    <3>1. DOMAIN ses = 1..made /\ \A s \in 1..made : ses[s] \in Sess
      BY DEF TypeOK
    <3>2. \A x \in Sess : [x EXCEPT !.enb = NoENB] \in Sess
      BY DEF Sess
    <3>. QED  BY <1>19, <3>1, <3>2 DEF ReleaseReturn
  <2>. QED  BY <1>0, <1>19, <2>1, Returned DEF ReleaseReturn, TypeInv, TypeOK
<1>20. ASSUME NEW h \in Handlers, NEW e \in EBIs, DeleteSession(h, e) PROVE TypeInv'
  <2>. DEFINE s == OwnerOf(e)
  <2>1. s \in 1..made
    BY <1>20, Owner DEF DeleteSession
  <2>2. /\ overtaken' = IF InCreation(s) THEN overtaken \cup {s} ELSE overtaken
        /\ ses' = [ses EXCEPT ![s].st = Transition(@, "Deleting")]
        /\ hold' = [hold EXCEPT ![h] = s] /\ cur' = [cur EXCEPT ![h] = s]
        /\ \E l \in {"dsPgw", "dsUp"} : pc' = [pc EXCEPT ![h] = l]
        /\ UNCHANGED <<made, stored, up, pgw, old, enb, prev, list, todo, fails, failUp, failPgw, unsure>>
    BY <1>20 DEF DeleteSession, Goto
  <2>. HIDE DEF s
  <2>3. Transition(ses[s].st, "Deleting") \in States
    BY <2>1, SesFields DEF Transition, States
  <2>4. ses' = [ses EXCEPT ![s].st = Transition(ses[s].st, "Deleting")]
    BY <2>1, <2>2 DEF TypeOK
  <2>5. ses' \in [1..made -> Sess]
    BY <2>1, <2>3, <2>4, SetState DEF Kept
  <2>6. s \in Sids /\ s \in 0..made
    BY <1>0, <2>1
  <2>7. /\ pc' \in [Handlers -> PCs] /\ cur' \in [Handlers -> 0..made] /\ hold' \in [Handlers -> 0..made]
        /\ overtaken' \subseteq Sids
    BY <2>2, <2>6 DEF TypeOK, PCs
  <2>8. Frames'
    BY <2>1, <2>2 DEF TypeOK, Frames, Creating
  <2>. QED  BY <2>2, <2>5, <2>7, <2>8 DEF TypeInv, TypeOK
<1>21. ASSUME NEW h \in Handlers, DeletePgw(h) PROVE TypeInv'
  <2>1. /\ pc[h] = "dsPgw" /\ pgw' \subseteq pgw
        /\ UNCHANGED <<made, stored, ses, up, overtaken, failUp, failPgw, unsure>>
        /\ \/ pc' = [pc EXCEPT ![h] = "dsUp"] /\ UNCHANGED <<cur, old, enb, prev, list, todo, hold>>
           \/ Return(h)
    BY <1>21 DEF DeletePgw, Goto
  <2>2. fails' \in 0..MaxFail
    BY <1>21, Types, Outcome DEF DeletePgw
  <2>3. CASE Return(h)
    BY <1>0, <2>1, <2>2, <2>3, Returned DEF TypeInv, TypeOK
  <2>4. CASE pc' = [pc EXCEPT ![h] = "dsUp"] /\ UNCHANGED <<cur, old, enb, prev, list, todo, hold>>
    <3>1. pc' \in [Handlers -> PCs] /\ Frames'
      BY <2>1, <2>4 DEF TypeOK, Frames, PCs, Creating
    <3>. QED  BY <1>0, <2>1, <2>2, <2>4, <3>1 DEF TypeInv, TypeOK
  <2>. QED  BY <2>1, <2>3, <2>4
<1>22. ASSUME NEW h \in Handlers, DeleteUp(h) PROVE TypeInv'
  <2>1. cur[h] \in 1..made /\ Return(h) /\ stored' = stored \ {cur[h]}
        /\ UNCHANGED <<made, ses, pgw, overtaken, failPgw, unsure>>
    BY <1>22 DEF DeleteUp, Frames, DeleteStored
  <2>2. fails' \in 0..MaxFail /\ failUp' \subseteq Sids /\ up' \in [Sids -> Fars]
    <3>1. CASE DeleteAtUp(cur[h])
      BY <2>1, <3>1, UpLeg
    <3>2. CASE UNCHANGED <<up, fails, failUp>>
      BY <1>0, <3>2 DEF TypeOK
    <3>. QED  BY <1>22, <3>1, <3>2 DEF DeleteUp
  <2>. QED  BY <1>0, <2>1, <2>2, Returned DEF TypeInv, TypeOK
<1>23. ASSUME NEW h \in Handlers, Step(h) PROVE TypeInv'
  BY <1>23, <1>3, <1>4, <1>5, <1>6, <1>7, <1>8, <1>9, <1>10, <1>11, <1>12, <1>14, <1>15, <1>16,
     <1>18, <1>19, <1>21, <1>22 DEF Step
<1>24. ASSUME NEW h \in Handlers, Requests(h) PROVE TypeInv'
  BY <1>24, <1>2, <1>13, <1>17, <1>20 DEF Requests
<1>. QED  BY <1>1, <1>23, <1>24 DEF Next

\* TypeOK always holds: sessions, legs and the locals of the S11 handlers keep to
\* their types, for any number of handlers, bearers and sessions.
THEOREM TypeCorrect == Spec => []TypeOK
<1>1. Init => TypeInv
  BY TypeInit
<1>2. TypeInv /\ [Next]_vars => TypeInv'
  BY TypeStep
<1>3. TypeInv => TypeOK
  BY DEF TypeInv
<1>. QED  BY <1>1, <1>2, <1>3, PTL DEF Spec

-----------------------------------------------------------------------------
(* The effects of the steps.                                               *)

\* Where a handler is that neither creates nor deletes a session.
Quiet   == {"idle", "mb", "mbSent", "rab"}
\* The steps of Create Session before the PFCP session is established.
Before  == {"evictPgw", "evictUp", "establish"}

\* A step takes handler h to l, with session s, having evicted o; no other handler
\* moves.
Turns(h, l, s, o) ==
    /\ pc'[h] = l /\ cur'[h] = s /\ old'[h] = o
    /\ \A g \in Handlers : g # h => pc'[g] = pc[g] /\ cur'[g] = cur[g] /\ old'[g] = old[g]

\* The PGW leg of session s is given up.
PgwCut(s) ==
    /\ pgw' \subseteq pgw /\ pgw \ {s} \subseteq pgw' /\ failPgw \subseteq failPgw'
    /\ s \notin pgw' \/ s \in failPgw'

\* The SGW-U leg of session s is given up.
UpCut(s) ==
    /\ failUp \subseteq failUp' /\ \A t \in Sids : t # s => up'[t] = up[t]
    /\ up'[s] \in {up[s], NoUp}
    /\ up'[s] = NoUp \/ s \in failUp'

\* Which session Create Session evicts, and where it goes on.
Evicts(e, l, o) ==
    \/ l = "evictPgw" /\ o \in stored /\ ses[o].ebi = e
    \/ l = "evictUp" /\ o \in stored /\ ses[o].ebi = e /\ ~ses[o].pgw
    \/ /\ l = "establish" /\ o = NoSid
       /\ \/ \A x \in stored : ses[x].ebi # e
          \/ \E x \in stored : ses[x].ebi = e /\ ~ses[x].bound

\* What CreateSession does to the sessions and their legs.
CreateFx(h, e, l, o) ==
    /\ pc[h] = "idle" /\ Turns(h, l, made + 1, o) /\ Evicts(e, l, o)
    /\ made' = made + 1 /\ made + 1 \in Sids
    /\ stored' = {x \in stored : ses[x].ebi # e} \cup {made + 1}
    /\ overtaken' = overtaken \cup {x \in stored : ses[x].ebi = e /\ InCreation(x)}
    /\ \A t \in 1..made : ses'[t] = ses[t]
    /\ ses'[made + 1].ebi = e /\ ses'[made + 1].st = "Pending" /\ ses'[made + 1].pgw = FALSE
    /\ ses'[made + 1].bound = FALSE /\ ses'[made + 1].enb = NoENB
    /\ UNCHANGED <<up, pgw, failUp, failPgw>>

\* What EvictPgw does.
EvictPgwFx(h) ==
    /\ pc[h] = "evictPgw" /\ old[h] \in 1..made /\ PgwCut(old[h])
    /\ \/ Turns(h, "evictUp", cur[h], old[h]) /\ ses[old[h]].bound
       \/ Turns(h, "establish", cur[h], NoSid) /\ ~ses[old[h]].bound
    /\ UNCHANGED <<made, stored, ses, up, overtaken, failUp>>

\* What EvictUp does.
EvictUpFx(h) ==
    /\ pc[h] = "evictUp" /\ old[h] \in 1..made /\ UpCut(old[h]) /\ Turns(h, "establish", cur[h], NoSid)
    /\ UNCHANGED <<made, stored, ses, pgw, overtaken, failPgw>>

\* What the three ways to give up a creation do: NoPgw, a failed Establish, UndoUp.
QuitFx(h) ==
    /\ pc[h] \in {"establish", "undoUp"} /\ Turns(h, "idle", NoSid, NoSid)
    /\ stored' = stored \ {cur[h]}
    /\ failUp \subseteq failUp' /\ \A t \in Sids : t # cur[h] => up'[t] = up[t]
    /\ \/ up'[cur[h]] = NoUp \/ cur[h] \in failUp'
       \/ pc[h] = "establish" /\ up'[cur[h]] = up[cur[h]]
    /\ up'[cur[h]] \in {up[cur[h]], NoUp, Provisional}
    /\ UNCHANGED <<made, ses, pgw, overtaken, failPgw>>

\* What an Establish that succeeds does.
EstablishFx(h) ==
    /\ pc[h] = "establish" /\ Turns(h, "s5c", cur[h], old[h])
    /\ up'[cur[h]] = Provisional /\ \A t \in Sids : t # cur[h] => up'[t] = up[t]
    /\ UNCHANGED <<made, stored, ses, pgw, overtaken, failUp, failPgw>>

\* What NoS5CTEID and a failed CreateAtPgw do.
NotAtPgwFx(h) ==
    /\ pc[h] = "s5c" /\ Turns(h, "undoUp", cur[h], old[h])
    /\ pgw \subseteq pgw' /\ pgw' \subseteq pgw \cup {cur[h]} /\ failPgw \subseteq failPgw'
    /\ cur[h] \in pgw' => cur[h] \in pgw \/ cur[h] \in failPgw'
    /\ UNCHANGED <<made, stored, ses, up, overtaken, failUp>>

\* What a CreateAtPgw that succeeds does.
AtPgwFx(h) ==
    /\ pc[h] = "s5c" /\ \E l \in {"uplink", "bind"} : Turns(h, l, cur[h], old[h])
    /\ pgw' = pgw \cup {cur[h]}
    /\ Kept(cur[h]) /\ Fields(cur[h], ses[cur[h]].st, TRUE, ses[cur[h]].bound, ses[cur[h]].enb)
    /\ UNCHANGED <<made, stored, up, overtaken, failUp, failPgw>>

\* What ModifyUplinkFAR does.
UplinkFx(h) ==
    /\ pc[h] = "uplink" /\ \E l \in {"bind", "undoPgw"} : Turns(h, l, cur[h], old[h])
    /\ \A t \in Sids : t # cur[h] => up'[t] = up[t]
    /\ up'[cur[h]].dl = up[cur[h]].dl /\ (up'[cur[h]] = up[cur[h]] \/ up'[cur[h]].ul = "forw")
    /\ up[cur[h]] = NoUp => up'[cur[h]] = NoUp
    /\ UNCHANGED <<made, stored, ses, pgw, overtaken, failUp, failPgw>>

\* What UndoPgw does.
UndoPgwFx(h) ==
    /\ pc[h] = "undoPgw" /\ PgwCut(cur[h]) /\ Turns(h, "undoUp", cur[h], old[h])
    /\ UNCHANGED <<made, stored, ses, up, overtaken, failUp>>

\* What Bind does.
BindFx(h) ==
    /\ pc[h] = "bind" /\ Turns(h, "idle", NoSid, NoSid)
    /\ Kept(cur[h])
    /\ Fields(cur[h], Transition(ses[cur[h]].st, "Active"), ses[cur[h]].pgw, TRUE, ses[cur[h]].enb)
    /\ UNCHANGED <<made, stored, up, pgw, overtaken, failUp, failPgw>>

\* What DeleteSession does.
DeleteFx(h, s) ==
    /\ pc[h] = "idle" /\ s \in stored
    /\ \/ Turns(h, "dsPgw", s, old[h])
       \/ Turns(h, "dsUp", s, old[h]) /\ ~ses[s].pgw
    /\ Kept(s) /\ Fields(s, "Deleting", ses[s].pgw, ses[s].bound, ses[s].enb)
    /\ overtaken' = (IF InCreation(s) THEN overtaken \cup {s} ELSE overtaken)
    /\ UNCHANGED <<made, stored, up, pgw, failUp, failPgw>>

\* What DeletePgw does.
DeletePgwFx(h) ==
    /\ pc[h] = "dsPgw" /\ pgw' \subseteq pgw /\ pgw \ {cur[h]} \subseteq pgw'
    /\ \/ Turns(h, "dsUp", cur[h], old[h]) /\ cur[h] \notin pgw'
       \/ Turns(h, "idle", NoSid, NoSid)
    /\ UNCHANGED <<made, stored, ses, up, overtaken, failUp, failPgw>>

\* What DeleteUp does.
DeleteUpFx(h) ==
    /\ pc[h] = "dsUp" /\ Turns(h, "idle", NoSid, NoSid) /\ stored' = stored \ {cur[h]}
    /\ \/ UpCut(cur[h])
       \/ UNCHANGED <<up, failUp>> /\ (~ses[cur[h]].bound \/ up[cur[h]] = NoUp)
    /\ UNCHANGED <<made, ses, pgw, overtaken, failPgw>>

\* What the steps of Modify Bearer and Release Access Bearers do: no leg comes or
\* goes.
CalmFx(h, l, s) ==
    /\ pc[h] \in Quiet /\ l \in Quiet /\ \E o \in {old[h], NoSid} : Turns(h, l, s, o)
    /\ l = "mbSent" => s \in 1..made /\ ses[s].bound
    /\ \A t \in 1..made : /\ ses'[t].ebi = ses[t].ebi /\ ses'[t].st = ses[t].st
                          /\ ses'[t].pgw = ses[t].pgw /\ ses'[t].bound = ses[t].bound
    /\ \A t \in Sids : up'[t].ul = up[t].ul /\ (up'[t] = up[t] \/ up[t] # NoUp)
    /\ UNCHANGED <<made, stored, pgw, overtaken, failUp, failPgw>>

\* The effects a step can have on the sessions and their legs.
Effect(h) ==
    \/ \E e \in EBIs, l \in Before, o \in 0..made : CreateFx(h, e, l, o)
    \/ EvictPgwFx(h) \/ EvictUpFx(h) \/ QuitFx(h) \/ EstablishFx(h) \/ NotAtPgwFx(h)
    \/ AtPgwFx(h) \/ UplinkFx(h) \/ UndoPgwFx(h) \/ BindFx(h)
    \/ \E s \in stored : DeleteFx(h, s)
    \/ DeletePgwFx(h) \/ DeleteUpFx(h)
    \/ \E l \in Quiet, s \in 0..made : CalmFx(h, l, s)

\* Return as a turn.
LEMMA ReturnTurns ==
    ASSUME TypeInv, NEW h \in Handlers, Return(h)
    PROVE  Turns(h, "idle", NoSid, NoSid)
BY DEF TypeInv, TypeOK, Return, Goto, Turns

\* A step to another label as a turn.
LEMMA GotoTurns ==
    ASSUME TypeInv, NEW h \in Handlers, NEW l, pc' = [pc EXCEPT ![h] = l], cur' = cur, old' = old
    PROVE  Turns(h, l, cur[h], old[h])
BY DEF TypeInv, TypeOK, Turns

\* Every step has one of these effects.
LEMMA Effects ==
    ASSUME TypeInv, NEW h \in Handlers, Step(h) \/ Requests(h)
    PROVE  Effect(h)
<1>. TypeOK /\ Frames
  BY DEF TypeInv
<1>0. /\ made \in Nat /\ MaxSess \in Nat /\ made <= MaxSess
      /\ stored \subseteq 1..made /\ pgw \subseteq 1..made /\ 1..made \subseteq Sids
      /\ NoSid \in 0..made /\ 1..made \subseteq 0..made
  BY Types DEF NoSid
<1>1. ASSUME NEW e \in EBIs, CreateSession(h, e) PROVE Effect(h)
  <2>. DEFINE E == {x \in stored : ses[x].ebi = e}
              o == IF E = {} THEN NoSid ELSE Max(E)
              n == [ebi |-> e, st |-> "Pending", pgw |-> FALSE, bound |-> FALSE, enb |-> NoENB]
              p == IF AfterCreate(o) = "establish" THEN NoSid ELSE o
  <2>1. /\ pc[h] = "idle" /\ made < MaxSess /\ made' = made + 1
        /\ ses' = [x \in 1..(made + 1) |-> IF x = made + 1 THEN n ELSE ses[x]]
        /\ stored' = (stored \ E) \cup {made + 1}
        /\ overtaken' = overtaken \cup {x \in E : InCreation(x)}
        /\ pc' = [pc EXCEPT ![h] = AfterCreate(o)]
        /\ cur' = [cur EXCEPT ![h] = made + 1]
        /\ old' = [old EXCEPT ![h] = IF pc'[h] = "establish" THEN NoSid ELSE o]
        /\ UNCHANGED <<up, pgw, failUp, failPgw>>
    BY <1>1 DEF CreateSession, Goto
  <2>2. E \in SUBSET (1..made)
    BY <1>0
  <2>3. (E = {} /\ o = NoSid) \/ (o \in E)
    BY <1>0, <2>2, MaxIn
  <2>4. AfterCreate(o) \in Before
    BY DEF AfterCreate, Before
  <2>5. p \in 0..made
    BY <1>0, <2>2, <2>3
  <2>6. Evicts(e, AfterCreate(o), p)
    <3>1. CASE o = NoSid
      <4>1. AfterCreate(o) = "establish"
        BY <3>1 DEF AfterCreate
      <4>2. \A x \in stored : ses[x].ebi # e
        BY <1>0, <2>2, <2>3, <3>1 DEF NoSid
      <4>. QED  BY <4>1, <4>2 DEF Evicts
    <3>2. CASE o # NoSid
      <4>1. o \in stored /\ ses[o].ebi = e
        BY <2>3, <3>2
      <4>2. ses[o].pgw \in BOOLEAN /\ ses[o].bound \in BOOLEAN
        BY <1>0, <4>1, SesFields
      <4>. HIDE DEF o, E
      <4>3. CASE ses[o].pgw
        BY <3>2, <4>1, <4>3 DEF Evicts, AfterCreate
      <4>4. CASE ~ses[o].pgw /\ ses[o].bound
        BY <3>2, <4>1, <4>4 DEF Evicts, AfterCreate
      <4>5. CASE ~ses[o].pgw /\ ~ses[o].bound
        BY <3>2, <4>1, <4>5 DEF Evicts, AfterCreate
      <4>. QED  BY <4>2, <4>3, <4>4, <4>5
    <3>. QED  BY <3>1, <3>2
  <2>7. /\ stored' = {x \in stored : ses[x].ebi # e} \cup {made + 1}
        /\ overtaken' = overtaken \cup {x \in stored : ses[x].ebi = e /\ InCreation(x)}
    BY <2>1
  <2>. HIDE DEF E, o
  <2>8. Turns(h, AfterCreate(o), made + 1, p)
    BY <2>1 DEF TypeOK, Turns
  <2>9. \A t \in 1..made : t \in 1..(made + 1) /\ t # made + 1
    BY <1>0
  <2>10. made + 1 \in 1..(made + 1)
    BY <1>0
  <2>11. (\A t \in 1..made : ses'[t] = ses[t]) /\ ses'[made + 1] = n
    BY <2>1, <2>9, <2>10
  <2>12. n.ebi = e /\ n.st = "Pending" /\ n.pgw = FALSE /\ n.bound = FALSE /\ n.enb = NoENB
    OBVIOUS
  <2>. HIDE DEF n, p
  <2>13. made + 1 \in Sids
    BY <1>0, <2>1 DEF Sids
  <2>14. CreateFx(h, e, AfterCreate(o), p)
    BY <2>1, <2>6, <2>7, <2>8, <2>11, <2>12, <2>13 DEF CreateFx
  <2>. QED  BY <2>4, <2>5, <2>14 DEF Effect
<1>2. CASE EvictPgw(h)
  <2>1. old[h] \in 1..made /\ DeleteAtPgw(old[h])
    BY <1>2 DEF EvictPgw, Frames
  <2>2. PgwCut(old[h])
    BY <2>1, PgwLeg DEF PgwCut
  <2>3. /\ pc[h] = "evictPgw" /\ pc' = [pc EXCEPT ![h] = AfterEvictPgw(old[h])]
        /\ old' = IF pc'[h] = "evictUp" THEN old ELSE [old EXCEPT ![h] = NoSid]
    BY <1>2 DEF EvictPgw, Goto
  <2>4. UNCHANGED <<made, stored, ses, up, cur, overtaken, failUp>>
    BY <1>2 DEF EvictPgw
  <2>5. ses[old[h]].bound \in BOOLEAN
    BY <2>1, SesFields
  <2>6. \/ Turns(h, "evictUp", cur[h], old[h]) /\ ses[old[h]].bound
        \/ Turns(h, "establish", cur[h], NoSid) /\ ~ses[old[h]].bound
    BY <2>3, <2>4, <2>5 DEF Turns, TypeOK, AfterEvictPgw
  <2>. QED  BY <2>1, <2>2, <2>3, <2>4, <2>6 DEF EvictPgwFx, Effect
<1>3. CASE EvictUp(h)
  <2>1. old[h] \in 1..made /\ DeleteAtUp(old[h])
    BY <1>3 DEF EvictUp, Frames
  <2>2. UpCut(old[h])
    BY <2>1, UpLeg DEF UpCut
  <2>3. /\ pc[h] = "evictUp" /\ pc' = [pc EXCEPT ![h] = "establish"] /\ old' = [old EXCEPT ![h] = NoSid]
        /\ UNCHANGED <<made, stored, ses, pgw, cur, overtaken, failPgw>>
    BY <1>3 DEF EvictUp, Goto
  <2>4. Turns(h, "establish", cur[h], NoSid)
    BY <2>3 DEF Turns, TypeOK
  <2>. QED  BY <2>1, <2>2, <2>3, <2>4 DEF EvictUpFx, Effect
<1>4. CASE NoPgw(h)
  <2>1. Turns(h, "idle", NoSid, NoSid)
    BY <1>4, ReturnTurns DEF NoPgw
  <2>. QED  BY <1>4, <2>1 DEF NoPgw, DeleteStored, QuitFx, Effect
<1>5. CASE Establish(h)
  <2>1. PICK o \in Outcomes :
          /\ up' = (IF Done(o) THEN [up EXCEPT ![cur[h]] = Provisional] ELSE up)
          /\ failUp' = Mark(failUp, cur[h], o)
          /\ IF o = "ok" THEN /\ Goto(h, "s5c")
                              /\ UNCHANGED <<stored, cur, old, enb, prev, list, todo, hold>>
                         ELSE DeleteStored(cur[h]) /\ Return(h)
    BY <1>5 DEF Establish
  <2>2. pc[h] = "establish" /\ UNCHANGED <<made, ses, pgw, overtaken, failPgw>>
    BY <1>5 DEF Establish
  <2>3. cur[h] \in 1..made /\ cur[h] \in Sids
    BY <1>0, <2>2 DEF Frames, Creating
  <2>4. \A t \in Sids : t # cur[h] => up'[t] = up[t]
    BY <2>1, <2>3 DEF TypeOK
  <2>5. CASE o = "ok"
    <3>1. Turns(h, "s5c", cur[h], old[h])
      BY <2>1, <2>5, GotoTurns DEF Goto
    <3>2. up'[cur[h]] = Provisional
      BY <2>1, <2>3, <2>5 DEF TypeOK, Done
    <3>. QED  BY <2>1, <2>2, <2>4, <2>5, <3>1, <3>2 DEF EstablishFx, Effect, Mark
  <2>6. CASE o # "ok"
    <3>1. Turns(h, "idle", NoSid, NoSid) /\ stored' = stored \ {cur[h]}
      BY <2>1, <2>6, ReturnTurns DEF DeleteStored
    <3>2. failUp' = failUp \cup {cur[h]}
      BY <2>1, <2>6 DEF Mark
    <3>3. up'[cur[h]] \in {up[cur[h]], Provisional}
      BY <2>1, <2>3 DEF TypeOK
    <3>. QED  BY <2>2, <2>4, <3>1, <3>2, <3>3 DEF QuitFx, Effect
  <2>. QED  BY <2>5, <2>6
<1>6. CASE NoS5CTEID(h)
  <2>1. Turns(h, "undoUp", cur[h], old[h])
    BY <1>6, GotoTurns DEF NoS5CTEID, Goto
  <2>. QED  BY <1>6, <2>1 DEF NoS5CTEID, NotAtPgwFx, Effect
<1>7. CASE CreateAtPgw(h)
  <2>1. PICK o \in Outcomes :
          /\ pgw' = (IF Done(o) THEN pgw \cup {cur[h]} ELSE pgw)
          /\ failPgw' = Mark(failPgw, cur[h], o)
          /\ IF o = "ok" THEN /\ ses' = [ses EXCEPT ![cur[h]].pgw = TRUE]
                              /\ \E l \in {"uplink", "bind"} : Goto(h, l)
                         ELSE UNCHANGED ses /\ Goto(h, "undoUp")
    BY <1>7 DEF CreateAtPgw, CreatedAtPgw
  <2>2. pc[h] = "s5c" /\ UNCHANGED <<made, stored, up, cur, old, overtaken, failUp>>
    BY <1>7 DEF CreateAtPgw
  <2>3. cur[h] \in 1..made
    BY <2>2 DEF Frames, Creating
  <2>4. CASE o = "ok"
    <3>1. PICK l \in {"uplink", "bind"} : pc' = [pc EXCEPT ![h] = l]
      BY <2>1, <2>4 DEF Goto
    <3>2. Turns(h, l, cur[h], old[h])
      BY <2>2, <3>1, GotoTurns
    <3>3. Kept(cur[h]) /\ Fields(cur[h], ses[cur[h]].st, TRUE, ses[cur[h]].bound, ses[cur[h]].enb)
      BY <2>1, <2>3, <2>4, SetPgw
    <3>4. pgw' = pgw \cup {cur[h]} /\ failPgw' = failPgw
      BY <2>1, <2>4 DEF Done, Mark
    <3>. QED  BY <2>2, <3>2, <3>3, <3>4 DEF AtPgwFx, Effect
  <2>5. CASE o # "ok"
    <3>1. Turns(h, "undoUp", cur[h], old[h])
      BY <2>1, <2>2, <2>5, GotoTurns DEF Goto
    <3>2. pgw \subseteq pgw' /\ pgw' \subseteq pgw \cup {cur[h]} /\ failPgw' = failPgw \cup {cur[h]}
      BY <2>1, <2>5 DEF Mark
    <3>3. UNCHANGED ses
      BY <2>1, <2>5
    <3>. QED  BY <2>2, <3>1, <3>2, <3>3 DEF NotAtPgwFx, Effect
  <2>. QED  BY <2>4, <2>5
<1>8. CASE ModifyUplinkFAR(h)
  <2>. DEFINE f == [up[cur[h]] EXCEPT !.ul = "forw"]
  <2>1. PICK o \in Outcomes : ModifyAtUp(cur[h], f, o) /\ pc' = [pc EXCEPT ![h] = AfterUplink(o)]
    BY <1>8 DEF ModifyUplinkFAR, Goto
  <2>2. pc[h] = "uplink" /\ UNCHANGED <<made, stored, ses, pgw, cur, old, overtaken, failUp, failPgw>>
    BY <1>8 DEF ModifyUplinkFAR
  <2>3. cur[h] \in 1..made /\ cur[h] \in Sids
    BY <1>0, <2>2 DEF Frames, Creating
  <2>4. f \in Fars /\ f.ul = "forw" /\ f.dl = up[cur[h]].dl
    BY <2>3, FarFields
  <2>. HIDE DEF f
  <2>5. /\ \A t \in Sids : t # cur[h] => up'[t] = up[t]
        /\ up[cur[h]] = NoUp => o = "no"
        /\ up'[cur[h]] = (IF o # "no" THEN f ELSE up[cur[h]])
    BY <2>1, <2>3, <2>4, UpModified
  <2>6. Turns(h, AfterUplink(o), cur[h], old[h]) /\ AfterUplink(o) \in {"bind", "undoPgw"}
    BY <2>1, <2>2, GotoTurns DEF AfterUplink
  <2>7. up'[cur[h]].dl = up[cur[h]].dl /\ (up'[cur[h]] = up[cur[h]] \/ up'[cur[h]].ul = "forw")
    BY <2>4, <2>5
  <2>. QED  BY <2>2, <2>5, <2>6, <2>7 DEF UplinkFx, Effect
<1>9. CASE UndoPgw(h)
  <2>1. cur[h] \in 1..made /\ DeleteAtPgw(cur[h])
    BY <1>9 DEF UndoPgw, Frames, Creating
  <2>2. PgwCut(cur[h])
    BY <2>1, PgwLeg DEF PgwCut
  <2>3. Turns(h, "undoUp", cur[h], old[h])
    BY <1>9, GotoTurns DEF UndoPgw, Goto
  <2>. QED  BY <1>9, <2>2, <2>3 DEF UndoPgw, UndoPgwFx, Effect
<1>10. CASE UndoUp(h)
  <2>1. cur[h] \in 1..made /\ DeleteAtUp(cur[h])
    BY <1>10 DEF UndoUp, Frames, Creating
  <2>2. UpCut(cur[h])
    BY <2>1, UpLeg DEF UpCut
  <2>3. Turns(h, "idle", NoSid, NoSid)
    BY <1>10, ReturnTurns DEF UndoUp
  <2>. QED  BY <1>10, <2>2, <2>3 DEF UndoUp, UpCut, DeleteStored, QuitFx, Effect
<1>11. CASE Bind(h)
  <2>1. cur[h] \in 1..made
    BY <1>11 DEF Bind, Frames, Creating
  <2>2. Transition(ses[cur[h]].st, "Active") \in States
    BY <2>1, SesFields DEF Transition, States
  <2>3. ses' = [ses EXCEPT ![cur[h]].bound = TRUE, ![cur[h]].st = Transition(ses[cur[h]].st, "Active")]
    BY <1>11, <2>1 DEF Bind, TypeOK
  <2>4. /\ Kept(cur[h])
        /\ Fields(cur[h], Transition(ses[cur[h]].st, "Active"), ses[cur[h]].pgw, TRUE, ses[cur[h]].enb)
    BY <2>1, <2>2, <2>3, SetBound
  <2>5. Turns(h, "idle", NoSid, NoSid)
    BY <1>11, ReturnTurns DEF Bind
  <2>. QED  BY <1>11, <2>4, <2>5 DEF Bind, hist, BindFx, Effect
<1>12. ASSUME NEW e \in EBIs, DeleteSession(h, e) PROVE Effect(h)
  <2>. DEFINE s == OwnerOf(e)
  <2>1. s \in 1..made /\ s \in stored
    BY <1>12, Owner DEF DeleteSession
  <2>2. /\ pc[h] = "idle"
        /\ overtaken' = (IF InCreation(s) THEN overtaken \cup {s} ELSE overtaken)
        /\ ses' = [ses EXCEPT ![s].st = Transition(@, "Deleting")]
        /\ cur' = [cur EXCEPT ![h] = s]
        /\ pc' = [pc EXCEPT ![h] = IF ses[s].pgw THEN "dsPgw" ELSE "dsUp"]
        /\ UNCHANGED <<made, stored, up, pgw, old, failUp, failPgw>>
    BY <1>12 DEF DeleteSession, Goto
  <2>. HIDE DEF s
  <2>3. ses[s].st \in States /\ ses[s].pgw \in BOOLEAN
    BY <2>1, SesFields
  <2>4. Transition(ses[s].st, "Deleting") = "Deleting"
    BY <2>3 DEF Transition, validTransition, States
  <2>5. ses' = [ses EXCEPT ![s].st = "Deleting"]
    BY <2>1, <2>2, <2>4 DEF TypeOK
  <2>6. Kept(s) /\ Fields(s, "Deleting", ses[s].pgw, ses[s].bound, ses[s].enb)
    BY <2>1, <2>5, SetState DEF States
  <2>7. Turns(h, "dsPgw", s, old[h]) \/ (Turns(h, "dsUp", s, old[h]) /\ ~ses[s].pgw)
    BY <2>2, <2>3 DEF Turns, TypeOK
  <2>8. DeleteFx(h, s)
    BY <2>1, <2>2, <2>6, <2>7 DEF DeleteFx
  <2>. QED  BY <2>1, <2>8 DEF Effect
<1>13. CASE DeletePgw(h)
  <2>1. PICK o \in Outcomes :
          /\ pgw' = (IF Done(o) THEN pgw \ {cur[h]} ELSE pgw)
          /\ IF AfterDeletePgw(cur[h], o)
             THEN Goto(h, "dsUp") /\ UNCHANGED <<cur, old, enb, prev, list, todo, hold>>
             ELSE Return(h)
    BY <1>13 DEF DeletePgw
  <2>2. pc[h] = "dsPgw" /\ UNCHANGED <<made, stored, ses, up, overtaken, failUp, failPgw>>
    BY <1>13 DEF DeletePgw
  <2>3. CASE o = "ok"
    <3>1. Turns(h, "dsUp", cur[h], old[h])
      BY <2>1, <2>3, GotoTurns DEF Goto, AfterDeletePgw
    <3>2. pgw' = pgw \ {cur[h]}
      BY <2>1, <2>3 DEF Done
    <3>. QED  BY <2>2, <3>1, <3>2 DEF DeletePgwFx, Effect
  <2>4. CASE o # "ok"
    <3>1. Turns(h, "idle", NoSid, NoSid)
      BY <2>1, <2>4, ReturnTurns DEF AfterDeletePgw
    <3>2. pgw' \subseteq pgw /\ pgw \ {cur[h]} \subseteq pgw'
      BY <2>1
    <3>. QED  BY <2>2, <3>1, <3>2 DEF DeletePgwFx, Effect
  <2>. QED  BY <2>3, <2>4
<1>14. CASE DeleteUp(h)
  <2>1. Turns(h, "idle", NoSid, NoSid)
    BY <1>14, ReturnTurns DEF DeleteUp
  <2>2. /\ pc[h] = "dsUp" /\ stored' = stored \ {cur[h]}
        /\ UNCHANGED <<made, ses, pgw, overtaken, failPgw>>
    BY <1>14 DEF DeleteUp, DeleteStored
  <2>3. cur[h] \in 1..made
    BY <2>2 DEF Frames
  <2>4. \/ UpCut(cur[h])
        \/ UNCHANGED <<up, failUp>> /\ (~ses[cur[h]].bound \/ up[cur[h]] = NoUp)
    <3>1. CASE ses[cur[h]].bound /\ up[cur[h]] # NoUp
      BY <1>14, <2>3, <3>1, UpLeg DEF DeleteUp, UpCut
    <3>2. CASE ~(ses[cur[h]].bound /\ up[cur[h]] # NoUp)
      BY <1>14, <3>2 DEF DeleteUp
    <3>. QED  BY <3>1, <3>2
  <2>. QED  BY <2>1, <2>2, <2>4 DEF DeleteUpFx, Effect
<1>15. ASSUME NEW E \in SUBSET EBIs, NEW n \in ENBs, ModifyBearer(h, E, n) PROVE Effect(h)
  <2>1. Turns(h, "mb", cur[h], old[h])
    BY <1>15, GotoTurns DEF ModifyBearer, Goto
  <2>2. CalmFx(h, "mb", cur[h])
    BY <1>15, <2>1 DEF ModifyBearer, hist, CalmFx, Quiet
  <2>3. cur[h] \in 0..made
    BY DEF TypeOK
  <2>. QED  BY <2>2, <2>3 DEF Effect, Quiet
<1>16. CASE ModifyContext(h)
  <2>. DEFINE e == Min(todo[h])
              s == OwnerOf(e)
  <2>1. /\ pc[h] = "mb"
        /\ IF s = NoSid \/ (s # NoSid /\ ~ses[s].bound)
           THEN UNCHANGED <<ses, pc, cur>>
           ELSE /\ ses' = [ses EXCEPT ![s].enb = enb[h]]
                /\ cur' = [cur EXCEPT ![h] = s]
                /\ pc' = [pc EXCEPT ![h] = "mbSent"]
        /\ UNCHANGED <<made, stored, up, pgw, old, overtaken, failUp, failPgw>>
    BY <1>16 DEF ModifyContext, Goto, hist
  <2>2. s # NoSid => s \in 1..made
    BY Owner
  <2>3. cur[h] \in 0..made /\ enb[h] \in ENBs \cup {NoENB}
    BY DEF TypeOK
  <2>. HIDE DEF s, e
  <2>4. CASE UNCHANGED <<ses, pc, cur>>
    <3>1. Turns(h, "mb", cur[h], old[h])
      BY <2>1, <2>4 DEF Turns
    <3>2. CalmFx(h, "mb", cur[h])
      BY <2>1, <2>4, <3>1 DEF CalmFx, Quiet
    <3>. QED  BY <2>3, <3>2 DEF Effect, Quiet
  <2>5. CASE /\ s # NoSid /\ ses[s].bound /\ ses' = [ses EXCEPT ![s].enb = enb[h]]
             /\ cur' = [cur EXCEPT ![h] = s] /\ pc' = [pc EXCEPT ![h] = "mbSent"]
    <3>1. s \in 1..made /\ s \in 0..made
      BY <1>0, <2>2, <2>5
    <3>2. Turns(h, "mbSent", s, old[h])
      BY <2>1, <2>5 DEF Turns, TypeOK
    <3>3. Kept(s) /\ Fields(s, ses[s].st, ses[s].pgw, ses[s].bound, enb[h])
      BY <2>3, <2>5, <3>1, SetEnb
    <3>4. \A t \in 1..made : /\ ses'[t].ebi = ses[t].ebi /\ ses'[t].st = ses[t].st
                             /\ ses'[t].pgw = ses[t].pgw /\ ses'[t].bound = ses[t].bound
      BY <3>3 DEF Kept, Fields
    <3>5. CalmFx(h, "mbSent", s)
      BY <2>1, <2>5, <3>1, <3>2, <3>4 DEF CalmFx, Quiet
    <3>. QED  BY <3>1, <3>5 DEF Effect, Quiet
  <2>. QED  BY <2>1, <2>4, <2>5
<1>17. CASE ModifyAnswer(h)
  <2>. DEFINE f == [up[cur[h]] EXCEPT !.dl = enb[h]]
  <2>1. PICK o \in Outcomes : ModifyAtUp(cur[h], f, o) /\ ses' = Restore(h, o)
    BY <1>17 DEF ModifyAnswer
  <2>2. /\ pc[h] = "mbSent" /\ pc' = [pc EXCEPT ![h] = "mb"] /\ cur' = [cur EXCEPT ![h] = NoSid]
        /\ UNCHANGED <<made, stored, pgw, old, overtaken, failUp, failPgw>>
    BY <1>17 DEF ModifyAnswer, Goto
  <2>3. /\ cur[h] \in 1..made /\ cur[h] \in Sids
        /\ enb[h] \in ENBs \cup {NoENB} /\ prev[h] \in ENBs \cup {NoENB}
    BY <1>0, <2>2 DEF Frames, TypeOK
  <2>4. f \in Fars /\ f.ul = up[cur[h]].ul
    BY <2>3, FarFields
  <2>. HIDE DEF f
  <2>5. /\ \A t \in Sids : t # cur[h] => up'[t] = up[t]
        /\ up[cur[h]] = NoUp => o = "no"
        /\ up'[cur[h]] = (IF o # "no" THEN f ELSE up[cur[h]])
    BY <2>1, <2>3, <2>4, UpModified
  <2>6. \A t \in Sids : up'[t].ul = up[t].ul /\ (up'[t] = up[t] \/ up[t] # NoUp)
    BY <2>4, <2>5
  <2>7. \A t \in 1..made : /\ ses'[t].ebi = ses[t].ebi /\ ses'[t].st = ses[t].st
                           /\ ses'[t].pgw = ses[t].pgw /\ ses'[t].bound = ses[t].bound
    BY <2>1, <2>3, SetEnb DEF Kept, Fields, Restore
  <2>8. Turns(h, "mb", NoSid, old[h])
    BY <2>2 DEF Turns, TypeOK
  <2>9. CalmFx(h, "mb", NoSid)
    BY <2>2, <2>6, <2>7, <2>8 DEF CalmFx, Quiet
  <2>. QED  BY <1>0, <2>9 DEF Effect, Quiet
<1>18. CASE ModifyReturn(h)
  <2>1. Turns(h, "idle", NoSid, NoSid)
    BY <1>18, ReturnTurns DEF ModifyReturn
  <2>2. CalmFx(h, "idle", NoSid)
    BY <1>18, <2>1 DEF ModifyReturn, hist, CalmFx, Quiet
  <2>. QED  BY <1>0, <2>2 DEF Effect, Quiet
<1>19. CASE ReleaseAccess(h)
  <2>1. Turns(h, "rab", cur[h], old[h])
    BY <1>19, GotoTurns DEF ReleaseAccess, Goto
  <2>2. CalmFx(h, "rab", cur[h])
    BY <1>19, <2>1 DEF ReleaseAccess, hist, CalmFx, Quiet
  <2>3. cur[h] \in 0..made
    BY DEF TypeOK
  <2>. QED  BY <2>2, <2>3 DEF Effect, Quiet
<1>20. CASE ReleaseSession(h)
  <2>1. PICK s \in 1..made : s = Min(todo[h])
    <3>1. todo[h] \in SUBSET Nat /\ todo[h] # {} /\ todo[h] \subseteq 1..made
      BY <1>0, <1>20 DEF ReleaseSession, Frames
    <3>. QED  BY <3>1, MinIn
  <2>2. pc[h] = "rab" /\ UNCHANGED <<made, stored, ses, pgw, overtaken, failUp, failPgw>>
    BY <1>20 DEF ReleaseSession
  <2>. DEFINE f == [up[s] EXCEPT !.dl = NoENB]
  <2>3. /\ up' = up \/ \E o \in Outcomes : ModifyAtUp(s, f, o)
        /\ UNCHANGED <<pc, cur, old>> \/ Return(h)
    BY <1>20, <2>1 DEF ReleaseSession
  <2>4. s \in Sids
    BY <1>0
  <2>5. f \in Fars /\ f.ul = up[s].ul
    BY <2>4, FarFields
  <2>. HIDE DEF f
  <2>6. \A t \in Sids : up'[t].ul = up[t].ul /\ (up'[t] = up[t] \/ up[t] # NoUp)
    BY <2>3, <2>5, UpModified
  <2>7. CASE Return(h)
    <3>1. CalmFx(h, "idle", NoSid)
      BY <2>2, <2>6, <2>7, ReturnTurns DEF CalmFx, Quiet
    <3>. QED  BY <1>0, <3>1 DEF Effect, Quiet
  <2>8. CASE UNCHANGED <<pc, cur, old>>
    <3>1. Turns(h, "rab", cur[h], old[h])
      BY <2>2, <2>8 DEF Turns
    <3>2. CalmFx(h, "rab", cur[h])
      BY <2>2, <2>6, <3>1 DEF CalmFx, Quiet
    <3>3. cur[h] \in 0..made
      BY DEF TypeOK
    <3>. QED  BY <3>2, <3>3 DEF Effect, Quiet
  <2>. QED  BY <2>3, <2>7, <2>8
<1>21. CASE ReleaseReturn(h)
  <2>1. \A t \in 1..made : /\ ses'[t].ebi = ses[t].ebi /\ ses'[t].st = ses[t].st
                           /\ ses'[t].pgw = ses[t].pgw /\ ses'[t].bound = ses[t].bound
    <3>1. DOMAIN ses = 1..made /\ \A s \in 1..made : ses[s] \in Sess
      BY DEF TypeOK
    <3>2. \A x \in Sess : LET y == [x EXCEPT !.enb = NoENB] IN
             y.ebi = x.ebi /\ y.st = x.st /\ y.pgw = x.pgw /\ y.bound = x.bound
      BY DEF Sess
    <3>3. \A t \in 1..made : ses'[t] = ses[t] \/ ses'[t] = [ses[t] EXCEPT !.enb = NoENB]
      BY <1>21, <3>1 DEF ReleaseReturn
    <3>. QED  BY <3>1, <3>2, <3>3
  <2>2. Turns(h, "idle", NoSid, NoSid)
    BY <1>21, ReturnTurns DEF ReleaseReturn
  <2>3. CalmFx(h, "idle", NoSid)
    BY <1>21, <2>1, <2>2 DEF ReleaseReturn, CalmFx, Quiet
  <2>. QED  BY <1>0, <2>3 DEF Effect, Quiet
<1>22. CASE Step(h)
  BY <1>22, <1>2, <1>3, <1>4, <1>5, <1>6, <1>7, <1>8, <1>9, <1>10, <1>11, <1>13, <1>14, <1>16, <1>17, <1>18,
     <1>20, <1>21 DEF Step
<1>23. CASE Requests(h)
  BY <1>23, <1>1, <1>12, <1>15, <1>19 DEF Requests
<1>. QED  BY <1>22, <1>23

-----------------------------------------------------------------------------
(* Who does what to which session.                                         *)

\* The sessions being created, as a set (InCreation).
InMaking == {s \in Sids : \E h \in Handlers : Making(h) /\ cur[h] = s}
\* The sessions being evicted, as a set (InEviction).
Evicted  == {s \in Sids : \E h \in Handlers : old[h] = s}

\* A session is created by one handler.
OneMaker == \A g, h \in Handlers : Making(g) /\ Making(h) /\ cur[g] = cur[h] => g = h

\* What holds of the session of a handler: one being created is neither Active nor
\* bound; one being evicted left the store and is another; one being deleted is
\* Deleting; one Modify Bearer sends about is bound.
Role(h) ==
    /\ Making(h) => ses[cur[h]].st # "Active" /\ ses[cur[h]].bound = FALSE
    /\ pc[h] \notin {"evictPgw", "evictUp"} => old[h] = NoSid
    /\ pc[h] \in {"evictPgw", "evictUp"} => old[h] \notin stored /\ old[h] # cur[h]
    /\ pc[h] \in {"dsPgw", "dsUp"} => ses[cur[h]].st = "Deleting"
    /\ pc[h] = "mbSent" => ses[cur[h]].bound = TRUE

\* SGW-U holds no session that was never made, and a session it holds has an uplink
\* FAR.
UpSound ==
    /\ \A s \in Sids : s \notin 1..made => up[s] = NoUp
    /\ \A s \in Sids : up[s] # NoUp => up[s].ul # "none"

\* The first part of the invariant: who does what to which session.
Roles == (\A h \in Handlers : Role(h)) /\ OneMaker /\ UpSound

\* How a turn changes the sessions being created.
LEMMA MakingMoves ==
    ASSUME NEW h \in Handlers, NEW l, NEW s, NEW o, Turns(h, l, s, o), OneMaker
    PROVE  /\ Making(h) /\ l \in Creating /\ s = cur[h] => InMaking' = InMaking
           /\ ~Making(h) /\ l \notin Creating => InMaking' = InMaking
           /\ ~Making(h) /\ l \in Creating => InMaking' = InMaking \cup ({s} \cap Sids)
           /\ Making(h) /\ l \notin Creating => InMaking' = InMaking \ {cur[h]}
<1>1. /\ pc'[h] = l /\ cur'[h] = s
      /\ \A g \in Handlers : g # h => pc'[g] = pc[g] /\ cur'[g] = cur[g]
  BY DEF Turns
<1>2. ASSUME NEW t \in Sids
      PROVE  t \in InMaking' <=> (l \in Creating /\ t = s) \/ \E g \in Handlers : g # h /\ Making(g) /\ cur[g] = t
  BY <1>1 DEF InMaking, Making
<1>3. ASSUME NEW t \in Sids
      PROVE  t \in InMaking <=> (Making(h) /\ t = cur[h]) \/ \E g \in Handlers : g # h /\ Making(g) /\ cur[g] = t
  BY DEF InMaking
<1>4. Making(h) => \A g \in Handlers : g # h /\ Making(g) => cur[g] # cur[h]
  BY DEF OneMaker
<1>5. InMaking \subseteq Sids /\ InMaking' \subseteq Sids
  BY DEF InMaking, Sids
<1>6. ASSUME Making(h), l \in Creating, s = cur[h] PROVE InMaking' = InMaking
  BY <1>2, <1>3, <1>5, <1>6
<1>7. ASSUME ~Making(h), l \notin Creating PROVE InMaking' = InMaking
  BY <1>2, <1>3, <1>5, <1>7
<1>8. ASSUME ~Making(h), l \in Creating PROVE InMaking' = InMaking \cup ({s} \cap Sids)
  BY <1>2, <1>3, <1>5, <1>8
<1>9. ASSUME Making(h), l \notin Creating PROVE InMaking' = InMaking \ {cur[h]}
  BY <1>2, <1>3, <1>4, <1>5, <1>9
<1>. QED  BY <1>6, <1>7, <1>8, <1>9

\* How a turn changes the sessions being evicted.
LEMMA EvictedMoves ==
    ASSUME NEW h \in Handlers, NEW l, NEW s, NEW o, Turns(h, l, s, o)
    PROVE  /\ \A t \in Sids : t \in Evicted => t \in Evicted' \/ (t = old[h] /\ t # o)
           /\ o \in Sids => o \in Evicted'
BY DEF Turns, Evicted, Sids

\* What no step does to a session t: unbind it, forget its PGW, take it out of
\* Deleting, or put it back into creation.
Mild(h, t) ==
    /\ ses'[t].ebi = ses[t].ebi
    /\ ses[t].bound = TRUE => ses'[t].bound = TRUE
    /\ ses[t].pgw = TRUE => ses'[t].pgw = TRUE
    /\ ses[t].st = "Deleting" => ses'[t].st = "Deleting"
    /\ t \in InMaking' => t \in InMaking

\* What a step of h does not do to a session t that h is not creating: bind it, make
\* it Active, give it a leg, or take a leg from it while it is stored and not
\* Deleting.
Alone(h, t) ==
    /\ ses'[t].bound = ses[t].bound /\ ses'[t].st \in {ses[t].st, "Deleting"}
    /\ t \in pgw' => t \in pgw
    /\ up[t] = NoUp => up'[t] = NoUp
    /\ t \in stored' /\ ses'[t].st # "Deleting" =>
        /\ up[t] # NoUp => up'[t] # NoUp
        /\ t \in pgw => t \in pgw'

\* Both, for every session, with the other handlers and the histories.
Gentle(h) ==
    /\ \A t \in 1..made : Mild(h, t)
    /\ \A t \in 1..made : ~(Making(h) /\ t = cur[h]) => Alone(h, t)
    /\ \A g \in Handlers : g # h => pc'[g] = pc[g] /\ cur'[g] = cur[g] /\ old'[g] = old[g]
    /\ overtaken \subseteq overtaken' /\ failUp \subseteq failUp' /\ failPgw \subseteq failPgw'
    /\ made' \in Nat /\ made <= made' /\ \A t \in stored' : t \in stored \/ t \notin 1..made
    /\ \A t \in Sids : t \notin 1..made => up'[t] = NoUp
    /\ \A t \in Sids : up'[t] # NoUp => up'[t].ul # "none"

\* Every step is gentle: this is where the steps of one handler meet the sessions of
\* the others.
LEMMA Gentles ==
    ASSUME TypeInv, Roles, NEW h \in Handlers, Effect(h)
    PROVE  Gentle(h)
<1>. TypeOK /\ Frames
  BY DEF TypeInv
<1>0. /\ made \in Nat /\ made <= MaxSess /\ stored \subseteq 1..made /\ pgw \subseteq 1..made
      /\ 1..made \subseteq Sids
  BY Types
<1>a. OneMaker /\ Role(h) /\ UpSound
  BY DEF Roles
<1>b. Making(h) => cur[h] \in 1..made
  BY DEF Making, Frames
<1>c. NoUp.ul = "none" /\ Provisional.ul = "drop"
  BY DEF NoUp, Provisional
<1>1. ASSUME NEW e \in EBIs, NEW l \in Before, NEW o \in 0..made, CreateFx(h, e, l, o) PROVE Gentle(h)
  <2>1. InMaking' = InMaking \cup ({made + 1} \cap Sids)
    BY <1>1, <1>a, MakingMoves DEF CreateFx, Making, Before, Creating
  <2>2. made + 1 \notin 1..made /\ made' = made + 1 /\ made' \in Nat /\ made <= made'
    BY <1>0, <1>1 DEF CreateFx
  <2>3. \A t \in 1..made : Mild(h, t) /\ Alone(h, t)
    BY <1>1, <2>1, <2>2 DEF CreateFx, Mild, Alone
  <2>. QED  BY <1>1, <1>a, <2>2, <2>3 DEF Gentle, CreateFx, Turns, UpSound
<1>2. CASE EvictPgwFx(h)
  <2>1. InMaking' = InMaking
    BY <1>2, <1>a, MakingMoves DEF EvictPgwFx, Making, Creating
  <2>2. old[h] \notin stored
    BY <1>2, <1>a DEF EvictPgwFx, Role
  <2>3. \A t \in 1..made : Mild(h, t) /\ Alone(h, t)
    BY <1>2, <2>1, <2>2 DEF EvictPgwFx, PgwCut, Mild, Alone
  <2>. QED  BY <1>0, <1>2, <1>a, <2>3 DEF Gentle, EvictPgwFx, PgwCut, Turns, UpSound
<1>3. CASE EvictUpFx(h)
  <2>1. InMaking' = InMaking
    BY <1>3, <1>a, MakingMoves DEF EvictUpFx, Making, Creating
  <2>2. old[h] \notin stored /\ old[h] \in Sids /\ old[h] \in 1..made
    BY <1>0, <1>3, <1>a DEF EvictUpFx, Role
  <2>3. \A t \in Sids : up'[t] = up[t] \/ (t = old[h] /\ up'[t] = NoUp)
    BY <1>3 DEF EvictUpFx, UpCut
  <2>4. \A t \in 1..made : Mild(h, t) /\ Alone(h, t)
    BY <1>0, <1>3, <2>1, <2>2, <2>3 DEF EvictUpFx, Mild, Alone
  <2>. QED  BY <1>0, <1>3, <1>a, <2>2, <2>3, <2>4 DEF Gentle, EvictUpFx, UpCut, Turns, UpSound
<1>4. CASE QuitFx(h)
  <2>1. Making(h) /\ cur[h] \in 1..made /\ cur[h] \in Sids
    BY <1>0, <1>4, <1>b DEF QuitFx, Making, Creating
  <2>2. InMaking' = InMaking \ {cur[h]}
    BY <1>4, <1>a, <2>1, MakingMoves DEF QuitFx, Creating
  <2>3. \A t \in Sids : up'[t] = up[t] \/ (t = cur[h] /\ up'[t] \in {NoUp, Provisional})
    BY <1>4 DEF QuitFx
  <2>4. \A t \in 1..made : Mild(h, t)
    BY <1>4, <2>2 DEF QuitFx, Mild
  <2>5. \A t \in 1..made : t # cur[h] => Alone(h, t)
    BY <1>0, <1>4 DEF QuitFx, Alone
  <2>6. \A t \in Sids : up'[t] # NoUp => up'[t].ul # "none"
    BY <1>a, <1>c, <2>3 DEF UpSound
  <2>. QED  BY <1>0, <1>4, <1>a, <2>1, <2>3, <2>4, <2>5, <2>6 DEF Gentle, QuitFx, Turns, UpSound
<1>5. CASE EstablishFx(h)
  <2>1. Making(h) /\ cur[h] \in 1..made /\ cur[h] \in Sids
    BY <1>0, <1>5, <1>b DEF EstablishFx, Making, Creating
  <2>2. InMaking' = InMaking
    BY <1>5, <1>a, <2>1, MakingMoves DEF EstablishFx, Creating
  <2>3. \A t \in Sids : up'[t] = up[t] \/ (t = cur[h] /\ up'[t] = Provisional)
    BY <1>5 DEF EstablishFx
  <2>4. \A t \in 1..made : Mild(h, t)
    BY <1>5, <2>2 DEF EstablishFx, Mild
  <2>5. \A t \in 1..made : t # cur[h] => Alone(h, t)
    BY <1>0, <1>5 DEF EstablishFx, Alone
  <2>6. \A t \in Sids : up'[t] # NoUp => up'[t].ul # "none"
    BY <1>a, <1>c, <2>3 DEF UpSound
  <2>. QED  BY <1>0, <1>5, <1>a, <2>1, <2>3, <2>4, <2>5, <2>6 DEF Gentle, EstablishFx, Turns, UpSound
<1>6. CASE NotAtPgwFx(h)
  <2>1. Making(h)
    BY <1>6 DEF NotAtPgwFx, Making, Creating
  <2>2. InMaking' = InMaking
    BY <1>6, <1>a, <2>1, MakingMoves DEF NotAtPgwFx, Creating
  <2>3. \A t \in 1..made : Mild(h, t)
    BY <1>6, <2>2 DEF NotAtPgwFx, Mild
  <2>4. \A t \in 1..made : t # cur[h] => Alone(h, t)
    BY <1>6 DEF NotAtPgwFx, Alone
  <2>. QED  BY <1>0, <1>6, <1>a, <2>1, <2>3, <2>4 DEF Gentle, NotAtPgwFx, Turns, UpSound
<1>7. CASE AtPgwFx(h)
  <2>1. Making(h)
    BY <1>7 DEF AtPgwFx, Making, Creating
  <2>2. InMaking' = InMaking
    BY <1>7, <1>a, <2>1, MakingMoves DEF AtPgwFx, Creating
  <2>3. \A t \in 1..made : Mild(h, t)
    BY <1>7, <2>2 DEF AtPgwFx, Mild, Kept, Fields
  <2>4. \A t \in 1..made : t # cur[h] => Alone(h, t)
    BY <1>7 DEF AtPgwFx, Alone, Kept
  <2>. QED  BY <1>0, <1>7, <1>a, <2>1, <2>3, <2>4 DEF Gentle, AtPgwFx, Turns, UpSound
<1>8. CASE UplinkFx(h)
  <2>1. Making(h) /\ cur[h] \in 1..made /\ cur[h] \in Sids
    BY <1>0, <1>8, <1>b DEF UplinkFx, Making, Creating
  <2>2. InMaking' = InMaking
    BY <1>8, <1>a, <2>1, MakingMoves DEF UplinkFx, Creating
  <2>3. \A t \in Sids : up'[t] = up[t] \/ (t = cur[h] /\ up'[t].ul = "forw")
    BY <1>8 DEF UplinkFx
  <2>4. \A t \in 1..made : Mild(h, t)
    BY <1>8, <2>2 DEF UplinkFx, Mild
  <2>5. \A t \in 1..made : t # cur[h] => Alone(h, t)
    BY <1>0, <1>8 DEF UplinkFx, Alone
  <2>6. \A t \in Sids : up'[t] # NoUp => up'[t].ul # "none"
    BY <1>a, <2>3 DEF UpSound
  <2>. QED  BY <1>0, <1>8, <1>a, <2>1, <2>3, <2>4, <2>5, <2>6 DEF Gentle, UplinkFx, Turns, UpSound
<1>9. CASE UndoPgwFx(h)
  <2>1. Making(h)
    BY <1>9 DEF UndoPgwFx, Making, Creating
  <2>2. InMaking' = InMaking
    BY <1>9, <1>a, <2>1, MakingMoves DEF UndoPgwFx, Creating
  <2>3. \A t \in 1..made : Mild(h, t)
    BY <1>9, <2>2 DEF UndoPgwFx, Mild
  <2>4. \A t \in 1..made : t # cur[h] => Alone(h, t)
    BY <1>9 DEF UndoPgwFx, PgwCut, Alone
  <2>. QED  BY <1>0, <1>9, <1>a, <2>1, <2>3, <2>4 DEF Gentle, UndoPgwFx, PgwCut, Turns, UpSound
<1>10. CASE BindFx(h)
  <2>1. Making(h) /\ cur[h] \in 1..made
    BY <1>10, <1>b DEF BindFx, Making, Creating
  <2>2. InMaking' = InMaking \ {cur[h]}
    BY <1>10, <1>a, <2>1, MakingMoves DEF BindFx, Creating
  <2>3. Transition("Deleting", "Active") = "Deleting"
    BY DEF Transition, validTransition
  <2>4. \A t \in 1..made : Mild(h, t)
    BY <1>10, <2>2, <2>3 DEF BindFx, Mild, Kept, Fields
  <2>5. \A t \in 1..made : t # cur[h] => Alone(h, t)
    BY <1>10 DEF BindFx, Alone, Kept
  <2>. QED  BY <1>0, <1>10, <1>a, <2>1, <2>4, <2>5 DEF Gentle, BindFx, Turns, UpSound
<1>11. ASSUME NEW s \in stored, DeleteFx(h, s) PROVE Gentle(h)
  <2>1. InMaking' = InMaking
    BY <1>11, <1>a, MakingMoves DEF DeleteFx, Making, Creating
  <2>2. \A t \in 1..made : Mild(h, t)
    BY <1>11, <2>1 DEF DeleteFx, Mild, Kept, Fields
  <2>3. \A t \in 1..made : Alone(h, t)
    BY <1>11 DEF DeleteFx, Alone, Kept, Fields
  <2>. QED  BY <1>0, <1>11, <1>a, <2>2, <2>3 DEF Gentle, DeleteFx, Turns, UpSound
<1>12. CASE DeletePgwFx(h)
  <2>1. InMaking' = InMaking
    BY <1>12, <1>a, MakingMoves DEF DeletePgwFx, Making, Creating
  <2>2. ses[cur[h]].st = "Deleting"
    BY <1>12, <1>a DEF DeletePgwFx, Role
  <2>3. \A t \in 1..made : Mild(h, t) /\ Alone(h, t)
    BY <1>12, <2>1, <2>2 DEF DeletePgwFx, Mild, Alone
  <2>. QED  BY <1>0, <1>12, <1>a, <2>3 DEF Gentle, DeletePgwFx, Turns, UpSound
<1>13. CASE DeleteUpFx(h)
  <2>1. InMaking' = InMaking
    BY <1>13, <1>a, MakingMoves DEF DeleteUpFx, Making, Creating
  <2>2. ses[cur[h]].st = "Deleting" /\ cur[h] \in 1..made /\ cur[h] \in Sids
    BY <1>0, <1>13, <1>a DEF DeleteUpFx, Role, Frames
  <2>3. \A t \in Sids : up'[t] = up[t] \/ (t = cur[h] /\ up'[t] = NoUp)
    BY <1>13 DEF DeleteUpFx, UpCut
  <2>4. failUp \subseteq failUp'
    BY <1>13 DEF DeleteUpFx, UpCut
  <2>5. \A t \in 1..made : Mild(h, t) /\ Alone(h, t)
    BY <1>0, <1>13, <2>1, <2>2, <2>3 DEF DeleteUpFx, Mild, Alone
  <2>. QED  BY <1>0, <1>13, <1>a, <2>2, <2>3, <2>4, <2>5 DEF Gentle, DeleteUpFx, Turns, UpSound
<1>14. ASSUME NEW l \in Quiet, NEW s \in 0..made, CalmFx(h, l, s) PROVE Gentle(h)
  <2>1. InMaking' = InMaking
    BY <1>14, <1>a, MakingMoves DEF CalmFx, Making, Creating, Quiet
  <2>2. \A t \in Sids : up'[t] # NoUp => up'[t].ul # "none"
    BY <1>14, <1>a DEF CalmFx, UpSound
  <2>3. \A t \in Sids : up[t] # NoUp => up'[t] # NoUp
    BY <1>14, <1>a, <1>c DEF CalmFx, UpSound
  <2>4. \A t \in 1..made : Mild(h, t)
    BY <1>14, <2>1 DEF CalmFx, Mild
  <2>5. \A t \in 1..made : Alone(h, t)
    BY <1>0, <1>14, <2>3 DEF CalmFx, Alone
  <2>. QED  BY <1>0, <1>14, <1>a, <2>2, <2>4, <2>5 DEF Gentle, CalmFx, Turns, UpSound
<1>. QED  BY <1>1, <1>2, <1>3, <1>4, <1>5, <1>6, <1>7, <1>8, <1>9, <1>10, <1>11, <1>12, <1>13, <1>14 DEF Effect

\* The roles hold initially.
LEMMA RolesInit == Init => Roles
BY S11Assumption DEF Init, Roles, Role, OneMaker, UpSound, Making, Creating

\* The roles of the other handlers survive.
LEMMA RoleOthers ==
    ASSUME TypeInv, Roles, NEW h \in Handlers, Gentle(h), NEW g \in Handlers, g # h
    PROVE  Role(g)'
<1>1. pc'[g] = pc[g] /\ cur'[g] = cur[g] /\ old'[g] = old[g]
  BY DEF Gentle
<1>2. Role(g)
  BY DEF Roles
<1>3. Making(g) => cur[g] \in 1..made /\ ~(Making(h) /\ cur[g] = cur[h])
  BY DEF TypeInv, Frames, Making, Roles, OneMaker
<1>4. Making(g) => Alone(h, cur[g])
  BY <1>3 DEF Gentle
<1>5. Making(g)' => ses'[cur'[g]].st # "Active" /\ ses'[cur'[g]].bound = FALSE
  BY <1>1, <1>2, <1>4 DEF Role, Alone, Making
<1>6. pc[g] \in {"evictPgw", "evictUp"} => old[g] \notin stored'
  BY <1>2 DEF Role, Gentle, TypeInv, Frames
<1>7. pc[g] \in {"dsPgw", "dsUp", "mbSent"} => Mild(h, cur[g])
  BY DEF TypeInv, Frames, Gentle
<1>. QED  BY <1>1, <1>2, <1>5, <1>6, <1>7 DEF Role, Mild

\* Every step keeps the roles.
LEMMA RolesStep ==
    ASSUME TypeInv, Roles, NEW h \in Handlers, Effect(h)
    PROVE  Roles'
<1>. TypeOK /\ Frames
  BY DEF TypeInv
<1>0. made \in Nat /\ stored \subseteq 1..made
  BY Types
<1>a. OneMaker /\ Role(h) /\ UpSound
  BY DEF Roles
<1>b. Gentle(h)
  BY Gentles
<1>1. \A g \in Handlers : g # h => Role(g)'
  BY <1>b, RoleOthers
<1>2. UpSound'
  <2>1. \A t : t \notin 1..made' => t \notin 1..made
    BY <1>0, <1>b DEF Gentle
  <2>. QED  BY <1>b, <2>1 DEF UpSound, Gentle, Sids
<1>3. Making(h)' => (Making(h) /\ cur'[h] = cur[h]) \/ cur'[h] = made + 1
  BY DEF Effect, CreateFx, EvictPgwFx, EvictUpFx, QuitFx, EstablishFx, NotAtPgwFx, AtPgwFx, UplinkFx,
     UndoPgwFx, BindFx, DeleteFx, DeletePgwFx, DeleteUpFx, CalmFx, Turns, Making, Creating, Quiet
<1>4. OneMaker'
  <2>1. \A g \in Handlers : g # h /\ Making(g) => cur[g] # made + 1
    BY <1>0 DEF Frames, Making
  <2>. QED  BY <1>3, <1>a, <1>b, <2>1 DEF OneMaker, Gentle, Making
<1>5. Role(h)'
  <2>1. ASSUME NEW e \in EBIs, NEW l \in Before, NEW o \in 0..made, CreateFx(h, e, l, o) PROVE Role(h)'
    <3>1. o # made + 1 /\ (o \in stored /\ ses[o].ebi = e => o \notin stored')
      BY <1>0, <2>1 DEF CreateFx
    <3>2. pc'[h] = l /\ cur'[h] = made + 1 /\ old'[h] = o
      BY <2>1 DEF CreateFx, Turns
    <3>3. ses'[made + 1].st = "Pending" /\ ses'[made + 1].bound = FALSE
      BY <2>1 DEF CreateFx
    <3>4. Evicts(e, l, o)
      BY <2>1 DEF CreateFx
    <3>. QED  BY <3>1, <3>2, <3>3, <3>4 DEF Role, Evicts, Before
  <2>2. CASE EvictPgwFx(h)
    BY <1>a, <2>2 DEF EvictPgwFx, Turns, Role, Making, Creating
  <2>3. CASE EvictUpFx(h)
    BY <1>a, <2>3 DEF EvictUpFx, Turns, Role, Making, Creating
  <2>4. CASE QuitFx(h)
    BY <2>4 DEF QuitFx, Turns, Role, Making, Creating
  <2>5. CASE EstablishFx(h)
    BY <1>a, <2>5 DEF EstablishFx, Turns, Role, Making, Creating
  <2>6. CASE NotAtPgwFx(h)
    BY <1>a, <2>6 DEF NotAtPgwFx, Turns, Role, Making, Creating
  <2>7. CASE AtPgwFx(h)
    BY <1>a, <2>7 DEF AtPgwFx, Fields, Turns, Role, Making, Creating
  <2>8. CASE UplinkFx(h)
    BY <1>a, <2>8 DEF UplinkFx, Turns, Role, Making, Creating
  <2>9. CASE UndoPgwFx(h)
    BY <1>a, <2>9 DEF UndoPgwFx, Turns, Role, Making, Creating
  <2>10. CASE BindFx(h)
    BY <2>10 DEF BindFx, Turns, Role, Making, Creating
  <2>11. ASSUME NEW s \in stored, DeleteFx(h, s) PROVE Role(h)'
    BY <1>a, <2>11 DEF DeleteFx, Fields, Turns, Role, Making, Creating
  <2>12. CASE DeletePgwFx(h)
    BY <1>a, <2>12 DEF DeletePgwFx, Turns, Role, Making, Creating
  <2>13. CASE DeleteUpFx(h)
    BY <2>13 DEF DeleteUpFx, Turns, Role, Making, Creating
  <2>14. ASSUME NEW l \in Quiet, NEW s \in 0..made, CalmFx(h, l, s) PROVE Role(h)'
    <3>1. old[h] = NoSid
      BY <1>a, <2>14 DEF CalmFx, Role, Quiet
    <3>2. pc'[h] = l /\ cur'[h] = s /\ old'[h] = NoSid
      BY <2>14, <3>1 DEF CalmFx, Turns
    <3>3. l = "mbSent" => ses'[s].bound = TRUE
      <4>. SUFFICES ASSUME l = "mbSent" PROVE ses'[s].bound = TRUE
        OBVIOUS
      <4>1. s \in 1..made /\ ses[s].bound /\ ses'[s].bound = ses[s].bound
        BY <2>14 DEF CalmFx
      <4>2. ses[s].bound \in BOOLEAN
        BY <4>1, SesFields
      <4>. QED  BY <4>1, <4>2
    <3>. QED  BY <3>2, <3>3 DEF Role, Making, Creating, Quiet
  <2>. QED  BY <2>1, <2>2, <2>3, <2>4, <2>5, <2>6, <2>7, <2>8, <2>9, <2>10, <2>11, <2>12, <2>13, <2>14 DEF Effect
<1>. QED  BY <1>1, <1>2, <1>4, <1>5 DEF Roles

-----------------------------------------------------------------------------
(* Active sessions have their legs.                                        *)

\* The legs a handler made in Create Session are still there.
Untouched(h) ==
    /\ pc[h] \in {"s5c", "uplink", "bind", "undoPgw"} => up[cur[h]] # NoUp
    /\ pc[h] \in {"uplink", "bind"} => cur[h] \in pgw

\* They are, as long as the session is stored and no Delete Session began on it.
Leg(h) == Making(h) /\ cur[h] \in stored /\ ses[cur[h]].st # "Deleting" => Untouched(h)

\* ActiveHasLegs for one session.
ActiveWhole(s) == ses[s].st = "Active" => ses[s].bound = TRUE /\ up[s] # NoUp /\ s \in pgw

\* The second part of the invariant: ActiveHasLegs, strengthened to the sessions on
\* their way to Active.
Legs == (\A s \in stored : ActiveWhole(s)) /\ \A h \in Handlers : Leg(h)

\* It holds initially.
LEMMA LegsInit == Init => Legs
BY DEF Init, Legs, Leg, Making, Creating

\* Every step keeps the legs.
LEMMA LegsStep ==
    ASSUME TypeInv, Roles, Legs, NEW h \in Handlers, Effect(h)
    PROVE  Legs'
<1>. TypeOK /\ Frames
  BY DEF TypeInv
<1>0. made \in Nat /\ stored \subseteq 1..made /\ 1..made \subseteq Sids
  BY Types
<1>a. OneMaker /\ Role(h) /\ UpSound
  BY DEF Roles
<1>b. Gentle(h)
  BY Gentles
<1>c. NoUp.ul = "none" /\ Provisional.ul = "drop"
  BY DEF NoUp, Provisional
<1>1. ASSUME NEW s \in stored', s \in stored, ~(Making(h) /\ s = cur[h]) PROVE ActiveWhole(s)'
  <2>1. s \in 1..made /\ Alone(h, s) /\ Mild(h, s)
    BY <1>0, <1>1, <1>b DEF Gentle
  <2>2. ActiveWhole(s)
    BY <1>1 DEF Legs
  <2>. QED  BY <1>1, <2>1, <2>2 DEF ActiveWhole, Alone, Mild
<1>2. ASSUME NEW g \in Handlers, g # h PROVE Leg(g)'
  <2>1. pc'[g] = pc[g] /\ cur'[g] = cur[g]
    BY <1>2, <1>b DEF Gentle
  <2>2. Leg(g)
    BY DEF Legs
  <2>. SUFFICES ASSUME Making(g), cur[g] \in stored', ses'[cur[g]].st # "Deleting" PROVE Untouched(g)'
    BY <2>1 DEF Leg, Making
  <2>3. cur[g] \in 1..made /\ ~(Making(h) /\ cur[g] = cur[h])
    BY <1>2, <1>a DEF Frames, Making, OneMaker
  <2>4. Alone(h, cur[g]) /\ Mild(h, cur[g]) /\ cur[g] \in stored
    BY <2>3, <1>b DEF Gentle
  <2>5. Untouched(g)
    BY <2>2, <2>4 DEF Leg, Mild
  <2>. QED  BY <2>1, <2>4, <2>5 DEF Untouched, Alone
<1>3. Leg(h)' /\ \A s \in stored' : s \notin stored \/ (Making(h) /\ s = cur[h]) => ActiveWhole(s)'
  <2>. DEFINE Mine == Leg(h)' /\ \A s \in stored' : s \notin stored \/ (Making(h) /\ s = cur[h]) => ActiveWhole(s)'
  <2>0. Leg(h)
    BY DEF Legs
  <2>a. Making(h) => cur[h] \in 1..made /\ cur[h] \in Sids /\ ses[cur[h]].st # "Active"
    BY <1>0, <1>a DEF Role, Making, Frames
  <2>1. ASSUME NEW e \in EBIs, NEW l \in Before, NEW o \in 0..made, CreateFx(h, e, l, o) PROVE Mine
    <3>1. Leg(h)'
      BY <2>1 DEF CreateFx, Turns, Leg, Untouched, Before
    <3>. QED  BY <2>1, <3>1 DEF CreateFx, ActiveWhole, Making, Creating
  <2>2. CASE EvictPgwFx(h)
    BY <2>2, <2>a DEF EvictPgwFx, Turns, Leg, Untouched, ActiveWhole
  <2>3. CASE EvictUpFx(h)
    BY <2>3, <2>a DEF EvictUpFx, Turns, Leg, Untouched, ActiveWhole
  <2>4. CASE QuitFx(h)
    BY <2>4 DEF QuitFx, Turns, Leg, ActiveWhole, Making, Creating
  <2>5. CASE EstablishFx(h)
    BY <2>5, <2>a, <1>c DEF EstablishFx, Turns, Leg, Untouched, ActiveWhole
  <2>6. CASE NotAtPgwFx(h)
    BY <2>6, <2>a DEF NotAtPgwFx, Turns, Leg, Untouched, ActiveWhole
  <2>7. CASE AtPgwFx(h)
    BY <2>0, <2>7, <2>a DEF AtPgwFx, Fields, Turns, Leg, Untouched, ActiveWhole, Making, Creating
  <2>8. CASE UplinkFx(h)
    <3>1. up[cur[h]] # NoUp => up'[cur[h]] # NoUp
      BY <2>8, <1>c DEF UplinkFx
    <3>. QED  BY <2>0, <2>8, <2>a, <3>1 DEF UplinkFx, Turns, Leg, Untouched, ActiveWhole, Making, Creating
  <2>9. CASE UndoPgwFx(h)
    BY <2>9, <2>a DEF UndoPgwFx, Turns, Leg, Untouched, ActiveWhole
  <2>10. CASE BindFx(h)
    <3>1. Making(h)
      BY <2>10 DEF BindFx, Making, Creating
    <3>2. Leg(h)'
      BY <2>10 DEF BindFx, Turns, Leg, Making, Creating
    <3>3. Transition("Deleting", "Active") = "Deleting"
      BY DEF Transition, validTransition
    <3>4. ASSUME NEW s \in stored', s \notin stored \/ (Making(h) /\ s = cur[h]) PROVE ActiveWhole(s)'
      <4>1. s = cur[h] /\ s \in stored
        BY <2>10, <3>4 DEF BindFx
      <4>2. ses'[s].bound = TRUE /\ ses'[s].st = Transition(ses[s].st, "Active") /\ up' = up /\ pgw' = pgw
        BY <2>10, <4>1 DEF BindFx, Fields
      <4>3. ses[s].st # "Deleting" => up[s] # NoUp /\ s \in pgw
        BY <2>0, <2>10, <3>1, <4>1 DEF BindFx, Leg, Untouched
      <4>. QED  BY <3>3, <4>2, <4>3 DEF ActiveWhole
    <3>. QED  BY <3>2, <3>4
  <2>11. ASSUME NEW s \in stored, DeleteFx(h, s) PROVE Mine
    BY <2>11 DEF DeleteFx, Turns, Leg, ActiveWhole, Making, Creating
  <2>12. CASE DeletePgwFx(h)
    BY <2>12 DEF DeletePgwFx, Turns, Leg, ActiveWhole, Making, Creating
  <2>13. CASE DeleteUpFx(h)
    BY <2>13 DEF DeleteUpFx, Turns, Leg, ActiveWhole, Making, Creating
  <2>14. ASSUME NEW l \in Quiet, NEW s \in 0..made, CalmFx(h, l, s) PROVE Mine
    BY <2>14 DEF CalmFx, Turns, Leg, ActiveWhole, Making, Creating, Quiet
  <2>. QED  BY <2>1, <2>2, <2>3, <2>4, <2>5, <2>6, <2>7, <2>8, <2>9, <2>10, <2>11, <2>12, <2>13, <2>14 DEF Effect
<1>. QED  BY <1>1, <1>2, <1>3 DEF Legs

-----------------------------------------------------------------------------
(* Nothing is leaked.                                                      *)

\* NothingLeaked for one session.
Clean(s) ==
    s \notin stored /\ s \notin InMaking /\ s \notin Evicted /\ s \notin overtaken =>
        /\ up[s] # NoUp => s \in failUp
        /\ s \in pgw => s \in failPgw

\* The store holds one session for a default bearer.
OnePerBearer == \A s, t \in stored : ses[s].ebi = ses[t].ebi => s = t

\* A session whose creation is over is bound and has its PGW.
Settled(s) == s \notin InMaking => ses[s].bound = TRUE /\ ses[s].pgw = TRUE

\* What is known of the legs of a handler's session at each step, unless the session
\* was overtaken: what is not made yet, what is given up already, and whether it is
\* settled.
Stage(h) ==
    /\ Making(h) /\ cur[h] \notin stored => cur[h] \in overtaken
    /\ pc[h] \in Before => up[cur[h]] = NoUp /\ cur[h] \notin pgw
    /\ pc[h] = "s5c" => cur[h] \notin pgw
    /\ pc[h] \in {"uplink", "bind", "undoPgw"} => ses[cur[h]].pgw = TRUE
    /\ pc[h] = "undoUp" /\ cur[h] \in pgw => cur[h] \in failPgw
    /\ pc[h] = "evictPgw" /\ old[h] \notin overtaken => ses[old[h]].bound = TRUE /\ old[h] \notin InMaking
    /\ pc[h] = "evictUp" /\ old[h] \notin overtaken =>
         /\ old[h] \notin InMaking
         /\ old[h] \in pgw => old[h] \in failPgw
    /\ pc[h] \in {"dsPgw", "dsUp"} /\ cur[h] \notin overtaken => cur[h] \notin InMaking /\ ses[cur[h]].bound = TRUE
    /\ pc[h] = "dsUp" /\ cur[h] \notin overtaken => cur[h] \notin pgw

\* The third part of the invariant: NothingLeaked, with what it takes to keep it.
Tidy ==
    /\ \A s \in 1..made : Clean(s)
    /\ OnePerBearer
    /\ \A s \in stored : Settled(s)
    /\ \A h \in Handlers : Stage(h)

\* It holds initially.
LEMMA TidyInit == Init => Tidy
<1>1. Init => stored = {} /\ 1..made = {} /\ \A h \in Handlers : pc[h] = "idle"
  BY DEF Init
<1>. QED  BY <1>1 DEF Tidy, OnePerBearer, Stage, Making, Creating, Before

\* A session in creation leaves the store only overtaken, or at the hands of its
\* maker.
Gone(h) ==
    \A t \in 1..made : t \in stored /\ t \notin stored' /\ t \in InMaking =>
        t \in overtaken' \/ (Making(h) /\ t = cur[h])

\* What is known of the sessions of the other handlers survives.
LEMMA StageOthers ==
    ASSUME TypeInv, Roles, Tidy, NEW h \in Handlers, Gentle(h), Gone(h), NEW g \in Handlers, g # h
    PROVE  Stage(g)'
<1>1. pc'[g] = pc[g] /\ cur'[g] = cur[g] /\ old'[g] = old[g]
  BY DEF Gentle
<1>2. Stage(g) /\ Role(g)
  BY DEF Tidy, Roles
<1>0. 1..made \subseteq Sids
  BY Types
<1>a. overtaken \subseteq overtaken' /\ failPgw \subseteq failPgw'
  BY DEF Gentle
<1>3. Making(g) => /\ cur[g] \in 1..made /\ cur[g] \in InMaking /\ ~(Making(h) /\ cur[g] = cur[h])
                   /\ Alone(h, cur[g]) /\ Mild(h, cur[g])
  <2>. SUFFICES ASSUME Making(g)
                PROVE  /\ cur[g] \in 1..made /\ cur[g] \in InMaking /\ ~(Making(h) /\ cur[g] = cur[h])
                       /\ Alone(h, cur[g]) /\ Mild(h, cur[g])
    OBVIOUS
  <2>1. cur[g] \in 1..made
    BY DEF TypeInv, Frames, Making
  <2>2. cur[g] \in InMaking
    BY <1>0, <2>1 DEF InMaking
  <2>3. ~(Making(h) /\ cur[g] = cur[h])
    BY DEF Roles, OneMaker
  <2>. QED  BY <2>1, <2>2, <2>3 DEF Gentle
<1>4. Making(g) /\ cur[g] \notin stored' => cur[g] \in overtaken'
  BY <1>2, <1>3, <1>a DEF Stage, Gone
<1>5. /\ pc[g] \in Before => up'[cur[g]] = NoUp /\ cur[g] \notin pgw'
      /\ pc[g] = "s5c" => cur[g] \notin pgw'
      /\ pc[g] \in {"uplink", "bind", "undoPgw"} => ses'[cur[g]].pgw = TRUE
      /\ pc[g] = "undoUp" /\ cur[g] \in pgw' => cur[g] \in failPgw'
  BY <1>2, <1>3, <1>a DEF Stage, Alone, Mild, Making, Creating, Before
<1>6. pc[g] \in {"evictPgw", "evictUp"} => old[g] \in 1..made /\ Mild(h, old[g])
  BY DEF TypeInv, Frames, Gentle
<1>7. old[g] \in 1..made /\ old[g] \notin InMaking => Alone(h, old[g])
  BY <1>0 DEF Gentle, InMaking
<1>8. /\ pc[g] = "evictPgw" /\ old[g] \notin overtaken' => ses'[old[g]].bound = TRUE /\ old[g] \notin InMaking'
      /\ pc[g] = "evictUp" /\ old[g] \notin overtaken' =>
          old[g] \notin InMaking' /\ (old[g] \in pgw' => old[g] \in failPgw')
  BY <1>2, <1>6, <1>7, <1>a DEF Stage, Mild, Alone
<1>9. pc[g] \in {"dsPgw", "dsUp"} => cur[g] \in 1..made /\ Mild(h, cur[g])
  BY DEF TypeInv, Frames, Gentle
<1>10. cur[g] \in 1..made /\ cur[g] \notin InMaking => Alone(h, cur[g])
  BY <1>0 DEF Gentle, InMaking
<1>11. /\ pc[g] \in {"dsPgw", "dsUp"} /\ cur[g] \notin overtaken' => cur[g] \notin InMaking' /\ ses'[cur[g]].bound = TRUE
       /\ pc[g] = "dsUp" /\ cur[g] \notin overtaken' => cur[g] \notin pgw'
  BY <1>2, <1>9, <1>10, <1>a DEF Stage, Mild, Alone
<1>. QED  BY <1>1, <1>4, <1>5, <1>8, <1>11 DEF Stage, Making

\* The sessions for which NothingLeaked has to be looked at again.
Leaves(h, s) ==
    \/ Making(h) /\ s = cur[h]
    \/ s \in stored /\ s \notin stored'
    \/ s \in InMaking /\ s \notin InMaking'
    \/ s \in Evicted /\ s \notin Evicted'

\* What is to be shown of a step of h: its own stage, and the sessions that leave.
Home(h) ==
    /\ Stage(h)' /\ Gone(h) /\ OnePerBearer'
    /\ \A s \in 1..made' : s \notin 1..made \/ Leaves(h, s) => Clean(s)'
    /\ \A s \in stored' : s \notin stored \/ (s \in InMaking /\ s \notin InMaking') => Settled(s)'

\* That is enough for Tidy.
LEMMA HomeTidy ==
    ASSUME TypeInv, Roles, Tidy, NEW h \in Handlers, Gentle(h), Home(h)
    PROVE  Tidy'
<1>0. stored \subseteq 1..made
  BY Types
<1>1. \A g \in Handlers : Stage(g)'
  BY StageOthers DEF Home
<1>2. ASSUME NEW s \in 1..made' PROVE Clean(s)'
  <2>1. CASE s \notin 1..made \/ Leaves(h, s)
    BY <2>1 DEF Home
  <2>2. CASE s \in 1..made /\ ~Leaves(h, s)
    <3>1. Alone(h, s) /\ Clean(s)
      BY <2>2 DEF Gentle, Leaves, Tidy
    <3>2. overtaken \subseteq overtaken' /\ failUp \subseteq failUp' /\ failPgw \subseteq failPgw'
      BY DEF Gentle
    <3>. QED  BY <2>2, <3>1, <3>2 DEF Leaves, Clean, Alone
  <2>. QED  BY <2>1, <2>2
<1>3. ASSUME NEW s \in stored' PROVE Settled(s)'
  <2>1. CASE s \notin stored \/ (s \in InMaking /\ s \notin InMaking')
    BY <2>1 DEF Home
  <2>2. CASE s \in stored /\ ~(s \in InMaking /\ s \notin InMaking')
    <3>1. Mild(h, s) /\ Settled(s)
      BY <1>0, <2>2 DEF Gentle, Tidy
    <3>. QED  BY <2>2, <3>1 DEF Settled, Mild
  <2>. QED  BY <2>1, <2>2
<1>. QED  BY <1>1, <1>2, <1>3 DEF Tidy, Home

\* Without a new session there is still one for a bearer.
LEMMA FewerBearers ==
    ASSUME TypeInv, Tidy, NEW h, Gentle(h), stored' \subseteq stored
    PROVE  OnePerBearer'
<1>1. \A s \in stored : ses'[s].ebi = ses[s].ebi
  BY Types DEF Gentle, Mild
<1>. QED  BY <1>1 DEF Tidy, OnePerBearer

\* A step inside Create Session needs only its own stage.
LEMMA Continues ==
    ASSUME TypeInv, Roles, Tidy, NEW h \in Handlers, Gentle(h), Making(h), NEW l \in Creating,
           Turns(h, l, cur[h], old[h]), stored' = stored, made' = made, Stage(h)'
    PROVE  Home(h)
<1>1. InMaking' = InMaking
  BY MakingMoves DEF Roles
<1>2. \A t \in Sids : t \in Evicted => t \in Evicted'
  BY EvictedMoves
<1>3. Evicted \subseteq Sids /\ cur[h] \in 1..made /\ 1..made \subseteq Sids
  BY Types DEF Evicted, TypeInv, Frames, Making
<1>4. cur[h] \in InMaking'
  BY <1>1, <1>3 DEF InMaking
<1>5. OnePerBearer'
  BY FewerBearers
<1>. QED  BY <1>1, <1>2, <1>3, <1>4, <1>5 DEF Home, Gone, Leaves, Clean

\* Nor does a step that neither creates nor takes from the store need more.
LEMMA Outside ==
    ASSUME TypeInv, Roles, Tidy, NEW h \in Handlers, Gentle(h), ~Making(h), NEW l, l \notin Creating, NEW s,
           NEW o \in {old[h], NoSid}, Turns(h, l, s, o), stored' = stored, made' = made, Stage(h)'
    PROVE  Home(h)
<1>1. InMaking' = InMaking
  BY MakingMoves DEF Roles
<1>2. \A t \in Sids : t \in Evicted => t \in Evicted'
  BY EvictedMoves DEF Roles, Role, Making, Creating, NoSid, Sids
<1>3. Evicted \subseteq Sids
  BY DEF Evicted
<1>5. OnePerBearer'
  BY FewerBearers
<1>. QED  BY <1>1, <1>2, <1>3, <1>5 DEF Home, Gone, Leaves

\* The sets are what InCreation and InEviction say.
LEMMA MakingIs ==
    ASSUME TypeInv, NEW s \in 1..made
    PROVE  /\ InCreation(s) <=> s \in InMaking
           /\ InEviction(s) <=> s \in Evicted
BY Types DEF InCreation, InMaking, Making, InEviction, Evicted

\* Every step keeps Tidy.
LEMMA TidyStep ==
    ASSUME TypeInv, Roles, Tidy, NEW h \in Handlers, Effect(h)
    PROVE  Tidy'
<1>. TypeOK /\ Frames
  BY DEF TypeInv
<1>0. made \in Nat /\ stored \subseteq 1..made /\ pgw \subseteq 1..made /\ 1..made \subseteq Sids /\ NoSid \notin Sids
  BY Types DEF Sids, NoSid
<1>a. OneMaker /\ Role(h) /\ Stage(h)
  BY DEF Roles, Tidy
<1>b. Gentle(h)
  BY Gentles
<1>c. InMaking \subseteq Sids /\ Evicted \subseteq Sids
  BY DEF InMaking, Evicted
<1>d. overtaken \subseteq overtaken' /\ failUp \subseteq failUp' /\ failPgw \subseteq failPgw'
  BY <1>b DEF Gentle
<1>. SUFFICES Home(h)
  BY <1>b, HomeTidy
<1>1. ASSUME NEW e \in EBIs, NEW l \in Before, NEW o \in 0..made, CreateFx(h, e, l, o) PROVE Home(h)
  <2>0. Turns(h, l, made + 1, o) /\ Evicts(e, l, o) /\ ~Making(h) /\ l \in Creating /\ old[h] = NoSid
    BY <1>1, <1>a DEF CreateFx, Making, Creating, Before, Role
  <2>1. /\ made' = made + 1 /\ stored' = {x \in stored : ses[x].ebi # e} \cup {made + 1}
        /\ \A t \in 1..made : ses'[t] = ses[t]
        /\ ses'[made + 1].ebi = e /\ up' = up /\ pgw' = pgw
    BY <1>1 DEF CreateFx
  <2>2. \A x \in stored : ses[x].ebi = e /\ x \in InMaking => x \in overtaken'
    BY <1>0, <1>1, MakingIs DEF CreateFx
  <2>3. made + 1 \in Sids /\ made + 1 \notin 1..made /\ o # made + 1
    BY <1>0, <1>1 DEF CreateFx
  <2>4. InMaking' = InMaking \cup {made + 1}
    BY <1>a, <2>0, <2>3, MakingMoves
  <2>5. Evicted \subseteq Evicted' /\ (o \in Sids => o \in Evicted')
    BY <1>0, <1>c, <2>0, EvictedMoves
  <2>6. Gone(h)
    BY <2>1, <2>2 DEF Gone
  <2>7. OnePerBearer'
    <3>1. \A s, t \in stored : ses[s].ebi = ses[t].ebi => s = t
      BY DEF Tidy, OnePerBearer
    <3>2. \A x \in stored' : x # made + 1 => x \in stored /\ ses[x].ebi # e /\ ses'[x].ebi = ses[x].ebi
      BY <1>0, <2>1
    <3>. QED  BY <2>1, <3>1, <3>2 DEF OnePerBearer
  <2>8. ASSUME NEW s \in stored, ses[s].ebi = e, s \notin InMaking
        PROVE  s \in Evicted' /\ s = o /\ l = "evictPgw" /\ ses[s].bound = TRUE
    <3>1. ses[s].bound = TRUE /\ ses[s].pgw = TRUE
      BY <2>8 DEF Tidy, Settled
    <3>2. \A x \in stored : ses[x].ebi = e => x = s
      BY <2>8 DEF Tidy, OnePerBearer
    <3>. QED  BY <1>0, <2>0, <2>5, <2>8, <3>1, <3>2 DEF Evicts
  <2>9. ASSUME NEW s \in 1..made', s \notin 1..made \/ Leaves(h, s) PROVE Clean(s)'
    <3>1. CASE s \notin 1..made
      <4>1. s = made + 1
        BY <1>0, <2>1, <3>1
      <4>. QED  BY <2>1, <4>1 DEF Clean
    <3>2. CASE s \in stored /\ s \notin stored'
      BY <2>1, <2>4, <2>8, <3>2 DEF Clean
    <3>. QED  BY <2>0, <2>4, <2>5, <2>9, <3>1, <3>2 DEF Leaves
  <2>10. \A s \in stored' : s \notin stored \/ (s \in InMaking /\ s \notin InMaking') => Settled(s)'
    BY <2>1, <2>4 DEF Settled
  <2>11. Stage(h)'
    <3>1. pc'[h] = l /\ cur'[h] = made + 1 /\ old'[h] = o /\ made + 1 \in stored'
      BY <2>0, <2>1 DEF Turns
    <3>2. up'[made + 1] = NoUp /\ made + 1 \notin pgw'
      BY <1>0, <2>1, <2>3 DEF Roles, UpSound
    <3>3. l # "establish" => o \in stored /\ ses[o].ebi = e /\ o \in 1..made
      BY <1>0, <2>0 DEF Evicts, Before
    <3>4. l = "evictPgw" /\ o \notin overtaken' => ses'[o].bound = TRUE /\ o \notin InMaking'
      BY <2>1, <2>2, <2>3, <2>4, <2>8, <3>3
    <3>5. l = "evictUp" => o \in overtaken'
      BY <2>2, <2>8, <3>3
    <3>. QED  BY <3>1, <3>2, <3>4, <3>5 DEF Stage, Before
  <2>. QED  BY <2>6, <2>7, <2>9, <2>10, <2>11 DEF Home
<1>2. CASE EvictPgwFx(h)
  <2>1. Making(h) /\ cur[h] \in 1..made /\ old[h] \in 1..made /\ old[h] # cur[h]
    BY <1>2, <1>a DEF EvictPgwFx, Making, Creating, Frames, Role
  <2>2. PgwCut(old[h]) /\ UNCHANGED <<made, stored, ses, up, overtaken, failUp>> /\ pc[h] = "evictPgw"
    BY <1>2 DEF EvictPgwFx
  <2>3. CASE Turns(h, "evictUp", cur[h], old[h])
    <3>1. InMaking' = InMaking
      BY <1>a, <2>1, <2>3, MakingMoves DEF Creating
    <3>2. Stage(h)'
      BY <1>a, <2>1, <2>2, <2>3, <3>1 DEF Turns, Stage, Before, PgwCut, Making, Creating
    <3>. QED  BY <1>b, <2>1, <2>2, <2>3, <3>2, Continues DEF Creating
  <2>4. CASE Turns(h, "establish", cur[h], NoSid) /\ ~ses[old[h]].bound
    <3>1. InMaking' = InMaking
      BY <1>a, <2>1, <2>4, MakingMoves DEF Creating
    <3>2. Stage(h)'
      BY <1>a, <2>1, <2>2, <2>4 DEF Turns, Stage, Before, PgwCut, Making, Creating
    <3>3. old[h] \in overtaken
      BY <1>a, <2>2, <2>4 DEF Stage
    <3>4. \A t \in Sids : t \in Evicted => t \in Evicted' \/ t = old[h]
      BY <2>4, EvictedMoves
    <3>5. cur[h] \in InMaking
      BY <1>0, <2>1 DEF InMaking
    <3>6. OnePerBearer'
      BY <1>b, <2>2, FewerBearers
    <3>. QED  BY <1>0, <1>c, <2>2, <3>1, <3>2, <3>3, <3>4, <3>5, <3>6 DEF Home, Gone, Leaves, Clean
  <2>. QED  BY <1>2, <2>3, <2>4 DEF EvictPgwFx
<1>3. CASE EvictUpFx(h)
  <2>1. Making(h) /\ cur[h] \in 1..made /\ old[h] \in 1..made /\ old[h] # cur[h]
    BY <1>3, <1>a DEF EvictUpFx, Making, Creating, Frames, Role
  <2>2. /\ UpCut(old[h]) /\ UNCHANGED <<made, stored, ses, pgw, overtaken, failPgw>> /\ pc[h] = "evictUp"
        /\ Turns(h, "establish", cur[h], NoSid)
    BY <1>3 DEF EvictUpFx
  <2>3. InMaking' = InMaking
    BY <1>a, <2>1, <2>2, MakingMoves DEF Creating
  <2>4. Stage(h)'
    BY <1>0, <1>a, <2>1, <2>2 DEF Turns, Stage, Before, UpCut, Making, Creating
  <2>5. \A t \in Sids : t \in Evicted => t \in Evicted' \/ t = old[h]
    BY <2>2, EvictedMoves
  <2>6. ASSUME NEW s \in 1..made', Leaves(h, s) PROVE Clean(s)'
    <3>1. CASE s = cur[h]
      BY <1>0, <2>1, <2>3, <3>1 DEF InMaking, Clean
    <3>2. CASE s = old[h]
      <4>1. s \in overtaken \/ (s \in pgw => s \in failPgw)
        BY <1>a, <2>2, <3>2 DEF Stage
      <4>2. up'[s] = NoUp \/ s \in failUp'
        BY <2>2, <3>2 DEF UpCut
      <4>. QED  BY <2>2, <4>1, <4>2 DEF Clean
    <3>. QED  BY <1>c, <2>2, <2>3, <2>5, <2>6, <3>1, <3>2 DEF Leaves
  <2>7. OnePerBearer'
    BY <1>b, <2>2, FewerBearers
  <2>. QED  BY <2>2, <2>3, <2>4, <2>6, <2>7 DEF Home, Gone
<1>4. CASE QuitFx(h)
  <2>1. Making(h) /\ cur[h] \in 1..made /\ old[h] = NoSid
    BY <1>4, <1>a DEF QuitFx, Making, Creating, Frames, Role
  <2>2. /\ Turns(h, "idle", NoSid, NoSid) /\ stored' = stored \ {cur[h]}
        /\ UNCHANGED <<made, ses, pgw, overtaken, failPgw>> /\ pc[h] \in {"establish", "undoUp"}
    BY <1>4 DEF QuitFx
  <2>3. InMaking' = InMaking \ {cur[h]}
    BY <1>a, <2>1, <2>2, MakingMoves DEF Creating
  <2>4. Stage(h)'
    BY <2>2 DEF Turns, Stage, Before, Making, Creating
  <2>5. Evicted \subseteq Evicted'
    BY <1>0, <1>c, <2>1, <2>2, EvictedMoves
  <2>6. ASSUME NEW s \in 1..made', Leaves(h, s) PROVE Clean(s)'
    <3>1. s = cur[h]
      BY <2>2, <2>3, <2>5, <2>6 DEF Leaves
    <3>2. up'[s] = NoUp \/ s \in failUp'
      BY <1>4, <1>a, <3>1 DEF QuitFx, Stage, Before
    <3>3. s \in pgw => s \in failPgw
      BY <1>a, <2>2, <3>1 DEF Stage, Before
    <3>. QED  BY <2>2, <3>2, <3>3 DEF Clean
  <2>7. OnePerBearer'
    BY <1>b, <2>2, FewerBearers
  <2>. QED  BY <2>1, <2>2, <2>3, <2>4, <2>6, <2>7 DEF Home, Gone
<1>5. CASE EstablishFx(h)
  <2>1. Making(h) /\ Turns(h, "s5c", cur[h], old[h]) /\ UNCHANGED <<made, stored, ses, pgw, overtaken, failUp, failPgw>>
    BY <1>5 DEF EstablishFx, Making, Creating
  <2>2. Stage(h)'
    BY <1>5, <1>a, <2>1 DEF EstablishFx, Turns, Stage, Before, Making, Creating
  <2>. QED  BY <1>b, <2>1, <2>2, Continues DEF Creating
<1>6. CASE NotAtPgwFx(h)
  <2>1. Making(h) /\ Turns(h, "undoUp", cur[h], old[h]) /\ UNCHANGED <<made, stored, ses, up, overtaken, failUp>>
    BY <1>6 DEF NotAtPgwFx, Making, Creating
  <2>2. Stage(h)'
    BY <1>6, <1>a, <2>1 DEF NotAtPgwFx, Turns, Stage, Before, Making, Creating
  <2>. QED  BY <1>b, <2>1, <2>2, Continues DEF Creating
<1>7. CASE AtPgwFx(h)
  <2>1. Making(h) /\ UNCHANGED <<made, stored, up, overtaken, failUp, failPgw>>
    BY <1>7 DEF AtPgwFx, Making, Creating
  <2>2. PICK l \in {"uplink", "bind"} : Turns(h, l, cur[h], old[h])
    BY <1>7 DEF AtPgwFx
  <2>3. Stage(h)'
    BY <1>7, <1>a, <2>1, <2>2 DEF AtPgwFx, Fields, Turns, Stage, Before, Making, Creating
  <2>. QED  BY <1>b, <2>1, <2>2, <2>3, Continues DEF Creating
<1>8. CASE UplinkFx(h)
  <2>1. Making(h) /\ UNCHANGED <<made, stored, ses, pgw, overtaken, failUp, failPgw>>
    BY <1>8 DEF UplinkFx, Making, Creating
  <2>2. PICK l \in {"bind", "undoPgw"} : Turns(h, l, cur[h], old[h])
    BY <1>8 DEF UplinkFx
  <2>3. Stage(h)'
    BY <1>8, <1>a, <2>1, <2>2 DEF UplinkFx, Turns, Stage, Before, Making, Creating
  <2>. QED  BY <1>b, <2>1, <2>2, <2>3, Continues DEF Creating
<1>9. CASE UndoPgwFx(h)
  <2>1. Making(h) /\ Turns(h, "undoUp", cur[h], old[h]) /\ UNCHANGED <<made, stored, ses, up, overtaken, failUp>>
    BY <1>9 DEF UndoPgwFx, Making, Creating
  <2>2. Stage(h)'
    BY <1>9, <1>a, <2>1 DEF UndoPgwFx, PgwCut, Turns, Stage, Before, Making, Creating
  <2>. QED  BY <1>b, <2>1, <2>2, Continues DEF Creating
<1>10. CASE BindFx(h)
  <2>1. Making(h) /\ cur[h] \in 1..made /\ old[h] = NoSid
    BY <1>10, <1>a DEF BindFx, Making, Creating, Frames, Role
  <2>2. /\ Turns(h, "idle", NoSid, NoSid) /\ UNCHANGED <<made, stored, up, pgw, overtaken, failUp, failPgw>>
        /\ pc[h] = "bind" /\ ses'[cur[h]].bound = TRUE /\ ses'[cur[h]].pgw = ses[cur[h]].pgw
    BY <1>10 DEF BindFx, Fields
  <2>3. InMaking' = InMaking \ {cur[h]}
    BY <1>a, <2>1, <2>2, MakingMoves DEF Creating
  <2>4. Stage(h)'
    BY <2>2 DEF Turns, Stage, Before, Making, Creating
  <2>5. Evicted \subseteq Evicted'
    BY <1>0, <1>c, <2>1, <2>2, EvictedMoves
  <2>6. ASSUME NEW s \in 1..made', Leaves(h, s) PROVE Clean(s)'
    <3>1. s = cur[h]
      BY <2>2, <2>3, <2>5, <2>6 DEF Leaves
    <3>2. s \in stored' \/ s \in overtaken'
      BY <1>a, <2>1, <2>2, <3>1 DEF Stage
    <3>. QED  BY <3>2 DEF Clean
  <2>7. OnePerBearer'
    BY <1>b, <2>2, FewerBearers
  <2>8. ASSUME NEW s \in stored', s \notin stored \/ (s \in InMaking /\ s \notin InMaking') PROVE Settled(s)'
    <3>1. s = cur[h]
      BY <2>2, <2>3, <2>8
    <3>2. ses'[s].bound = TRUE /\ ses'[s].pgw = TRUE
      BY <1>a, <2>2, <3>1 DEF Stage
    <3>. QED  BY <3>2 DEF Settled
  <2>. QED  BY <2>2, <2>4, <2>6, <2>7, <2>8 DEF Home, Gone
<1>11. ASSUME NEW s \in stored, DeleteFx(h, s) PROVE Home(h)
  <2>1. ~Making(h) /\ UNCHANGED <<made, stored, up, pgw, failUp, failPgw>>
    BY <1>11 DEF DeleteFx, Making, Creating
  <2>2. PICK l \in {"dsPgw", "dsUp"} : Turns(h, l, s, old[h]) /\ (l = "dsUp" => ~ses[s].pgw)
    BY <1>11 DEF DeleteFx
  <2>3. InMaking' = InMaking
    BY <1>a, <2>1, <2>2, MakingMoves DEF Creating
  <2>4. s \in InMaking => s \in overtaken'
    BY <1>0, <1>11, MakingIs DEF DeleteFx
  <2>5. s \notin InMaking => ses[s].bound = TRUE /\ ses[s].pgw = TRUE
    BY DEF Tidy, Settled
  <2>6. ses'[s].bound = ses[s].bound
    BY <1>11 DEF DeleteFx, Fields
  <2>7. Stage(h)'
    BY <2>2, <2>3, <2>4, <2>5, <2>6 DEF Turns, Stage, Before, Making, Creating
  <2>. QED  BY <1>b, <2>1, <2>2, <2>7, Outside DEF Creating
<1>12. CASE DeletePgwFx(h)
  <2>1. /\ ~Making(h) /\ pc[h] = "dsPgw" /\ UNCHANGED <<made, stored, ses, up, overtaken, failUp, failPgw>>
    BY <1>12 DEF DeletePgwFx, Making, Creating
  <2>2. CASE Turns(h, "dsUp", cur[h], old[h]) /\ cur[h] \notin pgw'
    <3>1. InMaking' = InMaking
      BY <1>a, <2>1, <2>2, MakingMoves DEF Creating
    <3>2. Stage(h)'
      BY <1>a, <2>1, <2>2, <3>1 DEF Turns, Stage, Before, Making, Creating
    <3>. QED  BY <1>b, <2>1, <2>2, <3>2, Outside DEF Creating
  <2>3. CASE Turns(h, "idle", NoSid, NoSid)
    <3>1. Stage(h)'
      BY <2>3 DEF Turns, Stage, Before, Making, Creating
    <3>. QED  BY <1>b, <2>1, <2>3, <3>1, Outside DEF Creating
  <2>. QED  BY <1>12, <2>2, <2>3 DEF DeletePgwFx
<1>13. CASE DeleteUpFx(h)
  <2>1. ~Making(h) /\ cur[h] \in 1..made /\ old[h] = NoSid
    BY <1>13, <1>a DEF DeleteUpFx, Making, Creating, Frames, Role
  <2>2. /\ Turns(h, "idle", NoSid, NoSid) /\ stored' = stored \ {cur[h]}
        /\ UNCHANGED <<made, ses, pgw, overtaken, failPgw>> /\ pc[h] = "dsUp"
    BY <1>13 DEF DeleteUpFx
  <2>3. InMaking' = InMaking
    BY <1>a, <2>1, <2>2, MakingMoves DEF Creating
  <2>4. Stage(h)'
    BY <2>2 DEF Turns, Stage, Before, Making, Creating
  <2>5. Evicted \subseteq Evicted'
    BY <1>0, <1>c, <2>1, <2>2, EvictedMoves
  <2>6. ASSUME NEW s \in 1..made', Leaves(h, s) PROVE Clean(s)'
    <3>1. s = cur[h]
      BY <2>1, <2>2, <2>3, <2>5, <2>6 DEF Leaves
    <3>2. s \in overtaken \/ (ses[s].bound = TRUE /\ s \notin pgw)
      BY <1>a, <2>2, <3>1 DEF Stage
    <3>3. ses[s].bound = TRUE => up'[s] = NoUp \/ s \in failUp'
      BY <1>13, <3>1 DEF DeleteUpFx, UpCut
    <3>. QED  BY <2>2, <3>2, <3>3 DEF Clean
  <2>7. OnePerBearer'
    BY <1>b, <2>2, FewerBearers
  <2>8. Gone(h)
    BY <1>a, <2>2 DEF Gone, Stage
  <2>. QED  BY <2>2, <2>3, <2>4, <2>6, <2>7, <2>8 DEF Home
<1>14. ASSUME NEW l \in Quiet, NEW s \in 0..made, CalmFx(h, l, s) PROVE Home(h)
  <2>1. ~Making(h) /\ l \notin Creating /\ UNCHANGED <<made, stored>>
    BY <1>14 DEF CalmFx, Making, Creating, Quiet
  <2>2. PICK o \in {old[h], NoSid} : Turns(h, l, s, o)
    BY <1>14 DEF CalmFx
  <2>3. Stage(h)'
    BY <2>2 DEF Turns, Stage, Before, Making, Creating, Quiet
  <2>. QED  BY <1>b, <2>1, <2>2, <2>3, Outside
<1>. QED  BY <1>1, <1>2, <1>3, <1>4, <1>5, <1>6, <1>7, <1>8, <1>9, <1>10, <1>11, <1>12, <1>13, <1>14 DEF Effect

-----------------------------------------------------------------------------
(* The invariant of sessions and legs.                                     *)

\* The inductive invariant of sessions and legs.
SessionInv == TypeInv /\ Roles /\ Legs /\ Tidy

\* It holds initially.
LEMMA SessionInit == Init => SessionInv
BY TypeInit, RolesInit, LegsInit, TidyInit DEF SessionInv

\* Every step keeps it.
LEMMA SessionStep ==
    ASSUME SessionInv, [Next]_vars
    PROVE  SessionInv'
<1>. TypeInv /\ Roles /\ Legs /\ Tidy
  BY DEF SessionInv
<1>1. TypeInv'
  BY TypeStep
<1>2. CASE UNCHANGED vars
  <2>1. Roles'
    BY <1>2 DEF Roles, Role, OneMaker, UpSound, Making, vars, hVars, hist, Sids
  <2>2. Legs'
    BY <1>2 DEF Legs, Leg, Untouched, ActiveWhole, Making, vars, hVars, hist
  <2>3. InMaking' = InMaking /\ Evicted' = Evicted
    BY <1>2 DEF InMaking, Evicted, Making, vars, hVars
  <2>4. Tidy'
    BY <1>2, <2>3 DEF Tidy, Clean, OnePerBearer, Settled, Stage, Making, vars, hVars, hist
  <2>. QED  BY <1>1, <2>1, <2>2, <2>4 DEF SessionInv
<1>3. CASE Next
  <2>1. PICK h \in Handlers : Step(h) \/ Requests(h)
    BY <1>3 DEF Next
  <2>2. Effect(h)
    BY <2>1, Effects
  <2>. QED  BY <1>1, <2>2, RolesStep, LegsStep, TidyStep DEF SessionInv
<1>. QED  BY <1>2, <1>3

\* It always holds.
LEMMA SessionInvariant == Spec => []SessionInv
<1>1. Init => SessionInv
  BY SessionInit
<1>2. SessionInv /\ [Next]_vars => SessionInv'
  BY SessionStep
<1>. QED  BY <1>1, <1>2, PTL DEF Spec

\* ActiveHasLegs always holds, for any number of handlers, bearers, sessions and
\* failures: an Active session of the store has its PFCP binding and both legs
\* (R15-001).
THEOREM ActiveHasLegsHolds == Spec => []ActiveHasLegs
<1>1. SessionInv => ActiveHasLegs
  BY DEF SessionInv, Legs, ActiveWhole, ActiveHasLegs
<1>. QED  BY <1>1, SessionInvariant, PTL

\* NothingLeaked always holds: a leg without a session is on record as failed, or its
\* session was overtaken while it was being created.
THEOREM NothingLeakedHolds == Spec => []NothingLeaked
<1>1. ASSUME SessionInv PROVE NothingLeaked
  <2>1. \A s \in 1..made : Clean(s)
    BY <1>1 DEF SessionInv, Tidy
  <2>2. \A s \in 1..made : (InCreation(s) <=> s \in InMaking) /\ (InEviction(s) <=> s \in Evicted)
    BY <1>1, MakingIs DEF SessionInv
  <2>. QED  BY <2>1, <2>2 DEF NothingLeaked, Clean
<1>. QED  BY <1>1, SessionInvariant, PTL

\* The store never holds two sessions for one default bearer: Manager.Create replaces
\* the session of the same PDN connection, whatever runs beside it.
THEOREM OneSessionPerBearer == Spec => []OnePerBearer
<1>1. SessionInv => OnePerBearer
  BY DEF SessionInv, Tidy
<1>. QED  BY <1>1, SessionInvariant, PTL

-----------------------------------------------------------------------------
(* The downlink.                                                           *)

\* Handler h serves Modify Bearer or Release Access Bearers.
Busy(h) == pc[h] \in {"mb", "mbSent", "rab"}
\* One handler at a time does.
Serial  == \A g, h \in Handlers : Busy(g) /\ Busy(h) => g = h

\* The sessions whose downlink was sent and not answered.
SentTo  == {s \in Sids : \E h \in Handlers : pc[h] = "mbSent" /\ cur[h] = s}
\* The sessions whose downlink a Release Access Bearers under way has dropped.
Dropped == {s \in Sids : \E h \in Handlers : pc[h] = "rab" /\ s \in list[h] /\ s \notin todo[h]}

\* Before the PFCP binding there is no eNodeB on either side.
Bare(s)    == ses[s].bound = FALSE => ses[s].enb = NoENB /\ up[s].dl = NoENB
\* A downlink dropped on the way stays dropped.
Dark(s)    == s \in Dropped => up[s].dl = NoENB
\* SGW-C and SGW-U agree on the eNodeB, but for those and the unsure ones.
Agree(s)   == ses[s].bound = TRUE /\ up[s] # NoUp /\ s \notin unsure /\ s \notin SentTo /\ s \notin Dropped
                => up[s].dl = ses[s].enb
\* While the answer is out SGW-C has the new eNodeB and SGW-U the one kept for the
\* way back.
Waiting(h) == pc[h] = "mbSent" => /\ ses[cur[h]].enb = enb[h]
                                  /\ up[cur[h]] # NoUp /\ cur[h] \notin unsure => up[cur[h]].dl = prev[h]

\* The inductive invariant behind DownlinkAgrees.
Downlink ==
    /\ Serial
    /\ \A s \in 1..made : Bare(s) /\ Dark(s) /\ Agree(s)
    /\ \A h \in Handlers : Waiting(h)

\* It holds initially.
LEMMA DownlinkInit == Init => Downlink
<1>1. Init => 1..made = {} /\ \A h \in Handlers : pc[h] = "idle"
  BY DEF Init
<1>. QED  BY <1>1 DEF Downlink, Serial, Busy, Waiting

\* The steps of Create Session and Delete Session.
SessionStepOf(h) ==
    \/ \E e \in EBIs : CreateSession(h, e) \/ DeleteSession(h, e)
    \/ EvictPgw(h) \/ EvictUp(h) \/ NoPgw(h) \/ Establish(h) \/ NoS5CTEID(h)
    \/ CreateAtPgw(h) \/ ModifyUplinkFAR(h) \/ UndoPgw(h) \/ UndoUp(h) \/ Bind(h)
    \/ DeletePgw(h) \/ DeleteUp(h)

\* What they do to the downlink: none sets an eNodeB, and a bound session keeps its
\* FAR or loses its PFCP session.
Aside(h) ==
    /\ UNCHANGED unsure /\ ~Busy(h) /\ pc'[h] \notin {"mb", "mbSent", "rab"}
    /\ \A g \in Handlers : g # h => /\ pc'[g] = pc[g] /\ cur'[g] = cur[g] /\ enb'[g] = enb[g]
                                    /\ prev'[g] = prev[g] /\ list'[g] = list[g] /\ todo'[g] = todo[g]
    /\ \A s \in 1..made :
        /\ ses'[s].enb = ses[s].enb
        /\ ses'[s].bound = FALSE => ses[s].bound = FALSE
        /\ up'[s].dl \in {up[s].dl, NoENB}
        /\ ses[s].bound = TRUE /\ up'[s] # NoUp => up'[s] = up[s]
        /\ ses[s].bound = FALSE /\ ses'[s].bound = TRUE => up'[s] = up[s]
    /\ \A s \in 1..made' : s \notin 1..made =>
        ses'[s].bound = FALSE /\ ses'[s].enb = NoENB /\ up'[s] = NoUp

\* They leave the locals of the other handlers alone.
LEMMA Locals ==
    ASSUME TypeInv, NEW h \in Handlers, Return(h) \/ UNCHANGED <<enb, prev, list, todo>>, NEW g \in Handlers, g # h
    PROVE  enb'[g] = enb[g] /\ prev'[g] = prev[g] /\ list'[g] = list[g] /\ todo'[g] = todo[g]
BY DEF TypeInv, TypeOK, Return

\* They do just that.
LEMMA Asides ==
    ASSUME TypeInv, Roles, NEW h \in Handlers, SessionStepOf(h)
    PROVE  Aside(h)
<1>. TypeOK /\ Frames
  BY DEF TypeInv
<1>0. made \in Nat /\ 1..made \subseteq Sids
  BY Types
<1>a. Role(h) /\ UpSound
  BY DEF Roles
<1>b. NoUp.dl = NoENB /\ Provisional.dl = NoENB
  BY DEF NoUp, Provisional
<1>c. Making(h) => cur[h] \in 1..made /\ ses[cur[h]].bound = FALSE
  BY <1>a DEF Role, Frames, Making
<1>1. unsure' = unsure /\ (Return(h) \/ UNCHANGED <<enb, prev, list, todo>>)
  BY DEF SessionStepOf, CreateSession, DeleteSession, EvictPgw, EvictUp, NoPgw, Establish, NoS5CTEID,
     CreateAtPgw, ModifyUplinkFAR, UndoPgw, UndoUp, Bind, DeletePgw, DeleteUp, hist
<1>2. pc[h] \notin Quiet \/ \E e \in EBIs : CreateSession(h, e) \/ DeleteSession(h, e)
  BY DEF SessionStepOf, EvictPgw, EvictUp, NoPgw, Establish, NoS5CTEID,
     CreateAtPgw, ModifyUplinkFAR, UndoPgw, UndoUp, Bind, DeletePgw, DeleteUp, Quiet
<1>3. Effect(h)
  BY Effects DEF SessionStepOf, Step, Requests
<1>4. pc[h] \in Quiet => pc'[h] \notin Quiet
  <2>1. ASSUME NEW e \in EBIs, CreateSession(h, e) PROVE pc'[h] \notin Quiet
    <3>1. \E x : pc' = [pc EXCEPT ![h] = AfterCreate(x)]
      BY <2>1 DEF CreateSession, Goto
    <3>2. \A x : AfterCreate(x) \in Before
      BY DEF AfterCreate, Before
    <3>. QED  BY <3>1, <3>2 DEF TypeOK, Before, Quiet
  <2>2. ASSUME NEW e \in EBIs, DeleteSession(h, e) PROVE pc'[h] \notin Quiet
    BY <2>2 DEF DeleteSession, Goto, TypeOK, Quiet
  <2>. QED  BY <1>2, <2>1, <2>2
<1>5. \A g \in Handlers : g # h => enb'[g] = enb[g] /\ prev'[g] = prev[g] /\ list'[g] = list[g] /\ todo'[g] = todo[g]
  BY <1>1, Locals
<1>6. Gentle(h)
  BY <1>3, Gentles
<1>. DEFINE Far == /\ \A s \in 1..made :
                      /\ ses'[s].enb = ses[s].enb
                      /\ ses'[s].bound = FALSE => ses[s].bound = FALSE
                      /\ up'[s].dl \in {up[s].dl, NoENB}
                      /\ ses[s].bound = TRUE /\ up'[s] # NoUp => up'[s] = up[s]
                      /\ ses[s].bound = FALSE /\ ses'[s].bound = TRUE => up'[s] = up[s]
                   /\ \A s \in 1..made' : s \notin 1..made =>
                      ses'[s].bound = FALSE /\ ses'[s].enb = NoENB /\ up'[s] = NoUp
            Out == pc[h] \notin {"mb", "mbSent", "rab"} /\ pc'[h] \notin {"mb", "mbSent", "rab"}
<1>7. Far /\ Out
  <2>1. ASSUME NEW e \in EBIs, NEW l \in Before, NEW o \in 0..made, CreateFx(h, e, l, o) PROVE Far /\ Out
    <3>1. Out
      BY <2>1 DEF CreateFx, Turns, Before
    <3>2. \A s \in 1..made' : s \notin 1..made => s = made + 1 /\ up[s] = NoUp
      BY <1>0, <1>a, <2>1 DEF CreateFx, UpSound
    <3>. QED  BY <2>1, <3>1, <3>2 DEF CreateFx
  <2>2. CASE EvictPgwFx(h)
    BY <2>2 DEF EvictPgwFx, Turns
  <2>3. CASE EvictUpFx(h)
    BY <1>0, <1>b, <2>3 DEF EvictUpFx, UpCut, Turns
  <2>4. CASE QuitFx(h)
    <3>1. cur[h] \in 1..made /\ ses[cur[h]].bound = FALSE
      BY <1>c, <2>4 DEF QuitFx, Making, Creating
    <3>. QED  BY <1>0, <1>b, <2>4, <3>1 DEF QuitFx, Turns
  <2>5. CASE EstablishFx(h)
    <3>1. cur[h] \in 1..made /\ ses[cur[h]].bound = FALSE
      BY <1>c, <2>5 DEF EstablishFx, Making, Creating
    <3>. QED  BY <1>0, <1>b, <2>5, <3>1 DEF EstablishFx, Turns
  <2>6. CASE NotAtPgwFx(h)
    BY <2>6 DEF NotAtPgwFx, Turns
  <2>7. CASE AtPgwFx(h)
    BY <2>7 DEF AtPgwFx, Turns, Kept, Fields
  <2>8. CASE UplinkFx(h)
    <3>1. cur[h] \in 1..made /\ ses[cur[h]].bound = FALSE
      BY <1>c, <2>8 DEF UplinkFx, Making, Creating
    <3>. QED  BY <1>0, <2>8, <3>1 DEF UplinkFx, Turns
  <2>9. CASE UndoPgwFx(h)
    BY <2>9 DEF UndoPgwFx, Turns
  <2>10. CASE BindFx(h)
    BY <2>10 DEF BindFx, Turns, Kept, Fields
  <2>11. ASSUME NEW s \in stored, DeleteFx(h, s) PROVE Far /\ Out
    <3>1. Out
      BY <2>11 DEF DeleteFx, Turns
    <3>. QED  BY <2>11, <3>1 DEF DeleteFx, Kept, Fields
  <2>12. CASE DeletePgwFx(h)
    BY <2>12 DEF DeletePgwFx, Turns
  <2>13. CASE DeleteUpFx(h)
    <3>1. \A t \in Sids : up'[t] = up[t] \/ up'[t] = NoUp
      BY <2>13 DEF DeleteUpFx, UpCut
    <3>. QED  BY <1>0, <1>b, <2>13, <3>1 DEF DeleteUpFx, Turns
  <2>14. ASSUME NEW l \in Quiet, NEW s \in 0..made, CalmFx(h, l, s) PROVE FALSE
    BY <1>4, <2>14 DEF CalmFx, Turns
  <2>. HIDE DEF Far, Out
  <2>. QED  BY <1>3, <2>1, <2>2, <2>3, <2>4, <2>5, <2>6, <2>7, <2>8, <2>9, <2>10, <2>11, <2>12, <2>13, <2>14 DEF Effect
<1>. QED  BY <1>1, <1>5, <1>6, <1>7 DEF Aside, Gentle, Busy

\* So they keep Downlink.
LEMMA AsideDownlink ==
    ASSUME TypeInv, Roles, Downlink, NEW h \in Handlers, Aside(h)
    PROVE  Downlink'
<1>0. 1..made \subseteq Sids
  BY Types
<1>1. Serial'
  BY DEF Downlink, Serial, Busy, Aside
<1>2. SentTo' = SentTo /\ Dropped' = Dropped
  BY DEF SentTo, Dropped, Aside, Busy, Sids
<1>3. ASSUME NEW g \in Handlers PROVE Waiting(g)'
  <2>. SUFFICES ASSUME pc'[g] = "mbSent" PROVE Waiting(g)'
    BY DEF Waiting
  <2>1. /\ g # h /\ pc[g] = "mbSent" /\ cur'[g] = cur[g] /\ enb'[g] = enb[g] /\ prev'[g] = prev[g]
        /\ unsure' = unsure
    BY DEF Aside
  <2>2. cur[g] \in 1..made /\ ses[cur[g]].bound = TRUE /\ Waiting(g)
    BY <2>1 DEF TypeInv, Frames, Roles, Role, Downlink
  <2>3. ses'[cur[g]].enb = ses[cur[g]].enb /\ (up'[cur[g]] # NoUp => up'[cur[g]] = up[cur[g]])
    BY <2>2 DEF Aside
  <2>. QED  BY <2>1, <2>2, <2>3 DEF Waiting
<1>4. ASSUME NEW s \in 1..made' PROVE Bare(s)' /\ Dark(s)' /\ Agree(s)'
  <2>1. CASE s \notin 1..made
    <3>1. ses'[s].bound = FALSE /\ ses'[s].enb = NoENB /\ up'[s] = NoUp /\ NoUp.dl = NoENB
      BY <2>1 DEF Aside, NoUp
    <3>. QED  BY <3>1 DEF Bare, Dark, Agree
  <2>2. CASE s \in 1..made
    <3>1. Bare(s) /\ Dark(s) /\ Agree(s) /\ ses[s].bound \in BOOLEAN
      BY <2>2, SesFields DEF Downlink, TypeInv
    <3>2. /\ ses'[s].enb = ses[s].enb
          /\ ses'[s].bound = FALSE => ses[s].bound = FALSE
          /\ up'[s].dl \in {up[s].dl, NoENB}
          /\ ses[s].bound = TRUE /\ up'[s] # NoUp => up'[s] = up[s]
          /\ ses[s].bound = FALSE /\ ses'[s].bound = TRUE => up'[s] = up[s]
          /\ unsure' = unsure
      BY <2>2 DEF Aside
    <3>3. Bare(s)'
      BY <3>1, <3>2 DEF Bare
    <3>4. Dark(s)'
      BY <1>2, <3>1, <3>2 DEF Dark
    <3>5. Agree(s)'
      BY <1>2, <3>1, <3>2 DEF Agree, Bare
    <3>. QED  BY <3>3, <3>4, <3>5
  <2>. QED  BY <2>1, <2>2
<1>. QED  BY <1>1, <1>3, <1>4 DEF Downlink

\* With one handler busy, what is sent and what is dropped is its doing.
LEMMA OnlyBusy ==
    ASSUME TypeInv, NEW h \in Handlers, \A g \in Handlers : g # h => ~Busy(g)
    PROVE  /\ pc[h] = "mbSent" => SentTo = {cur[h]}
           /\ pc[h] # "mbSent" => SentTo = {}
           /\ pc[h] = "rab" => Dropped = list[h] \ todo[h]
           /\ pc[h] # "rab" => Dropped = {}
<1>1. 1..made \subseteq Sids
  BY Types
<1>2. pc[h] = "mbSent" => cur[h] \in Sids
  BY <1>1 DEF TypeInv, Frames
<1>3. pc[h] = "rab" => list[h] \subseteq Sids
  BY <1>1 DEF TypeInv, Frames
<1>4. pc[h] = "mbSent" => SentTo = {cur[h]}
  BY <1>2 DEF SentTo, Busy
<1>5. pc[h] # "mbSent" => SentTo = {}
  BY DEF SentTo, Busy
<1>6. pc[h] = "rab" => Dropped = list[h] \ todo[h]
  BY <1>3 DEF Dropped, Busy
<1>7. pc[h] # "rab" => Dropped = {}
  BY DEF Dropped, Busy
<1>. QED  BY <1>4, <1>5, <1>6, <1>7

\* A step of h during which no other handler is busy.
SerialStep(h) ==
    /\ \A g \in Handlers : g # h => pc[g] \notin {"mb", "mbSent", "rab"} /\ pc'[g] \notin {"mb", "mbSent", "rab"}
    /\ made' = made

\* What is to be shown of such a step.
LEMMA SerialDownlink ==
    ASSUME TypeInv, TypeInv', NEW h \in Handlers, SerialStep(h), Waiting(h)',
           \A s \in 1..made : Bare(s)' /\ Dark(s)' /\ Agree(s)'
    PROVE  Downlink'
<1>1. Serial' /\ \A g \in Handlers : Waiting(g)'
  BY DEF SerialStep, Serial, Busy, Waiting
<1>. QED  BY <1>1 DEF SerialStep, Downlink

\* What is sent and dropped before and after such a step.
LEMMA SerialSets ==
    ASSUME TypeInv, TypeInv', NEW h \in Handlers, SerialStep(h)
    PROVE  /\ pc[h] = "mbSent" => SentTo = {cur[h]}
           /\ pc[h] # "mbSent" => SentTo = {}
           /\ pc[h] = "rab" => Dropped = list[h] \ todo[h]
           /\ pc[h] # "rab" => Dropped = {}
           /\ pc'[h] = "mbSent" => SentTo' = {cur'[h]}
           /\ pc'[h] # "mbSent" => SentTo' = {}
           /\ pc'[h] = "rab" => Dropped' = list'[h] \ todo'[h]
           /\ pc'[h] # "rab" => Dropped' = {}
<1>1. \A g \in Handlers : g # h => ~Busy(g)
  BY DEF SerialStep, Busy
<1>2. \A g \in Handlers : g # h => ~Busy(g)'
  BY DEF SerialStep, Busy
<1>3. /\ pc[h] = "mbSent" => SentTo = {cur[h]}
      /\ pc[h] # "mbSent" => SentTo = {}
      /\ pc[h] = "rab" => Dropped = list[h] \ todo[h]
      /\ pc[h] # "rab" => Dropped = {}
  BY <1>1, OnlyBusy
<1>4. (/\ pc[h] = "mbSent" => SentTo = {cur[h]}
       /\ pc[h] # "mbSent" => SentTo = {}
       /\ pc[h] = "rab" => Dropped = list[h] \ todo[h]
       /\ pc[h] # "rab" => Dropped = {})'
  <2>1. 1..made' \subseteq Sids
    BY Types DEF SerialStep
  <2>2. pc'[h] = "mbSent" => cur'[h] \in Sids
    BY <2>1 DEF TypeInv, Frames
  <2>3. pc'[h] = "rab" => list'[h] \subseteq Sids
    BY <2>1 DEF TypeInv, Frames
  <2>4. pc'[h] = "mbSent" => SentTo' = {cur'[h]}
    BY <1>2, <2>2 DEF SentTo, Busy, Sids
  <2>5. pc'[h] # "mbSent" => SentTo' = {}
    BY <1>2 DEF SentTo, Busy
  <2>6. pc'[h] = "rab" => Dropped' = list'[h] \ todo'[h]
    BY <1>2, <2>3 DEF Dropped, Busy, Sids
  <2>7. pc'[h] # "rab" => Dropped' = {}
    BY <1>2 DEF Dropped, Busy
  <2>. QED  BY <2>4, <2>5, <2>6, <2>7
<1>. QED  BY <1>3, <1>4

\* The steps of Modify Bearer and Release Access Bearers.
AccessStepOf(h) ==
    \/ \E E \in SUBSET EBIs \ {{}}, n \in ENBs : ModifyBearer(h, E, n)
    \/ ReleaseAccess(h)
    \/ ModifyContext(h) \/ ModifyAnswer(h) \/ ModifyReturn(h) \/ ReleaseSession(h) \/ ReleaseReturn(h)

\* With an MME that waits, no other handler is busy during them.
LEMMA AccessSerial ==
    ASSUME MmeSerial, TypeInv, Downlink, NEW h \in Handlers, AccessStepOf(h)
    PROVE  SerialStep(h)
<1>1. made' = made
  BY DEF AccessStepOf, ModifyBearer, ReleaseAccess, ModifyContext, ModifyAnswer, ModifyReturn, ReleaseSession,
     ReleaseReturn
<1>2. Busy(h) \/ MmeFree
  BY DEF AccessStepOf, ModifyBearer, ReleaseAccess, ModifyContext, ModifyAnswer, ModifyReturn, ReleaseSession,
     ReleaseReturn, Busy
<1>3. \A g \in Handlers : g # h => ~Busy(g)
  BY <1>2 DEF MmeFree, Busy, Downlink, Serial
<1>4. (\E l : Goto(h, l)) \/ pc' = pc
  BY DEF AccessStepOf, ModifyBearer, ReleaseAccess, ModifyContext, ModifyAnswer, ModifyReturn, ReleaseSession,
     ReleaseReturn, Return
<1>5. \A g \in Handlers : g # h => pc'[g] = pc[g]
  BY <1>4 DEF Goto, TypeInv, TypeOK
<1>. QED  BY <1>1, <1>3, <1>5 DEF SerialStep, Busy

\* They keep Downlink.
LEMMA AccessDownlink ==
    ASSUME MmeSerial, TypeInv, TypeInv', Roles, Downlink, NEW h \in Handlers, AccessStepOf(h)
    PROVE  Downlink'
<1>. TypeOK /\ Frames
  BY DEF TypeInv
<1>0. made \in Nat /\ stored \subseteq 1..made /\ 1..made \subseteq Sids
  BY Types
<1>a. SerialStep(h)
  BY AccessSerial
<1>b. /\ pc[h] = "mbSent" => SentTo = {cur[h]}
      /\ pc[h] # "mbSent" => SentTo = {}
      /\ pc[h] = "rab" => Dropped = list[h] \ todo[h]
      /\ pc[h] # "rab" => Dropped = {}
  BY <1>a, SerialSets
<1>c. /\ pc'[h] = "mbSent" => SentTo' = {cur'[h]}
      /\ pc'[h] # "mbSent" => SentTo' = {}
      /\ pc'[h] = "rab" => Dropped' = list'[h] \ todo'[h]
      /\ pc'[h] # "rab" => Dropped' = {}
  BY <1>a, SerialSets
<1>d. \A s \in 1..made : Bare(s) /\ Dark(s) /\ Agree(s) /\ ses[s].bound \in BOOLEAN
  BY SesFields DEF Downlink
<1>e. Waiting(h) /\ Role(h)
  BY DEF Downlink, Roles
<1>. DEFINE Good == Waiting(h)' /\ \A s \in 1..made : Bare(s)' /\ Dark(s)' /\ Agree(s)'
<1>. SUFFICES Good
  BY <1>a, SerialDownlink
<1>1. ASSUME ses' = ses, up' = up, unsure' = unsure, pc[h] \in {"idle", "mb"}, pc'[h] \in {"idle", "mb"} PROVE Good
  <2>1. SentTo' = {} /\ Dropped' = {} /\ SentTo = {} /\ Dropped = {}
    BY <1>1, <1>b, <1>c
  <2>2. Waiting(h)'
    BY <1>1 DEF Waiting
  <2>3. \A s \in 1..made : Bare(s)' /\ Dark(s)' /\ Agree(s)'
    BY <1>1, <1>d, <2>1 DEF Bare, Dark, Agree
  <2>. QED  BY <2>2, <2>3
<1>2. ASSUME NEW E \in SUBSET EBIs, NEW n \in ENBs, ModifyBearer(h, E, n) PROVE Good
  BY <1>1, <1>2 DEF ModifyBearer, Goto, TypeOK, hist
<1>3. CASE ModifyReturn(h)
  BY <1>1, <1>3 DEF ModifyReturn, Return, Goto, TypeOK, hist
<1>4. CASE ReleaseAccess(h)
  <2>1. /\ pc[h] = "idle" /\ pc'[h] = "rab" /\ list'[h] = stored /\ todo'[h] = stored
        /\ ses' = ses /\ up' = up /\ unsure' = unsure
    BY <1>4 DEF ReleaseAccess, Goto, TypeOK, hist
  <2>2. SentTo' = {} /\ Dropped' = {} /\ SentTo = {} /\ Dropped = {}
    BY <2>1, <1>b, <1>c
  <2>3. Waiting(h)'
    BY <2>1 DEF Waiting
  <2>4. \A s \in 1..made : Bare(s)' /\ Dark(s)' /\ Agree(s)'
    BY <2>1, <1>d, <2>2 DEF Bare, Dark, Agree
  <2>. QED  BY <2>3, <2>4
<1>5. CASE ModifyContext(h)
  <2>. DEFINE e == Min(todo[h])
              s == OwnerOf(e)
  <2>1. /\ pc[h] = "mb"
        /\ IF s = NoSid \/ (s # NoSid /\ ~ses[s].bound)
           THEN UNCHANGED <<ses, pc>>
           ELSE /\ prev' = [prev EXCEPT ![h] = ses[s].enb]
                /\ ses' = [ses EXCEPT ![s].enb = enb[h]]
                /\ cur' = [cur EXCEPT ![h] = s]
                /\ pc' = [pc EXCEPT ![h] = "mbSent"]
        /\ UNCHANGED <<up, enb, unsure>>
    BY <1>5 DEF ModifyContext, Goto, hist
  <2>2. s # NoSid => s \in 1..made
    BY Owner
  <2>. HIDE DEF s, e
  <2>3. CASE UNCHANGED <<ses, pc>>
    BY <1>1, <2>1, <2>3
  <2>4. CASE /\ s # NoSid /\ ses[s].bound /\ prev' = [prev EXCEPT ![h] = ses[s].enb]
             /\ ses' = [ses EXCEPT ![s].enb = enb[h]]
             /\ cur' = [cur EXCEPT ![h] = s] /\ pc' = [pc EXCEPT ![h] = "mbSent"]
    <3>1. s \in 1..made /\ enb[h] \in ENBs \cup {NoENB} /\ ses[s].bound = TRUE
      BY <1>d, <2>2, <2>4 DEF TypeOK
    <3>2. Kept(s) /\ Fields(s, ses[s].st, ses[s].pgw, ses[s].bound, enb[h])
      BY <2>4, <3>1, SetEnb
    <3>3. pc'[h] = "mbSent" /\ cur'[h] = s /\ prev'[h] = ses[s].enb /\ enb' = enb
      BY <2>1, <2>4 DEF TypeOK
    <3>4. SentTo = {} /\ Dropped = {} /\ SentTo' = {s} /\ Dropped' = {}
      BY <1>b, <1>c, <2>1, <3>3
    <3>5. Waiting(h)'
      <4>1. up[s] # NoUp /\ s \notin unsure => up[s].dl = ses[s].enb
        BY <1>d, <3>1, <3>4 DEF Agree
      <4>2. ses'[s].enb = enb[h]
        BY <3>2 DEF Fields
      <4>. QED  BY <2>1, <3>3, <4>1, <4>2 DEF Waiting
    <3>6. ASSUME NEW t \in 1..made PROVE Bare(t)' /\ Dark(t)' /\ Agree(t)'
      <4>1. t # s => ses'[t] = ses[t]
        BY <3>2 DEF Kept
      <4>2. ses'[s].bound = TRUE
        BY <3>1, <3>2 DEF Fields
      <4>3. Bare(t) /\ Agree(t)
        BY <1>d
      <4>. QED  BY <2>1, <3>4, <4>1, <4>2, <4>3 DEF Bare, Dark, Agree
    <3>. QED  BY <3>5, <3>6
  <2>. QED  BY <2>1, <2>3, <2>4
<1>6. CASE ModifyAnswer(h)
  <2>. DEFINE f == [up[cur[h]] EXCEPT !.dl = enb[h]]
  <2>1. PICK o \in Outcomes :
          /\ ModifyAtUp(cur[h], f, o)
          /\ ses' = Restore(h, o)
          /\ unsure' = CASE o = "ok" -> unsure \ {cur[h]} [] o = "no" -> unsure [] OTHER -> unsure \cup {cur[h]}
    BY <1>6 DEF ModifyAnswer
  <2>2. pc[h] = "mbSent" /\ pc'[h] = "mb"
    BY <1>6 DEF ModifyAnswer, Goto, TypeOK
  <2>. PICK s \in 1..made : s = cur[h]
    BY <2>2 DEF Frames
  <2>3. s \in Sids /\ enb[h] \in ENBs \cup {NoENB} /\ prev[h] \in ENBs \cup {NoENB} /\ ses[s].bound = TRUE
    BY <1>0, <1>e, <2>2 DEF TypeOK, Role
  <2>4. f \in Fars /\ f.dl = enb[h]
    BY <2>3, FarFields
  <2>. HIDE DEF f
  <2>5. /\ \A t \in Sids : t # s => up'[t] = up[t]
        /\ up[s] = NoUp => o = "no"
        /\ up'[s] = (IF o # "no" THEN f ELSE up[s])
    BY <2>1, <2>3, <2>4, UpModified
  <2>6. SentTo = {s} /\ Dropped = {} /\ SentTo' = {} /\ Dropped' = {}
    BY <1>b, <1>c, <2>2
  <2>7. ses[s].enb = enb[h] /\ (up[s] # NoUp /\ s \notin unsure => up[s].dl = prev[h])
    BY <1>e, <2>2 DEF Waiting
  <2>8. /\ \A t \in 1..made : t # s => ses'[t] = ses[t]
        /\ ses'[s].bound = TRUE
        /\ ses'[s].enb = (IF o = "ok" THEN enb[h] ELSE prev[h])
    <3>1. CASE o = "ok"
      BY <2>1, <2>3, <2>7, <3>1 DEF Restore
    <3>2. CASE o # "ok"
      <4>1. ses' = [ses EXCEPT ![s].enb = prev[h]]
        BY <2>1, <3>2 DEF Restore
      <4>2. Kept(s) /\ Fields(s, ses[s].st, ses[s].pgw, ses[s].bound, prev[h])
        BY <2>3, <4>1, SetEnb
      <4>. QED  BY <2>3, <3>2, <4>2 DEF Kept, Fields
    <3>. QED  BY <3>1, <3>2
  <2>9. unsure' = (IF o = "ok" THEN unsure \ {s} ELSE IF o = "no" THEN unsure ELSE unsure \cup {s})
    BY <2>1
  <2>10. Waiting(h)'
    BY <2>2 DEF Waiting
  <2>11. ASSUME NEW t \in 1..made PROVE Bare(t)' /\ Dark(t)' /\ Agree(t)'
    <3>1. CASE t # s
      BY <1>0, <1>d, <2>5, <2>6, <2>8, <2>9, <3>1 DEF Bare, Dark, Agree
    <3>2. CASE t = s
      <4>1. o = "ok" => up'[s].dl = ses'[s].enb
        BY <2>4, <2>5, <2>8
      <4>2. o = "no" /\ up'[s] # NoUp /\ s \notin unsure' => up'[s].dl = ses'[s].enb
        BY <2>5, <2>7, <2>8, <2>9
      <4>3. o = "lost" => s \in unsure'
        BY <2>9
      <4>4. Agree(t)'
        BY <3>2, <4>1, <4>2, <4>3 DEF Agree, Outcomes
      <4>. QED  BY <2>6, <2>8, <3>2, <4>4 DEF Bare, Dark
    <3>. QED  BY <3>1, <3>2
  <2>. QED  BY <2>10, <2>11
<1>7. CASE ReleaseSession(h)
  <2>1. PICK s \in 1..made : s = Min(todo[h])
    <3>1. todo[h] \in SUBSET Nat /\ todo[h] # {} /\ todo[h] \subseteq 1..made
      BY <1>0, <1>7 DEF ReleaseSession, Frames
    <3>. QED  BY <3>1, MinIn
  <2>2. pc[h] = "rab" /\ ses' = ses /\ s \in todo[h] /\ s \in Sids /\ todo[h] \subseteq list[h]
    <3>1. todo[h] \in SUBSET Nat /\ todo[h] # {} /\ todo[h] \subseteq list[h]
      BY <1>0, <1>7 DEF ReleaseSession, Frames
    <3>2. s \in todo[h]
      BY <2>1, <3>1, MinIn
    <3>. QED  BY <1>0, <1>7, <3>1, <3>2 DEF ReleaseSession
  <2>3. SentTo = {} /\ Dropped = list[h] \ todo[h]
    BY <1>b, <2>2
  <2>. DEFINE f == [up[s] EXCEPT !.dl = NoENB]
  <2>4. f \in Fars /\ f.dl = NoENB
    BY <2>2, FarFields
  <2>5. CASE ~ses[s].bound /\ todo' = [todo EXCEPT ![h] = @ \ {s}] /\ UNCHANGED <<up, unsure, pc, list>>
    <3>1. pc'[h] = "rab" /\ SentTo' = {} /\ Dropped' = Dropped \cup {s}
      BY <1>c, <2>2, <2>3, <2>5 DEF TypeOK
    <3>2. up[s].dl = NoENB
      BY <1>d, <2>5 DEF Bare
    <3>3. Waiting(h)'
      BY <3>1 DEF Waiting
    <3>. QED  BY <1>d, <2>2, <2>3, <2>5, <3>1, <3>2, <3>3 DEF Bare, Dark, Agree
  <2>6. ASSUME NEW o \in Outcomes, ses[s].bound, ModifyAtUp(s, f, o),
               IF o = "ok"
               THEN /\ todo' = [todo EXCEPT ![h] = @ \ {s}]
                    /\ UNCHANGED <<unsure, pc, cur, old, enb, prev, list, hold>>
               ELSE /\ unsure' = unsure \cup (list[h] \ todo[h]) \cup (IF o = "lost" THEN {s} ELSE {})
                    /\ Return(h)
        PROVE  Good
    <3>. HIDE DEF f
    <3>1. /\ \A t \in Sids : t # s => up'[t] = up[t]
          /\ up[s] = NoUp => o = "no"
          /\ up'[s] = (IF o # "no" THEN f ELSE up[s])
      BY <2>4, <2>6, UpModified
    <3>2. ses[s].bound = TRUE
      BY <1>d, <2>6
    <3>3. CASE o = "ok"
      <4>1. pc'[h] = "rab" /\ SentTo' = {} /\ Dropped' = Dropped \cup {s} /\ unsure' = unsure
        BY <1>c, <2>2, <2>3, <2>6, <3>3 DEF TypeOK
      <4>2. Waiting(h)'
        BY <4>1 DEF Waiting
      <4>3. \A t \in 1..made : Bare(t)' /\ Dark(t)' /\ Agree(t)'
        BY <1>0, <1>d, <2>2, <2>3, <2>4, <3>1, <3>2, <3>3, <4>1 DEF Bare, Dark, Agree
      <4>. QED  BY <4>2, <4>3
    <3>4. CASE o # "ok"
      <4>1. unsure' = unsure \cup Dropped \cup (IF o = "lost" THEN {s} ELSE {}) /\ Return(h)
        BY <2>3, <2>6, <3>4
      <4>2. pc'[h] = "idle"
        BY <4>1 DEF Return, Goto, TypeOK
      <4>3. SentTo' = {} /\ Dropped' = {}
        BY <1>c, <4>2
      <4>4. Waiting(h)'
        BY <4>2 DEF Waiting
      <4>5. ASSUME NEW t \in 1..made PROVE Bare(t)' /\ Dark(t)' /\ Agree(t)'
        <5>1. t \notin unsure' => up'[t] = up[t] /\ t \notin unsure /\ t \notin Dropped
          BY <1>0, <3>1, <3>4, <4>1 DEF Outcomes
        <5>2. t # s => up'[t] = up[t]
          BY <1>0, <3>1
        <5>. QED  BY <1>d, <2>2, <2>3, <3>2, <4>3, <5>1, <5>2 DEF Bare, Dark, Agree
      <4>. QED  BY <4>4, <4>5
    <3>. QED  BY <3>3, <3>4
  <2>. QED  BY <1>7, <2>1, <2>5, <2>6 DEF ReleaseSession
<1>8. CASE ReleaseReturn(h)
  <2>1. /\ pc[h] = "rab" /\ pc'[h] = "idle" /\ up' = up /\ todo[h] = {}
        /\ unsure' = unsure \ {s \in list[h] : ses[s].bound}
        /\ list[h] \subseteq 1..made
    BY <1>8 DEF ReleaseReturn, Return, Goto, TypeOK, Frames
  <2>2. SentTo = {} /\ Dropped = list[h] /\ SentTo' = {} /\ Dropped' = {}
    BY <1>b, <1>c, <2>1
  <2>3. ASSUME NEW t \in 1..made
        PROVE  /\ ses'[t].bound = ses[t].bound
               /\ ses'[t].enb = (IF t \in list[h] THEN NoENB ELSE ses[t].enb)
    <3>1. DOMAIN ses = 1..made /\ ses[t] \in Sess
      BY DEF TypeOK
    <3>2. \A x \in Sess : LET y == [x EXCEPT !.enb = NoENB] IN y.bound = x.bound /\ y.enb = NoENB
      BY DEF Sess
    <3>3. ses'[t] = (IF t \in list[h] THEN [ses[t] EXCEPT !.enb = NoENB] ELSE ses[t])
      BY <1>8, <3>1 DEF ReleaseReturn, Cleared
    <3>. QED  BY <3>1, <3>2, <3>3
  <2>4. Waiting(h)'
    BY <2>1 DEF Waiting
  <2>5. ASSUME NEW t \in 1..made PROVE Bare(t)' /\ Dark(t)' /\ Agree(t)'
    <3>1. Bare(t) /\ Dark(t) /\ Agree(t)
      BY <1>d
    <3>2. t \notin unsure' => t \notin unsure \/ t \in list[h]
      BY <2>1
    <3>. QED  BY <2>1, <2>2, <2>3, <3>1, <3>2 DEF Bare, Dark, Agree
  <2>. QED  BY <2>4, <2>5
<1>. QED  BY <1>2, <1>3, <1>4, <1>5, <1>6, <1>7, <1>8 DEF AccessStepOf

\* DownlinkAgrees always holds with an MME that sends one Modify Bearer or Release
\* Access Bearers at a time, for any number of handlers, bearers and eNodeBs
\* (R15-005, R15-006).
THEOREM DownlinkAgreesHolds ==
    ASSUME MmeSerial
    PROVE  Spec => []DownlinkAgrees
<1>1. Init => SessionInv /\ Downlink
  BY SessionInit, DownlinkInit
<1>2. ASSUME SessionInv, Downlink, [Next]_vars PROVE SessionInv' /\ Downlink'
  <2>1. SessionInv'
    BY <1>2, SessionStep
  <2>2. TypeInv /\ TypeInv' /\ Roles
    BY <1>2, <2>1 DEF SessionInv
  <2>3. CASE UNCHANGED vars
    <3>1. SentTo' = SentTo /\ Dropped' = Dropped
      BY <2>3 DEF SentTo, Dropped, vars, hVars
    <3>2. Downlink'
      BY <1>2, <2>3, <3>1 DEF Downlink, Serial, Busy, Bare, Dark, Agree, Waiting, vars, hVars, hist
    <3>. QED  BY <2>1, <3>2
  <2>4. CASE Next
    <3>1. PICK h \in Handlers : SessionStepOf(h) \/ AccessStepOf(h)
      BY <2>4 DEF Next, Step, Requests, SessionStepOf, AccessStepOf
    <3>2. CASE SessionStepOf(h)
      BY <1>2, <2>1, <2>2, <3>2, Asides, AsideDownlink
    <3>3. CASE AccessStepOf(h)
      BY <1>2, <2>1, <2>2, <3>3, AccessDownlink
    <3>. QED  BY <3>1, <3>2, <3>3
  <2>. QED  BY <1>2, <2>3, <2>4
<1>3. ASSUME SessionInv, Downlink PROVE DownlinkAgrees
  <2>. SUFFICES ASSUME NEW s \in stored, ses[s].bound, up[s] # NoUp, s \notin unsure,
                       \A h \in Handlers : pc[h] \notin {"mbSent", "rab"}
                PROVE  up[s].dl = ses[s].enb
    BY DEF DownlinkAgrees
  <2>1. s \in 1..made /\ TypeOK
    BY <1>3, Types DEF SessionInv, TypeInv
  <2>2. ses[s].bound = TRUE
    BY <2>1, SesFields
  <2>3. SentTo = {} /\ Dropped = {}
    BY DEF SentTo, Dropped
  <2>. QED  BY <1>3, <2>1, <2>2, <2>3 DEF Downlink, Agree
<1>. QED  BY <1>1, <1>2, <1>3, PTL DEF Spec
=============================================================================
