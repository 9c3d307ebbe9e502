------------------------ MODULE SessionManager_proofs ------------------------
(***************************************************************************)
(* Proofs about SessionManager: its types, and that the indexes agree with *)
(* the stored sessions after every interleaving of creations, evictions,   *)
(* aborts, deletions and restarts.                                         *)
(***************************************************************************)
EXTENDS SessionManager, WellFoundedInduction, TLAPS

\* The most recent of a nonempty set of sessions is one of them.
LEMMA NewestIn ==
    ASSUME NEW n \in Nat, NEW S, S \subseteq 1..n, S # {}
    PROVE  Newest(S) \in S
<1> DEFINE T == {n - x : x \in S}
<1>1. T \subseteq Nat
  <2> SUFFICES ASSUME NEW x \in S PROVE n - x \in Nat
    OBVIOUS
  <2> QED
    OBVIOUS
<1>2. T # {}
  <2>1. PICK x : x \in S
    OBVIOUS
  <2>2. n - x \in T
    BY <2>1
  <2> QED
    BY <2>2
<1>3. PICK m \in T : \A k \in T : ~(<<k, m>> \in OpToRel(<, Nat))
  <2>1. IsWellFoundedOn(OpToRel(<, Nat), Nat)
    BY NatLessThanWellFounded
  <2> HIDE DEF T
  <2> QED
    BY <1>1, <1>2, <2>1, WFMin
<1>4. \A k \in T : ~(k < m)
  BY <1>1, <1>3 DEF OpToRel
<1>5. PICK x \in S : m = n - x
  OBVIOUS
<1>6. \A y \in S : y <= x
  <2> SUFFICES ASSUME NEW y \in S PROVE y <= x
    OBVIOUS
  <2>1. n - y \in T
    OBVIOUS
  <2>2. ~(n - y < n - x)
    BY <1>4, <1>5, <2>1
  <2> QED
    BY <2>2
<1> QED
  BY <1>6 DEF Newest

\* Newest of a set of sessions is one of them, or NoId when there is none.
LEMMA NewestType ==
    ASSUME NEW n \in Nat, NEW S, S \subseteq 1..n
    PROVE  /\ Newest(S) \in 0..n
           /\ Newest(S) # NoId => Newest(S) \in S
           /\ S # {} => Newest(S) # NoId
<1>1. CASE S = {}
  BY <1>1 DEF Newest, NoId
<1>2. CASE S # {}
  <2>1. Newest(S) \in S
    BY <1>2, NewestIn
  <2>2. \A x \in 1..n : x \in 0..n /\ x # NoId
    BY DEF NoId
  <2>3. Newest(S) \in 1..n
    BY <2>1
  <2> QED
    BY <2>1, <2>2, <2>3
<1> QED
  BY <1>1, <1>2

-----------------------------------------------------------------------------
(* The indexes ids, s11, s5c, pgw, imsi and pdn, as they are or as they    *)
(* would be.                                                               *)

IndexType(ids, s11, s5c, pgw, imsi, pdn) ==
    /\ ids \subseteq 1..Len(sess)
    /\ s11 \in [Teids -> SUBSET (1..Len(sess))]
    /\ s5c \in [S5Teids -> 0..Len(sess)]
    /\ pgw \in [PGWs -> SUBSET (1..Len(sess))]
    /\ imsi \in [IMSIs -> 0..Len(sess)]
    /\ pdn \in [IMSIs \X EBIs -> 0..Len(sess)]

\* Each entry is a stored session, under its own key.
Sound(ids, s11, s5c, pgw, imsi, pdn) ==
    /\ \A t \in Teids : \A x \in s11[t] : x \in ids /\ sess[x].s11 = t
    /\ \A t \in S5Teids : s5c[t] # NoId => s5c[t] \in ids /\ sess[s5c[t]].s5c = t
    /\ \A p \in PGWs : \A x \in pgw[p] : x \in ids /\ sess[x].pgw = p
    /\ \A i \in IMSIs : imsi[i] # NoId => imsi[i] \in ids /\ sess[imsi[i]].imsi = i
    /\ \A k \in IMSIs \X EBIs : pdn[k] # NoId => pdn[k] \in ids /\ PDN(pdn[k]) = k

\* Each stored session has its entries.
Complete(ids, s11, pgw, imsi, pdn) ==
    \A x \in ids :
        /\ x \in s11[sess[x].s11]
        /\ pdn[PDN(x)] = x
        /\ imsi[sess[x].imsi] # NoId
        /\ sess[x].pgw # NoPGW => x \in pgw[sess[x].pgw]

\* Taking a stored session out of the indexes keeps them right.
LEMMA Evict ==
    ASSUME sess \in Seq(Sess),
           IndexType(byID, byS11, byS5C, byPGW, byIMSI, byPDN),
           Sound(byID, byS11, byS5C, byPGW, byIMSI, byPDN),
           Complete(byID, byS11, byPGW, byIMSI, byPDN),
           NEW x \in byID
    PROVE  /\ IndexType(byID \ {x}, ByS11Without(x), ByS5CWithout(x), ByPGWWithout(x),
                        ByIMSIWithout(x), ByPDNWithout(x))
           /\ Sound(byID \ {x}, ByS11Without(x), ByS5CWithout(x), ByPGWWithout(x),
                    ByIMSIWithout(x), ByPDNWithout(x))
           /\ Complete(byID \ {x}, ByS11Without(x), ByPGWWithout(x),
                       ByIMSIWithout(x), ByPDNWithout(x))
<1> DEFINE ids == byID \ {x}
           Others(i) == OfIMSI(i, ids)
<1>1. \A y \in byID : y \in 1..Len(sess) /\ sess[y] \in Sess
  BY DEF IndexType
<1>2. Len(sess) \in Nat
  OBVIOUS
<1>3. \A i \in IMSIs : /\ Newest(Others(i)) \in 0..Len(sess)
                       /\ Newest(Others(i)) # NoId => Newest(Others(i)) \in Others(i)
                       /\ Others(i) # {} => Newest(Others(i)) # NoId
  <2> SUFFICES ASSUME NEW i \in IMSIs
               PROVE  /\ Newest(Others(i)) \in 0..Len(sess)
                      /\ Newest(Others(i)) # NoId => Newest(Others(i)) \in Others(i)
                      /\ Others(i) # {} => Newest(Others(i)) # NoId
    OBVIOUS
  <2>1. Others(i) \subseteq 1..Len(sess)
    BY <1>1 DEF OfIMSI
  <2> HIDE DEF Others
  <2> QED
    BY <1>2, <2>1, NewestType
<1>4. \A i \in IMSIs : \A y \in Others(i) : y \in ids /\ sess[y].imsi = i
  BY DEF OfIMSI
<1>5. \A y \in ids : y \in Others(sess[y].imsi)
  BY DEF OfIMSI
<1>6. ByIMSIWithout(x) = [i \in IMSIs |-> IF i = sess[x].imsi /\ byIMSI[i] = x
                                          THEN Newest(Others(i)) ELSE byIMSI[i]]
  BY DEF ByIMSIWithout
<1> HIDE DEF Others
<1>7. IndexType(ids, ByS11Without(x), ByS5CWithout(x), ByPGWWithout(x),
                ByIMSIWithout(x), ByPDNWithout(x))
  <2>1. ByIMSIWithout(x) \in [IMSIs -> 0..Len(sess)]
    BY <1>3, <1>6 DEF IndexType
  <2>2. ByPDNWithout(x) \in [IMSIs \X EBIs -> 0..Len(sess)]
    BY <1>2 DEF IndexType, ByPDNWithout, NoId
  <2>3. ByS5CWithout(x) \in [S5Teids -> 0..Len(sess)]
    BY <1>2 DEF IndexType, ByS5CWithout, NoId
  <2>4. ByPGWWithout(x) \in [PGWs -> SUBSET (1..Len(sess))]
    BY DEF IndexType, ByPGWWithout
  <2>5. ByS11Without(x) \in [Teids -> SUBSET (1..Len(sess))]
    BY DEF IndexType, ByS11Without
  <2> QED
    BY <2>1, <2>2, <2>3, <2>4, <2>5 DEF IndexType
<1>8. Sound(ids, ByS11Without(x), ByS5CWithout(x), ByPGWWithout(x),
            ByIMSIWithout(x), ByPDNWithout(x))
  <2>1. \A t \in Teids : \A y \in ByS11Without(x)[t] : y \in ids /\ sess[y].s11 = t
    BY DEF IndexType, Sound, ByS11Without
  <2>2. \A t \in S5Teids : ByS5CWithout(x)[t] # NoId =>
            ByS5CWithout(x)[t] \in ids /\ sess[ByS5CWithout(x)[t]].s5c = t
    BY DEF Sound, ByS5CWithout
  <2>3. \A p \in PGWs : \A y \in ByPGWWithout(x)[p] : y \in ids /\ sess[y].pgw = p
    BY DEF Sound, ByPGWWithout
  <2>4. \A i \in IMSIs : ByIMSIWithout(x)[i] # NoId =>
            ByIMSIWithout(x)[i] \in ids /\ sess[ByIMSIWithout(x)[i]].imsi = i
    BY <1>3, <1>4, <1>6 DEF Sound
  <2>5. \A k \in IMSIs \X EBIs : ByPDNWithout(x)[k] # NoId =>
            ByPDNWithout(x)[k] \in ids /\ PDN(ByPDNWithout(x)[k]) = k
    <3> SUFFICES ASSUME NEW k \in IMSIs \X EBIs, ByPDNWithout(x)[k] # NoId
                 PROVE  ByPDNWithout(x)[k] \in ids /\ PDN(ByPDNWithout(x)[k]) = k
      OBVIOUS
    <3>1. ByPDNWithout(x)[k] = byPDN[k] /\ ~(k = PDN(x) /\ byPDN[k] = x)
      BY DEF ByPDNWithout
    <3>2. byPDN[k] \in byID /\ PDN(byPDN[k]) = k
      BY <3>1 DEF Sound
    <3> QED
      BY <3>1, <3>2
  <2> QED
    BY <2>1, <2>2, <2>3, <2>4, <2>5 DEF Sound
<1>9. Complete(ids, ByS11Without(x), ByPGWWithout(x), ByIMSIWithout(x), ByPDNWithout(x))
  <2> SUFFICES ASSUME NEW y \in ids
               PROVE  /\ y \in ByS11Without(x)[sess[y].s11]
                      /\ ByPDNWithout(x)[PDN(y)] = y
                      /\ ByIMSIWithout(x)[sess[y].imsi] # NoId
                      /\ sess[y].pgw # NoPGW => y \in ByPGWWithout(x)[sess[y].pgw]
    BY DEF Complete
  <2>1. /\ sess[y].s11 \in Teids /\ sess[y].imsi \in IMSIs /\ sess[y].ebi \in EBIs
        /\ sess[y].pgw \in PGWs \cup {NoPGW}
    BY <1>1 DEF Sess
  <2>2. y \in ByS11Without(x)[sess[y].s11]
    BY <2>1 DEF Complete, ByS11Without, IndexType
  <2>3. ByPDNWithout(x)[PDN(y)] = y
    BY <2>1 DEF Complete, ByPDNWithout, PDN
  <2>4. ByIMSIWithout(x)[sess[y].imsi] # NoId
    BY <1>3, <1>5, <1>6, <2>1 DEF Complete
  <2>5. sess[y].pgw # NoPGW => y \in ByPGWWithout(x)[sess[y].pgw]
    BY <2>1 DEF Complete, ByPGWWithout
  <2> QED
    BY <2>2, <2>3, <2>4, <2>5
<1> QED
  BY <1>7, <1>8, <1>9

\* Putting a new session into the indexes keeps them right, when no session is stored
\* for its subscriber and bearer.
LEMMA Insert ==
    ASSUME sess \in Seq(Sess),
           NEW ids, NEW s11, NEW s5c, NEW pgw, NEW imsi, NEW pdn,
           IndexType(ids, s11, s5c, pgw, imsi, pdn),
           Sound(ids, s11, s5c, pgw, imsi, pdn),
           Complete(ids, s11, pgw, imsi, pdn),
           NEW n \in 1..Len(sess),
           pdn[PDN(n)] = NoId, sess[n].pgw = NoPGW
    PROVE  /\ IndexType(ids \cup {n}, [s11 EXCEPT ![sess[n].s11] = @ \cup {n}], s5c, pgw,
                        [imsi EXCEPT ![sess[n].imsi] = n], [pdn EXCEPT ![PDN(n)] = n])
           /\ Sound(ids \cup {n}, [s11 EXCEPT ![sess[n].s11] = @ \cup {n}], s5c, pgw,
                    [imsi EXCEPT ![sess[n].imsi] = n], [pdn EXCEPT ![PDN(n)] = n])
           /\ Complete(ids \cup {n}, [s11 EXCEPT ![sess[n].s11] = @ \cup {n}], pgw,
                       [imsi EXCEPT ![sess[n].imsi] = n], [pdn EXCEPT ![PDN(n)] = n])
<1> DEFINE s11n  == [s11 EXCEPT ![sess[n].s11] = @ \cup {n}]
           imsin == [imsi EXCEPT ![sess[n].imsi] = n]
           pdnn  == [pdn EXCEPT ![PDN(n)] = n]
<1>1. Len(sess) \in Nat /\ n \in 0..Len(sess) /\ n # NoId
  BY DEF NoId
<1>2. \A y \in 1..Len(sess) : /\ sess[y].s11 \in Teids /\ sess[y].imsi \in IMSIs
                              /\ PDN(y) \in IMSIs \X EBIs
  <2> SUFFICES ASSUME NEW y \in 1..Len(sess)
               PROVE  /\ sess[y].s11 \in Teids /\ sess[y].imsi \in IMSIs
                      /\ PDN(y) \in IMSIs \X EBIs
    OBVIOUS
  <2>1. sess[y] \in Sess
    OBVIOUS
  <2> QED
    BY <2>1 DEF Sess, PDN
<1>3. IndexType(ids \cup {n}, s11n, s5c, pgw, imsin, pdnn)
  <2>1. s11n \in [Teids -> SUBSET (1..Len(sess))]
    BY <1>2 DEF IndexType
  <2>2. imsin \in [IMSIs -> 0..Len(sess)]
    BY <1>1, <1>2 DEF IndexType
  <2>3. pdnn \in [IMSIs \X EBIs -> 0..Len(sess)]
    BY <1>1, <1>2 DEF IndexType
  <2> QED
    BY <2>1, <2>2, <2>3 DEF IndexType
<1>4. Sound(ids \cup {n}, s11n, s5c, pgw, imsin, pdnn)
  <2>1. \A t \in Teids : \A y \in s11n[t] : y \in ids \cup {n} /\ sess[y].s11 = t
    BY <1>2 DEF IndexType, Sound
  <2>2. \A i \in IMSIs : imsin[i] # NoId => imsin[i] \in ids \cup {n} /\ sess[imsin[i]].imsi = i
    BY <1>2 DEF IndexType, Sound
  <2>3. \A k \in IMSIs \X EBIs : pdnn[k] # NoId => pdnn[k] \in ids \cup {n} /\ PDN(pdnn[k]) = k
    BY <1>2 DEF IndexType, Sound
  <2> QED
    BY <2>1, <2>2, <2>3 DEF Sound
<1>5. Complete(ids \cup {n}, s11n, pgw, imsin, pdnn)
  <2> SUFFICES ASSUME NEW y \in ids \cup {n}
               PROVE  /\ y \in s11n[sess[y].s11]
                      /\ pdnn[PDN(y)] = y
                      /\ imsin[sess[y].imsi] # NoId
                      /\ sess[y].pgw # NoPGW => y \in pgw[sess[y].pgw]
    BY DEF Complete
  <2>1. y \in 1..Len(sess)
    BY DEF IndexType
  <2>2. y \in s11n[sess[y].s11]
    BY <1>2, <2>1 DEF IndexType, Complete
  <2>3. imsin[sess[y].imsi] # NoId
    BY <1>1, <1>2, <2>1 DEF IndexType, Complete
  <2>4. pdnn[PDN(y)] = y
    <3>1. CASE y = n
      BY <1>2, <2>1, <3>1 DEF IndexType
    <3>2. CASE y # n
      <4>1. pdn[PDN(y)] = y /\ y # NoId
        BY <2>1, <3>2 DEF Complete, NoId
      <4>2. PDN(y) # PDN(n)
        BY <4>1
      <4> QED
        BY <1>2, <2>1, <4>1, <4>2 DEF IndexType
    <3> QED
      BY <3>1, <3>2
  <2>5. sess[y].pgw # NoPGW => y \in pgw[sess[y].pgw]
    BY DEF Complete
  <2> QED
    BY <2>2, <2>3, <2>4, <2>5
<1> QED
  BY <1>3, <1>4, <1>5

-----------------------------------------------------------------------------
(* The inductive invariant.                                                *)

\* A handler that has made a session owns it alone until the handler is done with it:
\* nobody else writes its S5/S8-C TEID or its PGW, or stores it.
HandlerOK(h) ==
    /\ pc[h] \in {"idle", "found"} <=> cur[h] = NoId
    /\ pc[h] = "made" => /\ teid[h] \in Teids
                         /\ cur[h] \notin byID
                         /\ sess[cur[h]].s11 = teid[h]
                         /\ PDN(cur[h]) = req[h]
    /\ pc[h] \in {"made", "stored"} => sess[cur[h]].s5c = NoTeid
    /\ pc[h] = "s5c" => sess[cur[h]].s5c \in S5Teids
    /\ pc[h] \in {"made", "stored", "s5c", "indexed"} => sess[cur[h]].pgw = NoPGW

HandlerInv ==
    /\ \A h \in Handlers : HandlerOK(h)
    /\ \A g, h \in Handlers : g # h /\ cur[g] = cur[h] => cur[g] = NoId

IInv == TypeOK /\ HandlerInv /\ NoDanglingEntry /\ Reachable /\ NoS11TeidLeak

-----------------------------------------------------------------------------
(* Steps.                                                                  *)

\* The parts of the invariant that speak of the indexes, in one.
LEMMA IndexParts ==
    ASSUME TypeOK, NoDanglingEntry, Reachable
    PROVE  /\ IndexType(byID, byS11, byS5C, byPGW, byIMSI, byPDN)
           /\ Sound(byID, byS11, byS5C, byPGW, byIMSI, byPDN)
           /\ Complete(byID, byS11, byPGW, byIMSI, byPDN)
  BY DEF TypeOK, NoDanglingEntry, Reachable, IndexType, Sound, Complete

\* A handler's step that leaves the indexes and the sessions alone.
LEMMA Quiet ==
    ASSUME IInv, UNCHANGED <<sess, mgrVars, used, restarts>>,
           usedS5C' \subseteq S5Teids, NEW h \in Handlers,
           NEW t \in Teids \cup {NoTeid}, teid' = [teid EXCEPT ![h] = t],
           NEW k \in IMSIs \X EBIs, req' = [req EXCEPT ![h] = k],
           \/ pc[h] = "idle" /\ pc' = [pc EXCEPT ![h] = "found"] /\ UNCHANGED cur
           \/ pc[h] # "made" /\ pc' = [pc EXCEPT ![h] = "idle"] /\ cur' = [cur EXCEPT ![h] = NoId]
    PROVE  IInv'
<1> USE DEF IInv
<1>1. TypeOK'
  <2>1. NoId \in 0..Len(sess)
    BY DEF TypeOK, NoId
  <2>2. pc' \in [Handlers -> PCs]
    BY DEF TypeOK, PCs
  <2>3. cur' \in [Handlers -> 0..Len(sess)]
    BY <2>1 DEF TypeOK
  <2>4. teid' \in [Handlers -> Teids \cup {NoTeid}] /\ req' \in [Handlers -> IMSIs \X EBIs]
    BY DEF TypeOK
  <2> QED
    BY <2>2, <2>3, <2>4 DEF TypeOK, mgrVars
<1>2. \A g \in Handlers : HandlerOK(g)'
  <2> SUFFICES ASSUME NEW g \in Handlers PROVE HandlerOK(g)'
    OBVIOUS
  <2>1. CASE g = h
    BY <2>1 DEF TypeOK, HandlerInv, HandlerOK
  <2>2. CASE g # h
    <3>1. /\ pc'[g] = pc[g] /\ cur'[g] = cur[g] /\ teid'[g] = teid[g] /\ req'[g] = req[g]
      BY <2>2 DEF TypeOK
    <3> QED
      BY <3>1 DEF HandlerInv, HandlerOK, mgrVars, PDN
  <2> QED
    BY <2>1, <2>2
<1>3. HandlerInv'
  BY <1>2 DEF TypeOK, HandlerInv
<1>4. NoDanglingEntry' /\ Reachable'
  BY DEF NoDanglingEntry, Reachable, mgrVars, PDN
<1>5. NoS11TeidLeak'
  <2>1. UNCHANGED <<used, byS11>>
    BY DEF mgrVars
  <2>2. \A g \in Handlers : pc[g] = "made" => pc'[g] = "made" /\ teid'[g] = teid[g]
    BY DEF TypeOK
  <2> QED
    BY <2>1, <2>2 DEF NoS11TeidLeak
<1> QED
  BY <1>1, <1>3, <1>4, <1>5

\* What Manager.Delete does to the indexes and to the S11 allocator.
LEMMA DeleteFacts ==
    ASSUME IInv, UNCHANGED sess, NEW x, Delete(x)
    PROVE  /\ byID' \subseteq byID /\ used' \subseteq used
           /\ IndexType(byID', byS11', byS5C', byPGW', byIMSI', byPDN')
           /\ Sound(byID', byS11', byS5C', byPGW', byIMSI', byPDN')
           /\ Complete(byID', byS11', byPGW', byIMSI', byPDN')
           /\ \A t \in used' : byS11'[t] = {} => byS11[t] = {}
<1>1. /\ IndexType(byID, byS11, byS5C, byPGW, byIMSI, byPDN)
      /\ Sound(byID, byS11, byS5C, byPGW, byIMSI, byPDN)
      /\ Complete(byID, byS11, byPGW, byIMSI, byPDN)
  BY IndexParts DEF IInv
<1>2. CASE x \notin byID
  BY <1>1, <1>2 DEF Delete, mgrVars
<1>3. CASE x \in byID
  <2>1. /\ byID' = byID \ {x} /\ byS11' = ByS11Without(x) /\ byS5C' = ByS5CWithout(x)
        /\ byPGW' = ByPGWWithout(x) /\ byPDN' = ByPDNWithout(x)
        /\ byIMSI' = ByIMSIWithout(x) /\ used' = UsedWithout(x)
    BY <1>3 DEF Delete
  <2>2. /\ IndexType(byID', byS11', byS5C', byPGW', byIMSI', byPDN')
        /\ Sound(byID', byS11', byS5C', byPGW', byIMSI', byPDN')
        /\ Complete(byID', byS11', byPGW', byIMSI', byPDN')
    <3>1. sess \in Seq(Sess)
      BY DEF IInv, TypeOK
    <3> QED
      BY <1>1, <1>3, <2>1, <3>1, Evict
  <2>3. used' \subseteq used
    BY <2>1 DEF UsedWithout
  <2>4. \A t \in used' : byS11'[t] = {} => byS11[t] = {}
    BY <2>1 DEF UsedWithout, ByS11Without, IInv, TypeOK
  <2> QED
    BY <2>1, <2>2, <2>3, <2>4
<1> QED
  BY <1>2, <1>3

\* A step that only removes sessions, by a handler that goes on or gives up.
LEMMA Shrink ==
    ASSUME IInv, UNCHANGED <<sess, usedS5C, req, restarts>>, NEW x, Delete(x),
           \/ UNCHANGED <<pc, teid, cur>>
           \/ \E h \in Handlers :
                /\ pc[h] \in {"stored", "indexed", "answered"}
                /\ teid' = [teid EXCEPT ![h] = NoTeid]
                /\ \/ pc' = [pc EXCEPT ![h] = "idle"] /\ cur' = [cur EXCEPT ![h] = NoId]
                   \/ pc' = [pc EXCEPT ![h] = "freeing"] /\ UNCHANGED cur
    PROVE  IInv'
<1> USE DEF IInv
<1>1. /\ byID' \subseteq byID /\ used' \subseteq used
      /\ IndexType(byID', byS11', byS5C', byPGW', byIMSI', byPDN')
      /\ Sound(byID', byS11', byS5C', byPGW', byIMSI', byPDN')
      /\ Complete(byID', byS11', byPGW', byIMSI', byPDN')
      /\ \A t \in used' : byS11'[t] = {} => byS11[t] = {}
  BY DeleteFacts
<1>2. TypeOK'
  <2>1. NoId \in 0..Len(sess)
    BY DEF TypeOK, NoId
  <2>2. pc' \in [Handlers -> PCs]
    BY DEF TypeOK, PCs
  <2>3. cur' \in [Handlers -> 0..Len(sess)]
    BY <2>1 DEF TypeOK
  <2>4. teid' \in [Handlers -> Teids \cup {NoTeid}]
    BY DEF TypeOK
  <2> QED
    BY <1>1, <2>2, <2>3, <2>4 DEF TypeOK, IndexType
<1>3. NoDanglingEntry' /\ Reachable'
  BY <1>1 DEF Sound, Complete, NoDanglingEntry, Reachable, PDN
<1>4. \A g \in Handlers : HandlerOK(g)'
  <2> SUFFICES ASSUME NEW g \in Handlers PROVE HandlerOK(g)'
    OBVIOUS
  <2>1. HandlerOK(g)
    BY DEF HandlerInv
  <2>2. CASE pc'[g] = pc[g] /\ cur'[g] = cur[g] /\ teid'[g] = teid[g]
    BY <1>1, <2>1, <2>2 DEF HandlerOK, PDN
  <2>3. CASE ~(pc'[g] = pc[g] /\ cur'[g] = cur[g] /\ teid'[g] = teid[g])
    <3>1. PICK h \in Handlers :
                /\ pc[h] \in {"stored", "indexed", "answered"}
                /\ teid' = [teid EXCEPT ![h] = NoTeid]
                /\ \/ pc' = [pc EXCEPT ![h] = "idle"] /\ cur' = [cur EXCEPT ![h] = NoId]
                   \/ pc' = [pc EXCEPT ![h] = "freeing"] /\ UNCHANGED cur
      BY <2>3
    <3>2. g = h
      BY <2>3, <3>1 DEF TypeOK
    <3> QED
      BY <2>1, <3>1, <3>2 DEF TypeOK, HandlerOK
  <2> QED
    BY <2>2, <2>3
<1>5. HandlerInv'
  <2>1. \A g, h \in Handlers : g # h /\ cur'[g] = cur'[h] => cur'[g] = NoId
    BY DEF TypeOK, HandlerInv
  <2> QED
    BY <1>4, <2>1 DEF HandlerInv
<1>6. NoS11TeidLeak'
  <2> SUFFICES ASSUME NEW t \in used', byS11'[t] = {}
               PROVE  \E h \in Handlers : pc'[h] = "made" /\ teid'[h] = t
    BY DEF NoS11TeidLeak
  <2>1. PICK h \in Handlers : pc[h] = "made" /\ teid[h] = t
    BY <1>1 DEF NoS11TeidLeak
  <2>2. pc'[h] = "made" /\ teid'[h] = t
    BY <2>1 DEF TypeOK
  <2> QED
    BY <2>2
<1> QED
  BY <1>2, <1>3, <1>5, <1>6

-----------------------------------------------------------------------------
(* The steps of a creation.                                                *)

\* Manager.Create makes a session that no index and no other handler knows yet.
LEMMA NewSessionStep ==
    ASSUME IInv, NEW h \in Handlers, NewSession(h)
    PROVE  IInv'
<1> USE DEF IInv
<1> DEFINE n == Len(sess) + 1
<1>1. PICK t \in Teids :
        /\ IF teid[h] = NoTeid
           THEN t \notin used /\ used' = used \cup {t}
           ELSE t = teid[h] /\ UNCHANGED used
        /\ teid' = [teid EXCEPT ![h] = t]
        /\ sess' = Append(sess, [imsi |-> req[h][1], ebi |-> req[h][2], s11 |-> t,
                                 s5c |-> NoTeid, pgw |-> NoPGW])
  BY DEF NewSession
<1> DEFINE new == [imsi |-> req[h][1], ebi |-> req[h][2], s11 |-> t,
                   s5c |-> NoTeid, pgw |-> NoPGW]
<1>2. pc[h] = "found" /\ Len(sess) < MaxSessions /\ pc' = [pc EXCEPT ![h] = "made"]
      /\ cur' = [cur EXCEPT ![h] = n] /\ UNCHANGED <<mgrVars, usedS5C, req, restarts>>
  BY DEF NewSession
<1>3. new \in Sess /\ req[h] = <<new.imsi, new.ebi>> /\ new.s11 = t /\ new.s5c = NoTeid
      /\ new.pgw = NoPGW
  BY DEF TypeOK, Sess
<1> HIDE DEF new
<1>4. /\ Len(sess) \in Nat /\ sess' \in Seq(Sess) /\ Len(sess') = n /\ sess'[n] = new
      /\ \A x \in 1..Len(sess) : sess'[x] = sess[x]
      /\ \A x \in 1..Len(sess) : x # n /\ x \in 1..n /\ x \in 0..n
      /\ \A x \in 0..Len(sess) : x # n /\ x \in 0..n
      /\ n \in 0..n /\ n \in 1..n /\ n # NoId
  BY <1>1, <1>3 DEF TypeOK, NoId, new
<1> HIDE DEF n
<1>5. TypeOK'
  <2>1. Len(sess') <= MaxSessions
    BY <1>2, <1>4, SessionManagerAssumption DEF n
  <2>2. /\ byID' \subseteq 1..Len(sess') /\ byS11' \in [Teids -> SUBSET (1..Len(sess'))]
        /\ byPGW' \in [PGWs -> SUBSET (1..Len(sess'))]
    BY <1>2, <1>4 DEF TypeOK, mgrVars
  <2>3. /\ byS5C' \in [S5Teids -> 0..Len(sess')] /\ byIMSI' \in [IMSIs -> 0..Len(sess')]
        /\ byPDN' \in [IMSIs \X EBIs -> 0..Len(sess')]
    BY <1>2, <1>4 DEF TypeOK, mgrVars
  <2>4. pc' \in [Handlers -> PCs] /\ cur' \in [Handlers -> 0..Len(sess')]
    BY <1>2, <1>4 DEF TypeOK, PCs
  <2>5. used' \subseteq Teids /\ teid' \in [Handlers -> Teids \cup {NoTeid}]
    BY <1>1 DEF TypeOK
  <2> QED
    BY <1>2, <1>4, <2>1, <2>2, <2>3, <2>4, <2>5 DEF TypeOK
<1>6. \A g \in Handlers : HandlerOK(g)'
  <2> SUFFICES ASSUME NEW g \in Handlers PROVE HandlerOK(g)'
    OBVIOUS
  <2>1. CASE g = h
    <3>1. pc'[g] = "made" /\ cur'[g] = n /\ teid'[g] = t /\ req'[g] = req[h]
      BY <1>1, <1>2, <2>1 DEF TypeOK
    <3>2. n \notin byID'
      BY <1>2, <1>4 DEF TypeOK, mgrVars
    <3> QED
      BY <1>3, <1>4, <3>1, <3>2 DEF HandlerOK, PDN
  <2>2. CASE g # h
    <3>1. /\ pc'[g] = pc[g] /\ cur'[g] = cur[g] /\ teid'[g] = teid[g] /\ req'[g] = req[g]
          /\ byID' = byID
      BY <1>1, <1>2, <2>2 DEF TypeOK, mgrVars
    <3>2. HandlerOK(g)
      BY DEF HandlerInv
    <3>3. CASE cur[g] = NoId
      BY <3>1, <3>2, <3>3 DEF HandlerOK
    <3>4. CASE cur[g] # NoId
      <4>1. sess'[cur[g]] = sess[cur[g]]
        BY <1>4, <3>4 DEF TypeOK, NoId
      <4> QED
        BY <3>1, <3>2, <4>1 DEF HandlerOK, PDN
    <3> QED
      BY <3>3, <3>4
  <2> QED
    BY <2>1, <2>2
<1>7. HandlerInv'
  <2>1. \A f, g \in Handlers : f # g /\ cur'[f] = cur'[g] => cur'[f] = NoId
    BY <1>2, <1>4 DEF TypeOK, HandlerInv
  <2> QED
    BY <1>6, <2>1 DEF HandlerInv
<1>8. NoDanglingEntry' /\ Reachable'
  <2>1. \A x \in byID : sess'[x] = sess[x]
    BY <1>4 DEF TypeOK
  <2>2. NoDanglingEntry'
    BY <1>2, <2>1 DEF NoDanglingEntry, mgrVars, PDN
  <2>3. Reachable'
    BY <1>2, <2>1 DEF Reachable, mgrVars, PDN
  <2> QED
    BY <2>2, <2>3
<1>9. NoS11TeidLeak'
  <2> SUFFICES ASSUME NEW u \in used', byS11'[u] = {}
               PROVE  \E g \in Handlers : pc'[g] = "made" /\ teid'[g] = u
    BY DEF NoS11TeidLeak
  <2>1. CASE u = t
    BY <1>1, <1>2, <2>1 DEF TypeOK
  <2>2. CASE u # t
    <3>1. PICK g \in Handlers : pc[g] = "made" /\ teid[g] = u
      BY <1>1, <1>2, <2>2 DEF NoS11TeidLeak, mgrVars
    <3>2. g # h
      BY <1>2, <3>1
    <3>3. pc'[g] = "made" /\ teid'[g] = u
      BY <1>1, <1>2, <3>1, <3>2 DEF TypeOK
    <3> QED
      BY <3>3
  <2> QED
    BY <2>1, <2>2
<1> QED
  BY <1>5, <1>7, <1>8, <1>9

\* Manager.Create stores its session in the place of the one it evicts.
LEMMA StoreStep ==
    ASSUME IInv, NEW h \in Handlers, Store(h)
    PROVE  IInv'
<1> USE DEF IInv
<1> DEFINE n   == cur[h]
           old == byPDN[req[h]]
           ev  == old # NoId
           ids  == IF ev THEN byID \ {old} ELSE byID
           s11  == IF ev THEN ByS11Without(old) ELSE byS11
           s5c  == IF ev THEN ByS5CWithout(old) ELSE byS5C
           pgw  == IF ev THEN ByPGWWithout(old) ELSE byPGW
           imsi == IF ev THEN ByIMSIWithout(old) ELSE byIMSI
           pdn  == IF ev THEN ByPDNWithout(old) ELSE byPDN
<1>1. /\ pc[h] = "made" /\ byID' = (byID \ {old}) \cup {n}
      /\ byS11' = [s11 EXCEPT ![teid[h]] = @ \cup {n}] /\ byS5C' = s5c /\ byPGW' = pgw
      /\ byPDN' = [pdn EXCEPT ![req[h]] = n] /\ byIMSI' = [imsi EXCEPT ![req[h][1]] = n]
      /\ used' = IF ev /\ sess[old].s11 # teid[h] THEN UsedWithout(old) ELSE used
      /\ pc' = [pc EXCEPT ![h] = "stored"]
      /\ UNCHANGED <<sess, usedS5C, req, teid, cur, restarts>>
  BY DEF Store
<1>2. HandlerOK(h)
  BY DEF HandlerInv
<1>3. /\ teid[h] \in Teids /\ n \notin byID /\ sess[n].s11 = teid[h] /\ PDN(n) = req[h]
      /\ sess[n].pgw = NoPGW /\ sess[n].s5c = NoTeid /\ n # NoId /\ n \in 0..Len(sess)
  BY <1>1, <1>2 DEF HandlerOK, TypeOK
<1>4. n \in 1..Len(sess) /\ req[h] \in IMSIs \X EBIs /\ sess[n].imsi = req[h][1]
      /\ sess \in Seq(Sess)
  BY <1>3 DEF TypeOK, NoId, PDN
<1>5. ev => old \in byID
  BY <1>4 DEF NoDanglingEntry
<1>6. /\ IndexType(ids, s11, s5c, pgw, imsi, pdn)
      /\ Sound(ids, s11, s5c, pgw, imsi, pdn)
      /\ Complete(ids, s11, pgw, imsi, pdn)
  BY <1>4, <1>5, Evict, IndexParts
<1>7. pdn[PDN(n)] = NoId
  <2>1. CASE ~ev
    BY <1>3, <2>1
  <2>2. CASE ev
    <3>1. PDN(old) = req[h]
      BY <1>4, <2>2 DEF NoDanglingEntry
    <3>2. pdn = ByPDNWithout(old)
      BY <2>2
    <3> QED
      BY <1>3, <1>4, <3>1, <3>2 DEF ByPDNWithout
  <2> QED
    BY <2>1, <2>2
<1>8. byID' = ids \cup {n}
  <2>1. NoId \notin byID
    BY DEF TypeOK, NoId
  <2> QED
    BY <1>1, <2>1
<1> HIDE DEF ids, s11, s5c, pgw, imsi, pdn
<1>9. /\ IndexType(byID', byS11', byS5C', byPGW', byIMSI', byPDN')
      /\ Sound(byID', byS11', byS5C', byPGW', byIMSI', byPDN')
      /\ Complete(byID', byS11', byPGW', byIMSI', byPDN')
  <2>1. /\ byS11' = [s11 EXCEPT ![sess[n].s11] = @ \cup {n}]
        /\ byIMSI' = [imsi EXCEPT ![sess[n].imsi] = n]
        /\ byPDN' = [pdn EXCEPT ![PDN(n)] = n]
        /\ byS5C' = s5c /\ byPGW' = pgw
    BY <1>1, <1>3, <1>4
  <2> HIDE DEF n
  <2>2. n \in 1..Len(sess) /\ sess[n].pgw = NoPGW /\ sess \in Seq(Sess)
    BY <1>3, <1>4
  <2> QED
    BY <1>6, <1>7, <1>8, <2>1, <2>2, Insert
<1>10. used' \subseteq used
  BY <1>1 DEF UsedWithout
<1>11. TypeOK'
  <2>1. pc' \in [Handlers -> PCs]
    BY <1>1 DEF TypeOK, PCs
  <2> QED
    BY <1>1, <1>9, <1>10, <2>1 DEF TypeOK, IndexType
<1>12. NoDanglingEntry' /\ Reachable'
  <2>1. UNCHANGED sess
    BY <1>1
  <2>2. NoDanglingEntry'
    BY <1>9, <2>1 DEF Sound, NoDanglingEntry, PDN
  <2>3. Reachable'
    BY <1>9, <2>1 DEF Complete, Reachable, PDN
  <2> QED
    BY <2>2, <2>3
<1>13. HandlerInv'
  <2>1. \A g \in Handlers : HandlerOK(g)'
    <3> SUFFICES ASSUME NEW g \in Handlers PROVE HandlerOK(g)'
      OBVIOUS
    <3>1. CASE g = h
      BY <1>1, <1>3, <3>1 DEF TypeOK, HandlerOK
    <3>2. CASE g # h
      <4>1. HandlerOK(g) /\ pc'[g] = pc[g] /\ (cur[g] = n => cur[g] = NoId)
        BY <1>1, <3>2 DEF TypeOK, HandlerInv
      <4>2. pc[g] = "made" => cur[g] \notin byID'
        BY <1>1, <1>3, <4>1 DEF HandlerOK
      <4> QED
        BY <1>1, <4>1, <4>2 DEF HandlerOK, PDN
    <3> QED
      BY <3>1, <3>2
  <2> QED
    BY <1>1, <2>1 DEF HandlerInv
<1>14. NoS11TeidLeak'
  <2> SUFFICES ASSUME NEW t \in used', byS11'[t] = {}
               PROVE  \E g \in Handlers : pc'[g] = "made" /\ teid'[g] = t
    BY DEF NoS11TeidLeak
  <2>1. s11 \in [Teids -> SUBSET (1..Len(sess))]
    BY <1>6 DEF IndexType
  <2>2. t # teid[h] /\ s11[t] = {} /\ t \in Teids
    BY <1>1, <1>3, <1>10, <2>1 DEF TypeOK
  <2>3. byS11[t] = {}
    BY <1>1, <2>2 DEF s11, ByS11Without, UsedWithout, TypeOK
  <2>4. PICK g \in Handlers : pc[g] = "made" /\ teid[g] = t
    BY <1>10, <2>3 DEF NoS11TeidLeak
  <2>5. pc'[g] = "made" /\ teid'[g] = t
    BY <1>1, <2>2, <2>4 DEF TypeOK
  <2> QED
    BY <2>5
<1> QED
  BY <1>11, <1>12, <1>13, <1>14

\* Changing one session object leaves the others, and how many there are, alone.
LEMMA SessionUpdate ==
    ASSUME sess \in Seq(Sess), NEW n \in 1..Len(sess), NEW s \in Sess,
           sess' = [sess EXCEPT ![n] = s]
    PROVE  /\ sess' \in Seq(Sess) /\ Len(sess') = Len(sess) /\ sess'[n] = s
           /\ \A x \in 1..Len(sess) : x # n => sess'[x] = sess[x]
  OBVIOUS

\* The handler writes the S5/S8-C TEID into its session, which has no entry in byS5C yet.
LEMMA SetSGWS5CFTEIDStep ==
    ASSUME IInv, NEW h \in Handlers, SetSGWS5CFTEID(h)
    PROVE  IInv'
<1> USE DEF IInv
<1> DEFINE n == cur[h]
<1>1. PICK t \in S5Teids \ usedS5C :
        usedS5C' = usedS5C \cup {t} /\ sess' = [sess EXCEPT ![n].s5c = t]
  BY DEF SetSGWS5CFTEID
<1>2. pc[h] = "stored" /\ pc' = [pc EXCEPT ![h] = "s5c"]
      /\ UNCHANGED <<mgrVars, used, req, teid, cur, restarts>>
  BY DEF SetSGWS5CFTEID
<1>3. HandlerOK(h)
  BY DEF HandlerInv
<1>4. n \in 1..Len(sess) /\ sess[n] \in Sess /\ sess[n].s5c = NoTeid /\ sess[n].pgw = NoPGW
  BY <1>2, <1>3 DEF HandlerOK, TypeOK, NoId
<1> DEFINE s == [sess[n] EXCEPT !.s5c = t]
<1>5. s \in Sess /\ s.s5c = t /\ s.s11 = sess[n].s11 /\ s.pgw = sess[n].pgw
      /\ s.imsi = sess[n].imsi /\ s.ebi = sess[n].ebi
  BY <1>4 DEF Sess
<1>6. sess' = [sess EXCEPT ![n] = s]
  BY <1>1
<1> HIDE DEF s
<1>7. /\ sess' \in Seq(Sess) /\ Len(sess') = Len(sess) /\ sess'[n] = s
      /\ \A x \in 1..Len(sess) : x # n => sess'[x] = sess[x]
  <2> HIDE DEF n
  <2> QED
    BY <1>4, <1>5, <1>6, SessionUpdate DEF TypeOK
<1>8. TypeOK'
  <2>1. pc' \in [Handlers -> PCs]
    BY <1>2 DEF TypeOK, PCs
  <2>2. usedS5C' \subseteq S5Teids
    BY <1>1 DEF TypeOK
  <2> QED
    BY <1>2, <1>7, <2>1, <2>2 DEF TypeOK, mgrVars
<1>9. \A x \in 1..Len(sess) : /\ sess'[x].s11 = sess[x].s11 /\ sess'[x].pgw = sess[x].pgw
                              /\ sess'[x].imsi = sess[x].imsi /\ sess'[x].ebi = sess[x].ebi
                              /\ x # n => sess'[x].s5c = sess[x].s5c
  BY <1>5, <1>7
<1>10. NoDanglingEntry'
  <2>1. \A u \in S5Teids : byS5C[u] # NoId => byS5C[u] # n
    BY <1>4, SessionManagerAssumption DEF NoDanglingEntry
  <2>2. \A u \in S5Teids : byS5C'[u] # NoId => byS5C'[u] \in byID' /\ sess'[byS5C'[u]].s5c = u
    <3>1. UNCHANGED <<byS5C, byID>> /\ byID \subseteq 1..Len(sess)
      BY <1>2 DEF TypeOK, mgrVars
    <3>2. \A u \in S5Teids : byS5C[u] # NoId => byS5C[u] \in byID /\ sess[byS5C[u]].s5c = u
      BY DEF NoDanglingEntry
    <3> QED
      BY <1>9, <2>1, <3>1, <3>2
  <2>3. \A x \in byID : x \in 1..Len(sess)
    BY DEF TypeOK
  <2> QED
    BY <1>2, <1>9, <2>2, <2>3 DEF NoDanglingEntry, mgrVars, PDN
<1>11. Reachable'
  <2>1. \A x \in byID : x \in 1..Len(sess)
    BY DEF TypeOK
  <2> QED
    BY <1>2, <1>9, <2>1 DEF Reachable, mgrVars, PDN
<1>12. HandlerInv'
  <2>1. \A g \in Handlers : HandlerOK(g)'
    <3> SUFFICES ASSUME NEW g \in Handlers PROVE HandlerOK(g)'
      OBVIOUS
    <3>1. CASE g = h
      BY <1>2, <1>3, <1>4, <1>5, <1>7, <3>1 DEF TypeOK, HandlerOK
    <3>2. CASE g # h
      <4>1. /\ HandlerOK(g) /\ pc'[g] = pc[g] /\ (cur[g] = n => cur[g] = NoId)
            /\ cur[g] \in 0..Len(sess)
        BY <1>2, <3>2 DEF TypeOK, HandlerInv
      <4>2. CASE cur[g] = NoId
        BY <1>2, <4>1, <4>2 DEF HandlerOK
      <4>3. CASE cur[g] # NoId
        <5>1. sess'[cur[g]] = sess[cur[g]]
          BY <1>7, <4>1, <4>3 DEF NoId
        <5> QED
          BY <1>2, <4>1, <5>1 DEF HandlerOK, PDN, mgrVars
      <4> QED
        BY <4>2, <4>3
    <3> QED
      BY <3>1, <3>2
  <2> QED
    BY <1>2, <2>1 DEF HandlerInv
<1>13. NoS11TeidLeak'
  BY <1>2 DEF TypeOK, NoS11TeidLeak, mgrVars
<1> QED
  BY <1>8, <1>10, <1>11, <1>12, <1>13

\* RegisterS5CTEID enters the session, if it is still stored, under its own TEID.
LEMMA RegisterS5CTEIDStep ==
    ASSUME IInv, NEW h \in Handlers, RegisterS5CTEID(h)
    PROVE  IInv'
<1> USE DEF IInv
<1> DEFINE n == cur[h]
<1>1. /\ pc[h] = "s5c" /\ pc' = [pc EXCEPT ![h] = "indexed"]
      /\ byS5C' = IF n \in byID THEN [byS5C EXCEPT ![sess[n].s5c] = n] ELSE byS5C
      /\ UNCHANGED <<sess, byID, byS11, byPGW, byIMSI, byPDN, used, usedS5C, req, teid,
                     cur, restarts>>
  BY DEF RegisterS5CTEID
<1>2. HandlerOK(h)
  BY DEF HandlerInv
<1>3. n \in 0..Len(sess) /\ sess[n].s5c \in S5Teids /\ sess[n].pgw = NoPGW /\ n # NoId
  BY <1>1, <1>2 DEF HandlerOK, TypeOK
<1>4. TypeOK'
  <2>1. pc' \in [Handlers -> PCs]
    BY <1>1 DEF TypeOK, PCs
  <2>2. byS5C' \in [S5Teids -> 0..Len(sess)]
    BY <1>1, <1>3 DEF TypeOK
  <2> QED
    BY <1>1, <2>1, <2>2 DEF TypeOK
<1>5. NoDanglingEntry'
  <2>1. \A u \in S5Teids : byS5C'[u] # NoId => byS5C'[u] \in byID /\ sess[byS5C'[u]].s5c = u
    BY <1>1, <1>3 DEF NoDanglingEntry, TypeOK
  <2> QED
    BY <1>1, <2>1 DEF NoDanglingEntry, PDN
<1>6. Reachable'
  BY <1>1 DEF Reachable, PDN
<1>7. HandlerInv'
  <2>1. \A g \in Handlers : HandlerOK(g)'
    <3> SUFFICES ASSUME NEW g \in Handlers PROVE HandlerOK(g)'
      OBVIOUS
    <3>1. CASE g = h
      BY <1>1, <1>3, <3>1 DEF TypeOK, HandlerOK
    <3>2. CASE g # h
      <4>1. HandlerOK(g) /\ pc'[g] = pc[g]
        BY <1>1, <3>2 DEF TypeOK, HandlerInv
      <4> QED
        BY <1>1, <4>1 DEF HandlerOK, PDN
    <3> QED
      BY <3>1, <3>2
  <2> QED
    BY <1>1, <2>1 DEF HandlerInv
<1>8. NoS11TeidLeak'
  BY <1>1 DEF TypeOK, NoS11TeidLeak
<1> QED
  BY <1>4, <1>5, <1>6, <1>7, <1>8

\* RegisterPGW enters the session, if it is still stored, under the PGW it is given.
LEMMA RegisterPGWStep ==
    ASSUME IInv, NEW h \in Handlers, NEW p \in PGWs, RegisterPGW(h, p)
    PROVE  IInv'
<1> USE DEF IInv
<1> DEFINE n == cur[h]
<1>1. /\ pc[h] = "indexed" /\ pc' = [pc EXCEPT ![h] = "answered"]
      /\ UNCHANGED <<byID, byS11, byS5C, byIMSI, byPDN, used, usedS5C, req, teid, cur, restarts>>
  BY DEF RegisterPGW
<1>2. HandlerOK(h)
  BY DEF HandlerInv
<1>3. n \in 1..Len(sess) /\ sess[n] \in Sess /\ sess[n].pgw = NoPGW /\ n # NoId
  BY <1>1, <1>2 DEF HandlerOK, TypeOK, NoId
<1>4. /\ sess' \in Seq(Sess) /\ Len(sess') = Len(sess)
      /\ \A x \in 1..Len(sess) : /\ sess'[x].s11 = sess[x].s11 /\ sess'[x].s5c = sess[x].s5c
                                 /\ sess'[x].imsi = sess[x].imsi /\ sess'[x].ebi = sess[x].ebi
                                 /\ x # n => sess'[x] = sess[x]
      /\ \/ n \in byID /\ sess'[n].pgw = p /\ byPGW' = [byPGW EXCEPT ![p] = @ \cup {n}]
         \/ n \notin byID /\ UNCHANGED <<byPGW, sess>>
  <2>1. CASE n \notin byID
    BY <1>1, <2>1 DEF TypeOK, RegisterPGW
  <2>2. CASE n \in byID
    <3> DEFINE s == [sess[n] EXCEPT !.pgw = p]
    <3>1. s \in Sess /\ s.pgw = p /\ s.s11 = sess[n].s11 /\ s.s5c = sess[n].s5c
          /\ s.imsi = sess[n].imsi /\ s.ebi = sess[n].ebi
      BY <1>3 DEF Sess
    <3>2. sess' = [sess EXCEPT ![n] = s] /\ byPGW' = [byPGW EXCEPT ![p] = @ \cup {n}]
      BY <2>2 DEF RegisterPGW
    <3> HIDE DEF s
    <3>3. /\ sess' \in Seq(Sess) /\ Len(sess') = Len(sess) /\ sess'[n] = s
          /\ \A x \in 1..Len(sess) : x # n => sess'[x] = sess[x]
      <4> HIDE DEF n
      <4> QED
        BY <1>3, <3>1, <3>2, SessionUpdate DEF TypeOK
    <3> QED
      BY <2>2, <3>1, <3>2, <3>3
  <2> QED
    BY <2>1, <2>2
<1>5. /\ byPGW' \in [PGWs -> SUBSET (1..Len(sess))]
      /\ \A q \in PGWs : byPGW[q] \subseteq byPGW'[q]
      /\ \A q \in PGWs : \A x \in byPGW'[q] :
            x \in byPGW[q] \/ (x = n /\ q = p /\ n \in byID /\ sess'[n].pgw = p)
  <2>1. byPGW \in [PGWs -> SUBSET (1..Len(sess))] /\ n \in 1..Len(sess)
    BY <1>3 DEF TypeOK
  <2>2. CASE n \in byID
    <3>1. byPGW' = [byPGW EXCEPT ![p] = @ \cup {n}] /\ sess'[n].pgw = p
      BY <1>4, <2>2
    <3> HIDE DEF n
    <3> QED
      BY <2>1, <2>2, <3>1
  <2>3. CASE n \notin byID
    BY <1>4, <2>1, <2>3
  <2> QED
    BY <2>2, <2>3
<1>6. TypeOK'
  <2>1. pc' \in [Handlers -> PCs]
    BY <1>1 DEF TypeOK, PCs
  <2> QED
    BY <1>1, <1>4, <1>5, <2>1 DEF TypeOK
<1>7. \A x \in byID : x \in 1..Len(sess)
  BY DEF TypeOK
<1>8. NoDanglingEntry'
  <2>1. \A q \in PGWs : \A x \in byPGW'[q] : x \in byID /\ sess'[x].pgw = q
    <3> SUFFICES ASSUME NEW q \in PGWs, NEW x \in byPGW'[q]
                 PROVE  x \in byID /\ sess'[x].pgw = q
      OBVIOUS
    <3>1. x \in byPGW[q] => x \in byID /\ sess[x].pgw = q /\ x # n
      BY <1>3, SessionManagerAssumption DEF NoDanglingEntry
    <3>2. CASE x \in byPGW[q]
      BY <1>4, <1>7, <3>1, <3>2
    <3>3. CASE x \notin byPGW[q]
      BY <1>5, <3>3
    <3> QED
      BY <3>2, <3>3
  <2> QED
    BY <1>1, <1>4, <1>7, <2>1 DEF NoDanglingEntry, PDN
<1>9. Reachable'
  <2> SUFFICES ASSUME NEW x \in byID
               PROVE  /\ x \in byS11'[sess'[x].s11] /\ byPDN'[PDN(x)'] = x
                      /\ byIMSI'[sess'[x].imsi] # NoId
                      /\ sess'[x].pgw # NoPGW => x \in byPGW'[sess'[x].pgw]
    BY <1>1 DEF Reachable
  <2>1. /\ x \in byS11'[sess'[x].s11] /\ byPDN'[PDN(x)'] = x /\ byIMSI'[sess'[x].imsi] # NoId
    BY <1>1, <1>4, <1>7 DEF Reachable, PDN
  <2>2. sess'[x].pgw # NoPGW => x \in byPGW'[sess'[x].pgw]
    <3>1. CASE x = n
      BY <1>4, <3>1 DEF TypeOK
    <3>2. CASE x # n
      <4>1. sess'[x] = sess[x]
        BY <1>4, <1>7, <3>2
      <4>2. sess[x].pgw \in PGWs \cup {NoPGW}
        <5>1. sess[x] \in Sess
          BY <1>7 DEF TypeOK
        <5> QED
          BY <5>1 DEF Sess
      <4>3. sess[x].pgw # NoPGW => x \in byPGW[sess[x].pgw]
        BY DEF Reachable
      <4> QED
        BY <1>5, <4>1, <4>2, <4>3
    <3> QED
      BY <3>1, <3>2
  <2> QED
    BY <2>1, <2>2
<1>10. HandlerInv'
  <2>1. \A g \in Handlers : HandlerOK(g)'
    <3> SUFFICES ASSUME NEW g \in Handlers PROVE HandlerOK(g)'
      OBVIOUS
    <3>1. CASE g = h
      BY <1>1, <1>3, <3>1 DEF TypeOK, HandlerOK
    <3>2. CASE g # h
      <4>1. /\ HandlerOK(g) /\ pc'[g] = pc[g] /\ (cur[g] = n => cur[g] = NoId)
            /\ cur[g] \in 0..Len(sess)
        BY <1>1, <3>2 DEF TypeOK, HandlerInv
      <4>2. CASE cur[g] = NoId
        BY <1>1, <4>1, <4>2 DEF HandlerOK
      <4>3. CASE cur[g] # NoId
        <5>1. sess'[cur[g]] = sess[cur[g]]
          BY <1>4, <4>1, <4>3 DEF NoId
        <5> QED
          BY <1>1, <4>1, <5>1 DEF HandlerOK, PDN
      <4> QED
        BY <4>2, <4>3
    <3> QED
      BY <3>1, <3>2
  <2> QED
    BY <1>1, <2>1 DEF HandlerInv
<1>11. NoS11TeidLeak'
  BY <1>1 DEF TypeOK, NoS11TeidLeak
<1> QED
  BY <1>6, <1>8, <1>9, <1>10, <1>11

-----------------------------------------------------------------------------
\* RestoreSnapshots rebuilds right indexes from any set of stored sessions.
LEMMA RestartStep ==
    ASSUME IInv, NEW S, Restart(S)
    PROVE  IInv'
<1> USE DEF IInv
<1> DEFINE R == IF Restorable(S) THEN S ELSE {}
           WithTeid(t) == {x \in R : sess[x].s5c = t}
           WithPDN(k)  == {x \in R : PDN(x) = k}
<1>1. R \subseteq byID
  BY DEF Restart
<1>2. /\ byID' = R
      /\ byS11' = [t \in Teids |-> {x \in R : sess[x].s11 = t}]
      /\ byS5C' = [t \in S5Teids |-> Newest(WithTeid(t))]
      /\ byPGW' = [p \in PGWs |-> {x \in R : sess[x].pgw = p}]
      /\ byIMSI' = [i \in IMSIs |-> Newest(OfIMSI(i, R))]
      /\ byPDN' = [k \in IMSIs \X EBIs |-> Newest(WithPDN(k))]
      /\ used' = {sess[x].s11 : x \in R} /\ usedS5C' = {}
      /\ pc' = [h \in Handlers |-> "idle"] /\ teid' = [h \in Handlers |-> NoTeid]
      /\ cur' = [h \in Handlers |-> NoId] /\ UNCHANGED <<sess, req>>
      /\ restarts < MaxRestarts /\ restarts' = restarts + 1
  BY DEF Restart
<1> HIDE DEF R
<1>3. \A x \in R : /\ x \in 1..Len(sess) /\ sess[x].s11 \in Teids /\ sess[x].imsi \in IMSIs
                   /\ PDN(x) \in IMSIs \X EBIs /\ byPDN[PDN(x)] = x
                   /\ sess[x].pgw \in PGWs \cup {NoPGW}
  <2> SUFFICES ASSUME NEW x \in R
               PROVE  /\ x \in 1..Len(sess) /\ sess[x].s11 \in Teids /\ sess[x].imsi \in IMSIs
                      /\ PDN(x) \in IMSIs \X EBIs /\ byPDN[PDN(x)] = x
                      /\ sess[x].pgw \in PGWs \cup {NoPGW}
    OBVIOUS
  <2>1. x \in 1..Len(sess) /\ byPDN[PDN(x)] = x
    BY <1>1 DEF TypeOK, Reachable
  <2>2. sess[x] \in Sess
    BY <2>1 DEF TypeOK
  <2> QED
    BY <2>1, <2>2 DEF Sess, PDN
<1>4. ASSUME NEW T, T \subseteq R
      PROVE  /\ Newest(T) \in 0..Len(sess)
             /\ Newest(T) # NoId => Newest(T) \in T
             /\ T # {} => Newest(T) # NoId
  <2>1. T \subseteq 1..Len(sess) /\ Len(sess) \in Nat
    BY <1>3, <1>4 DEF TypeOK
  <2> QED
    BY <2>1, NewestType
<1>5. \A t \in S5Teids : /\ byS5C'[t] \in 0..Len(sess)
                         /\ byS5C'[t] # NoId => byS5C'[t] \in R /\ sess[byS5C'[t]].s5c = t
  <2> SUFFICES ASSUME NEW t \in S5Teids
               PROVE  /\ byS5C'[t] \in 0..Len(sess)
                      /\ byS5C'[t] # NoId => byS5C'[t] \in WithTeid(t)
    OBVIOUS
  <2>1. WithTeid(t) \subseteq R /\ byS5C'[t] = Newest(WithTeid(t))
    BY <1>2
  <2> HIDE DEF WithTeid
  <2> QED
    BY <1>4, <2>1
<1>6. \A i \in IMSIs : /\ byIMSI'[i] \in 0..Len(sess)
                       /\ byIMSI'[i] # NoId => byIMSI'[i] \in R /\ sess[byIMSI'[i]].imsi = i
                       /\ (\E x \in R : sess[x].imsi = i) => byIMSI'[i] # NoId
  <2> SUFFICES ASSUME NEW i \in IMSIs
               PROVE  /\ byIMSI'[i] \in 0..Len(sess)
                      /\ byIMSI'[i] # NoId => byIMSI'[i] \in OfIMSI(i, R)
                      /\ OfIMSI(i, R) # {} => byIMSI'[i] # NoId
    BY DEF OfIMSI
  <2>1. OfIMSI(i, R) \subseteq R /\ byIMSI'[i] = Newest(OfIMSI(i, R))
    BY <1>2 DEF OfIMSI
  <2> QED
    BY <1>4, <2>1
<1>7. \A k \in IMSIs \X EBIs : /\ byPDN'[k] \in 0..Len(sess)
                               /\ byPDN'[k] # NoId => byPDN'[k] \in R /\ PDN(byPDN'[k]) = k
                               /\ (\E x \in R : PDN(x) = k) => byPDN'[k] # NoId
  <2> SUFFICES ASSUME NEW k \in IMSIs \X EBIs
               PROVE  /\ byPDN'[k] \in 0..Len(sess)
                      /\ byPDN'[k] # NoId => byPDN'[k] \in WithPDN(k)
                      /\ WithPDN(k) # {} => byPDN'[k] # NoId
    OBVIOUS
  <2>1. WithPDN(k) \subseteq R /\ byPDN'[k] = Newest(WithPDN(k))
    BY <1>2
  <2> HIDE DEF WithPDN
  <2> QED
    BY <1>4, <2>1
<1>8. \A x \in R : byPDN'[PDN(x)] = x
  <2> SUFFICES ASSUME NEW x \in R PROVE byPDN'[PDN(x)] = x
    OBVIOUS
  <2>1. byPDN'[PDN(x)] \in R /\ PDN(byPDN'[PDN(x)]) = PDN(x)
    BY <1>3, <1>7
  <2> QED
    BY <1>3, <2>1
<1>9. TypeOK'
  <2>1. pc' \in [Handlers -> PCs] /\ cur' \in [Handlers -> 0..Len(sess)]
    BY <1>2 DEF TypeOK, PCs, NoId
  <2>2. byID' \subseteq 1..Len(sess) /\ used' \subseteq Teids
    BY <1>2, <1>3
  <2>3. restarts' \in 0..MaxRestarts
    BY <1>2, SessionManagerAssumption DEF TypeOK
  <2>4. byS11' \in [Teids -> SUBSET (1..Len(sess))] /\ byPGW' \in [PGWs -> SUBSET (1..Len(sess))]
    BY <1>2, <1>3
  <2>5. /\ byS5C' \in [S5Teids -> 0..Len(sess)] /\ byIMSI' \in [IMSIs -> 0..Len(sess)]
        /\ byPDN' \in [IMSIs \X EBIs -> 0..Len(sess)]
    BY <1>2, <1>5, <1>6, <1>7
  <2>6. teid' \in [Handlers -> Teids \cup {NoTeid}] /\ usedS5C' \subseteq S5Teids
    BY <1>2
  <2> QED
    BY <1>2, <2>1, <2>2, <2>3, <2>4, <2>5, <2>6 DEF TypeOK
<1>10. NoDanglingEntry'
  BY <1>2, <1>5, <1>6, <1>7 DEF NoDanglingEntry, PDN
<1>11. Reachable'
  BY <1>2, <1>3, <1>6, <1>8 DEF Reachable, PDN
<1>12. HandlerInv'
  BY <1>2 DEF HandlerInv, HandlerOK
<1>13. NoS11TeidLeak'
  BY <1>2, <1>3 DEF NoS11TeidLeak
<1> QED
  BY <1>9, <1>10, <1>11, <1>12, <1>13

-----------------------------------------------------------------------------
(* The theorems.                                                           *)

\* The empty store satisfies the invariant.
LEMMA InitIInv == Init => IInv
<1> SUFFICES ASSUME Init PROVE IInv
  OBVIOUS
<1>1. (CHOOSE k \in IMSIs \X EBIs : TRUE) \in IMSIs \X EBIs
  <2>1. PICK i \in IMSIs, e \in EBIs : TRUE
    BY SessionManagerAssumption
  <2>2. <<i, e>> \in IMSIs \X EBIs
    OBVIOUS
  <2> QED
    BY <2>2
<1>2. TypeOK
  <2>1. sess = <<>> /\ sess \in Seq(Sess) /\ Len(sess) = 0
    BY DEF Init
  <2> QED
    BY <1>1, <2>1, SessionManagerAssumption DEF Init, TypeOK, PCs, NoId
<1>3. HandlerInv
  BY DEF Init, HandlerInv, HandlerOK
<1>4. NoDanglingEntry /\ Reachable /\ NoS11TeidLeak
  BY DEF Init, NoDanglingEntry, Reachable, NoS11TeidLeak
<1> QED
  BY <1>2, <1>3, <1>4 DEF IInv

\* Every step keeps the invariant.
LEMMA NextIInv == IInv /\ [Next]_vars => IInv'
<1> SUFFICES ASSUME IInv, [Next]_vars PROVE IInv'
  OBVIOUS
<1> USE DEF IInv
<1>1. ASSUME NEW h \in Handlers, NEW i \in IMSIs, NEW e \in EBIs, FindReuse(h, i, e)
      PROVE  IInv'
  <2>1. PICK t \in {NoTeid} \cup {sess[x].s11 : x \in KnownToMME(i)} :
            teid' = [teid EXCEPT ![h] = t]
    BY <1>1 DEF FindReuse
  <2>2. \A x \in KnownToMME(i) : sess[x].s11 \in Teids
    <3> SUFFICES ASSUME NEW x \in KnownToMME(i) PROVE sess[x].s11 \in Teids
      OBVIOUS
    <3>1. x \in 1..Len(sess)
      BY DEF KnownToMME, OfIMSI, TypeOK
    <3>2. sess[x] \in Sess
      BY <3>1 DEF TypeOK
    <3> QED
      BY <3>2 DEF Sess
  <2>3. t \in Teids \cup {NoTeid} /\ <<i, e>> \in IMSIs \X EBIs
    BY <2>2
  <2> QED
    BY <1>1, <2>1, <2>3, Quiet DEF FindReuse, TypeOK
<1>2. ASSUME NEW h \in Handlers, CreateFails(h) \/ CreateDone(h) \/ ReleaseS5CTEID(h)
      PROVE  IInv'
  <2>1. \E t \in Teids \cup {NoTeid} : teid' = [teid EXCEPT ![h] = t]
    <3>1. teid = [teid EXCEPT ![h] = teid[h]] /\ teid[h] \in Teids \cup {NoTeid}
      BY DEF TypeOK
    <3> QED
      BY <1>2, <3>1 DEF CreateFails, CreateDone, ReleaseS5CTEID
  <2>2. req[h] \in IMSIs \X EBIs /\ req' = [req EXCEPT ![h] = req[h]]
    BY <1>2 DEF TypeOK, CreateFails, CreateDone, ReleaseS5CTEID
  <2>3. pc[h] # "made" /\ pc' = [pc EXCEPT ![h] = "idle"]
    BY <1>2 DEF CreateFails, CreateDone, ReleaseS5CTEID
  <2>4. cur' = [cur EXCEPT ![h] = NoId]
    <3>1. CASE CreateFails(h)
      <4>1. cur[h] = NoId /\ cur' = cur
        BY <3>1 DEF CreateFails, HandlerInv, HandlerOK
      <4> QED
        BY <4>1 DEF TypeOK
    <3> QED
      BY <1>2, <3>1 DEF CreateDone, ReleaseS5CTEID
  <2>5. usedS5C' \subseteq S5Teids /\ UNCHANGED <<sess, mgrVars, used, restarts>>
    BY <1>2 DEF TypeOK, CreateFails, CreateDone, ReleaseS5CTEID
  <2> QED
    BY <2>1, <2>2, <2>3, <2>4, <2>5, Quiet
<1>3. ASSUME NEW h \in Handlers, AbortCreate(h) PROVE IInv'
  BY <1>3, Shrink DEF AbortCreate
<1>4. ASSUME NEW h \in Handlers, NEW x \in byID, DeleteSession(h, x) PROVE IInv'
  BY <1>4, Shrink DEF DeleteSession, hVars
<1>5. CASE UNCHANGED vars
  <2>1. UNCHANGED <<sess, byID, byS11, byS5C, byPGW, byIMSI, byPDN, used, usedS5C,
                    pc, req, teid, cur, restarts>>
    BY <1>5 DEF vars, mgrVars, hVars
  <2>2. TypeOK'
    BY <2>1 DEF TypeOK
  <2>3. HandlerInv'
    BY <2>1 DEF HandlerInv, HandlerOK, PDN
  <2>4. NoDanglingEntry' /\ Reachable' /\ NoS11TeidLeak'
    BY <2>1 DEF NoDanglingEntry, Reachable, NoS11TeidLeak, PDN
  <2> QED
    BY <2>2, <2>3, <2>4
<1>6. CASE Next
  BY <1>1, <1>2, <1>3, <1>4, <1>6, NewSessionStep, StoreStep, SetSGWS5CFTEIDStep,
     RegisterS5CTEIDStep, RegisterPGWStep, RestartStep DEF Next
<1> QED
  BY <1>5, <1>6

\* The invariant holds throughout.
LEMMA Invariance == Spec => []IInv
  BY InitIInv, NextIInv, PTL DEF Spec

\* The Manager's maps, the allocators and the handlers keep their types.
THEOREM TypeCorrect == Spec => []TypeOK
<1>1. IInv => TypeOK
  BY DEF IInv
<1> QED
  BY <1>1, Invariance, PTL

\* However creations, evictions, aborts, deletions and restarts interleave, an index of
\* session.Manager leads to a stored session under its own key or to nothing.
THEOREM IndexesSound == Spec => []NoDanglingEntry
<1>1. IInv => NoDanglingEntry
  BY DEF IInv
<1> QED
  BY <1>1, Invariance, PTL

\* A session that session.Manager stores is found by every index it belongs in.
THEOREM IndexesComplete == Spec => []Reachable
<1>1. IInv => Reachable
  BY DEF IInv
<1> QED
  BY <1>1, Invariance, PTL

\* The S11 allocator holds no TEID that no session uses, so it never fills up with
\* TEIDs of sessions that are gone.
THEOREM TeidsComeBack == Spec => []NoS11TeidLeak
<1>1. IInv => NoS11TeidLeak
  BY DEF IInv
<1> QED
  BY <1>1, Invariance, PTL
=============================================================================
