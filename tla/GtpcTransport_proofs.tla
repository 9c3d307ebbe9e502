------------------------ MODULE GtpcTransport_proofs ------------------------
(***************************************************************************)
(* Proofs about GtpcTransport, for every number of goroutines, requests,   *)
(* copies, retries and sequence numbers: its types, who owns a request in  *)
(* flight, that Send leaves nothing behind, that a request gets one        *)
(* answer, and the refinement of AtMostOnce.                               *)
(***************************************************************************)
EXTENDS GtpcTransport, FiniteSetTheorems, TLAPS

\* The goroutines that have taken a copy of request k off the wire and have not
\* looked it up yet.
Checkers(k) == {s \in Slots : pc[s] = "check" /\ key[s] = k}

\* What a goroutine has in its frame at each place: the request it serves, which has
\* been executed at least once when its handler runs; a retry counter below N3 while
\* it may still send; a transaction while it is inside Send; a cached answer while it
\* resends one.
Frames ==
    \A s \in Slots :
        /\ pc[s] \in {"check", "resend"} \cup HandlerPcs => key[s] \in Keys
        /\ pc[s] \in HandlerPcs => execs[key[s]] > 0
        /\ pc[s] \notin {"cleanup", "handled", "keyFor", "store", "clear"} => attempt[s] < N3
        /\ pc[s] \in SendPcs \cup RespPcs => call[s] \in CallIds
        /\ pc[s] = "resend" => held[s] \in Answers

\* Executions, copies still to come and copies being looked up share one budget per
\* use of the key. This bounds the executions, and with them the answers, that TypeOK
\* names.
Budget ==
    \A k \in Keys :
        execs[k] + copies[k] + Cardinality(Checkers(k)) <= MaxCopies * gen[k]

\* The inductive form of TypeOK.
TypeInv == TypeOK /\ Frames /\ Budget

\* The products of the bounds that the budget needs, stated once.
LEMMA Products ==
    /\ MaxCopies * MaxGen \in Nat
    /\ \A g \in 1..MaxGen : MaxCopies * g \in Nat /\ MaxCopies * g <= MaxCopies * MaxGen
    /\ \A g \in 1..MaxGen : MaxCopies * (g + 1) = MaxCopies * g + MaxCopies
<1>. MaxCopies \in Nat /\ MaxGen \in Nat
  BY TransportAssumption
<1>1. \A a, b, c \in Nat : a * b \in Nat /\ a * (b + 1) = a * b + a /\ a * (b + c) = a * b + a * c
  BY SMT
<1>2. \A g \in 1..MaxGen : MaxCopies * g <= MaxCopies * MaxGen
  <2>. TAKE g \in 1..MaxGen
  <2>1. PICK d \in Nat : MaxGen = g + d
    <3>. MaxGen - g \in Nat /\ MaxGen = g + (MaxGen - g)
      OBVIOUS
    <3>. QED  OBVIOUS
  <2>2. MaxCopies * MaxGen = MaxCopies * g + MaxCopies * d
    BY <1>1, <2>1
  <2>. QED  BY <1>1, <2>1, <2>2
<1>. QED  BY <1>1, <1>2

\* There are finitely many goroutines, so Checkers can be counted.
LEMMA CheckersFinite ==
    ASSUME NEW k
    PROVE  IsFiniteSet(Checkers(k)) /\ Cardinality(Checkers(k)) \in Nat
BY TransportAssumption, FS_Subset, FS_CardinalityType DEF Checkers

\* An entry of inboundCache that is live carries an answer.
LEMMA LiveEntry ==
    ASSUME TypeOK, NEW k \in Keys, Live(k)
    PROVE  cache[k] \in [has : {TRUE}, live : BOOLEAN, ans : Answers]
<1>. DEFINE e == cache[k]
<1>1. e \in Entries /\ e.has
  BY DEF TypeOK, Live
<1>2. NoEntry.has = FALSE
  BY DEF NoEntry
<1>. HIDE DEF e
<1>3. e # NoEntry
  BY <1>1, <1>2
<1>4. e \in [has : {TRUE}, live : BOOLEAN, ans : Answers]
  BY <1>1, <1>3 DEF Entries
<1>. QED  BY <1>4 DEF e

\* The typing holds initially.
LEMMA TypeInit == Init => TypeInv
<1>. SUFFICES ASSUME Init PROVE TypeInv
  OBVIOUS
<1>1. TypeOK
  BY TransportAssumption, Products
     DEF Init, TypeOK, Pcs, HandlerPcs, SendPcs, RespPcs, Entries, NoEntry, Outcomes, CallIds, NoCall
<1>2. Frames
  BY TransportAssumption DEF Init, Frames, HandlerPcs, SendPcs, RespPcs
<1>3. Budget
  <2>1. \A k \in Keys : Checkers(k) = {}
    BY DEF Init, Checkers
  <2>2. \A k \in Keys : execs[k] = 0 /\ copies[k] = MaxCopies /\ gen[k] = 1
    BY DEF Init
  <2>3. MaxCopies \in Nat /\ MaxCopies * 1 = MaxCopies
    BY TransportAssumption
  <2>. QED  BY <2>1, <2>2, <2>3, FS_EmptySet DEF Budget
<1>. QED  BY <1>1, <1>2, <1>3 DEF TypeInv

\* A step that starts no lookup and touches no counter keeps the budget.
LEMMA BudgetFrame ==
    ASSUME TypeOK, Budget, UNCHANGED <<gen, copies, execs>>,
           \A t \in Slots : pc'[t] = "check" => pc[t] = "check" /\ key'[t] = key[t]
    PROVE  Budget'
<1>. SUFFICES ASSUME NEW k \in Keys
              PROVE  execs[k] + copies[k] + Cardinality(Checkers(k)') <= MaxCopies * gen[k]
  BY DEF Budget
<1>1. Checkers(k)' \subseteq Checkers(k)
  BY DEF Checkers
<1>2. Cardinality(Checkers(k)') <= Cardinality(Checkers(k)) /\ Cardinality(Checkers(k)') \in Nat
  BY <1>1, CheckersFinite, FS_Subset, FS_CardinalityType
<1>3. execs[k] \in Nat /\ copies[k] \in Nat /\ MaxCopies * gen[k] \in Nat
  BY Products DEF TypeOK
<1>4. execs[k] + copies[k] + Cardinality(Checkers(k)) <= MaxCopies * gen[k]
  BY DEF Budget
<1>. QED  BY <1>2, <1>3, <1>4, CheckersFinite

\* dispatch takes a copy: it moves from the wire to a lookup.
LEMMA BudgetServe ==
    ASSUME TypeOK, Budget, NEW s \in Slots, NEW k \in Keys, ServeRequest(s, k)
    PROVE  Budget'
<1>. SUFFICES ASSUME NEW j \in Keys
              PROVE  execs[j] + copies'[j] + Cardinality(Checkers(j)') <= MaxCopies * gen[j]
  BY DEF Budget, ServeRequest
<1>1. execs[j] \in Nat /\ copies[j] \in Nat /\ MaxCopies * gen[j] \in Nat /\ MaxCopies \in Nat
  BY Products, TransportAssumption DEF TypeOK
<1>2. execs[j] + copies[j] + Cardinality(Checkers(j)) <= MaxCopies * gen[j]
  BY DEF Budget
<1>3. CASE j = k
  <2>1. Checkers(j)' = Checkers(j) \cup {s} /\ s \notin Checkers(j)
    BY <1>3 DEF Checkers, ServeRequest, Goto, TypeOK
  <2>2. Cardinality(Checkers(j)') = Cardinality(Checkers(j)) + 1
    BY <2>1, CheckersFinite, FS_AddElement
  <2>3. copies'[j] = copies[j] - 1 /\ copies[j] > 0
    BY <1>3 DEF ServeRequest, TypeOK
  <2>. QED  BY <1>1, <1>2, <2>2, <2>3, CheckersFinite
<1>4. CASE j # k
  <2>1. Checkers(j)' = Checkers(j)
    BY <1>4 DEF Checkers, ServeRequest, Goto, TypeOK
  <2>2. copies'[j] = copies[j]
    BY <1>4 DEF ServeRequest, TypeOK
  <2>. QED  BY <1>2, <2>1, <2>2
<1>. QED  BY <1>3, <1>4

\* checkRetransmit finds a new request: the lookup becomes an execution, and there is
\* room for one.
LEMMA BudgetNew ==
    ASSUME TypeOK, Frames, Budget, NEW s \in Slots, CheckNew(s)
    PROVE  /\ Budget'
           /\ execs[key[s]] + 1 <= MaxCopies * MaxGen
<1>0. PICK k \in Keys : k = key[s]
  BY DEF Frames, CheckNew
<1>1. \A j \in Keys : /\ execs[j] \in Nat /\ copies[j] \in Nat /\ MaxCopies * gen[j] \in Nat
                      /\ execs[j] + copies[j] + Cardinality(Checkers(j)) <= MaxCopies * gen[j]
  BY Products, TransportAssumption DEF TypeOK, Budget
<1>2. /\ Checkers(k)' = Checkers(k) \ {s} /\ s \in Checkers(k)
      /\ Cardinality(Checkers(k)') = Cardinality(Checkers(k)) - 1
  <2>1. Checkers(k)' = Checkers(k) \ {s} /\ s \in Checkers(k)
    BY <1>0 DEF Checkers, CheckNew, Goto, TypeOK, frame
  <2>. QED  BY <2>1, CheckersFinite, FS_RemoveElement
<1>3. \A j \in Keys : j # k => Checkers(j)' = Checkers(j)
  BY <1>0 DEF Checkers, CheckNew, Goto, TypeOK, frame
<1>4. Budget'
  <2>. SUFFICES ASSUME NEW j \in Keys
                PROVE  execs'[j] + copies[j] + Cardinality(Checkers(j)') <= MaxCopies * gen[j]
    BY DEF Budget, CheckNew
  <2>1. CASE j = k
    <3>1. execs'[j] = execs[j] + 1
      BY <1>0, <2>1 DEF CheckNew, TypeOK
    <3>2. Cardinality(Checkers(j)') = Cardinality(Checkers(j)) - 1
      BY <1>2, <2>1
    <3>3. /\ execs[j] \in Nat /\ copies[j] \in Nat /\ MaxCopies * gen[j] \in Nat
          /\ execs[j] + copies[j] + Cardinality(Checkers(j)) <= MaxCopies * gen[j]
      BY <1>1
    <3>. QED  BY <3>1, <3>2, <3>3, CheckersFinite
  <2>2. CASE j # k
    <3>1. execs'[j] = execs[j]
      BY <1>0, <2>2 DEF CheckNew, TypeOK
    <3>. QED  BY <1>1, <1>3, <2>2, <3>1
  <2>. QED  BY <2>1, <2>2
<1>5. execs[k] + 1 <= MaxCopies * MaxGen
  <2>1. Cardinality(Checkers(k)) >= 1
    BY <1>2, CheckersFinite, FS_RemoveElement, FS_CardinalityType
  <2>2. gen[k] \in 1..MaxGen
    BY <1>0 DEF TypeOK
  <2>3. MaxCopies * gen[k] <= MaxCopies * MaxGen /\ MaxCopies * MaxGen \in Nat
    BY <2>2, Products
  <2>4. execs[k] + copies[k] + Cardinality(Checkers(k)) <= MaxCopies * gen[k]
        /\ execs[k] \in Nat /\ copies[k] \in Nat /\ MaxCopies * gen[k] \in Nat
    BY <1>0, <1>1
  <2>. QED  BY <2>1, <2>3, <2>4, CheckersFinite
<1>. QED  BY <1>0, <1>4, <1>5

\* The cached answer expires and the peer uses the key again: a new use brings its
\* own budget.
LEMMA BudgetExpire ==
    ASSUME TypeOK, Budget, NEW k \in Keys, Expire(k)
    PROVE  Budget'
<1>1. \A j \in Keys : Checkers(j)' = Checkers(j)
  BY DEF Checkers, Expire, goVars, frame
<1>2. Checkers(k) = {}
  BY DEF Checkers, Expire
<1>. SUFFICES ASSUME NEW j \in Keys
              PROVE  execs[j] + copies'[j] + Cardinality(Checkers(j)) <= MaxCopies * gen'[j]
  BY <1>1 DEF Budget, Expire
<1>3. execs[j] \in Nat /\ copies[j] \in Nat /\ MaxCopies * gen[j] \in Nat /\ MaxCopies \in Nat
  BY Products, TransportAssumption DEF TypeOK
<1>4. execs[j] + copies[j] + Cardinality(Checkers(j)) <= MaxCopies * gen[j]
  BY DEF Budget
<1>5. CASE j = k
  <2>1. copies'[j] = MaxCopies /\ gen'[j] = gen[j] + 1 /\ gen[j] \in 1..MaxGen
    BY <1>5 DEF Expire, TypeOK
  <2>2. MaxCopies * gen'[j] = MaxCopies * gen[j] + MaxCopies
    BY <2>1, Products
  <2>3. Cardinality(Checkers(j)) = 0
    BY <1>2, <1>5, FS_EmptySet
  <2>. QED  BY <1>3, <1>4, <2>1, <2>2, <2>3
<1>6. CASE j # k
  BY <1>4, <1>6 DEF Expire, TypeOK
<1>. QED  BY <1>5, <1>6

\* A copy dropped because dispatchSem is full is gone.
LEMMA BudgetOverload ==
    ASSUME TypeOK, Budget, NEW k \in Keys, OverloadRequest(k)
    PROVE  Budget'
<1>1. \A j \in Keys : Checkers(j)' = Checkers(j)
  BY DEF Checkers, OverloadRequest, goVars, frame
<1>. SUFFICES ASSUME NEW j \in Keys
              PROVE  execs[j] + copies'[j] + Cardinality(Checkers(j)) <= MaxCopies * gen[j]
  BY <1>1 DEF Budget, OverloadRequest
<1>3. execs[j] \in Nat /\ copies[j] \in Nat /\ MaxCopies * gen[j] \in Nat
      /\ copies'[j] \in Nat /\ copies'[j] <= copies[j]
  BY Products DEF TypeOK, OverloadRequest
<1>4. execs[j] + copies[j] + Cardinality(Checkers(j)) <= MaxCopies * gen[j]
  BY DEF Budget
<1>. QED  BY <1>3, <1>4, CheckersFinite

\* Every step of the endpoint keeps the typing.
LEMMA TypeStep ==
    ASSUME TypeInv, [Next]_vars
    PROVE  TypeInv'
<1>. TypeOK /\ Frames /\ Budget
  BY DEF TypeInv
<1>. USE DEF TypeInv
<1>1. CASE UNCHANGED vars
  <2>1. TypeOK'
    BY <1>1 DEF TypeOK, vars, inVars, outVars, goVars, frame
  <2>2. Frames'
    BY <1>1 DEF Frames, vars, inVars, outVars, goVars, frame
  <2>3. Budget'
    BY <1>1, BudgetFrame DEF vars, inVars, outVars, goVars, frame
  <2>. QED  BY <2>1, <2>2, <2>3
<1>2. ASSUME NEW s \in Slots, CheckCached(s) PROVE TypeInv'
  <2>0. cache[key[s]].ans \in Answers
    <3>1. cache[key[s]] \in [has : {TRUE}, live : BOOLEAN, ans : Answers]
      BY <1>2, LiveEntry DEF CheckCached, Frames
    <3>. QED  BY <3>1
  <2>1. TypeOK' /\ Frames'
    BY <1>2, <2>0 DEF TypeOK, Frames, CheckCached, Goto, Pcs, HandlerPcs, SendPcs, RespPcs, inVars, outVars
  <2>2. Budget'
    BY <1>2, BudgetFrame DEF CheckCached, Goto, TypeOK, inVars
  <2>. QED  BY <2>1, <2>2
<1>3. ASSUME NEW s \in Slots, CheckInFlight(s) PROVE TypeInv'
  <2>0. cache' \in [Keys -> Entries]
    BY <1>3 DEF CheckInFlight, TypeOK, Entries
  <2>1. TypeOK' /\ Frames'
    BY <1>3, <2>0, TransportAssumption
       DEF TypeOK, Frames, CheckInFlight, Release, Goto, Pcs, HandlerPcs, SendPcs,
           RespPcs, NoCall, Outcomes, outVars
  <2>2. Budget'
    BY <1>3, BudgetFrame DEF CheckInFlight, Release, Goto, TypeOK
  <2>. QED  BY <2>1, <2>2
<1>4. ASSUME NEW s \in Slots, CheckNew(s) PROVE TypeInv'
  <2>a. cache' \in [Keys -> Entries]
    BY <1>4 DEF CheckNew, TypeOK, Entries
  <2>b. key[s] \in Keys /\ execs[key[s]] + 1 \in 0..(MaxCopies * MaxGen)
    <3>1. key[s] \in Keys
      BY <1>4 DEF Frames, CheckNew
    <3>2. execs[key[s]] \in Nat
      BY <3>1, Products DEF TypeOK
    <3>3. execs[key[s]] + 1 <= MaxCopies * MaxGen
      BY <1>4, BudgetNew
    <3>. QED  BY <3>1, <3>2, <3>3, Products
  <2>c. TypeOK'
    BY <1>4, <2>a, <2>b
       DEF TypeOK, CheckNew, Goto, Pcs, HandlerPcs, frame, outVars
  <2>d. Frames'
    BY <1>4, <2>b, TransportAssumption
       DEF TypeOK, Frames, CheckNew, Goto, HandlerPcs, SendPcs, RespPcs, frame, outVars
  <2>1. TypeOK' /\ Frames'
    BY <2>c, <2>d
  <2>2. Budget'
    BY <1>4, BudgetNew
  <2>. QED  BY <2>1, <2>2
<1>5. ASSUME NEW s \in Slots, Resend(s) PROVE TypeInv'
  <2>1. TypeOK' /\ Frames'
    BY <1>5, TransportAssumption
       DEF TypeOK, Frames, Resend, Release, Goto, Pcs, HandlerPcs, SendPcs,
           RespPcs, NoCall, Outcomes, inVars, outVars
  <2>2. Budget'
    BY <1>5, BudgetFrame DEF Resend, Release, Goto, TypeOK
  <2>. QED  BY <2>1, <2>2
<1>6. ASSUME NEW s \in Slots, Reply(s) PROVE TypeInv'
  <2>0. AnswerOf(s) \in Answers
    <3>1. key[s] \in Keys /\ execs[key[s]] > 0
      BY <1>6 DEF Reply, Frames, HandlerPcs
    <3>. QED  BY <3>1, Products, TransportAssumption DEF TypeOK, AnswerOf, Answers
  <2>1. TypeOK' /\ Frames'
    BY <1>6, <2>0
       DEF TypeOK, Frames, Reply, Goto, Pcs, HandlerPcs, SendPcs, RespPcs, frame, outVars
  <2>2. Budget'
    BY <1>6, BudgetFrame DEF Reply, Goto, TypeOK, frame
  <2>. QED  BY <2>1, <2>2
<1>7. ASSUME NEW s \in Slots, NoReply(s) PROVE TypeInv'
  <2>1. TypeOK' /\ Frames'
    BY <1>7 DEF TypeOK, Frames, NoReply, Goto, Pcs, HandlerPcs, SendPcs, RespPcs, inVars, frame, outVars
  <2>2. Budget'
    BY <1>7, BudgetFrame DEF NoReply, Goto, TypeOK, inVars, frame
  <2>. QED  BY <2>1, <2>2
<1>8. ASSUME NEW s \in Slots, KeyFor(s) PROVE TypeInv'
  <2>1. TypeOK' /\ Frames'
    BY <1>8 DEF TypeOK, Frames, KeyFor, Goto, Pcs, HandlerPcs, SendPcs, RespPcs, inVars, outVars
  <2>2. Budget'
    BY <1>8, BudgetFrame DEF KeyFor, Goto, TypeOK, inVars
  <2>. QED  BY <2>1, <2>2
<1>9. ASSUME NEW s \in Slots, Store(s) PROVE TypeInv'
  <2>0. AnswerOf(s) \in Answers
    <3>1. key[s] \in Keys /\ execs[key[s]] > 0
      BY <1>9 DEF Store, Frames, HandlerPcs
    <3>. QED  BY <3>1, Products, TransportAssumption DEF TypeOK, AnswerOf, Answers
  <2>1. cache' \in [Keys -> Entries]
    BY <1>9, <2>0 DEF Store, TypeOK, Entries, Entry, NoEntry
  <2>2. TypeOK' /\ Frames'
    BY <1>9, <2>1 DEF TypeOK, Frames, Store, Goto, Pcs, HandlerPcs, SendPcs, RespPcs, frame, outVars
  <2>3. Budget'
    BY <1>9, BudgetFrame DEF Store, Goto, TypeOK, frame
  <2>. QED  BY <2>2, <2>3
<1>10. ASSUME NEW s \in Slots, ClearInFlight(s) PROVE TypeInv'
  <2>1. TypeOK'
    <3>1. pc' \in [Slots -> Pcs] /\ attempt' \in [Slots -> 0..N3] /\ outcome' \in [Slots -> Outcomes]
      BY <1>10, TransportAssumption DEF TypeOK, ClearInFlight, Release, Goto, Pcs, Outcomes
    <3>2. /\ key' \in [Slots -> Keys \cup {NoKey}] /\ storeKey' \in [Slots -> Keys \cup {NoKey}]
          /\ call' \in [Slots -> CallIds \cup {NoCall}] /\ held' \in [Slots -> Answers \cup {NoAnswer}]
      BY <1>10 DEF TypeOK, ClearInFlight, Release
    <3>. QED  BY <1>10, <3>1, <3>2 DEF TypeOK, ClearInFlight, outVars
  <2>2. Frames'
    <3>1. pc'[s] = "idle" /\ attempt'[s] = 0
      BY <1>10 DEF ClearInFlight, Release, Goto, TypeOK
    <3>2. UNCHANGED execs
          /\ \A r \in Slots : r # s => /\ pc'[r] = pc[r] /\ key'[r] = key[r]
                                      /\ attempt'[r] = attempt[r] /\ call'[r] = call[r]
                                      /\ held'[r] = held[r]
      BY <1>10 DEF ClearInFlight, Release, Goto, TypeOK
    <3>. QED
      BY <3>1, <3>2, TransportAssumption DEF Frames, HandlerPcs, SendPcs, RespPcs
  <2>3. Budget'
    BY <1>10, BudgetFrame DEF ClearInFlight, Release, Goto, TypeOK
  <2>. QED  BY <2>1, <2>2, <2>3
<1>11. ASSUME NEW s \in Slots, SendBegin(s) PROVE TypeInv'
  <2>1. calls + 1 \in CallIds /\ calls + 1 \in 0..MaxCalls
    BY <1>11, TransportAssumption DEF SendBegin, CallIds, TypeOK
  <2>a. SeqNo(calls + 1) \in 0..(SeqSpace - 1)
    BY <1>11, TransportAssumption DEF TypeOK, SeqNo
  <2>d. pending' \in [0..(SeqSpace - 1) -> CallIds \cup {NoCall}]
    BY <1>11, <2>1, <2>a DEF TypeOK, SendBegin
  <2>e. call' \in [Slots -> CallIds \cup {NoCall}] /\ calls' \in 0..MaxCalls
    BY <1>11, <2>1 DEF TypeOK, SendBegin
  <2>f. chan' \in [Slots -> BOOLEAN] /\ done' \in [Slots -> {"no", "cancelled", "expired"}]
        /\ outcome' \in [Slots -> Outcomes]
    BY <1>11 DEF TypeOK, SendBegin, Outcomes
  <2>g. pc' \in [Slots -> Pcs]
    <3>1. pc \in [Slots -> Pcs] /\ "write" \in Pcs /\ "handled" \in Pcs
      BY DEF TypeOK, Pcs, HandlerPcs, SendPcs
    <3>2. pc' = [pc EXCEPT ![s] = "write"] \/ pc' = [pc EXCEPT ![s] = "handled"]
      BY <1>11 DEF SendBegin, Goto
    <3>. QED  BY <3>1, <3>2
  <2>b. TypeOK'
    BY <1>11, <2>d, <2>e, <2>f, <2>g DEF TypeOK, SendBegin, inVars
  <2>j. pc[s] = "handler" /\ UNCHANGED <<key, execs, attempt, held>>
    BY <1>11 DEF SendBegin, inVars
  <2>h. \A r \in Slots : r # s => pc'[r] = pc[r] /\ call'[r] = call[r]
    BY <1>11 DEF SendBegin, Goto, TypeOK
  <2>i. pc'[s] = "handled" \/ (pc'[s] = "write" /\ call'[s] \in CallIds)
    BY <1>11, <2>1 DEF SendBegin, Goto, TypeOK
  <2>k. ASSUME NEW r \in Slots, r # s
        PROVE  /\ pc'[r] \in {"check", "resend"} \cup HandlerPcs => key'[r] \in Keys
               /\ pc'[r] \in HandlerPcs => execs'[key'[r]] > 0
               /\ pc'[r] \notin {"cleanup", "handled", "keyFor", "store", "clear"} => attempt'[r] < N3
               /\ pc'[r] \in SendPcs \cup RespPcs => call'[r] \in CallIds
               /\ pc'[r] = "resend" => held'[r] \in Answers
    BY <2>h, <2>j, <2>k DEF Frames
  <2>l. /\ key'[s] \in Keys /\ execs'[key'[s]] > 0 /\ attempt'[s] < N3
        /\ pc'[s] \in SendPcs \cup RespPcs => call'[s] \in CallIds
        /\ pc'[s] # "resend"
    BY <2>i, <2>j DEF Frames, HandlerPcs, SendPcs, RespPcs
  <2>c. Frames'
    BY <2>k, <2>l DEF Frames
  <2>2. TypeOK' /\ Frames'
    BY <2>b, <2>c
  <2>3. Budget'
    BY <1>11, BudgetFrame DEF SendBegin, Goto, TypeOK, inVars
  <2>. QED  BY <2>2, <2>3
<1>12. ASSUME NEW s \in Slots, SendWrite(s) PROVE TypeInv'
  <2>a. owed' \in [CallIds -> 0..MaxCopies]
    <3>1. call[s] \in CallIds
      BY <1>12 DEF Frames, SendWrite, SendPcs
    <3>2. owed \in [CallIds -> 0..MaxCopies]
      BY DEF TypeOK
    <3>. QED  BY <1>12, <3>1, <3>2, TransportAssumption DEF SendWrite
  <2>b. TypeOK'
    BY <1>12, <2>a DEF TypeOK, SendWrite, Goto, Pcs, HandlerPcs, SendPcs, Outcomes, inVars
  <2>c. Frames'
    BY <1>12 DEF TypeOK, Frames, SendWrite, Goto, HandlerPcs, SendPcs, RespPcs, inVars
  <2>1. TypeOK' /\ Frames'
    BY <2>b, <2>c
  <2>2. Budget'
    BY <1>12, BudgetFrame DEF SendWrite, Goto, TypeOK, inVars
  <2>. QED  BY <2>1, <2>2
<1>13. ASSUME NEW s \in Slots, SelectReady(s) PROVE TypeInv'
  <2>1. TypeOK' /\ Frames'
    BY <1>13 DEF TypeOK, Frames, SelectReady, Goto, Pcs, HandlerPcs, SendPcs, RespPcs, Outcomes,
                 inVars, outVars
  <2>2. Budget'
    BY <1>13, BudgetFrame DEF SelectReady, Goto, TypeOK, inVars
  <2>. QED  BY <2>1, <2>2
<1>14. ASSUME NEW s \in Slots, SelectPark(s) PROVE TypeInv'
  <2>1. TypeOK' /\ Frames'
    BY <1>14 DEF TypeOK, Frames, SelectPark, Goto, Pcs, HandlerPcs, SendPcs, RespPcs, frame, inVars, outVars
  <2>2. Budget'
    BY <1>14, BudgetFrame DEF SelectPark, Goto, TypeOK, inVars, frame
  <2>. QED  BY <2>1, <2>2
<1>15. ASSUME NEW s \in Slots, T3Expires(s) PROVE TypeInv'
  <2>a. attempt[s] + 1 \in 0..N3
    <3>1. attempt[s] < N3
      BY <1>15 DEF Frames, T3Expires
    <3>2. attempt[s] \in 0..N3
      BY DEF TypeOK
    <3>. QED  BY <3>1, <3>2, TransportAssumption
  <2>b. TypeOK'
    BY <1>15, <2>a DEF TypeOK, T3Expires, Goto, Pcs, HandlerPcs, SendPcs, Outcomes, inVars, outVars
  <2>c. Frames'
    BY <1>15, <2>a DEF TypeOK, Frames, T3Expires, Goto, HandlerPcs, SendPcs, RespPcs, inVars
  <2>1. TypeOK' /\ Frames'
    BY <2>b, <2>c
  <2>2. Budget'
    BY <1>15, BudgetFrame DEF T3Expires, Goto, TypeOK, inVars
  <2>. QED  BY <2>1, <2>2
<1>16. ASSUME NEW s \in Slots, SendReturn(s) PROVE TypeInv'
  <2>1. TypeOK' /\ Frames'
    BY <1>16
       DEF TypeOK, Frames, SendReturn, Goto, Pcs, HandlerPcs, SendPcs, RespPcs, frame, inVars, NoCall
  <2>2. Budget'
    BY <1>16, BudgetFrame DEF SendReturn, Goto, TypeOK, inVars, frame
  <2>. QED  BY <2>1, <2>2
<1>17. ASSUME NEW s \in Slots, Deliver(s) PROVE TypeInv'
  <2>0. SeqNo(call[s]) \in 0..(SeqSpace - 1)
    BY <1>17, TransportAssumption DEF Deliver, Frames, RespPcs, CallIds, SeqNo
  <2>a. ASSUME pending[SeqNo(call[s])] = NoCall PROVE TypeOK' /\ Frames'
    <3>. Release(s) /\ UNCHANGED <<inVars, calls, chan, done, owed, pending>>
      BY <1>17, <2>a DEF Deliver
    <3>1. TypeOK'
      BY TransportAssumption DEF TypeOK, Release, Goto, Pcs, Outcomes, inVars, NoCall
    <3>2. Frames'
      BY TransportAssumption DEF TypeOK, Frames, Release, Goto, HandlerPcs, SendPcs, RespPcs, inVars
    <3>. QED  BY <3>1, <3>2
  <2>b. ASSUME pending[SeqNo(call[s])] # NoCall PROVE TypeOK' /\ Frames'
    <3>1. pending[SeqNo(call[s])] \in CallIds
      BY <2>0, <2>b DEF TypeOK
    <3>2. /\ pc[s] = "deliver" /\ pc' = [pc EXCEPT ![s] = "hand"]
          /\ pending' = [pending EXCEPT ![SeqNo(call[s])] = NoCall]
          /\ call' = [call EXCEPT ![s] = pending[SeqNo(call[s])]]
          /\ UNCHANGED <<inVars, key, attempt, outcome, held, storeKey, calls, chan, done, owed>>
      BY <1>17, <2>b DEF Deliver, Goto
    <3>3. TypeOK'
      BY <2>0, <3>1, <3>2 DEF TypeOK, Pcs, RespPcs, inVars
    <3>4. Frames'
      BY <3>1, <3>2 DEF TypeOK, Frames, HandlerPcs, SendPcs, RespPcs, inVars
    <3>. QED  BY <3>3, <3>4
  <2>1. TypeOK' /\ Frames'
    BY <2>a, <2>b
  <2>2. Budget'
    BY <1>17, BudgetFrame DEF Deliver, Release, Goto, TypeOK, inVars
  <2>. QED  BY <2>1, <2>2
<1>18. ASSUME NEW s \in Slots, Hand(s) PROVE TypeInv'
  <2>1. TypeOK'
    BY <1>18 DEF TypeOK, Hand, Sender, Pcs, HandlerPcs, SendPcs, RespPcs, Outcomes, inVars
  <2>2. Frames'
    BY <1>18 DEF TypeOK, Frames, Hand, Sender, HandlerPcs, SendPcs, RespPcs, inVars
  <2>3. Budget'
    BY <1>18, BudgetFrame DEF Hand, TypeOK, inVars
  <2>. QED  BY <2>1, <2>2, <2>3
<1>19. ASSUME NEW s \in Slots, Cancel(s) PROVE TypeInv'
  <2>1. TypeOK' /\ Frames'
    BY <1>19, TransportAssumption
       DEF TypeOK, Frames, Cancel, Release, Goto, Pcs, HandlerPcs, SendPcs, RespPcs, Outcomes, inVars, NoCall
  <2>2. Budget'
    BY <1>19, BudgetFrame DEF Cancel, Release, Goto, TypeOK, inVars
  <2>. QED  BY <2>1, <2>2
<1>20. ASSUME NEW s \in Slots, CtxExpires(s) PROVE TypeInv'
  <2>1. TypeOK'
    <3>0. "cleanup" \in Pcs /\ "error" \in Outcomes
      BY DEF Pcs, HandlerPcs, SendPcs, Outcomes
    <3>1. pc' \in [Slots -> Pcs] /\ outcome' \in [Slots -> Outcomes]
      <4>1. pc \in [Slots -> Pcs] /\ outcome \in [Slots -> Outcomes]
        BY DEF TypeOK
      <4>2. \/ pc' = [pc EXCEPT ![s] = "cleanup"] /\ outcome' = [outcome EXCEPT ![s] = "error"]
            \/ UNCHANGED <<pc, outcome>>
        BY <1>20 DEF CtxExpires, Goto
      <4>. QED  BY <3>0, <4>1, <4>2
    <3>2. done' \in [Slots -> {"no", "cancelled", "expired"}]
      <4>1. done \in [Slots -> {"no", "cancelled", "expired"}]
        BY DEF TypeOK
      <4>. QED  BY <1>20, <4>1 DEF CtxExpires
    <3>. QED  BY <1>20, <3>1, <3>2 DEF TypeOK, CtxExpires, inVars
  <2>2. Frames'
    <3>1. pc[s] \in SendPcs /\ pc'[s] \in {pc[s], "cleanup"}
      BY <1>20 DEF CtxExpires, Goto, TypeOK, SendPcs
    <3>2. UNCHANGED <<key, execs, attempt, call, held>> /\ \A r \in Slots : r # s => pc'[r] = pc[r]
      BY <1>20 DEF CtxExpires, Goto, TypeOK, inVars
    <3>. QED  BY <3>1, <3>2 DEF Frames, HandlerPcs, SendPcs
  <2>3. Budget'
    BY <1>20, BudgetFrame DEF CtxExpires, Goto, TypeOK, inVars
  <2>. QED  BY <2>1, <2>2, <2>3
<1>21. ASSUME NEW s \in Slots, NEW k \in Keys, ServeRequest(s, k) PROVE TypeInv'
  <2>1. TypeOK' /\ Frames'
    BY <1>21, TransportAssumption
       DEF TypeOK, Frames, ServeRequest, Goto, Pcs, HandlerPcs, SendPcs, RespPcs, outVars
  <2>2. Budget'
    BY <1>21, BudgetServe
  <2>. QED  BY <2>1, <2>2
<1>22. ASSUME NEW s \in Slots, NEW c \in CallIds, ServeResponse(s, c) PROVE TypeInv'
  <2>1. TypeOK' /\ Frames'
    BY <1>22, TransportAssumption
       DEF TypeOK, Frames, ServeResponse, Goto, Pcs, HandlerPcs, SendPcs, RespPcs, inVars
  <2>2. Budget'
    BY <1>22, BudgetFrame DEF ServeResponse, Goto, TypeOK, inVars
  <2>. QED  BY <2>1, <2>2
<1>23. ASSUME NEW k \in Keys, OverloadRequest(k) PROVE TypeInv'
  <2>1. TypeOK' /\ Frames'
    BY <1>23, TransportAssumption DEF TypeOK, Frames, OverloadRequest, goVars, frame, outVars
  <2>2. Budget'
    BY <1>23, BudgetOverload
  <2>. QED  BY <2>1, <2>2
<1>24. ASSUME NEW k \in Keys, Expire(k) PROVE TypeInv'
  <2>0. cache' \in [Keys -> Entries]
    <3>. DEFINE e == cache[k]
    <3>1. e \in [has : {TRUE}, live : BOOLEAN, ans : Answers]
      BY <1>24, LiveEntry DEF Expire
    <3>. HIDE DEF e
    <3>2. [e EXCEPT !.live = FALSE] \in Entries
      BY <3>1 DEF Entries
    <3>3. cache' = [cache EXCEPT ![k] = [e EXCEPT !.live = FALSE]]
      BY <1>24 DEF Expire, e
    <3>. QED  BY <3>2, <3>3 DEF TypeOK
  <2>1. gen' \in [Keys -> 1..MaxGen] /\ copies' \in [Keys -> 0..MaxCopies]
    BY <1>24, TransportAssumption DEF Expire, TypeOK
  <2>2. TypeOK' /\ Frames'
    BY <1>24, <2>0, <2>1 DEF TypeOK, Frames, Expire, goVars, frame, outVars
  <2>3. Budget'
    BY <1>24, BudgetExpire
  <2>. QED  BY <2>2, <2>3
<1>25. ASSUME NEW c \in CallIds, OverloadResponse(c) PROVE TypeInv'
  <2>1. TypeOK' /\ Frames'
    BY <1>25, TransportAssumption DEF TypeOK, Frames, OverloadResponse, goVars, frame, inVars
  <2>2. Budget'
    BY <1>25, BudgetFrame DEF OverloadResponse, goVars, frame, inVars
  <2>. QED  BY <2>1, <2>2
<1>. HIDE DEF TypeInv
<1>26. ASSUME NEW s \in Slots, Step(s) PROVE TypeInv'
  BY <1>26, <1>2, <1>3, <1>4, <1>5, <1>6, <1>7, <1>8, <1>9, <1>10, <1>11, <1>12, <1>13,
     <1>14, <1>15, <1>16, <1>17, <1>18, <1>19 DEF Step
<1>. QED
  BY <1>1, <1>20, <1>21, <1>22, <1>23, <1>24, <1>25, <1>26 DEF Next

\* TypeOK always holds, with the frames and the budget that make it inductive: the
\* goroutines of GTPv2-C transport.go never hold a value outside its range, whatever
\* the bounds.
THEOREM TypeCorrect == Spec => []TypeOK
<1>1. Init => TypeInv
  BY TypeInit
<1>2. TypeInv /\ [Next]_vars => TypeInv'
  BY TypeStep
<1>3. TypeInv => TypeOK
  BY DEF TypeInv
<1>. QED  BY <1>1, <1>2, <1>3, PTL DEF Spec

-----------------------------------------------------------------------------
(* Who owns a request in flight.                                           *)

\* Where a handler is before it has an answer to send.
Running == {"handler", "handled"} \cup SendPcs

\* A step that leaves the inbound side as it is: no marking, no answer on the wire,
\* nothing cached or expired.
Quiet ==
    /\ UNCHANGED <<inFlight, cache, gen, execs, got>>
    /\ \A t \in Slots :
        /\ pc'[t] \in Running <=> pc[t] \in Running
        /\ \A l \in {"resend", "keyFor", "store", "clear"} : pc'[t] = l <=> pc[t] = l
        /\ pc[t] \in {"resend"} \cup HandlerPcs =>
               key'[t] = key[t] /\ held'[t] = held[t] /\ storeKey'[t] = storeKey[t]

\* The steps of a goroutine that change the inbound side.
Marking(s) ==
    \/ CheckCached(s) \/ CheckInFlight(s) \/ CheckNew(s) \/ Resend(s)
    \/ Reply(s) \/ NoReply(s) \/ KeyFor(s) \/ Store(s) \/ ClearInFlight(s)

\* Every step is quiet, one of the marking ones, or the expiry of a cache entry.
LEMMA QuietSteps ==
    ASSUME TypeInv, [Next]_vars
    PROVE  \/ Quiet
           \/ \E s \in Slots : Marking(s)
           \/ \E k \in Keys : Expire(k)
<1>. TypeOK /\ Frames
  BY DEF TypeInv
<1>1. CASE UNCHANGED vars
  BY <1>1 DEF Quiet, vars, inVars, goVars, frame
<1>2. ASSUME NEW s \in Slots, SendBegin(s) PROVE Quiet
  BY <1>2 DEF Quiet, SendBegin, Running, HandlerPcs, SendPcs, Goto, TypeOK, inVars
<1>3. ASSUME NEW s \in Slots, SendWrite(s) PROVE Quiet
  BY <1>3 DEF Quiet, SendWrite, Running, HandlerPcs, SendPcs, Goto, TypeOK, inVars
<1>4. ASSUME NEW s \in Slots, SelectReady(s) PROVE Quiet
  BY <1>4 DEF Quiet, SelectReady, Running, HandlerPcs, SendPcs, Goto, TypeOK, inVars
<1>5. ASSUME NEW s \in Slots, SelectPark(s) PROVE Quiet
  BY <1>5 DEF Quiet, SelectPark, Running, HandlerPcs, SendPcs, Goto, TypeOK, inVars, frame
<1>6. ASSUME NEW s \in Slots, T3Expires(s) PROVE Quiet
  BY <1>6 DEF Quiet, T3Expires, Running, HandlerPcs, SendPcs, Goto, TypeOK, inVars
<1>7. ASSUME NEW s \in Slots, SendReturn(s) PROVE Quiet
  BY <1>7 DEF Quiet, SendReturn, Running, HandlerPcs, SendPcs, Goto, TypeOK, inVars, frame
<1>8. ASSUME NEW s \in Slots, Deliver(s) PROVE Quiet
  BY <1>8 DEF Quiet, Deliver, Release, Running, HandlerPcs, SendPcs, Goto, TypeOK, inVars
<1>9. ASSUME NEW s \in Slots, Hand(s) PROVE Quiet
  BY <1>9 DEF Quiet, Hand, Sender, Running, HandlerPcs, SendPcs, TypeOK, inVars
<1>10. ASSUME NEW s \in Slots, Cancel(s) PROVE Quiet
  BY <1>10 DEF Quiet, Cancel, Release, Running, HandlerPcs, SendPcs, Goto, TypeOK, inVars
<1>11. ASSUME NEW s \in Slots, CtxExpires(s) PROVE Quiet
  BY <1>11 DEF Quiet, CtxExpires, Running, HandlerPcs, SendPcs, Goto, TypeOK, inVars
<1>12. ASSUME NEW s \in Slots, NEW k \in Keys, ServeRequest(s, k) PROVE Quiet
  BY <1>12 DEF Quiet, ServeRequest, Running, HandlerPcs, SendPcs, Goto, TypeOK
<1>13. ASSUME NEW s \in Slots, NEW c \in CallIds, ServeResponse(s, c) PROVE Quiet
  BY <1>13 DEF Quiet, ServeResponse, Running, HandlerPcs, SendPcs, Goto, TypeOK, inVars
<1>14. ASSUME NEW k \in Keys, OverloadRequest(k) PROVE Quiet
  BY <1>14 DEF Quiet, OverloadRequest, goVars, frame
<1>15. ASSUME NEW c \in CallIds, OverloadResponse(c) PROVE Quiet
  BY <1>15 DEF Quiet, OverloadResponse, goVars, frame, inVars
<1>16. ASSUME NEW s \in Slots, Step(s) PROVE Quiet \/ Marking(s)
  BY <1>16, <1>2, <1>3, <1>4, <1>5, <1>6, <1>7, <1>8, <1>9, <1>10 DEF Step, Marking
<1>. QED
  BY <1>1, <1>11, <1>12, <1>13, <1>14, <1>15, <1>16 DEF Next

\* A request is in inFlight exactly while a handler of it runs, and one goroutine at
\* most runs it.
Owned ==
    /\ \A s, t \in Slots :
           pc[s] \in HandlerPcs /\ pc[t] \in HandlerPcs /\ key[s] = key[t] => s = t
    /\ \A s \in Slots : pc[s] \in HandlerPcs => key[s] \in inFlight
    /\ \A k \in inFlight : \E s \in Slots : pc[s] \in HandlerPcs /\ key[s] = k

\* Nothing is in flight initially.
LEMMA OwnedInit == Init => Owned
BY DEF Init, Owned, HandlerPcs, SendPcs

\* A step that neither enters nor leaves a handler keeps Owned.
LEMMA OwnedFrame ==
    ASSUME Owned, inFlight' = inFlight,
           \A t \in Slots : /\ pc'[t] \in HandlerPcs <=> pc[t] \in HandlerPcs
                            /\ pc[t] \in HandlerPcs => key'[t] = key[t]
    PROVE  Owned'
BY DEF Owned

\* Every step keeps Owned.
LEMMA OwnedStep ==
    ASSUME TypeInv, Owned, [Next]_vars
    PROVE  Owned'
<1>. TypeOK /\ Frames
  BY DEF TypeInv
<1>1. CASE Quiet
  <2>1. \A t \in Slots : /\ pc'[t] \in HandlerPcs <=> pc[t] \in HandlerPcs
                         /\ pc[t] \in HandlerPcs => key'[t] = key[t]
    BY <1>1 DEF Quiet, Running, HandlerPcs, SendPcs
  <2>. QED  BY <1>1, <2>1, OwnedFrame DEF Quiet
<1>2. ASSUME NEW s \in Slots, CheckCached(s) PROVE Owned'
  BY <1>2, OwnedFrame DEF CheckCached, Goto, TypeOK, HandlerPcs, SendPcs, inVars
<1>3. ASSUME NEW s \in Slots, CheckInFlight(s) PROVE Owned'
  BY <1>3, OwnedFrame DEF CheckInFlight, Release, Goto, TypeOK, HandlerPcs, SendPcs
<1>4. ASSUME NEW s \in Slots, CheckNew(s) PROVE Owned'
  BY <1>4 DEF Owned, CheckNew, Goto, TypeOK, HandlerPcs, SendPcs, frame
<1>5. ASSUME NEW s \in Slots, Resend(s) PROVE Owned'
  BY <1>5, OwnedFrame DEF Resend, Release, Goto, TypeOK, HandlerPcs, SendPcs
<1>6. ASSUME NEW s \in Slots, Reply(s) PROVE Owned'
  BY <1>6, OwnedFrame DEF Reply, Goto, TypeOK, HandlerPcs, SendPcs, frame
<1>7. ASSUME NEW s \in Slots, NoReply(s) PROVE Owned'
  BY <1>7, OwnedFrame DEF NoReply, Goto, TypeOK, HandlerPcs, SendPcs, frame, inVars
<1>8. ASSUME NEW s \in Slots, KeyFor(s) PROVE Owned'
  BY <1>8, OwnedFrame DEF KeyFor, Goto, TypeOK, HandlerPcs, SendPcs, inVars
<1>9. ASSUME NEW s \in Slots, Store(s) PROVE Owned'
  BY <1>9, OwnedFrame DEF Store, Goto, TypeOK, HandlerPcs, SendPcs, frame
<1>10. ASSUME NEW s \in Slots, ClearInFlight(s) PROVE Owned'
  <2>1. /\ pc[s] \in HandlerPcs
        /\ \A t \in Slots : /\ pc'[t] \in HandlerPcs <=> pc[t] \in HandlerPcs /\ t # s
                            /\ t # s => key'[t] = key[t]
        /\ inFlight' = inFlight \ {key[s]}
    BY <1>10 DEF ClearInFlight, Release, Goto, TypeOK, HandlerPcs, SendPcs
  <2>. QED  BY <2>1 DEF Owned
<1>11. ASSUME NEW k \in Keys, Expire(k) PROVE Owned'
  BY <1>11, OwnedFrame DEF Expire, goVars, frame
<1>. QED
  BY <1>1, <1>2, <1>3, <1>4, <1>5, <1>6, <1>7, <1>8, <1>9, <1>10, <1>11, QuietSteps DEF Marking

\* Owned, counted, is InFlightOwned.
LEMMA OwnedMeans ==
    ASSUME Owned
    PROVE  InFlightOwned
<1>. SUFFICES ASSUME NEW k \in Keys
              PROVE  Cardinality({s \in Slots : pc[s] \in HandlerPcs /\ key[s] = k})
                         = (IF k \in inFlight THEN 1 ELSE 0)
  BY DEF InFlightOwned
<1>1. CASE k \in inFlight
  <2>1. PICK t \in Slots : pc[t] \in HandlerPcs /\ key[t] = k
    BY <1>1 DEF Owned
  <2>2. {s \in Slots : pc[s] \in HandlerPcs /\ key[s] = k} = {t}
    BY <2>1 DEF Owned
  <2>. QED  BY <1>1, <2>2, FS_Singleton
<1>2. CASE k \notin inFlight
  <2>1. {s \in Slots : pc[s] \in HandlerPcs /\ key[s] = k} = {}
    BY <1>2 DEF Owned
  <2>. QED  BY <1>2, <2>1, FS_EmptySet
<1>. QED  BY <1>1, <1>2

\* InFlightOwned: a request marked in c.inFlight is owned by one goroutine, which
\* clears it, and no copy is executed beside it, for any number of goroutines,
\* requests and copies.
THEOREM InFlightOwnedHolds == Spec => []InFlightOwned
<1>1. Init => TypeInv
  BY TypeInit
<1>2. Init => Owned
  BY OwnedInit
<1>3. TypeInv /\ [Next]_vars => TypeInv'
  BY TypeStep
<1>4. TypeInv /\ Owned /\ [Next]_vars => Owned'
  BY OwnedStep
<1>5. Owned => InFlightOwned
  BY OwnedMeans
<1>. QED  BY <1>1, <1>2, <1>3, <1>4, <1>5, PTL DEF Spec

-----------------------------------------------------------------------------
(* What Send leaves behind.                                                *)

\* A transaction in c.pending belongs to a goroutine that is still inside Send for
\* it.
Registered ==
    \A q \in 0..(SeqSpace - 1) :
        pending[q] # NoCall =>
            /\ q = SeqNo(pending[q])
            /\ \E t \in Slots : pc[t] \in SendPcs /\ call[t] = pending[q]

\* A step in which nobody leaves Send and c.pending stays keeps Registered.
LEMMA RegisteredFrame ==
    ASSUME Registered, pending' = pending,
           \A t \in Slots : pc[t] \in SendPcs => pc'[t] \in SendPcs /\ call'[t] = call[t]
    PROVE  Registered'
BY DEF Registered

\* Every step keeps Registered.
LEMMA RegisteredStep ==
    ASSUME TypeInv, Registered, [Next]_vars
    PROVE  Registered'
<1>. TypeOK /\ Frames
  BY DEF TypeInv
<1>1. CASE UNCHANGED vars
  BY <1>1, RegisteredFrame DEF vars, outVars, goVars, frame
<1>2. ASSUME NEW s \in Slots, CheckCached(s) PROVE Registered'
  BY <1>2, RegisteredFrame DEF CheckCached, Goto, TypeOK, SendPcs, outVars
<1>3. ASSUME NEW s \in Slots, CheckInFlight(s) PROVE Registered'
  BY <1>3, RegisteredFrame DEF CheckInFlight, Release, Goto, TypeOK, SendPcs, outVars
<1>4. ASSUME NEW s \in Slots, CheckNew(s) PROVE Registered'
  BY <1>4, RegisteredFrame DEF CheckNew, Goto, TypeOK, SendPcs, outVars, frame
<1>5. ASSUME NEW s \in Slots, Resend(s) PROVE Registered'
  BY <1>5, RegisteredFrame DEF Resend, Release, Goto, TypeOK, SendPcs, outVars
<1>6. ASSUME NEW s \in Slots, Reply(s) PROVE Registered'
  BY <1>6, RegisteredFrame DEF Reply, Goto, TypeOK, SendPcs, outVars, frame
<1>7. ASSUME NEW s \in Slots, NoReply(s) PROVE Registered'
  BY <1>7, RegisteredFrame DEF NoReply, Goto, TypeOK, SendPcs, outVars, frame
<1>8. ASSUME NEW s \in Slots, KeyFor(s) PROVE Registered'
  BY <1>8, RegisteredFrame DEF KeyFor, Goto, TypeOK, SendPcs, outVars
<1>9. ASSUME NEW s \in Slots, Store(s) PROVE Registered'
  BY <1>9, RegisteredFrame DEF Store, Goto, TypeOK, SendPcs, outVars, frame
<1>10. ASSUME NEW s \in Slots, ClearInFlight(s) PROVE Registered'
  BY <1>10, RegisteredFrame DEF ClearInFlight, Release, Goto, TypeOK, SendPcs, outVars
<1>11. ASSUME NEW s \in Slots, SendBegin(s) PROVE Registered'
  <2>1. CASE pending[SeqNo(calls + 1)] = NoCall
    <3>1. SeqNo(calls + 1) \in 0..(SeqSpace - 1)
      BY TransportAssumption DEF TypeOK, SeqNo
    <3>2. /\ pc[s] \notin SendPcs /\ pc'[s] \in SendPcs /\ call'[s] = calls + 1
          /\ \A t \in Slots : t # s => pc'[t] = pc[t] /\ call'[t] = call[t]
          /\ pending'[SeqNo(calls + 1)] = calls + 1
          /\ \A q \in 0..(SeqSpace - 1) : q # SeqNo(calls + 1) => pending'[q] = pending[q]
      <4>1. /\ pending \in [0..(SeqSpace - 1) -> CallIds \cup {NoCall}]
            /\ pc \in [Slots -> Pcs] /\ call \in [Slots -> CallIds \cup {NoCall}]
        BY DEF TypeOK
      <4>2. /\ pc[s] = "handler"
            /\ pending' = [pending EXCEPT ![SeqNo(calls + 1)] = calls + 1]
            /\ call' = [call EXCEPT ![s] = calls + 1]
            /\ pc' = [pc EXCEPT ![s] = "write"]
        BY <1>11, <2>1 DEF SendBegin, Goto
      <4>. QED  BY <3>1, <4>1, <4>2 DEF SendPcs
    <3>. QED  BY <3>1, <3>2 DEF Registered
  <2>2. CASE pending[SeqNo(calls + 1)] # NoCall
    BY <1>11, <2>2, RegisteredFrame DEF SendBegin, Goto, TypeOK, SendPcs
  <2>. QED  BY <2>1, <2>2
<1>12. ASSUME NEW s \in Slots, SendWrite(s) PROVE Registered'
  BY <1>12, RegisteredFrame DEF SendWrite, Goto, TypeOK, SendPcs
<1>13. ASSUME NEW s \in Slots, SelectReady(s) PROVE Registered'
  BY <1>13, RegisteredFrame DEF SelectReady, Goto, TypeOK, SendPcs, outVars
<1>14. ASSUME NEW s \in Slots, SelectPark(s) PROVE Registered'
  BY <1>14, RegisteredFrame DEF SelectPark, Goto, TypeOK, SendPcs, outVars, frame
<1>15. ASSUME NEW s \in Slots, T3Expires(s) PROVE Registered'
  BY <1>15, RegisteredFrame DEF T3Expires, Goto, TypeOK, SendPcs, outVars
<1>16. ASSUME NEW s \in Slots, SendReturn(s) PROVE Registered'
  <2>1. /\ \A t \in Slots : t # s => pc'[t] = pc[t]
        /\ call' = call
        /\ \A q \in 0..(SeqSpace - 1) : pending'[q] = IF q = SeqNo(call[s]) THEN NoCall ELSE pending[q]
    BY <1>16 DEF SendReturn, Goto, TypeOK, frame
  <2>. QED  BY <2>1 DEF Registered
<1>17. ASSUME NEW s \in Slots, Deliver(s) PROVE Registered'
  <2>1. /\ \A t \in Slots : t # s => pc'[t] = pc[t] /\ call'[t] = call[t]
        /\ pc[s] \notin SendPcs
        /\ \A q \in 0..(SeqSpace - 1) : pending'[q] = pending[q] \/ pending'[q] = NoCall
    <3>1. /\ pending \in [0..(SeqSpace - 1) -> CallIds \cup {NoCall}]
          /\ pc \in [Slots -> Pcs] /\ call \in [Slots -> CallIds \cup {NoCall}]
      BY DEF TypeOK
    <3>2. /\ pc[s] = "deliver"
          /\ \E l : pc' = [pc EXCEPT ![s] = l]
          /\ \E c : call' = [call EXCEPT ![s] = c]
          /\ pending' = pending \/ pending' = [pending EXCEPT ![SeqNo(call[s])] = NoCall]
      BY <1>17 DEF Deliver, Release, Goto
    <3>. QED  BY <3>1, <3>2 DEF SendPcs
  <2>. QED  BY <2>1 DEF Registered
<1>18. ASSUME NEW s \in Slots, Hand(s) PROVE Registered'
  BY <1>18, RegisteredFrame DEF Hand, Sender, TypeOK, SendPcs
<1>19. ASSUME NEW s \in Slots, Cancel(s) PROVE Registered'
  BY <1>19, RegisteredFrame DEF Cancel, Release, Goto, TypeOK, SendPcs
<1>20. ASSUME NEW s \in Slots, CtxExpires(s) PROVE Registered'
  BY <1>20, RegisteredFrame DEF CtxExpires, Goto, TypeOK, SendPcs
<1>21. ASSUME NEW s \in Slots, NEW k \in Keys, ServeRequest(s, k) PROVE Registered'
  BY <1>21, RegisteredFrame DEF ServeRequest, Goto, TypeOK, SendPcs, outVars
<1>22. ASSUME NEW s \in Slots, NEW c \in CallIds, ServeResponse(s, c) PROVE Registered'
  BY <1>22, RegisteredFrame DEF ServeResponse, Goto, TypeOK, SendPcs
<1>23. ASSUME NEW k \in Keys, OverloadRequest(k) PROVE Registered'
  BY <1>23, RegisteredFrame DEF OverloadRequest, goVars, frame, outVars
<1>24. ASSUME NEW k \in Keys, Expire(k) PROVE Registered'
  BY <1>24, RegisteredFrame DEF Expire, goVars, frame, outVars
<1>25. ASSUME NEW c \in CallIds, OverloadResponse(c) PROVE Registered'
  BY <1>25, RegisteredFrame DEF OverloadResponse, goVars, frame
<1>26. ASSUME NEW s \in Slots, Step(s) PROVE Registered'
  BY <1>26, <1>2, <1>3, <1>4, <1>5, <1>6, <1>7, <1>8, <1>9, <1>10, <1>11, <1>12, <1>13,
     <1>14, <1>15, <1>16, <1>17, <1>18, <1>19 DEF Step
<1>. QED
  BY <1>1, <1>20, <1>21, <1>22, <1>23, <1>24, <1>25, <1>26 DEF Next

\* NoPendingLeak: when Send returns, on an answer, after N3 retries or on a closed
\* connection, its entry is out of c.pending, although sequence numbers wrap.
THEOREM NoPendingLeakHolds == Spec => []NoPendingLeak
<1>1. Init => TypeInv
  BY TypeInit
<1>2. Init => Registered
  BY DEF Init, Registered
<1>3. TypeInv /\ [Next]_vars => TypeInv'
  BY TypeStep
<1>4. TypeInv /\ Registered /\ [Next]_vars => Registered'
  BY RegisteredStep
<1>5. TypeInv /\ Registered => NoPendingLeak
  BY DEF TypeInv, TypeOK, Registered, NoPendingLeak, Sender
<1>. QED  BY <1>1, <1>2, <1>3, <1>4, <1>5, PTL DEF Spec

-----------------------------------------------------------------------------
(* One answer.                                                             *)

\* The peer has no two outstanding requests with one sequence number and message
\* type: keyFor, which looks among the requests in flight for the one a response
\* belongs to, cannot take another.
TxDistinct == \A j, k \in inFlight : j.tx = k.tx => j = k

\* A handler caches its response under the key of its own request.
StoreKeyed == \A s \in Slots : pc[s] = "store" => storeKey[s] = key[s]
\* A request whose answer is cached has no handler that may still answer it.
LiveDone   == \A s \in Slots : pc[s] \in HandlerPcs /\ Live(key[s]) => pc[s] = "clear"
\* The cached answer of a request is the one answer it was given.
LiveSent   == \A k \in Keys : Live(k) => got[k] = {cache[k].ans} /\ cache[k].ans.gen = gen[k]
\* A goroutine that resends holds the cached answer, which cannot expire under it.
HeldLive   == \A s \in Slots : pc[s] = "resend" => Live(key[s]) /\ held[s] = cache[key[s]].ans
\* Between the write of a response and its caching, the request has that one answer.
JustSent   == \A s \in Slots : pc[s] \in {"keyFor", "store"} => got[key[s]] = {AnswerOf(s)}
\* A request that was given an answer has it cached, or is about to have.
SentBy     == \A k \in Keys : got[k] # {} =>
                  Live(k) \/ \E s \in Slots : pc[s] \in {"keyFor", "store"} /\ key[s] = k

\* Together: how the answers on the wire follow from the cache and the handlers.
Answered == StoreKeyed /\ LiveDone /\ LiveSent /\ HeldLive /\ JustSent /\ SentBy

\* Dropping an entry that has expired changes no live one.
LEMMA DeadEntry ==
    ASSUME TypeOK, NEW k \in Keys, ~Live(k), cache' = [cache EXCEPT ![k] = NoEntry]
    PROVE  \A j \in Keys : /\ Live(j)' <=> Live(j)
                           /\ Live(j) => cache'[j] = cache[j]
<1>1. NoEntry.has = FALSE
  BY DEF NoEntry
<1>2. \A j \in Keys : cache'[j] = IF j = k THEN NoEntry ELSE cache[j]
  BY DEF TypeOK
<1>. QED  BY <1>1, <1>2 DEF Live

\* A resend repeats the answer that the request has.
LEMMA ResendSame ==
    ASSUME TypeInv, Answered, NEW s \in Slots, Resend(s)
    PROVE  got' = got
<1>1. key[s] \in Keys /\ pc[s] = "resend"
  BY DEF TypeInv, Frames, Resend
<1>2. got[key[s]] = {held[s]}
  BY <1>1 DEF Answered, HeldLive, LiveSent
<1>3. got' = [got EXCEPT ![key[s]] = got[key[s]] \cup {held[s]}]
  BY DEF Resend
<1>4. got[key[s]] \cup {held[s]} = got[key[s]]
  BY <1>2
<1>. QED  BY <1>1, <1>3, <1>4 DEF TypeInv, TypeOK

\* The expiry ends one live entry and no other.
LEMMA ExpireLive ==
    ASSUME TypeOK, NEW k \in Keys, Expire(k)
    PROVE  \A j \in Keys : Live(j)' <=> Live(j) /\ j # k
<1>. DEFINE e == cache[k]
<1>1. e \in [has : {TRUE}, live : BOOLEAN, ans : Answers]
  BY LiveEntry DEF Expire
<1>2. \A j \in Keys : j # k => cache'[j] = cache[j]
  BY DEF Expire, TypeOK
<1>3. cache'[k] = [e EXCEPT !.live = FALSE]
  BY DEF Expire, TypeOK
<1>. HIDE DEF e
<1>4. [e EXCEPT !.live = FALSE].live = FALSE
  BY <1>1
<1>. QED  BY <1>2, <1>3, <1>4 DEF Live

\* No request has an answer initially.
LEMMA AnsweredInit == Init => Answered
<1>. SUFFICES ASSUME Init PROVE Answered
  OBVIOUS
<1>1. NoEntry.has = FALSE
  BY DEF NoEntry
<1>2. \A k \in Keys : ~Live(k)
  BY <1>1 DEF Init, Live
<1>. QED
  BY <1>2 DEF Init, Answered, StoreKeyed, LiveDone, LiveSent, HeldLive, JustSent, SentBy, HandlerPcs, SendPcs

\* Every step keeps Answered.
LEMMA AnsweredStep ==
    ASSUME TypeInv, Owned, Answered, TxDistinct, [Next]_vars
    PROVE  Answered'
<1>. TypeOK /\ Frames
  BY DEF TypeInv
<1>1. CASE Quiet
  <2>. UNCHANGED <<inFlight, cache, gen, execs, got>>
    BY <1>1 DEF Quiet
  <2>1. \A k : Live(k)' <=> Live(k)
    BY DEF Live
  <2>2. \A t \in Slots : /\ pc'[t] \in HandlerPcs <=> pc[t] \in HandlerPcs
                         /\ \A l \in {"resend", "keyFor", "store", "clear"} : pc'[t] = l <=> pc[t] = l
                         /\ pc[t] \in {"resend"} \cup HandlerPcs =>
                                key'[t] = key[t] /\ held'[t] = held[t] /\ storeKey'[t] = storeKey[t]
    BY <1>1 DEF Quiet, Running, HandlerPcs, SendPcs
  <2>3. \A t \in Slots : pc[t] \in {"keyFor", "store"} => pc[t] \in HandlerPcs
    BY DEF HandlerPcs
  <2>4. StoreKeyed'
    BY <2>2, <2>3 DEF Answered, StoreKeyed
  <2>5. LiveDone'
    BY <2>1, <2>2 DEF Answered, LiveDone
  <2>6. LiveSent'
    BY <2>1 DEF Answered, LiveSent
  <2>7. HeldLive'
    BY <2>1, <2>2 DEF Answered, HeldLive
  <2>8. JustSent'
    BY <2>2, <2>3 DEF Answered, JustSent, AnswerOf
  <2>9. SentBy'
    BY <2>1, <2>2, <2>3 DEF Answered, SentBy
  <2>. QED  BY <2>4, <2>5, <2>6, <2>7, <2>8, <2>9 DEF Answered
<1>2. ASSUME NEW s \in Slots, CheckCached(s) PROVE Answered'
  <2>. UNCHANGED <<inFlight, cache, gen, execs, got>>
    BY <1>2 DEF CheckCached, inVars
  <2>1. \A k : Live(k)' <=> Live(k)
    BY DEF Live
  <2>2. \A t \in Slots : /\ key'[t] = key[t]
                         /\ storeKey'[t] = storeKey[t]
                         /\ t # s => pc'[t] = pc[t] /\ held'[t] = held[t]
    BY <1>2 DEF CheckCached, Goto, TypeOK
  <2>3. pc[s] = "check" /\ pc'[s] = "resend" /\ Live(key[s]) /\ held'[s] = cache[key[s]].ans
    BY <1>2 DEF CheckCached, Goto, TypeOK
  <2>4. StoreKeyed'
    BY <2>2, <2>3 DEF Answered, StoreKeyed
  <2>5. LiveDone'
    BY <2>1, <2>2, <2>3 DEF Answered, LiveDone, HandlerPcs, SendPcs
  <2>6. LiveSent'
    BY <2>1 DEF Answered, LiveSent
  <2>7. HeldLive'
    BY <2>1, <2>2, <2>3 DEF Answered, HeldLive
  <2>8. JustSent'
    BY <2>2, <2>3 DEF Answered, JustSent, AnswerOf
  <2>9. SentBy'
    BY <2>1, <2>2, <2>3 DEF Answered, SentBy
  <2>. QED  BY <2>4, <2>5, <2>6, <2>7, <2>8, <2>9 DEF Answered
<1>3. ASSUME NEW s \in Slots, CheckInFlight(s) PROVE Answered'
  <2>. UNCHANGED <<inFlight, gen, execs, got>>
    BY <1>3 DEF CheckInFlight
  <2>1. \A k \in Keys : (Live(k)' <=> Live(k)) /\ (Live(k) => cache'[k] = cache[k])
    BY <1>3, DeadEntry DEF CheckInFlight, Frames
  <2>2. \A t \in Slots : t # s => /\ pc'[t] = pc[t] /\ key'[t] = key[t]
                                  /\ held'[t] = held[t] /\ storeKey'[t] = storeKey[t]
    BY <1>3 DEF CheckInFlight, Release, Goto, TypeOK
  <2>3. pc[s] = "check" /\ pc'[s] = "idle"
    BY <1>3 DEF CheckInFlight, Release, Goto, TypeOK
  <2>4. StoreKeyed'
    BY <2>2, <2>3 DEF Answered, StoreKeyed
  <2>5. LiveDone'
    BY <2>1, <2>2, <2>3 DEF Answered, LiveDone, HandlerPcs, SendPcs, Frames
  <2>6. LiveSent'
    BY <2>1 DEF Answered, LiveSent
  <2>7. HeldLive'
    BY <2>1, <2>2, <2>3 DEF Answered, HeldLive, Frames
  <2>8. JustSent'
    BY <2>2, <2>3 DEF Answered, JustSent, AnswerOf
  <2>9. SentBy'
    BY <2>1, <2>2, <2>3 DEF Answered, SentBy
  <2>. QED  BY <2>4, <2>5, <2>6, <2>7, <2>8, <2>9 DEF Answered
<1>4. ASSUME NEW s \in Slots, CheckNew(s) PROVE Answered'
  <2>. UNCHANGED <<gen, got, key, held, storeKey>>
    BY <1>4 DEF CheckNew, frame
  <2>1. \A k \in Keys : (Live(k)' <=> Live(k)) /\ (Live(k) => cache'[k] = cache[k])
    BY <1>4, DeadEntry DEF CheckNew, Frames
  <2>2. \A t \in Slots : t # s => pc'[t] = pc[t]
    BY <1>4 DEF CheckNew, Goto, TypeOK
  <2>3. pc[s] = "check" /\ pc'[s] = "handler" /\ ~Live(key[s]) /\ key[s] \in Keys
    BY <1>4 DEF CheckNew, Goto, TypeOK, Frames
  <2>a. \A t \in Slots : pc[t] \in HandlerPcs => execs'[key[t]] = execs[key[t]]
    BY <1>4 DEF CheckNew, TypeOK, Owned, Frames
  <2>4. StoreKeyed'
    BY <2>2, <2>3 DEF Answered, StoreKeyed
  <2>5. LiveDone'
    BY <2>1, <2>2, <2>3 DEF Answered, LiveDone, HandlerPcs, SendPcs, Frames
  <2>6. LiveSent'
    BY <2>1 DEF Answered, LiveSent
  <2>7. HeldLive'
    BY <2>1, <2>2, <2>3 DEF Answered, HeldLive, Frames
  <2>8. JustSent'
    BY <2>2, <2>3, <2>a DEF Answered, JustSent, AnswerOf, HandlerPcs
  <2>9. SentBy'
    BY <2>1, <2>2, <2>3 DEF Answered, SentBy
  <2>. QED  BY <2>4, <2>5, <2>6, <2>7, <2>8, <2>9 DEF Answered
<1>5. ASSUME NEW s \in Slots, Resend(s) PROVE Answered'
  <2>. UNCHANGED <<inFlight, cache, gen, execs>>
    BY <1>5 DEF Resend
  <2>1. \A k : Live(k)' <=> Live(k)
    BY DEF Live
  <2>2. \A t \in Slots : t # s => /\ pc'[t] = pc[t] /\ key'[t] = key[t]
                                  /\ held'[t] = held[t] /\ storeKey'[t] = storeKey[t]
    BY <1>5 DEF Resend, Release, Goto, TypeOK
  <2>3. pc[s] = "resend" /\ pc'[s] = "idle" /\ key[s] \in Keys
    BY <1>5 DEF Resend, Release, Goto, TypeOK, Frames
  <2>a. got' = got
    BY <1>5, ResendSame
  <2>4. StoreKeyed'
    BY <2>2, <2>3 DEF Answered, StoreKeyed
  <2>5. LiveDone'
    BY <2>1, <2>2, <2>3 DEF Answered, LiveDone, HandlerPcs, SendPcs
  <2>6. LiveSent'
    BY <2>1, <2>a DEF Answered, LiveSent
  <2>7. HeldLive'
    BY <2>1, <2>2, <2>3 DEF Answered, HeldLive
  <2>8. JustSent'
    BY <2>2, <2>3, <2>a DEF Answered, JustSent, AnswerOf
  <2>9. SentBy'
    BY <2>1, <2>2, <2>3, <2>a DEF Answered, SentBy
  <2>. QED  BY <2>4, <2>5, <2>6, <2>7, <2>8, <2>9 DEF Answered
<1>6. ASSUME NEW s \in Slots, Reply(s) PROVE Answered'
  <2>. UNCHANGED <<inFlight, cache, gen, execs, key, held, storeKey>>
    BY <1>6 DEF Reply, frame
  <2>1. \A k : Live(k)' <=> Live(k)
    BY DEF Live
  <2>2. \A t \in Slots : t # s => pc'[t] = pc[t]
    BY <1>6 DEF Reply, Goto, TypeOK
  <2>3. pc[s] \in {"handler", "handled"} /\ pc'[s] = "keyFor" /\ key[s] \in Keys /\ pc[s] \in HandlerPcs
    BY <1>6 DEF Reply, Goto, TypeOK, Frames, HandlerPcs
  <2>a. ~Live(key[s])
    BY <2>3 DEF Answered, LiveDone
  <2>b. got[key[s]] = {}
    <3>1. \A t \in Slots : pc[t] \in {"keyFor", "store"} => key[t] # key[s]
      BY <2>3 DEF Owned, HandlerPcs
    <3>. QED  BY <2>3, <2>a, <3>1 DEF Answered, SentBy
  <2>c. \A k \in Keys : got'[k] = IF k = key[s] THEN {AnswerOf(s)} ELSE got[k]
    BY <1>6, <2>3, <2>b DEF Reply, TypeOK
  <2>d. \A t \in Slots : AnswerOf(t)' = AnswerOf(t)
    BY DEF AnswerOf
  <2>e. \A t \in Slots : t # s /\ pc[t] \in {"keyFor", "store"} => key[t] # key[s] /\ key[t] \in Keys
    BY <2>3 DEF Owned, HandlerPcs, Frames
  <2>4. StoreKeyed'
    BY <2>2, <2>3 DEF Answered, StoreKeyed
  <2>5. LiveDone'
    BY <2>1, <2>2, <2>3, <2>a DEF Answered, LiveDone
  <2>6. LiveSent'
    BY <2>1, <2>a, <2>c DEF Answered, LiveSent
  <2>7. HeldLive'
    BY <2>1, <2>2, <2>3 DEF Answered, HeldLive
  <2>8. JustSent'
    BY <2>2, <2>3, <2>c, <2>d, <2>e DEF Answered, JustSent
  <2>9. SentBy'
    BY <2>1, <2>2, <2>3, <2>c DEF Answered, SentBy
  <2>. QED  BY <2>4, <2>5, <2>6, <2>7, <2>8, <2>9 DEF Answered
<1>7. ASSUME NEW s \in Slots, NoReply(s) PROVE Answered'
  <2>. UNCHANGED <<inFlight, cache, gen, execs, got, key, held, storeKey>>
    BY <1>7 DEF NoReply, frame, inVars
  <2>1. \A k : Live(k)' <=> Live(k)
    BY DEF Live
  <2>2. \A t \in Slots : t # s => pc'[t] = pc[t]
    BY <1>7 DEF NoReply, Goto, TypeOK
  <2>3. pc[s] \in {"handler", "handled"} /\ pc'[s] = "clear"
    BY <1>7 DEF NoReply, Goto, TypeOK
  <2>4. StoreKeyed'
    BY <2>2, <2>3 DEF Answered, StoreKeyed
  <2>5. LiveDone'
    BY <2>1, <2>2, <2>3 DEF Answered, LiveDone
  <2>6. LiveSent'
    BY <2>1 DEF Answered, LiveSent
  <2>7. HeldLive'
    BY <2>1, <2>2, <2>3 DEF Answered, HeldLive
  <2>8. JustSent'
    BY <2>2, <2>3 DEF Answered, JustSent, AnswerOf
  <2>9. SentBy'
    BY <2>1, <2>2, <2>3 DEF Answered, SentBy
  <2>. QED  BY <2>4, <2>5, <2>6, <2>7, <2>8, <2>9 DEF Answered
<1>8. ASSUME NEW s \in Slots, KeyFor(s) PROVE Answered'
  <2>. UNCHANGED <<inFlight, cache, gen, execs, got, key, held>>
    BY <1>8 DEF KeyFor, inVars
  <2>1. \A k : Live(k)' <=> Live(k)
    BY DEF Live
  <2>2. \A t \in Slots : t # s => pc'[t] = pc[t] /\ storeKey'[t] = storeKey[t]
    BY <1>8 DEF KeyFor, Goto, TypeOK
  <2>3. pc[s] = "keyFor" /\ pc'[s] = "store"
    BY <1>8 DEF KeyFor, Goto, TypeOK
  <2>a. storeKey'[s] = key[s]
    <3>1. key[s] \in inFlight
      BY <2>3 DEF Owned, HandlerPcs
    <3>2. PICK k \in inFlight : k.tx = key[s].tx /\ storeKey' = [storeKey EXCEPT ![s] = k]
      BY <1>8 DEF KeyFor
    <3>3. k = key[s]
      BY <3>1, <3>2 DEF TxDistinct
    <3>. QED  BY <3>2, <3>3 DEF TypeOK
  <2>4. StoreKeyed'
    BY <2>2, <2>3, <2>a DEF Answered, StoreKeyed
  <2>5. LiveDone'
    BY <2>1, <2>2, <2>3 DEF Answered, LiveDone, HandlerPcs
  <2>6. LiveSent'
    BY <2>1 DEF Answered, LiveSent
  <2>7. HeldLive'
    BY <2>1, <2>2, <2>3 DEF Answered, HeldLive
  <2>8. JustSent'
    BY <2>2, <2>3 DEF Answered, JustSent, AnswerOf
  <2>9. SentBy'
    BY <2>1, <2>2, <2>3 DEF Answered, SentBy
  <2>. QED  BY <2>4, <2>5, <2>6, <2>7, <2>8, <2>9 DEF Answered
<1>9. ASSUME NEW s \in Slots, Store(s) PROVE Answered'
  <2>. UNCHANGED <<inFlight, gen, execs, got, key, held, storeKey>>
    BY <1>9 DEF Store, frame
  <2>2. \A t \in Slots : t # s => pc'[t] = pc[t]
    BY <1>9 DEF Store, Goto, TypeOK
  <2>3. pc[s] = "store" /\ pc'[s] = "clear" /\ key[s] \in Keys /\ pc[s] \in HandlerPcs
    BY <1>9 DEF Store, Goto, TypeOK, Frames, HandlerPcs
  <2>a. ~Live(key[s]) /\ storeKey[s] = key[s]
    BY <2>3 DEF Answered, LiveDone, StoreKeyed
  <2>b. \A k \in Keys : cache'[k] = IF k = key[s] THEN Entry(AnswerOf(s))
                                    ELSE IF Live(k) THEN cache[k] ELSE NoEntry
    BY <1>9, <2>a DEF Store
  <2>c. \A k \in Keys : /\ Live(k)' <=> Live(k) \/ k = key[s]
                        /\ Live(k) => cache'[k] = cache[k]
    <3>1. NoEntry.has = FALSE
      BY DEF NoEntry
    <3>2. Entry(AnswerOf(s)).has /\ Entry(AnswerOf(s)).live
      BY DEF Entry
    <3>. QED  BY <2>a, <2>b, <3>1, <3>2 DEF Live
  <2>d. cache'[key[s]].ans = AnswerOf(s) /\ AnswerOf(s).gen = gen[key[s]]
    BY <2>3, <2>b DEF Entry, AnswerOf
  <2>e. \A t \in Slots : t # s /\ pc[t] \in HandlerPcs => key[t] # key[s] /\ key[t] \in Keys
    BY <2>3 DEF Owned, Frames
  <2>4. StoreKeyed'
    BY <2>2, <2>3 DEF Answered, StoreKeyed
  <2>5. LiveDone'
    BY <2>2, <2>3, <2>c, <2>e DEF Answered, LiveDone
  <2>6. LiveSent'
    <3>1. got[key[s]] = {AnswerOf(s)}
      BY <2>3 DEF Answered, JustSent
    <3>. QED  BY <3>1, <2>c, <2>d DEF Answered, LiveSent
  <2>7. HeldLive'
    BY <2>2, <2>3, <2>c DEF Answered, HeldLive, Frames
  <2>8. JustSent'
    BY <2>2, <2>3 DEF Answered, JustSent, AnswerOf
  <2>9. SentBy'
    BY <2>2, <2>3, <2>c DEF Answered, SentBy
  <2>. QED  BY <2>4, <2>5, <2>6, <2>7, <2>8, <2>9 DEF Answered
<1>10. ASSUME NEW s \in Slots, ClearInFlight(s) PROVE Answered'
  <2>. UNCHANGED <<cache, gen, execs, got>>
    BY <1>10 DEF ClearInFlight
  <2>1. \A k : Live(k)' <=> Live(k)
    BY DEF Live
  <2>2. \A t \in Slots : t # s => /\ pc'[t] = pc[t] /\ key'[t] = key[t]
                                  /\ held'[t] = held[t] /\ storeKey'[t] = storeKey[t]
    BY <1>10 DEF ClearInFlight, Release, Goto, TypeOK
  <2>3. pc[s] = "clear" /\ pc'[s] = "idle"
    BY <1>10 DEF ClearInFlight, Release, Goto, TypeOK
  <2>4. StoreKeyed'
    BY <2>2, <2>3 DEF Answered, StoreKeyed
  <2>5. LiveDone'
    BY <2>1, <2>2, <2>3 DEF Answered, LiveDone, HandlerPcs, SendPcs
  <2>6. LiveSent'
    BY <2>1 DEF Answered, LiveSent
  <2>7. HeldLive'
    BY <2>1, <2>2, <2>3 DEF Answered, HeldLive
  <2>8. JustSent'
    BY <2>2, <2>3 DEF Answered, JustSent, AnswerOf
  <2>9. SentBy'
    BY <2>1, <2>2, <2>3 DEF Answered, SentBy
  <2>. QED  BY <2>4, <2>5, <2>6, <2>7, <2>8, <2>9 DEF Answered
<1>11. ASSUME NEW k \in Keys, Expire(k) PROVE Answered'
  <2>. UNCHANGED <<inFlight, execs, pc, key, held, storeKey>>
    BY <1>11 DEF Expire, goVars, frame
  <2>1. \A j \in Keys : /\ j # k => cache'[j] = cache[j] /\ gen'[j] = gen[j] /\ got'[j] = got[j]
                        /\ got'[k] = {}
    BY <1>11 DEF Expire, TypeOK
  <2>3. \A j \in Keys : Live(j)' <=> Live(j) /\ j # k
    BY <1>11, ExpireLive
  <2>a. \A t \in Slots : pc[t] \in {"resend", "keyFor", "store"} => key[t] # k
    BY <1>11 DEF Expire, Answered, LiveDone, HandlerPcs
  <2>b. \A t \in Slots : pc[t] \in {"resend"} \cup HandlerPcs => key[t] \in Keys
    BY DEF Frames
  <2>4. StoreKeyed'
    BY DEF Answered, StoreKeyed
  <2>5. LiveDone'
    BY <2>3, <2>b DEF Answered, LiveDone
  <2>6. LiveSent'
    BY <2>1, <2>3 DEF Answered, LiveSent
  <2>7. HeldLive'
    BY <2>1, <2>3, <2>a, <2>b DEF Answered, HeldLive
  <2>8. JustSent'
    BY <2>1, <2>a, <2>b DEF Answered, JustSent, AnswerOf, HandlerPcs
  <2>9. SentBy'
    BY <2>1, <2>3 DEF Answered, SentBy
  <2>. QED  BY <2>4, <2>5, <2>6, <2>7, <2>8, <2>9 DEF Answered
<1>. QED
  BY <1>1, <1>2, <1>3, <1>4, <1>5, <1>6, <1>7, <1>8, <1>9, <1>10, <1>11, QuietSteps DEF Marking

\* Answered is stronger than OneAnswer.
LEMMA AnsweredMeans ==
    ASSUME TypeInv, Answered
    PROVE  OneAnswer
<1>. SUFFICES ASSUME NEW k \in Keys, NEW a \in got[k], NEW b \in got[k]
              PROVE  a = b /\ a.gen = gen[k]
  BY DEF OneAnswer
<1>1. CASE Live(k)
  BY <1>1 DEF Answered, LiveSent
<1>2. CASE ~Live(k)
  <2>1. PICK s \in Slots : pc[s] \in {"keyFor", "store"} /\ key[s] = k
    BY <1>2 DEF Answered, SentBy
  <2>2. got[k] = {AnswerOf(s)}
    BY <2>1 DEF Answered, JustSent
  <2>. QED  BY <2>1, <2>2 DEF AnswerOf
<1>. QED  BY <1>1, <1>2

\* OneAnswer: whatever copies of a request the network delivers, in whatever order,
\* all answers to it on the wire are those of one execution, as long as the cache
\* remembers it.
THEOREM OneAnswerHolds == Spec /\ []TxDistinct => []OneAnswer
<1>1. Init => TypeInv
  BY TypeInit
<1>2. Init => Owned
  BY OwnedInit
<1>3. Init => Answered
  BY AnsweredInit
<1>4. TypeInv /\ [Next]_vars => TypeInv'
  BY TypeStep
<1>5. TypeInv /\ Owned /\ [Next]_vars => Owned'
  BY OwnedStep
<1>6. TypeInv /\ Owned /\ Answered /\ TxDistinct /\ [Next]_vars => Answered'
  BY AnsweredStep
<1>7. TypeInv /\ Answered => OneAnswer
  BY AnsweredMeans
<1>. QED  BY <1>1, <1>2, <1>3, <1>4, <1>5, <1>6, <1>7, PTL DEF Spec

\* No two requests of the peer agree on address, sequence number and type.
KeysDistinct == \A j, k \in Keys : j.tx = k.tx => j = k

\* Where no two keys agree on address, sequence number and type, the peer keeps to
\* this by itself.
LEMMA TxFromKeys ==
    ASSUME KeysDistinct
    PROVE  Spec => []TxDistinct
<1>1. TypeOK => TxDistinct
  BY DEF KeysDistinct, TypeOK, TxDistinct
<1>. QED  BY <1>1, TypeCorrect, PTL

\* The same without a premise on the behaviour, for keys that differ in address,
\* sequence number or type.
THEOREM OneAnswerDistinct ==
    ASSUME KeysDistinct
    PROVE  Spec => []OneAnswer
<1>1. Spec => []TxDistinct
  BY TxFromKeys
<1>. QED  BY <1>1, OneAnswerHolds, PTL

-----------------------------------------------------------------------------
(* The refinement of AtMostOnce.                                           *)

\* A request is answered, in terms of AtMostOnce, once its response is written.
Sending(k) == Live(k) \/ \E s \in Slots : key[s] = k /\ pc[s] \in {"keyFor", "store"}
\* A request is running until its handler clears it without an answer.
Busy(k)    == k \in inFlight /\ ~\E s \in Slots : key[s] = k /\ pc[s] = "clear"

\* The one answer of a set that has one.
Pick(S) == CHOOSE a \in S : TRUE

\* The refinement mapping of GtpcTransport, in these terms.
LEMMA Phases ==
    /\ \A k \in Keys : phaseBar[k] = IF Sending(k) THEN "answered"
                                     ELSE IF Busy(k) THEN "running" ELSE "fresh"
    /\ \A k \in Keys : answerBar[k] = IF Sending(k) THEN Pick(got[k]) ELSE NoAnswer
    /\ DOMAIN phaseBar = Keys /\ DOMAIN answerBar = Keys
    /\ phaseBar = [k \in Keys |-> phaseBar[k]] /\ answerBar = [k \in Keys |-> answerBar[k]]
<1>1. \A k \in Keys : phaseBar[k] = IF Sending(k) THEN "answered"
                                    ELSE IF Busy(k) THEN "running" ELSE "fresh"
  BY DEF phaseBar, Sending, Busy
<1>2. \A k \in Keys : answerBar[k] = IF Sending(k) THEN Pick(got[k]) ELSE NoAnswer
  BY <1>1 DEF answerBar, Pick
<1>. QED  BY <1>1, <1>2 DEF phaseBar, answerBar

\* The same for the state after a step.
LEMMA PhasesNext ==
    /\ \A k \in Keys : phaseBar'[k] = IF Sending(k)' THEN "answered"
                                      ELSE IF Busy(k)' THEN "running" ELSE "fresh"
    /\ \A k \in Keys : answerBar'[k] = IF Sending(k)' THEN Pick(got'[k]) ELSE NoAnswer
    /\ DOMAIN phaseBar' = Keys /\ DOMAIN answerBar' = Keys
    /\ phaseBar' = [k \in Keys |-> phaseBar'[k]] /\ answerBar' = [k \in Keys |-> answerBar'[k]]
<1>1. \A k \in Keys : phaseBar'[k] = IF Sending(k)' THEN "answered"
                                     ELSE IF Busy(k)' THEN "running" ELSE "fresh"
  BY DEF phaseBar, Sending, Busy
<1>2. \A k \in Keys : answerBar'[k] = IF Sending(k)' THEN Pick(got'[k]) ELSE NoAnswer
  BY <1>1 DEF answerBar, Pick
<1>. QED  BY <1>1, <1>2 DEF phaseBar, answerBar

\* A step that changes neither is a stutter of AtMostOnce.
LEMMA MappedFrame ==
    ASSUME UNCHANGED <<gen, got>>,
           \A k \in Keys : /\ Sending(k)' <=> Sending(k)
                           /\ ~Sending(k) => (Busy(k)' <=> Busy(k))
    PROVE  UNCHANGED A!aVars
<1>1. \A k \in Keys : phaseBar'[k] = phaseBar[k] /\ answerBar'[k] = answerBar[k]
  BY Phases, PhasesNext
<1>2. phaseBar' = phaseBar /\ answerBar' = answerBar
  BY <1>1, Phases, PhasesNext
<1>. QED  BY <1>2 DEF A!aVars

\* Every step of the endpoint is a step of AtMostOnce or a stutter: checkRetransmit
\* is Start, the write of the response Answer, clear without an answer GiveUp, and
\* the end of the TTL Forget.
LEMMA RefinesStep ==
    ASSUME TypeInv, Owned, Answered, Answered', [Next]_vars
    PROVE  [A!ANext]_(A!aVars)
<1>. TypeOK /\ Frames
  BY DEF TypeInv
<1>. SUFFICES A!ANext \/ UNCHANGED A!aVars
  OBVIOUS
<1>1. CASE Quiet
  <2>. UNCHANGED <<inFlight, cache, gen, execs, got>>
    BY <1>1 DEF Quiet
  <2>1. \A k : Live(k)' <=> Live(k)
    BY DEF Live
  <2>2. \A t \in Slots : /\ \A l \in {"resend", "keyFor", "store", "clear"} : pc'[t] = l <=> pc[t] = l
                         /\ pc[t] \in {"keyFor", "store", "clear"} => key'[t] = key[t]
    BY <1>1 DEF Quiet, HandlerPcs
  <2>3. \A k \in Keys : (Sending(k)' <=> Sending(k)) /\ (Busy(k)' <=> Busy(k))
    BY <2>1, <2>2 DEF Sending, Busy
  <2>. QED  BY <2>3, MappedFrame
<1>2. ASSUME NEW s \in Slots, CheckCached(s) PROVE UNCHANGED A!aVars
  <2>. UNCHANGED <<inFlight, cache, gen, execs, got, key>>
    BY <1>2 DEF CheckCached, inVars
  <2>1. \A k : Live(k)' <=> Live(k)
    BY DEF Live
  <2>2. \A t \in Slots : \A l \in {"keyFor", "store", "clear"} : pc'[t] = l <=> pc[t] = l
    BY <1>2 DEF CheckCached, Goto, TypeOK
  <2>3. \A k \in Keys : (Sending(k)' <=> Sending(k)) /\ (Busy(k)' <=> Busy(k))
    BY <2>1, <2>2 DEF Sending, Busy
  <2>. QED  BY <2>3, MappedFrame
<1>3. ASSUME NEW s \in Slots, CheckInFlight(s) PROVE UNCHANGED A!aVars
  <2>. UNCHANGED <<inFlight, gen, execs, got>>
    BY <1>3 DEF CheckInFlight
  <2>1. \A k \in Keys : Live(k)' <=> Live(k)
    BY <1>3, DeadEntry DEF CheckInFlight, Frames
  <2>2. \A t \in Slots : /\ \A l \in {"keyFor", "store", "clear"} : pc'[t] = l <=> pc[t] = l
                         /\ pc[t] \in {"keyFor", "store", "clear"} => key'[t] = key[t]
    BY <1>3 DEF CheckInFlight, Release, Goto, TypeOK
  <2>3. \A k \in Keys : (Sending(k)' <=> Sending(k)) /\ (Busy(k)' <=> Busy(k))
    BY <2>1, <2>2 DEF Sending, Busy
  <2>. QED  BY <2>3, MappedFrame
<1>4. ASSUME NEW s \in Slots, CheckNew(s) PROVE A!ANext
  <2>. UNCHANGED <<gen, got, key>>
    BY <1>4 DEF CheckNew, frame
  <2>0. PICK k \in Keys : k = key[s]
    BY <1>4 DEF CheckNew, Frames
  <2>1. \A j \in Keys : Live(j)' <=> Live(j)
    BY <1>4, DeadEntry DEF CheckNew, Frames
  <2>2. \A t \in Slots : \A l \in {"keyFor", "store", "clear"} : pc'[t] = l <=> pc[t] = l
    BY <1>4 DEF CheckNew, Goto, TypeOK
  <2>3. \A j \in Keys : Sending(j)' <=> Sending(j)
    BY <2>1, <2>2 DEF Sending
  <2>4. ~Live(k) /\ k \notin inFlight /\ inFlight' = inFlight \cup {k}
    BY <1>4, <2>0 DEF CheckNew
  <2>5. \A t \in Slots : pc[t] \in {"keyFor", "store", "clear"} => key[t] # k
    BY <2>4 DEF Owned, HandlerPcs
  <2>6. ~Sending(k) /\ ~Busy(k) /\ Busy(k)'
    BY <2>2, <2>4, <2>5 DEF Sending, Busy
  <2>7. \A j \in Keys : j # k => (Busy(j)' <=> Busy(j))
    BY <2>2, <2>4 DEF Busy
  <2>8. phaseBar[k] = "fresh" /\ \A j \in Keys : phaseBar'[j] = IF j = k THEN "running" ELSE phaseBar[j]
    BY <2>3, <2>6, <2>7, Phases, PhasesNext
  <2>9. phaseBar' = [phaseBar EXCEPT ![k] = "running"]
    BY <2>8, Phases, PhasesNext
  <2>10. answerBar' = answerBar
    <3>1. \A j \in Keys : answerBar'[j] = answerBar[j]
      BY <2>3, Phases, PhasesNext
    <3>. QED  BY <3>1, Phases, PhasesNext
  <2>11. A!Start(k)
    BY <2>8, <2>9, <2>10 DEF A!Start
  <2>. QED  BY <2>11 DEF A!ANext
<1>5. ASSUME NEW s \in Slots, Resend(s) PROVE UNCHANGED A!aVars
  <2>. UNCHANGED <<inFlight, cache, gen, execs>>
    BY <1>5 DEF Resend
  <2>1. \A k : Live(k)' <=> Live(k)
    BY DEF Live
  <2>2. \A t \in Slots : /\ \A l \in {"keyFor", "store", "clear"} : pc'[t] = l <=> pc[t] = l
                         /\ pc[t] \in {"keyFor", "store", "clear"} => key'[t] = key[t]
    BY <1>5 DEF Resend, Release, Goto, TypeOK
  <2>3. \A k \in Keys : (Sending(k)' <=> Sending(k)) /\ (Busy(k)' <=> Busy(k))
    BY <2>1, <2>2 DEF Sending, Busy
  <2>4. got' = got
    BY <1>5, ResendSame
  <2>. QED  BY <2>3, <2>4, MappedFrame
<1>6. ASSUME NEW s \in Slots, Reply(s) PROVE A!ANext
  <2>. UNCHANGED <<inFlight, cache, gen, execs, key>>
    BY <1>6 DEF Reply, frame
  <2>0. PICK k \in Keys : k = key[s]
    BY <1>6 DEF Reply, Frames, HandlerPcs
  <2>1. \A j : Live(j)' <=> Live(j)
    BY DEF Live
  <2>2. /\ \A t \in Slots : t # s => pc'[t] = pc[t]
        /\ pc[s] \in {"handler", "handled"} /\ pc'[s] = "keyFor" /\ pc[s] \in HandlerPcs
    BY <1>6 DEF Reply, Goto, TypeOK, HandlerPcs
  <2>3. \A t \in Slots : t # s /\ pc[t] \in HandlerPcs => key[t] # k
    BY <2>0, <2>2 DEF Owned
  <2>4. ~Live(k) /\ k \in inFlight
    BY <2>0, <2>2 DEF Answered, LiveDone, Owned
  <2>5. ~Sending(k) /\ Busy(k) /\ Sending(k)'
    BY <2>0, <2>1, <2>2, <2>3, <2>4 DEF Sending, Busy, HandlerPcs
  <2>6. \A j \in Keys : j # k => (Sending(j)' <=> Sending(j)) /\ (Busy(j)' <=> Busy(j))
    BY <2>0, <2>1, <2>2 DEF Sending, Busy
  <2>7. phaseBar[k] = "running" /\ \A j \in Keys : phaseBar'[j] = IF j = k THEN "answered" ELSE phaseBar[j]
    BY <2>5, <2>6, Phases, PhasesNext
  <2>8. phaseBar' = [phaseBar EXCEPT ![k] = "answered"]
    BY <2>7, Phases, PhasesNext
  <2>9. AnswerOf(s) \in Answers
    <3>1. execs[key[s]] > 0
      BY <2>2 DEF Frames
    <3>. QED  BY <2>0, <3>1, Products, TransportAssumption DEF TypeOK, AnswerOf, Answers
  <2>10. got'[k] = {AnswerOf(s)} /\ \A j \in Keys : j # k => got'[j] = got[j]
    <3>1. AnswerOf(s)' = AnswerOf(s)
      BY DEF AnswerOf
    <3>2. got'[k] = {AnswerOf(s)}
      BY <2>0, <2>2, <3>1 DEF Answered, JustSent
    <3>. QED  BY <1>6, <2>0, <3>2 DEF Reply, TypeOK
  <2>11. Pick(got'[k]) = AnswerOf(s)
    BY <2>10 DEF Pick
  <2>12. \A j \in Keys : answerBar'[j] = IF j = k THEN AnswerOf(s) ELSE answerBar[j]
    BY <2>5, <2>6, <2>10, <2>11, Phases, PhasesNext
  <2>13. answerBar' = [answerBar EXCEPT ![k] = AnswerOf(s)]
    BY <2>12, Phases, PhasesNext
  <2>14. A!Answer(k, AnswerOf(s))
    BY <2>7, <2>8, <2>13 DEF A!Answer
  <2>. QED  BY <2>9, <2>14 DEF A!ANext
<1>7. ASSUME NEW s \in Slots, NoReply(s) PROVE A!ANext
  <2>. UNCHANGED <<inFlight, cache, gen, execs, got, key>>
    BY <1>7 DEF NoReply, frame, inVars
  <2>0. PICK k \in Keys : k = key[s]
    BY <1>7 DEF NoReply, Frames, HandlerPcs
  <2>1. \A j : Live(j)' <=> Live(j)
    BY DEF Live
  <2>2. /\ \A t \in Slots : t # s => pc'[t] = pc[t]
        /\ pc[s] \in {"handler", "handled"} /\ pc'[s] = "clear" /\ pc[s] \in HandlerPcs
    BY <1>7 DEF NoReply, Goto, TypeOK, HandlerPcs
  <2>3. \A t \in Slots : t # s /\ pc[t] \in HandlerPcs => key[t] # k
    BY <2>0, <2>2 DEF Owned
  <2>4. ~Live(k) /\ k \in inFlight
    BY <2>0, <2>2 DEF Answered, LiveDone, Owned
  <2>5. ~Sending(k) /\ Busy(k) /\ ~Sending(k)' /\ ~Busy(k)'
    BY <2>0, <2>1, <2>2, <2>3, <2>4 DEF Sending, Busy, HandlerPcs
  <2>6. \A j \in Keys : j # k => (Sending(j)' <=> Sending(j)) /\ (Busy(j)' <=> Busy(j))
    BY <2>0, <2>1, <2>2 DEF Sending, Busy
  <2>7. phaseBar[k] = "running" /\ \A j \in Keys : phaseBar'[j] = IF j = k THEN "fresh" ELSE phaseBar[j]
    BY <2>5, <2>6, Phases, PhasesNext
  <2>8. phaseBar' = [phaseBar EXCEPT ![k] = "fresh"]
    BY <2>7, Phases, PhasesNext
  <2>9. answerBar' = answerBar
    <3>1. \A j \in Keys : answerBar'[j] = answerBar[j]
      BY <2>5, <2>6, Phases, PhasesNext
    <3>. QED  BY <3>1, Phases, PhasesNext
  <2>10. A!GiveUp(k)
    BY <2>7, <2>8, <2>9 DEF A!GiveUp
  <2>. QED  BY <2>10 DEF A!ANext
<1>8. ASSUME NEW s \in Slots, KeyFor(s) PROVE UNCHANGED A!aVars
  <2>. UNCHANGED <<inFlight, cache, gen, execs, got, key>>
    BY <1>8 DEF KeyFor, inVars
  <2>1. \A k : Live(k)' <=> Live(k)
    BY DEF Live
  <2>2. \A t \in Slots : /\ pc'[t] \in {"keyFor", "store"} <=> pc[t] \in {"keyFor", "store"}
                         /\ pc'[t] = "clear" <=> pc[t] = "clear"
    BY <1>8 DEF KeyFor, Goto, TypeOK
  <2>3. \A k \in Keys : (Sending(k)' <=> Sending(k)) /\ (Busy(k)' <=> Busy(k))
    BY <2>1, <2>2 DEF Sending, Busy
  <2>. QED  BY <2>3, MappedFrame
<1>9. ASSUME NEW s \in Slots, Store(s) PROVE UNCHANGED A!aVars
  <2>. UNCHANGED <<inFlight, gen, execs, got, key>>
    BY <1>9 DEF Store, frame
  <2>0. PICK k \in Keys : k = key[s]
    BY <1>9 DEF Store, Frames, HandlerPcs
  <2>2. /\ \A t \in Slots : t # s => pc'[t] = pc[t]
        /\ pc[s] = "store" /\ pc'[s] = "clear"
    BY <1>9 DEF Store, Goto, TypeOK
  <2>3. \A j \in Keys : cache'[j] = IF j = k THEN Entry(AnswerOf(s))
                                    ELSE IF Live(j) THEN cache[j] ELSE NoEntry
    BY <1>9, <2>0, <2>2 DEF Store, Answered, StoreKeyed
  <2>4. Live(k)' /\ \A j \in Keys : j # k => (Live(j)' <=> Live(j))
    <3>1. NoEntry.has = FALSE
      BY DEF NoEntry
    <3>2. Entry(AnswerOf(s)).has /\ Entry(AnswerOf(s)).live
      BY DEF Entry
    <3>. QED  BY <2>3, <3>1, <3>2 DEF Live
  <2>5. Sending(k) /\ Sending(k)'
    BY <2>0, <2>2, <2>4 DEF Sending
  <2>6. \A j \in Keys : j # k => (Sending(j)' <=> Sending(j)) /\ (Busy(j)' <=> Busy(j))
    BY <2>0, <2>2, <2>4 DEF Sending, Busy
  <2>. QED  BY <2>5, <2>6, MappedFrame
<1>10. ASSUME NEW s \in Slots, ClearInFlight(s) PROVE UNCHANGED A!aVars
  <2>. UNCHANGED <<cache, gen, execs, got>>
    BY <1>10 DEF ClearInFlight
  <2>0. PICK k \in Keys : k = key[s]
    BY <1>10 DEF ClearInFlight, Frames, HandlerPcs
  <2>1. \A j : Live(j)' <=> Live(j)
    BY DEF Live
  <2>2. /\ \A t \in Slots : t # s => pc'[t] = pc[t] /\ key'[t] = key[t]
        /\ pc[s] = "clear" /\ pc'[s] = "idle" /\ inFlight' = inFlight \ {k}
    BY <1>10, <2>0 DEF ClearInFlight, Release, Goto, TypeOK
  <2>3. \A j \in Keys : Sending(j)' <=> Sending(j)
    BY <2>1, <2>2 DEF Sending
  <2>4. ~Busy(k) /\ ~Busy(k)'
    BY <2>0, <2>2 DEF Busy
  <2>5. \A j \in Keys : j # k => (Busy(j)' <=> Busy(j))
    BY <2>0, <2>2 DEF Busy
  <2>. QED  BY <2>3, <2>4, <2>5, MappedFrame
<1>11. ASSUME NEW k \in Keys, Expire(k) PROVE A!ANext
  <2>. UNCHANGED <<inFlight, execs, pc, key>>
    BY <1>11 DEF Expire, goVars, frame
  <2>1. /\ Live(k) /\ gen[k] < MaxGen /\ gen' = [gen EXCEPT ![k] = @ + 1]
        /\ got' = [got EXCEPT ![k] = {}]
    BY <1>11 DEF Expire
  <2>2. \A j \in Keys : Live(j)' <=> Live(j) /\ j # k
    BY <1>11, ExpireLive
  <2>3. \A t \in Slots : pc[t] \in HandlerPcs /\ key[t] = k => pc[t] = "clear"
    BY <2>1 DEF Answered, LiveDone
  <2>4. Sending(k) /\ ~Sending(k)'
    BY <2>1, <2>2, <2>3 DEF Sending, HandlerPcs
  <2>5. ~Busy(k)'
    BY <2>3 DEF Busy, Owned
  <2>6. \A j \in Keys : j # k => (Sending(j)' <=> Sending(j)) /\ (Busy(j)' <=> Busy(j))
    BY <2>2 DEF Sending, Busy
  <2>7. phaseBar[k] = "answered" /\ \A j \in Keys : phaseBar'[j] = IF j = k THEN "fresh" ELSE phaseBar[j]
    BY <2>4, <2>5, <2>6, Phases, PhasesNext
  <2>8. phaseBar' = [phaseBar EXCEPT ![k] = "fresh"]
    BY <2>7, Phases, PhasesNext
  <2>9. \A j \in Keys : j # k => got'[j] = got[j]
    BY <2>1 DEF TypeOK
  <2>10. \A j \in Keys : answerBar'[j] = IF j = k THEN NoAnswer ELSE answerBar[j]
    BY <2>4, <2>6, <2>9, Phases, PhasesNext
  <2>11. answerBar' = [answerBar EXCEPT ![k] = NoAnswer]
    BY <2>10, Phases, PhasesNext
  <2>12. A!Forget(k)
    BY <2>1, <2>7, <2>8, <2>11 DEF A!Forget
  <2>. QED  BY <2>12 DEF A!ANext
<1>. QED
  BY <1>1, <1>2, <1>3, <1>4, <1>5, <1>6, <1>7, <1>8, <1>9, <1>10, <1>11, QuietSteps DEF Marking

\* ImplementsAtMostOnce: dispatch, inFlight and inboundCache together implement
\* AtMostOnce.
THEOREM RefinesAtMostOnce == Spec /\ []TxDistinct => ImplementsAtMostOnce
<1>1. Init => TypeInv /\ Owned /\ Answered
  BY TypeInit, OwnedInit, AnsweredInit
<1>2. TypeInv /\ [Next]_vars => TypeInv'
  BY TypeStep
<1>3. TypeInv /\ Owned /\ [Next]_vars => Owned'
  BY OwnedStep
<1>4. TypeInv /\ Owned /\ Answered /\ TxDistinct /\ [Next]_vars => Answered'
  BY AnsweredStep
<1>5. Init => A!AInit
  <2>. SUFFICES ASSUME Init PROVE A!AInit
    OBVIOUS
  <2>1. NoEntry.has = FALSE
    BY DEF NoEntry
  <2>2. \A k \in Keys : ~Sending(k) /\ ~Busy(k)
    BY <2>1 DEF Init, Sending, Busy, Live
  <2>3. \A k \in Keys : phaseBar[k] = "fresh" /\ answerBar[k] = NoAnswer
    BY <2>2, Phases
  <2>4. phaseBar = [k \in Keys |-> "fresh"] /\ answerBar = [k \in Keys |-> NoAnswer]
    BY <2>3, Phases
  <2>. QED  BY <2>4 DEF A!AInit, Init
<1>6. TypeInv /\ Owned /\ Answered /\ Answered' /\ [Next]_vars => [A!ANext]_(A!aVars)
  BY RefinesStep
<1>. QED  BY <1>1, <1>2, <1>3, <1>4, <1>5, <1>6, PTL DEF Spec, ImplementsAtMostOnce, A!ASpec

\* The same for keys that differ in address, sequence number or type.
THEOREM RefinesDistinct ==
    ASSUME KeysDistinct
    PROVE  Spec => ImplementsAtMostOnce
<1>1. Spec => []TxDistinct
  BY TxFromKeys
<1>. QED  BY <1>1, RefinesAtMostOnce, PTL
=============================================================================
