---------------------- MODULE BearerTransactions_proofs ----------------------
(***************************************************************************)
(* Proofs about BearerTransactions, for every number of requests, contexts *)
(* and EBIs and every PDR ID space: its types, and the four invariants its *)
(* run checks.                                                             *)
(*                                                                         *)
(* The argument has two parts. CoreInv follows each transaction through    *)
(* its steps. The effects of all procedures on bearers and rules are then  *)
(* a handful of cases, and Placed, that a rule pair is to do for one       *)
(* transaction or belongs to one EBI, makes a rollback or a removal        *)
(* harmless to all other bearers.                                          *)
(***************************************************************************)
EXTENDS BearerTransactions, TLAPS

\* What a transaction has at each step: the procedure it holds, its entry in cbTxns,
\* the rule pairs still to do and the bearers made, and the answer it gave, which is
\* one at most.
Stages ==
    \A n \in Seqs :
        /\ tx[n].pc \in {"provision", "mme", "pending", "apply", "undo"} => tx[n].held
        /\ tx[n].pc # "none" => txns[n] # NoTxn
        /\ tx[n].pc \in {"none", "provision", "done"} => tx[n].todo = {}
        /\ tx[n].pc \in {"none", "provision", "mme", "pending", "undoAll"} => tx[n].made = {}
        /\ tx[n].pc = "undo" => tx[n].todo # {}
        /\ tx[n].pc = "provision" => next + Contexts[tx[n].c] <= MaxRule
        /\ tx[n].pc # "done" => tx[n].resp = "none" /\ answers[n] = 0
        /\ tx[n].resp = "rejected" => tx[n].made = {}
        /\ answers[n] <= 1

\* beginProcedure lets one Create Bearer at a time onto the linked bearer.
OneHeld == \A m, n \in Seqs : tx[m].held /\ tx[n].held => m = n

\* Modify Bearer waits for SGW-U only about a bearer of its list.
SentListed ==
    /\ sent # NoEBI => sib[sent] # NoRule
    /\ ~mod => sent = NoEBI

\* The rule pairs a transaction has still to do are a run of numbers
\* AllocBearerRuleIDs drew, and no two transactions share one.
Drawn ==
    /\ \A n \in Seqs : \E a \in Nat \ {0}, b \in 0..next : tx[n].todo = a..b
    /\ \A m, n \in Seqs : m # n => tx[m].todo \cap tx[n].todo = {}

\* The rule pairs of bearers, stored or listed by Modify Bearer, were drawn, are no
\* longer to do, and belong to one EBI each.
Placed ==
    /\ \A e \in EBIs : bearers[e] <= next /\ sib[e] <= next
    /\ \A e \in EBIs, n \in Seqs : bearers[e] \notin tx[n].todo /\ sib[e] \notin tx[n].todo
    /\ \A d, e \in EBIs : d # e =>
           /\ bearers[d] # NoRule => bearers[d] # bearers[e] /\ bearers[d] # sib[e]
           /\ sib[d] # NoRule => sib[d] # sib[e]

\* A session that is gone has no rules on SGW-U.
Ended == ~alive => rules = {}

\* The bearers a transaction made are in the session until Delete Bearer, the clean-
\* up or Modify Bearer touch them.
MadeKept ==
    alive => \A n \in Seqs : \A k \in tx[n].made :
        (\E e \in EBIs : bearers[e] = k) \/ k \in deleted \cup revived

-----------------------------------------------------------------------------
(* The transactions.                                                       *)

\* The invariant of the transactions themselves.
CoreInv == TypeOK /\ Stages /\ OneHeld /\ SentListed /\ Drawn

\* A step changes transaction n alone, and leaves it with these values.
Moved(n, p, h, T, M, r) ==
    /\ tx' \in [Seqs -> Txns]
    /\ \A m \in Seqs : m # n => tx'[m] = tx[m]
    /\ tx'[n].pc = p /\ tx'[n].held = h /\ tx'[n].todo = T /\ tx'[n].made = M /\ tx'[n].resp = r

\* An EXCEPT on tx, for one whole transaction.
LEMMA TxUpdate ==
    ASSUME TypeOK, NEW n \in Seqs, NEW y \in Txns, tx' = [tx EXCEPT ![n] = y]
    PROVE  tx' \in [Seqs -> Txns] /\ tx'[n] = y /\ \A m \in Seqs : m # n => tx'[m] = tx[m]
BY DEF TypeOK

\* The fields of a transaction have their types.
LEMMA TxFields ==
    ASSUME TypeOK, NEW n \in Seqs
    PROVE  /\ tx[n] \in Txns
           /\ tx[n].pc \in TxPcs /\ tx[n].c \in Contents /\ tx[n].piggy \in BOOLEAN
           /\ tx[n].held \in BOOLEAN /\ tx[n].latch \in BOOLEAN
           /\ tx[n].todo \subseteq Rules /\ tx[n].made \subseteq Rules /\ tx[n].resp \in Resps
<1>. DEFINE x == tx[n]
<1>1. x \in Txns
  BY DEF TypeOK
<1>. HIDE DEF x
<1>2. /\ x.pc \in TxPcs /\ x.c \in Contents /\ x.piggy \in BOOLEAN
      /\ x.held \in BOOLEAN /\ x.latch \in BOOLEAN
      /\ x.todo \subseteq Rules /\ x.made \subseteq Rules /\ x.resp \in Resps
  BY <1>1 DEF Txns
<1>. QED  BY <1>1, <1>2 DEF x

\* EnterTxn as a move.
LEMMA EnterMoves ==
    ASSUME TypeOK, NEW n \in Seqs, NEW c \in Contents, NEW g \in BOOLEAN,
           tx' = [tx EXCEPT ![n].pc = "provision", ![n].c = c, ![n].piggy = g, ![n].held = TRUE]
    PROVE  /\ Moved(n, "provision", TRUE, tx[n].todo, tx[n].made, tx[n].resp)
           /\ tx'[n].c = c
<1>. DEFINE x == tx[n]
            y == [x EXCEPT !.pc = "provision", !.c = c, !.piggy = g, !.held = TRUE]
<1>1. x \in Txns
  BY TxFields
<1>2. tx' = [tx EXCEPT ![n] = y]
  BY DEF TypeOK
<1>. HIDE DEF x
<1>3. /\ y \in Txns /\ y.pc = "provision" /\ y.held = TRUE /\ y.c = c
      /\ y.todo = x.todo /\ y.made = x.made /\ y.resp = x.resp
  BY <1>1 DEF Txns, TxPcs
<1>. HIDE DEF y
<1>4. tx' \in [Seqs -> Txns] /\ tx'[n] = y /\ \A m \in Seqs : m # n => tx'[m] = tx[m]
  BY <1>2, <1>3, TxUpdate
<1>. QED  BY <1>3, <1>4 DEF Moved, x

\* completeCreateBearerTxn as a move.
LEMMA CompletedMoves ==
    ASSUME TypeOK, NEW n \in Seqs, NEW r \in Resps, tx' = Completed(n, r)
    PROVE  Moved(n, "done", FALSE, {}, tx[n].made, r)
<1>. DEFINE x == tx[n]
            y == [x EXCEPT !.pc = "done", !.resp = r, !.held = FALSE, !.todo = {}]
<1>1. x \in Txns
  BY TxFields
<1>2. tx' = [tx EXCEPT ![n] = y]
  BY DEF TypeOK, Completed
<1>. HIDE DEF x
<1>3. /\ y \in Txns /\ y.pc = "done" /\ y.held = FALSE
      /\ y.todo = {} /\ y.made = x.made /\ y.resp = r
  BY <1>1 DEF Txns, TxPcs
<1>. HIDE DEF y
<1>4. tx' \in [Seqs -> Txns] /\ tx'[n] = y /\ \A m \in Seqs : m # n => tx'[m] = tx[m]
  BY <1>2, <1>3, TxUpdate
<1>. QED  BY <1>3, <1>4 DEF Moved, x

\* The relay to the MME as a move.
LEMMA RelayedMoves ==
    ASSUME TypeOK, NEW n \in Seqs, NEW p \in TxPcs, NEW K \in SUBSET Rules,
           tx' = [tx EXCEPT ![n].todo = K, ![n].pc = p]
    PROVE  Moved(n, p, tx[n].held, K, tx[n].made, tx[n].resp)
<1>. DEFINE x == tx[n]
            y == [x EXCEPT !.todo = K, !.pc = p]
<1>1. x \in Txns
  BY TxFields
<1>2. tx' = [tx EXCEPT ![n] = y]
  BY DEF TypeOK
<1>. HIDE DEF x
<1>3. /\ y \in Txns /\ y.pc = p /\ y.held = x.held
      /\ y.todo = K /\ y.made = x.made /\ y.resp = x.resp
  BY <1>1 DEF Txns, TxPcs
<1>. HIDE DEF y
<1>4. tx' \in [Seqs -> Txns] /\ tx'[n] = y /\ \A m \in Seqs : m # n => tx'[m] = tx[m]
  BY <1>2, <1>3, TxUpdate
<1>. QED  BY <1>3, <1>4 DEF Moved, x

\* A refusal of the MME as a move.
LEMMA LatchMoves ==
    ASSUME TypeOK, NEW n \in Seqs, NEW l \in BOOLEAN,
           tx' = [tx EXCEPT ![n].pc = "undoAll", ![n].latch = l]
    PROVE  Moved(n, "undoAll", tx[n].held, tx[n].todo, tx[n].made, tx[n].resp)
<1>. DEFINE x == tx[n]
            y == [x EXCEPT !.pc = "undoAll", !.latch = l]
<1>1. x \in Txns
  BY TxFields
<1>2. tx' = [tx EXCEPT ![n] = y]
  BY DEF TypeOK
<1>. HIDE DEF x
<1>3. /\ y \in Txns /\ y.pc = "undoAll" /\ y.held = x.held
      /\ y.todo = x.todo /\ y.made = x.made /\ y.resp = x.resp
  BY <1>1 DEF Txns, TxPcs
<1>. HIDE DEF y
<1>4. tx' \in [Seqs -> Txns] /\ tx'[n] = y /\ \A m \in Seqs : m # n => tx'[m] = tx[m]
  BY <1>2, <1>3, TxUpdate
<1>. QED  BY <1>3, <1>4 DEF Moved, x

\* The timer as a move.
LEMMA ExpireMoves ==
    ASSUME TypeOK, NEW n \in Seqs,
           tx' = [tx EXCEPT ![n].pc = "undoAll", ![n].latch = TRUE, ![n].held = FALSE]
    PROVE  Moved(n, "undoAll", FALSE, tx[n].todo, tx[n].made, tx[n].resp)
<1>. DEFINE x == tx[n]
            y == [x EXCEPT !.pc = "undoAll", !.latch = TRUE, !.held = FALSE]
<1>1. x \in Txns
  BY TxFields
<1>2. tx' = [tx EXCEPT ![n] = y]
  BY DEF TypeOK
<1>. HIDE DEF x
<1>3. /\ y \in Txns /\ y.pc = "undoAll" /\ y.held = FALSE
      /\ y.todo = x.todo /\ y.made = x.made /\ y.resp = x.resp
  BY <1>1 DEF Txns, TxPcs
<1>. HIDE DEF y
<1>4. tx' \in [Seqs -> Txns] /\ tx'[n] = y /\ \A m \in Seqs : m # n => tx'[m] = tx[m]
  BY <1>2, <1>3, TxUpdate
<1>. QED  BY <1>3, <1>4 DEF Moved, x

\* A move that changes only where the handler is.
LEMMA PcMoves ==
    ASSUME TypeOK, NEW n \in Seqs, NEW p \in TxPcs, tx' = [tx EXCEPT ![n].pc = p]
    PROVE  Moved(n, p, tx[n].held, tx[n].todo, tx[n].made, tx[n].resp)
<1>. DEFINE x == tx[n]
            y == [x EXCEPT !.pc = p]
<1>1. x \in Txns
  BY TxFields
<1>2. tx' = [tx EXCEPT ![n] = y]
  BY DEF TypeOK
<1>. HIDE DEF x
<1>3. /\ y \in Txns /\ y.pc = p /\ y.held = x.held
      /\ y.todo = x.todo /\ y.made = x.made /\ y.resp = x.resp
  BY <1>1 DEF Txns
<1>. HIDE DEF y
<1>4. tx' \in [Seqs -> Txns] /\ tx'[n] = y /\ \A m \in Seqs : m # n => tx'[m] = tx[m]
  BY <1>2, <1>3, TxUpdate
<1>. QED  BY <1>3, <1>4 DEF Moved, x

\* A bearer stored, as a move.
LEMMA MadeMoves ==
    ASSUME TypeOK, NEW n \in Seqs, NEW k \in Rules,
           tx' = [tx EXCEPT ![n].todo = @ \ {k}, ![n].made = @ \cup {k}]
    PROVE  Moved(n, tx[n].pc, tx[n].held, tx[n].todo \ {k}, tx[n].made \cup {k}, tx[n].resp)
<1>. DEFINE x == tx[n]
            y == [x EXCEPT !.todo = x.todo \ {k}, !.made = x.made \cup {k}]
<1>1. x \in Txns
  BY TxFields
<1>2. tx' = [tx EXCEPT ![n] = y]
  BY DEF TypeOK
<1>. HIDE DEF x
<1>3. /\ y \in Txns /\ y.pc = x.pc /\ y.held = x.held
      /\ y.todo = x.todo \ {k} /\ y.made = x.made \cup {k} /\ y.resp = x.resp
  BY <1>1 DEF Txns
<1>. HIDE DEF y
<1>4. tx' \in [Seqs -> Txns] /\ tx'[n] = y /\ \A m \in Seqs : m # n => tx'[m] = tx[m]
  BY <1>2, <1>3, TxUpdate
<1>. QED  BY <1>3, <1>4 DEF Moved, x

\* The rollback of one context as a move.
LEMMA UndoneMoves ==
    ASSUME TypeOK, NEW n \in Seqs, NEW k,
           tx' = [tx EXCEPT ![n].pc = "apply", ![n].todo = @ \ {k}]
    PROVE  Moved(n, "apply", tx[n].held, tx[n].todo \ {k}, tx[n].made, tx[n].resp)
<1>. DEFINE x == tx[n]
            y == [x EXCEPT !.pc = "apply", !.todo = x.todo \ {k}]
<1>1. x \in Txns
  BY TxFields
<1>2. tx' = [tx EXCEPT ![n] = y]
  BY DEF TypeOK
<1>. HIDE DEF x
<1>3. /\ y \in Txns /\ y.pc = "apply" /\ y.held = x.held
      /\ y.todo = x.todo \ {k} /\ y.made = x.made /\ y.resp = x.resp
  BY <1>1 DEF Txns, TxPcs
<1>. HIDE DEF y
<1>4. tx' \in [Seqs -> Txns] /\ tx'[n] = y /\ \A m \in Seqs : m # n => tx'[m] = tx[m]
  BY <1>2, <1>3, TxUpdate
<1>. QED  BY <1>3, <1>4 DEF Moved, x

\* The context that comes next is the first number of the run, and what is left is a
\* run again.
LEMMA FirstIs ==
    ASSUME Drawn, NEW n \in Seqs, tx[n].todo # {}, next \in Nat
    PROVE  \E a \in Nat \ {0}, b \in 0..next :
               /\ tx[n].todo = a..b /\ a <= b /\ First(n) = a
               /\ tx[n].todo \ {First(n)} = (a + 1)..b
<1>1. PICK a \in Nat \ {0}, b \in 0..next : tx[n].todo = a..b
  BY DEF Drawn
<1>2. a <= b /\ b \in Nat
  BY <1>1
<1>3. a \in tx[n].todo /\ \A j \in tx[n].todo : a <= j
  BY <1>1, <1>2
<1>4. First(n) \in tx[n].todo /\ \A j \in tx[n].todo : First(n) <= j
  BY <1>3 DEF First
<1>5. First(n) = a
  BY <1>1, <1>2, <1>4
<1>6. tx[n].todo \ {First(n)} = (a + 1)..b
  BY <1>1, <1>2, <1>5
<1>. QED  BY <1>1, <1>2, <1>5, <1>6

\* Drawn survives a step that draws nothing for a transaction, or empties its list.
LEMMA DrawnFrame ==
    ASSUME Drawn, next \in Nat, next' \in Nat, next' >= next,
           \A m \in Seqs : tx'[m].todo = tx[m].todo \/ tx'[m].todo = {}
    PROVE  Drawn'
<1>1. \A n \in Seqs : \E a \in Nat \ {0}, b \in 0..next' : tx'[n].todo = a..b
  <2>. TAKE n \in Seqs
  <2>1. CASE tx'[n].todo = tx[n].todo
    <3>1. PICK a \in Nat \ {0}, b \in 0..next : tx[n].todo = a..b
      BY DEF Drawn
    <3>2. b \in 0..next'
      OBVIOUS
    <3>. QED  BY <2>1, <3>1, <3>2
  <2>2. CASE tx'[n].todo = {}
    <3>1. 1..0 = {} /\ 0 \in 0..next' /\ 1 \in Nat \ {0}
      OBVIOUS
    <3>. QED  BY <2>2, <3>1
  <2>. QED  BY <2>1, <2>2
<1>2. \A m, n \in Seqs : m # n => tx'[m].todo \cap tx'[n].todo = {}
  BY DEF Drawn
<1>. QED  BY <1>1, <1>2 DEF Drawn

\* Drawn survives the end of one context.
LEMMA DrawnShrink ==
    ASSUME Drawn, next \in Nat, next' = next, NEW n \in Seqs, tx[n].todo # {},
           tx'[n].todo = tx[n].todo \ {First(n)},
           \A m \in Seqs : m # n => tx'[m].todo = tx[m].todo
    PROVE  Drawn'
<1>1. \A m \in Seqs : \E a \in Nat \ {0}, b \in 0..next' : tx'[m].todo = a..b
  <2>. TAKE m \in Seqs
  <2>1. CASE m = n
    <3>1. PICK a \in Nat \ {0}, b \in 0..next : tx[n].todo \ {First(n)} = (a + 1)..b
      BY FirstIs
    <3>2. a + 1 \in Nat \ {0}
      OBVIOUS
    <3>. QED  BY <2>1, <3>1, <3>2
  <2>2. CASE m # n
    BY <2>2 DEF Drawn
  <2>. QED  BY <2>1, <2>2
<1>2. \A l, m \in Seqs : l # m => tx'[l].todo \cap tx'[m].todo = {}
  BY DEF Drawn
<1>. QED  BY <1>1, <1>2 DEF Drawn

\* The invariant of the transactions holds initially.
LEMMA CoreInit == Init => CoreInv
<1>. SUFFICES ASSUME Init PROVE CoreInv
  OBVIOUS
<1>. DEFINE c0 == CHOOSE c \in Contents : TRUE
            x0 == [pc |-> "none", c |-> c0, piggy |-> FALSE, held |-> FALSE, latch |-> FALSE,
                   todo |-> {}, made |-> {}, resp |-> "none"]
<1>1. c0 \in Contents
  BY BearerAssumption
<1>2. tx = [n \in Seqs |-> x0]
  BY DEF Init
<1>. HIDE DEF c0
<1>3. x0 \in Txns /\ x0.pc = "none" /\ x0.held = FALSE /\ x0.todo = {} /\ x0.made = {} /\ x0.resp = "none"
  BY <1>1 DEF Txns, TxPcs, Resps
<1>. HIDE DEF x0
<1>4. \A n \in Seqs : tx[n] = x0
  BY <1>2
<1>5. TypeOK
  <2>1. tx \in [Seqs -> Txns]
    BY <1>2, <1>3
  <2>2. 0 \in 0..MaxRule /\ 0 \in 0..MaxFail
    BY BearerAssumption
  <2>3. /\ alive = TRUE /\ bearers = [e \in EBIs |-> NoRule] /\ next = 0 /\ rules = {} /\ forw = {}
        /\ txns = [n \in Seqs |-> NoTxn] /\ fps = [c \in Contents |-> NoTxn] /\ latched = {}
        /\ proc = [e \in EBIs |-> "none"] /\ mod = FALSE /\ sib = [e \in EBIs |-> NoRule]
        /\ sent = NoEBI /\ revived = {} /\ scan = [e \in EBIs |-> NoRule] /\ fails = 0
        /\ deleted = {} /\ failed = {} /\ answers = [n \in Seqs |-> 0]
    BY DEF Init
  <2>4. alive \in BOOLEAN /\ mod \in BOOLEAN
    BY <2>3, Zenon
  <2>5. bearers \in [EBIs -> Rules \cup {NoRule}] /\ sib \in [EBIs -> Rules \cup {NoRule}]
        /\ scan \in [EBIs -> Rules \cup {NoRule}]
    BY <2>3
  <2>6. txns \in [Seqs -> Seqs \cup {NoTxn}] /\ fps \in [Contents -> Seqs \cup {NoTxn}]
        /\ proc \in [EBIs -> {"none", "update", "delete", "remove"}] /\ answers \in [Seqs -> 0..2]
    BY <2>3
  <2>7. next \in 0..MaxRule /\ fails \in 0..MaxFail /\ sent \in EBIs \cup {NoEBI}
        /\ rules \subseteq Rules /\ forw \subseteq rules /\ latched \subseteq Contents
        /\ deleted \subseteq Rules /\ failed \subseteq Rules /\ revived \subseteq Rules
    BY <2>2, <2>3
  <2>. QED  BY <2>1, <2>4, <2>5, <2>6, <2>7 DEF TypeOK
<1>6. Stages /\ OneHeld /\ SentListed
  BY <1>3, <1>4 DEF Init, Stages, OneHeld, SentListed
<1>7. Drawn
  <2>1. next = 0 /\ 1..0 = {} /\ 0 \in 0..next /\ 1 \in Nat \ {0}
    BY DEF Init
  <2>. QED  BY <1>3, <1>4, <2>1 DEF Drawn
<1>. QED  BY <1>5, <1>6, <1>7 DEF CoreInv

\* It survives a step that touches no transaction.
LEMMA CoreFrame ==
    ASSUME CoreInv, UNCHANGED <<next, tx, answers>>, SentListed',
           \A n \in Seqs : txns[n] # NoTxn => txns'[n] # NoTxn
    PROVE  Stages' /\ OneHeld' /\ SentListed' /\ Drawn'
BY DEF CoreInv, Stages, OneHeld, Drawn

\* Transaction n goes on from a step to a later one, in good order.
Onward(n) ==
    /\ \A m \in Seqs : m # n => tx'[m] = tx[m] /\ answers'[m] = answers[m]
    /\ UNCHANGED <<txns, mod, sib, sent>>
    /\ tx[n].pc # "none" /\ tx'[n].pc \notin {"none", "provision"}
    /\ tx'[n].held => tx[n].held
    /\ tx'[n].pc \in {"mme", "pending", "apply", "undo"} => tx'[n].held
    /\ tx'[n].pc = "done" => tx'[n].todo = {}
    /\ tx'[n].pc \in {"mme", "pending", "undoAll"} => tx'[n].made = {}
    /\ tx'[n].pc = "undo" => tx'[n].todo # {}
    /\ tx'[n].pc # "done" => tx'[n].resp = "none" /\ answers'[n] = 0
    /\ tx'[n].resp = "rejected" => tx'[n].made = {}
    /\ answers'[n] <= 1
    /\ next' = next \/ tx[n].pc = "provision"

\* Such a step keeps the stages and the one holder.
LEMMA CoreMove ==
    ASSUME CoreInv, NEW n \in Seqs, Onward(n)
    PROVE  Stages' /\ OneHeld' /\ SentListed'
<1>1. Stages'
  <2>. SUFFICES ASSUME NEW m \in Seqs
                PROVE  /\ tx'[m].pc \in {"provision", "mme", "pending", "apply", "undo"} => tx'[m].held
                       /\ tx'[m].pc # "none" => txns'[m] # NoTxn
                       /\ tx'[m].pc \in {"none", "provision", "done"} => tx'[m].todo = {}
                       /\ tx'[m].pc \in {"none", "provision", "mme", "pending", "undoAll"} => tx'[m].made = {}
                       /\ tx'[m].pc = "undo" => tx'[m].todo # {}
                       /\ tx'[m].pc = "provision" => next' + Contexts[tx'[m].c] <= MaxRule
                       /\ tx'[m].pc # "done" => tx'[m].resp = "none" /\ answers'[m] = 0
                       /\ tx'[m].resp = "rejected" => tx'[m].made = {}
                       /\ answers'[m] <= 1
    BY DEF Stages
  <2>1. CASE m = n
    BY <2>1 DEF Onward, CoreInv, Stages
  <2>2. CASE m # n
    <3>1. tx'[m] = tx[m] /\ answers'[m] = answers[m]
      BY <2>2 DEF Onward
    <3>2. tx[m].pc = "provision" => next' = next
      BY <2>2 DEF Onward, CoreInv, Stages, OneHeld
    <3>. QED  BY <3>1, <3>2 DEF Onward, CoreInv, Stages
  <2>. QED  BY <2>1, <2>2
<1>2. OneHeld'
  BY DEF CoreInv, OneHeld, Onward
<1>3. SentListed'
  BY DEF CoreInv, SentListed, Onward
<1>. QED  BY <1>1, <1>2, <1>3

\* The context that comes next is one of those to do.
LEMMA FirstMember ==
    ASSUME TypeOK, Drawn, NEW n \in Seqs, tx[n].todo # {}
    PROVE  First(n) \in tx[n].todo /\ First(n) \in Rules
<1>1. next \in Nat
  BY BearerAssumption DEF TypeOK
<1>2. PICK a \in Nat \ {0}, b \in 0..next : tx[n].todo = a..b /\ a <= b /\ First(n) = a
  BY <1>1, FirstIs
<1>3. First(n) \in tx[n].todo
  BY <1>1, <1>2
<1>. QED  BY <1>3, TxFields

\* While a transaction provisions there is room for its contexts.
LEMMA NumbersDrawn ==
    ASSUME CoreInv, NEW n \in Seqs, tx[n].pc = "provision"
    PROVE  /\ next \in Nat /\ Contexts[tx[n].c] \in Nat \ {0}
           /\ next + Contexts[tx[n].c] <= MaxRule /\ MaxRule \in Nat
<1>1. tx[n].c \in Contents
  BY TxFields DEF CoreInv
<1>. QED  BY <1>1, BearerAssumption DEF CoreInv, TypeOK, Stages

\* Every step keeps the invariant of the transactions.
LEMMA CoreStep ==
    ASSUME CoreInv, [Next]_vars
    PROVE  CoreInv'
<1>. TypeOK /\ Stages /\ OneHeld /\ SentListed /\ Drawn
  BY DEF CoreInv
<1>0. next \in Nat
  BY BearerAssumption DEF TypeOK
<1>1. CASE UNCHANGED vars
  <2>1. TypeOK'
    BY <1>1 DEF TypeOK, vars, sgwu, tabs, mb
  <2>2. SentListed'
    BY <1>1 DEF SentListed, vars, mb
  <2>. QED  BY <1>1, <2>1, <2>2, CoreFrame DEF CoreInv, vars, tabs
<1>2. ASSUME NEW n \in Seqs, RejectContext(n) PROVE CoreInv'
  <2>1. tx' = Completed(n, "rejected") /\ tx[n].pc = "provision"
    BY <1>2 DEF RejectContext, Complete
  <2>2. Moved(n, "done", FALSE, {}, tx[n].made, "rejected")
    BY <2>1, CompletedMoves DEF Resps
  <2>3. tx[n].made = {} /\ answers[n] = 0
    BY <2>1 DEF Stages
  <2>4. next' \in 0..MaxRule /\ next' >= next
    BY <1>2, <2>1, NumbersDrawn DEF RejectContext
  <2>5. answers' = [answers EXCEPT ![n] = answers[n] + 1]
    BY <1>2 DEF RejectContext, Complete
  <2>6. TypeOK'
    BY <1>2, <2>2, <2>3, <2>4, <2>5, TxFields DEF TypeOK, RejectContext, Complete, Moved, sgwu, mb, Remember
  <2>7. Stages' /\ OneHeld' /\ SentListed'
    <3>1. answers'[n] = 1 /\ \A m \in Seqs : m # n => answers'[m] = answers[m]
      BY <2>3, <2>5 DEF TypeOK
    <3>2. UNCHANGED <<txns, mod, sib, sent>>
      BY <1>2 DEF RejectContext, mb
    <3>a. Onward(n)
      BY <2>1, <2>2, <2>3, <3>1, <3>2 DEF Onward, Moved, Stages
    <3>. QED  BY <3>a, CoreMove
  <2>8. Drawn'
    BY <1>0, <2>2, <2>4, DrawnFrame DEF Moved
  <2>. QED  BY <2>6, <2>7, <2>8 DEF CoreInv
<1>3. ASSUME NEW n \in Seqs, Provision(n) PROVE CoreInv'
  <2>0. PICK o \in Outcomes :
          LET K == (next + 1)..(next + Contexts[tx[n].c]) IN
            /\ AddRules(K, o)
            /\ IF o = "ok"
               THEN /\ tx' = [tx EXCEPT ![n].todo = K, ![n].pc = Relayed(n)]
                    /\ UNCHANGED <<latched, answers>>
               ELSE Complete(n, "rejected", FALSE)
    BY <1>3 DEF Provision
  <2>. DEFINE K == (next + 1)..(next + Contexts[tx[n].c])
  <2>1. /\ tx[n].pc = "provision" /\ next' = next + Contexts[tx[n].c]
        /\ UNCHANGED <<alive, bearers, txns, fps, proc, mb, deleted, scan>>
    BY <1>3 DEF Provision
  <2>2. next' \in 0..MaxRule /\ next' >= next /\ K \subseteq Rules
    BY <2>1, NumbersDrawn DEF Rules
  <2>3. tx[n].made = {} /\ answers[n] = 0 /\ tx[n].held /\ tx[n].todo = {} /\ tx[n].resp = "none"
    BY <2>1 DEF Stages
  <2>4. rules' \subseteq Rules /\ forw' \subseteq rules' /\ fails' \in 0..MaxFail /\ failed' \subseteq Rules
    BY <2>0, <2>2, BearerAssumption DEF AddRules, Exchange, TypeOK
  <2>5. CASE o = "ok"
    <3>1. tx' = [tx EXCEPT ![n].todo = K, ![n].pc = Relayed(n)] /\ UNCHANGED <<latched, answers>>
      BY <2>0, <2>5
    <3>2. Relayed(n) \in {"pending", "mme"}
      BY DEF Relayed
    <3>3. Moved(n, Relayed(n), tx[n].held, K, tx[n].made, tx[n].resp)
      BY <2>2, <3>1, <3>2, RelayedMoves DEF TxPcs
    <3>4. TypeOK'
      BY <2>1, <2>2, <2>4, <3>1, <3>3 DEF TypeOK, Moved, mb
    <3>5. Stages' /\ OneHeld' /\ SentListed'
      <4>a. Onward(n)
        BY <2>1, <2>3, <3>1, <3>2, <3>3, TxFields DEF Onward, Moved, Stages, mb
      <4>. QED  BY <4>a, CoreMove
    <3>6. Drawn'
      <4>1. next + 1 \in Nat \ {0} /\ next' \in 0..next' /\ K = (next + 1)..next'
        BY <1>0, <2>1, <2>2, NumbersDrawn
      <4>2. \A m \in Seqs : m # n => \A k \in tx[m].todo : k <= next /\ k \in Nat
        <5>. SUFFICES ASSUME NEW m \in Seqs, m # n, NEW k \in tx[m].todo PROVE k <= next /\ k \in Nat
          OBVIOUS
        <5>1. PICK a \in Nat \ {0}, b \in 0..next : tx[m].todo = a..b
          BY DEF Drawn
        <5>. QED  BY <1>0, <5>1
      <4>3. \A m \in Seqs : m # n => tx[m].todo \cap K = {}
        BY <1>0, <4>1, <4>2, NumbersDrawn, <2>1
      <4>4. \A m \in Seqs : tx'[m].todo = IF m = n THEN K ELSE tx[m].todo
        BY <3>3 DEF Moved
      <4>5. \A m \in Seqs : \E a \in Nat \ {0}, b \in 0..next' : tx'[m].todo = a..b
        <5>. TAKE m \in Seqs
        <5>1. CASE m = n
          BY <4>1, <4>4, <5>1
        <5>2. CASE m # n
          <6>1. PICK a \in Nat \ {0}, b \in 0..next : tx[m].todo = a..b
            BY DEF Drawn
          <6>2. b \in 0..next'
            BY <1>0, <2>2
          <6>. QED  BY <4>4, <5>2, <6>1, <6>2
        <5>. QED  BY <5>1, <5>2
      <4>6. \A l, m \in Seqs : l # m => tx'[l].todo \cap tx'[m].todo = {}
        BY <4>3, <4>4 DEF Drawn
      <4>. QED  BY <4>5, <4>6 DEF Drawn
    <3>. QED  BY <3>4, <3>5, <3>6 DEF CoreInv
  <2>6. CASE o # "ok"
    <3>1. tx' = Completed(n, "rejected") /\ UNCHANGED latched
          /\ answers' = [answers EXCEPT ![n] = answers[n] + 1]
      BY <2>0, <2>6 DEF Complete
    <3>2. Moved(n, "done", FALSE, {}, tx[n].made, "rejected")
      BY <3>1, CompletedMoves DEF Resps
    <3>3. TypeOK'
      BY <2>1, <2>2, <2>3, <2>4, <3>1, <3>2 DEF TypeOK, Moved, mb
    <3>4. Stages' /\ OneHeld' /\ SentListed'
      <4>1. answers'[n] = 1 /\ \A m \in Seqs : m # n => answers'[m] = answers[m]
        BY <2>3, <3>1 DEF TypeOK, Stages
      <4>a. Onward(n)
        BY <2>1, <2>3, <3>2, <4>1 DEF Onward, Moved, Stages, mb
      <4>. QED  BY <4>a, CoreMove
    <3>5. Drawn'
      BY <1>0, <2>2, <3>2, DrawnFrame DEF Moved
    <3>. QED  BY <3>3, <3>4, <3>5 DEF CoreInv
  <2>. QED  BY <2>5, <2>6
<1>4. ASSUME NEW n \in Seqs, MmeRefuses(n) PROVE CoreInv'
  <2>1. PICK l \in BOOLEAN : tx' = [tx EXCEPT ![n].pc = "undoAll", ![n].latch = l]
    BY <1>4 DEF MmeRefuses
  <2>2. tx[n].pc \in {"mme", "pending"}
        /\ UNCHANGED <<alive, bearers, next, sgwu, tabs, proc, mb, fails, deleted, failed, answers, scan>>
    BY <1>4 DEF MmeRefuses
  <2>3. Moved(n, "undoAll", tx[n].held, tx[n].todo, tx[n].made, tx[n].resp)
    BY <2>1, LatchMoves
  <2>4. TypeOK'
    BY <2>2, <2>3 DEF TypeOK, Moved, sgwu, tabs, mb
  <2>5. Stages' /\ OneHeld' /\ SentListed'
    <3>1. tx[n].made = {} /\ tx[n].resp = "none" /\ tx[n].held \in BOOLEAN
      BY <2>2, TxFields DEF Stages
    <3>a. Onward(n)
      BY <2>2, <2>3, <3>1 DEF Onward, Moved, Stages, tabs, mb
    <3>. QED  BY <3>a, CoreMove
  <2>6. Drawn'
    BY <1>0, <2>2, <2>3, DrawnFrame DEF Moved
  <2>. QED  BY <2>4, <2>5, <2>6 DEF CoreInv
<1>5. ASSUME NEW n \in Seqs, MmeAccepts(n) PROVE CoreInv'
  <2>2. tx[n].pc \in {"mme", "pending"} /\ tx' = [tx EXCEPT ![n].pc = "apply"]
        /\ UNCHANGED <<alive, bearers, next, sgwu, tabs, proc, mb, fails, deleted, failed, answers, scan>>
    BY <1>5 DEF MmeAccepts
  <2>3. Moved(n, "apply", tx[n].held, tx[n].todo, tx[n].made, tx[n].resp)
    BY <2>2, PcMoves DEF TxPcs
  <2>4. TypeOK'
    BY <2>2, <2>3 DEF TypeOK, Moved, sgwu, tabs, mb
  <2>5. Stages' /\ OneHeld' /\ SentListed'
    <3>1. tx[n].made = {} /\ tx[n].resp = "none" /\ tx[n].held /\ tx[n].held \in BOOLEAN
      BY <2>2, TxFields DEF Stages
    <3>a. Onward(n)
      BY <2>2, <2>3, <3>1 DEF Onward, Moved, Stages, tabs, mb
    <3>. QED  BY <3>a, CoreMove
  <2>6. Drawn'
    BY <1>0, <2>2, <2>3, DrawnFrame DEF Moved
  <2>. QED  BY <2>4, <2>5, <2>6 DEF CoreInv
<1>6. ASSUME NEW n \in Seqs, Expire(n) PROVE CoreInv'
  <2>2. tx[n].pc = "pending" /\ tx' = [tx EXCEPT ![n].pc = "undoAll", ![n].latch = TRUE, ![n].held = FALSE]
        /\ UNCHANGED <<alive, bearers, next, sgwu, tabs, proc, mb, fails, deleted, failed, answers, scan>>
    BY <1>6 DEF Expire, Expirable
  <2>3. Moved(n, "undoAll", FALSE, tx[n].todo, tx[n].made, tx[n].resp)
    BY <2>2, ExpireMoves
  <2>4. TypeOK'
    BY <2>2, <2>3 DEF TypeOK, Moved, sgwu, tabs, mb
  <2>5. Stages' /\ OneHeld' /\ SentListed'
    <3>1. tx[n].made = {} /\ tx[n].resp = "none"
      BY <2>2 DEF Stages
    <3>a. Onward(n)
      BY <2>2, <2>3, <3>1 DEF Onward, Moved, Stages, tabs, mb
    <3>. QED  BY <3>a, CoreMove
  <2>6. Drawn'
    BY <1>0, <2>2, <2>3, DrawnFrame DEF Moved
  <2>. QED  BY <2>4, <2>5, <2>6 DEF CoreInv
<1>7. ASSUME NEW n \in Seqs, UndoAll(n) PROVE CoreInv'
  <2>1. PICK o \in Outcomes : RemoveRules(tx[n].todo, o)
    BY <1>7 DEF UndoAll
  <2>2. /\ tx[n].pc = "undoAll" /\ Complete(n, "rejected", tx[n].latch)
        /\ UNCHANGED <<alive, bearers, next, txns, fps, proc, mb, deleted, scan>>
    BY <1>7 DEF UndoAll
  <2>3. Moved(n, "done", FALSE, {}, tx[n].made, "rejected")
    BY <2>2, CompletedMoves DEF Resps, Complete
  <2>4. tx[n].made = {} /\ answers[n] = 0 /\ answers' = [answers EXCEPT ![n] = answers[n] + 1]
    BY <2>2 DEF Stages, Complete
  <2>5. rules' \subseteq Rules /\ forw' \subseteq rules' /\ fails' \in 0..MaxFail /\ failed' \subseteq Rules
    BY <2>1, BearerAssumption, TxFields DEF RemoveRules, Exchange, TypeOK
  <2>6. latched' \subseteq Contents
    BY <2>2, TxFields DEF Complete, Remember, TypeOK
  <2>7. TypeOK'
    BY <2>2, <2>3, <2>4, <2>5, <2>6 DEF TypeOK, Moved, mb
  <2>8. Stages' /\ OneHeld' /\ SentListed'
    <3>1. answers'[n] = 1 /\ \A m \in Seqs : m # n => answers'[m] = answers[m]
      BY <2>4 DEF TypeOK
    <3>a. Onward(n)
      BY <2>2, <2>3, <2>4, <3>1 DEF Onward, Moved, Stages, mb
    <3>. QED  BY <3>a, CoreMove
  <2>9. Drawn'
    BY <1>0, <2>2, <2>3, DrawnFrame DEF Moved
  <2>. QED  BY <2>7, <2>8, <2>9 DEF CoreInv
<1>8. ASSUME NEW n \in Seqs, ApplyContext(n) PROVE CoreInv'
  <2>. DEFINE k == First(n)
  <2>1. PICK o \in Outcomes, e \in EBIs :
          /\ ForwardRules({k}, o)
          /\ IF o = "ok"
             THEN /\ bearers' = [bearers EXCEPT ![e] = k]
                  /\ tx' = [tx EXCEPT ![n].todo = @ \ {k}, ![n].made = @ \cup {k}]
             ELSE /\ tx' = [tx EXCEPT ![n].pc = "undo"]
                  /\ UNCHANGED bearers
    BY <1>8 DEF ApplyContext
  <2>2. /\ tx[n].pc = "apply" /\ tx[n].todo # {}
        /\ UNCHANGED <<alive, next, tabs, proc, mb, deleted, answers, scan>>
    BY <1>8 DEF ApplyContext
  <2>3. k \in Rules /\ k \in tx[n].todo
    BY <2>2, FirstMember
  <2>. HIDE DEF k
  <2>4. forw' \subseteq rules' /\ rules' = rules /\ fails' \in 0..MaxFail /\ failed' \subseteq Rules
    BY <2>1, <2>3, BearerAssumption DEF ForwardRules, Exchange, TypeOK
  <2>5. tx[n].resp = "none" /\ tx[n].held /\ tx[n].held \in BOOLEAN
    BY <2>2, TxFields DEF Stages
  <2>6. CASE o = "ok"
    <3>1. Moved(n, tx[n].pc, tx[n].held, tx[n].todo \ {k}, tx[n].made \cup {k}, tx[n].resp)
      BY <2>1, <2>3, <2>6, MadeMoves
    <3>2. TypeOK'
      BY <2>1, <2>2, <2>3, <2>4, <2>6, <3>1 DEF TypeOK, Moved, tabs, mb
    <3>3. Stages' /\ OneHeld' /\ SentListed'
      <4>a. Onward(n)
        BY <2>2, <2>5, <3>1 DEF Onward, Moved, Stages, tabs, mb
      <4>. QED  BY <4>a, CoreMove
    <3>4. Drawn'
      BY <1>0, <2>2, <3>1, DrawnShrink DEF Moved, k
    <3>. QED  BY <3>2, <3>3, <3>4 DEF CoreInv
  <2>7. CASE o # "ok"
    <3>1. Moved(n, "undo", tx[n].held, tx[n].todo, tx[n].made, tx[n].resp)
      BY <2>1, <2>7, PcMoves DEF TxPcs
    <3>2. TypeOK'
      BY <2>1, <2>2, <2>4, <2>7, <3>1 DEF TypeOK, Moved, tabs, mb
    <3>3. Stages' /\ OneHeld' /\ SentListed'
      <4>a. Onward(n)
        BY <2>2, <2>5, <3>1 DEF Onward, Moved, Stages, tabs, mb
      <4>. QED  BY <4>a, CoreMove
    <3>4. Drawn'
      BY <1>0, <2>2, <3>1, DrawnFrame DEF Moved
    <3>. QED  BY <3>2, <3>3, <3>4 DEF CoreInv
  <2>. QED  BY <2>6, <2>7
<1>9. ASSUME NEW n \in Seqs, RefuseContext(n) PROVE CoreInv'
  <2>2. /\ tx[n].pc = "apply" /\ tx[n].todo # {} /\ tx' = [tx EXCEPT ![n].pc = "undo"]
        /\ UNCHANGED <<alive, bearers, next, sgwu, tabs, proc, mb, fails, deleted, failed, answers, scan>>
    BY <1>9 DEF RefuseContext
  <2>3. Moved(n, "undo", tx[n].held, tx[n].todo, tx[n].made, tx[n].resp)
    BY <2>2, PcMoves DEF TxPcs
  <2>4. TypeOK'
    BY <2>2, <2>3 DEF TypeOK, Moved, sgwu, tabs, mb
  <2>5. Stages' /\ OneHeld' /\ SentListed'
    <3>1. tx[n].resp = "none" /\ tx[n].held /\ tx[n].held \in BOOLEAN
      BY <2>2, TxFields DEF Stages
    <3>a. Onward(n)
      BY <2>2, <2>3, <3>1 DEF Onward, Moved, Stages, tabs, mb
    <3>. QED  BY <3>a, CoreMove
  <2>6. Drawn'
    BY <1>0, <2>2, <2>3, DrawnFrame DEF Moved
  <2>. QED  BY <2>4, <2>5, <2>6 DEF CoreInv
<1>10. ASSUME NEW n \in Seqs, UndoContext(n) PROVE CoreInv'
  <2>. DEFINE k == First(n)
  <2>1. PICK o \in Outcomes : RemoveRules({k}, o)
    BY <1>10 DEF UndoContext, RolledBack
  <2>2. /\ tx[n].pc = "undo" /\ tx' = [tx EXCEPT ![n].pc = "apply", ![n].todo = @ \ {k}]
        /\ UNCHANGED <<alive, bearers, next, tabs, proc, mb, deleted, answers, scan>>
    BY <1>10 DEF UndoContext
  <2>3. tx[n].todo # {} /\ tx[n].resp = "none" /\ tx[n].held /\ tx[n].held \in BOOLEAN
    BY <2>2, TxFields DEF Stages
  <2>4. k \in Rules
    BY <2>3, FirstMember
  <2>. HIDE DEF k
  <2>5. rules' \subseteq Rules /\ forw' \subseteq rules' /\ fails' \in 0..MaxFail /\ failed' \subseteq Rules
    BY <2>1, <2>4, BearerAssumption DEF RemoveRules, Exchange, TypeOK
  <2>6. Moved(n, "apply", tx[n].held, tx[n].todo \ {k}, tx[n].made, tx[n].resp)
    BY <2>2, UndoneMoves
  <2>7. TypeOK'
    BY <2>2, <2>5, <2>6 DEF TypeOK, Moved, tabs, mb
  <2>8. Stages' /\ OneHeld' /\ SentListed'
    <3>a. Onward(n)
      BY <2>2, <2>3, <2>6 DEF Onward, Moved, Stages, tabs, mb
    <3>. QED  BY <3>a, CoreMove
  <2>9. Drawn'
    BY <1>0, <2>2, <2>3, <2>6, DrawnShrink DEF Moved, k
  <2>. QED  BY <2>7, <2>8, <2>9 DEF CoreInv
<1>11. ASSUME NEW n \in Seqs, Respond(n) PROVE CoreInv'
  <2>1. PICK r \in Resps, l \in BOOLEAN : Complete(n, r, l) /\ (r = "rejected" => tx[n].made = {})
    BY <1>11 DEF Respond, Resps
  <2>2. /\ tx[n].pc = "apply" /\ tx[n].todo = {}
        /\ UNCHANGED <<alive, bearers, next, sgwu, txns, fps, proc, mb, fails, deleted, failed, scan>>
    BY <1>11 DEF Respond
  <2>3. Moved(n, "done", FALSE, {}, tx[n].made, r)
    BY <2>1, CompletedMoves DEF Complete
  <2>4. answers[n] = 0 /\ answers' = [answers EXCEPT ![n] = answers[n] + 1]
    BY <2>1, <2>2 DEF Stages, Complete
  <2>5. latched' \subseteq Contents
    BY <2>1, TxFields DEF Complete, Remember, TypeOK
  <2>6. TypeOK'
    BY <2>2, <2>3, <2>4, <2>5 DEF TypeOK, Moved, sgwu, mb
  <2>7. Stages' /\ OneHeld' /\ SentListed'
    <3>1. answers'[n] = 1 /\ \A m \in Seqs : m # n => answers'[m] = answers[m]
      BY <2>4 DEF TypeOK
    <3>a. Onward(n)
      BY <2>1, <2>2, <2>3, <2>4, <3>1 DEF Onward, Moved, Stages, mb
    <3>. QED  BY <3>a, CoreMove
  <2>8. Drawn'
    BY <1>0, <2>2, <2>3, DrawnFrame DEF Moved
  <2>. QED  BY <2>6, <2>7, <2>8 DEF CoreInv
<1>12. ASSUME NEW n \in Seqs, NEW c \in Contents, NEW g \in BOOLEAN, EnterTxn(n, c, g) PROVE CoreInv'
  <2>1. /\ txns[n] = NoTxn /\ MayCreate /\ next + Contexts[c] <= MaxRule
        /\ txns' = [txns EXCEPT ![n] = n] /\ fps' = [fps EXCEPT ![c] = n]
        /\ tx' = [tx EXCEPT ![n].pc = "provision", ![n].c = c, ![n].piggy = g, ![n].held = TRUE]
        /\ UNCHANGED <<alive, bearers, next, sgwu, latched, proc, mb, fails, deleted,
                       failed, answers, scan>>
    BY <1>12 DEF EnterTxn, Known
  <2>2. /\ Moved(n, "provision", TRUE, tx[n].todo, tx[n].made, tx[n].resp)
        /\ tx'[n].c = c
    BY <2>1, EnterMoves
  <2>3. tx[n].pc = "none" /\ tx[n].todo = {} /\ tx[n].made = {} /\ tx[n].resp = "none" /\ answers[n] = 0
    BY <2>1 DEF Stages
  <2>4. TypeOK'
    BY <2>1, <2>2 DEF TypeOK, Moved, sgwu, mb
  <2>5. n # NoTxn
    BY BearerAssumption DEF NoTxn
  <2>6. Stages'
    <3>. SUFFICES ASSUME NEW m \in Seqs
                  PROVE  /\ tx'[m].pc \in {"provision", "mme", "pending", "apply", "undo"} => tx'[m].held
                         /\ tx'[m].pc # "none" => txns'[m] # NoTxn
                         /\ tx'[m].pc \in {"none", "provision", "done"} => tx'[m].todo = {}
                         /\ tx'[m].pc \in {"none", "provision", "mme", "pending", "undoAll"} => tx'[m].made = {}
                         /\ tx'[m].pc = "undo" => tx'[m].todo # {}
                         /\ tx'[m].pc = "provision" => next + Contexts[tx'[m].c] <= MaxRule
                         /\ tx'[m].pc # "done" => tx'[m].resp = "none" /\ answers[m] = 0
                         /\ tx'[m].resp = "rejected" => tx'[m].made = {}
                         /\ answers[m] <= 1
      BY <2>1 DEF Stages
    <3>1. CASE m = n
      <4>1. txns'[n] = n
        BY <2>1 DEF TypeOK
      <4>. QED  BY <2>1, <2>2, <2>3, <2>5, <3>1, <4>1 DEF Moved
    <3>2. CASE m # n
      <4>1. tx'[m] = tx[m] /\ txns'[m] = txns[m]
        BY <2>1, <2>2, <3>2 DEF Moved, TypeOK
      <4>. QED  BY <4>1 DEF Stages
    <3>. QED  BY <3>1, <3>2
  <2>7. OneHeld'
    BY <2>1, <2>2 DEF OneHeld, Moved, MayCreate
  <2>8. SentListed'
    BY <2>1 DEF SentListed, mb
  <2>9. Drawn'
    BY <1>0, <2>1, <2>2, DrawnFrame DEF Moved
  <2>. QED  BY <2>4, <2>6, <2>7, <2>8, <2>9 DEF CoreInv
<1>13. ASSUME NEW n \in Seqs, NEW c \in Contents, JoinTxn(n, c) PROVE CoreInv'
  <2>1. TypeOK'
    BY <1>13 DEF TypeOK, JoinTxn, sgwu, mb
  <2>2. SentListed'
    BY <1>13 DEF SentListed, JoinTxn, mb
  <2>3. \A m \in Seqs : txns[m] # NoTxn => txns'[m] # NoTxn
    BY <1>13 DEF JoinTxn, TypeOK
  <2>. QED  BY <1>13, <2>1, <2>2, <2>3, CoreFrame DEF CoreInv, JoinTxn
<1>14. ASSUME NEW e \in EBIs, NEW k \in {"update", "delete"}, Relay(e, k) PROVE CoreInv'
  <2>1. TypeOK'
    BY <1>14 DEF TypeOK, Relay, sgwu, tabs, mb
  <2>2. SentListed'
    BY <1>14 DEF SentListed, Relay, mb
  <2>. QED  BY <1>14, <2>1, <2>2, CoreFrame DEF CoreInv, Relay, tabs
<1>15. ASSUME NEW e \in EBIs, MmeAnswered(e) PROVE CoreInv'
  <2>1. TypeOK'
    BY <1>15 DEF TypeOK, MmeAnswered, sgwu, tabs, mb
  <2>2. SentListed'
    BY <1>15 DEF SentListed, MmeAnswered, mb
  <2>. QED  BY <1>15, <2>1, <2>2, CoreFrame DEF CoreInv, MmeAnswered, tabs
<1>16. ASSUME NEW e \in EBIs, MmeDeletes(e) PROVE CoreInv'
  <2>1. TypeOK'
    BY <1>16 DEF TypeOK, MmeDeletes, sgwu, tabs, mb
  <2>2. SentListed'
    BY <1>16 DEF SentListed, MmeDeletes, mb
  <2>. QED  BY <1>16, <2>1, <2>2, CoreFrame DEF CoreInv, MmeDeletes, tabs
<1>17. ASSUME NEW e \in EBIs, RemoveBearer(e) PROVE CoreInv'
  <2>0. rules' \subseteq Rules /\ forw' \subseteq rules' /\ fails' \in 0..MaxFail /\ failed' \subseteq Rules
    <3>1. CASE bearers[e] = NoRule
      BY <1>17, <3>1 DEF RemoveBearer, TypeOK, sgwu
    <3>2. CASE bearers[e] # NoRule
      <4>1. PICK o \in Outcomes : RemoveRules({bearers[e]}, o)
        BY <1>17, <3>2 DEF RemoveBearer
      <4>2. bearers[e] \in Rules
        BY <3>2 DEF TypeOK
      <4>. QED  BY <4>1, <4>2, BearerAssumption DEF RemoveRules, Exchange, TypeOK
    <3>. QED  BY <3>1, <3>2
  <2>1. TypeOK'
    BY <1>17, <2>0 DEF TypeOK, RemoveBearer, tabs, mb
  <2>2. SentListed'
    BY <1>17 DEF SentListed, RemoveBearer, mb
  <2>. QED  BY <1>17, <2>1, <2>2, CoreFrame DEF CoreInv, RemoveBearer, tabs
<1>18. ASSUME NEW e \in EBIs, RestoreSibling(e) PROVE CoreInv'
  <2>0. bearers' \in [EBIs -> Rules \cup {NoRule}] /\ revived' \subseteq Rules
    BY <1>18 DEF RestoreSibling, SetBearer, TypeOK
  <2>1. TypeOK'
    BY <1>18, <2>0 DEF TypeOK, RestoreSibling, sgwu, tabs
  <2>2. SentListed'
    BY <1>18 DEF SentListed, RestoreSibling
  <2>. QED  BY <1>18, <2>1, <2>2, CoreFrame DEF CoreInv, RestoreSibling, tabs
<1>19. ASSUME NEW e \in EBIs, SiblingAnswer(e) PROVE CoreInv'
  <2>0. bearers' \in [EBIs -> Rules \cup {NoRule}] /\ revived' \subseteq Rules
    BY <1>19 DEF SiblingAnswer, SetBearer, TypeOK
  <2>a. sib[e] \in Rules
    BY <1>19, BearerAssumption DEF SiblingAnswer, SentListed, TypeOK, NoEBI
  <2>b. rules' = rules /\ forw' \subseteq rules' /\ fails' \in 0..MaxFail /\ failed' \subseteq Rules
    <3>1. PICK o \in Outcomes : ForwardRules({sib[e]}, o)
      BY <1>19 DEF SiblingAnswer
    <3>. QED  BY <2>a, <3>1, BearerAssumption DEF ForwardRules, Exchange, TypeOK
  <2>1. TypeOK'
    BY <1>19, <2>0, <2>b DEF TypeOK, SiblingAnswer, tabs
  <2>2. SentListed'
    BY <1>19 DEF SentListed, SiblingAnswer
  <2>. QED  BY <1>19, <2>1, <2>2, CoreFrame DEF CoreInv, SiblingAnswer, tabs
<1>20. ASSUME NEW e \in EBIs, Clean(e) PROVE CoreInv'
  <2>0. /\ rules' \subseteq Rules /\ forw' \subseteq rules' /\ fails' \in 0..MaxFail /\ failed' \subseteq Rules
        /\ bearers' \in [EBIs -> Rules \cup {NoRule}] /\ deleted' \subseteq Rules
    <3>1. CASE bearers[e] = NoRule
      BY <1>20, <3>1 DEF Clean, TypeOK, sgwu
    <3>2. CASE bearers[e] # NoRule
      <4>1. PICK o \in Outcomes :
              /\ RemoveRules({bearers[e]}, o)
              /\ bearers' = IF o = "ok" THEN [bearers EXCEPT ![e] = NoRule] ELSE bearers
              /\ deleted' = IF o = "ok" THEN deleted \cup {bearers[e]} ELSE deleted
        BY <1>20, <3>2 DEF Clean
      <4>2. bearers[e] \in Rules
        BY <3>2 DEF TypeOK
      <4>. QED  BY <4>1, <4>2, BearerAssumption DEF RemoveRules, Exchange, TypeOK
    <3>. QED  BY <3>1, <3>2
  <2>1. TypeOK'
    BY <1>20, <2>0 DEF TypeOK, Clean, tabs, mb
  <2>2. SentListed'
    BY <1>20 DEF SentListed, Clean, mb
  <2>. QED  BY <1>20, <2>1, <2>2, CoreFrame DEF CoreInv, Clean, tabs
<1>21. ASSUME ModifyBearer PROVE CoreInv'
  <2>1. TypeOK'
    BY <1>21 DEF TypeOK, ModifyBearer, sgwu, tabs
  <2>2. SentListed'
    BY <1>21 DEF SentListed, ModifyBearer, MayCreate
  <2>. QED  BY <1>21, <2>1, <2>2, CoreFrame DEF CoreInv, ModifyBearer, tabs
<1>22. ASSUME ModifyReturn PROVE CoreInv'
  <2>1. TypeOK'
    BY <1>22 DEF TypeOK, ModifyReturn, sgwu, tabs
  <2>2. SentListed'
    BY <1>22 DEF SentListed, ModifyReturn, TypeOK
  <2>. QED  BY <1>22, <2>1, <2>2, CoreFrame DEF CoreInv, ModifyReturn, tabs
<1>23. ASSUME Scan PROVE CoreInv'
  <2>1. TypeOK'
    BY <1>23 DEF TypeOK, Scan, sgwu, tabs, mb
  <2>2. SentListed'
    BY <1>23 DEF SentListed, Scan, mb
  <2>. QED  BY <1>23, <2>1, <2>2, CoreFrame DEF CoreInv, Scan, tabs
<1>24. ASSUME EndSession PROVE CoreInv'
  <2>1. TypeOK'
    BY <1>24 DEF TypeOK, EndSession
  <2>2. SentListed'
    BY <1>24 DEF SentListed, EndSession
  <2>. QED  BY <1>24, <2>1, <2>2, CoreFrame DEF CoreInv, EndSession
<1>25. ASSUME NEW n \in Seqs, Step(n) PROVE CoreInv'
  BY <1>25, <1>2, <1>3, <1>4, <1>5, <1>6, <1>7, <1>8, <1>9, <1>10, <1>11 DEF Step
<1>26. ASSUME NEW n \in Seqs, NEW c \in Contents, CreateBearer(n, c) \/ PrepareRelay(n, c) PROVE CoreInv'
  BY <1>26, <1>12 DEF CreateBearer, PrepareRelay
<1>27. ASSUME NEW e \in EBIs, UpdateBearer(e) \/ DeleteBearer(e) PROVE CoreInv'
  BY <1>27, <1>14 DEF UpdateBearer, DeleteBearer
<1>. QED
  BY <1>1, <1>13, <1>15, <1>16, <1>17, <1>18, <1>19, <1>20, <1>21, <1>22, <1>23, <1>24,
     <1>25, <1>26, <1>27 DEF Next

\* TypeOK always holds: the transactions, rule pairs and bearers of a session keep to
\* their types, for any number of requests, contexts and EBIs.
THEOREM TypeCorrect == Spec => []TypeOK
<1>1. Init => CoreInv
  BY CoreInit
<1>2. CoreInv /\ [Next]_vars => CoreInv'
  BY CoreStep
<1>3. CoreInv => TypeOK
  BY DEF CoreInv
<1>. QED  BY <1>1, <1>2, <1>3, PTL DEF Spec

-----------------------------------------------------------------------------
(* What a step can do to bearers and rules.                                *)

\* A step that touches neither bearers nor rules nor the list of Modify Bearer.
Calm ==
    /\ \A m \in Seqs : tx'[m].todo = tx[m].todo /\ tx'[m].made = tx[m].made
    /\ UNCHANGED <<alive, bearers, rules, forw, failed, revived, deleted, sib>>
    /\ next' \in Nat /\ next' >= next

\* The steps of a transaction that may touch them.
Active(n) == Provision(n) \/ UndoAll(n) \/ ApplyContext(n) \/ UndoContext(n)
\* The steps of the other procedures that may.
Touching(e) == RemoveBearer(e) \/ RestoreSibling(e) \/ SiblingAnswer(e) \/ Clean(e)

\* Every step is calm or one of those, or Modify Bearer begins, or the session ends.
LEMMA CalmSteps ==
    ASSUME CoreInv, [Next]_vars
    PROVE  \/ Calm
           \/ \E n \in Seqs : Active(n)
           \/ \E e \in EBIs : Touching(e)
           \/ ModifyBearer \/ EndSession
<1>. TypeOK /\ Stages
  BY DEF CoreInv
<1>0. next \in Nat
  BY BearerAssumption DEF TypeOK
<1>1. CASE UNCHANGED vars
  BY <1>0, <1>1 DEF Calm, vars, sgwu, mb
<1>2. ASSUME NEW n \in Seqs, RejectContext(n) PROVE Calm
  <2>1. Moved(n, "done", FALSE, {}, tx[n].made, "rejected")
    BY <1>2, CompletedMoves DEF RejectContext, Complete, Resps
  <2>2. tx[n].todo = {}
    BY <1>2 DEF RejectContext, Stages
  <2>3. next' \in Nat /\ next' >= next
    BY <1>2, NumbersDrawn DEF RejectContext
  <2>. QED  BY <1>2, <2>1, <2>2, <2>3 DEF Calm, Moved, RejectContext, sgwu, mb
<1>3. ASSUME NEW n \in Seqs, MmeRefuses(n) PROVE Calm
  <2>1. PICK l \in BOOLEAN : tx' = [tx EXCEPT ![n].pc = "undoAll", ![n].latch = l]
    BY <1>3 DEF MmeRefuses
  <2>2. Moved(n, "undoAll", tx[n].held, tx[n].todo, tx[n].made, tx[n].resp)
    BY <2>1, LatchMoves
  <2>. QED  BY <1>0, <1>3, <2>2 DEF Calm, Moved, MmeRefuses, sgwu, mb
<1>4. ASSUME NEW n \in Seqs, MmeAccepts(n) PROVE Calm
  <2>1. Moved(n, "apply", tx[n].held, tx[n].todo, tx[n].made, tx[n].resp)
    BY <1>4, PcMoves DEF MmeAccepts, TxPcs
  <2>. QED  BY <1>0, <1>4, <2>1 DEF Calm, Moved, MmeAccepts, sgwu, mb
<1>5. ASSUME NEW n \in Seqs, Expire(n) PROVE Calm
  <2>1. Moved(n, "undoAll", FALSE, tx[n].todo, tx[n].made, tx[n].resp)
    BY <1>5, ExpireMoves DEF Expire
  <2>. QED  BY <1>0, <1>5, <2>1 DEF Calm, Moved, Expire, sgwu, mb
<1>6. ASSUME NEW n \in Seqs, RefuseContext(n) PROVE Calm
  <2>1. Moved(n, "undo", tx[n].held, tx[n].todo, tx[n].made, tx[n].resp)
    BY <1>6, PcMoves DEF RefuseContext, TxPcs
  <2>. QED  BY <1>0, <1>6, <2>1 DEF Calm, Moved, RefuseContext, sgwu, mb
<1>7. ASSUME NEW n \in Seqs, Respond(n) PROVE Calm
  <2>1. PICK r \in Resps : tx' = Completed(n, r)
    BY <1>7 DEF Respond, Complete, Resps
  <2>2. Moved(n, "done", FALSE, {}, tx[n].made, r)
    BY <2>1, CompletedMoves
  <2>3. \A m \in Seqs : tx'[m].todo = tx[m].todo /\ tx'[m].made = tx[m].made
    <3>1. tx[n].todo = {}
      BY <1>7 DEF Respond
    <3>. QED  BY <2>2, <3>1 DEF Moved
  <2>4. UNCHANGED <<alive, bearers, rules, forw, failed, revived, deleted, sib, next>>
    BY <1>7 DEF Respond, sgwu, mb
  <2>. QED  BY <1>0, <2>3, <2>4 DEF Calm
<1>8. ASSUME NEW n \in Seqs, NEW c \in Contents, NEW g \in BOOLEAN, EnterTxn(n, c, g) PROVE Calm
  <2>1. Moved(n, "provision", TRUE, tx[n].todo, tx[n].made, tx[n].resp)
    BY <1>8, EnterMoves DEF EnterTxn
  <2>. QED  BY <1>0, <1>8, <2>1 DEF Calm, Moved, EnterTxn, sgwu, mb
<1>9. ASSUME NEW n \in Seqs, NEW c \in Contents, JoinTxn(n, c) PROVE Calm
  BY <1>0, <1>9 DEF Calm, JoinTxn, sgwu, mb
<1>10. ASSUME NEW e \in EBIs, NEW k, Relay(e, k) PROVE Calm
  BY <1>0, <1>10 DEF Calm, Relay, sgwu, mb
<1>11. ASSUME NEW e \in EBIs, MmeAnswered(e) \/ MmeDeletes(e) PROVE Calm
  BY <1>0, <1>11 DEF Calm, MmeAnswered, MmeDeletes, sgwu, mb
<1>12. ASSUME ModifyReturn \/ Scan PROVE Calm
  BY <1>0, <1>12 DEF Calm, ModifyReturn, Scan, sgwu, mb
<1>13. ASSUME NEW n \in Seqs, Step(n) PROVE Calm \/ Active(n)
  BY <1>13, <1>2, <1>3, <1>4, <1>5, <1>6, <1>7 DEF Step, Active
<1>14. ASSUME NEW n \in Seqs, NEW c \in Contents, CreateBearer(n, c) \/ PrepareRelay(n, c) PROVE Calm
  BY <1>14, <1>8 DEF CreateBearer, PrepareRelay
<1>15. ASSUME NEW e \in EBIs, UpdateBearer(e) \/ DeleteBearer(e) PROVE Calm
  BY <1>15, <1>10 DEF UpdateBearer, DeleteBearer
<1>. QED
  BY <1>1, <1>9, <1>11, <1>12, <1>13, <1>14, <1>15 DEF Next, Touching

\* What AllocBearerRuleIDs and AddBearerRulesOnPeer do to bearers and rules.
Provisioned(n) ==
    \E o \in Outcomes, K \in SUBSET Rules :
        /\ K = (next + 1)..next' /\ AddRules(K, o)
        /\ next \in Nat /\ next' \in Nat /\ next' > next
        /\ tx[n].todo = {} /\ tx'[n].todo = IF o = "ok" THEN K ELSE {}
        /\ \A m \in Seqs : tx'[m].made = tx[m].made /\ (m # n => tx'[m].todo = tx[m].todo)
        /\ UNCHANGED <<alive, bearers, sib, revived, deleted>>

\* What one accepted context does to them.
Applied(n) ==
    \E o \in Outcomes, e \in EBIs, k \in tx[n].todo :
        /\ bearers[e] \in {NoRule} \cup (revived \cap deleted)
        /\ ForwardRules({k}, o)
        /\ bearers' = IF o = "ok" THEN [bearers EXCEPT ![e] = k] ELSE bearers
        /\ tx'[n].todo = IF o = "ok" THEN tx[n].todo \ {k} ELSE tx[n].todo
        /\ tx'[n].made = IF o = "ok" THEN tx[n].made \cup {k} ELSE tx[n].made
        /\ \A m \in Seqs : m # n => tx'[m].todo = tx[m].todo /\ tx'[m].made = tx[m].made
        /\ UNCHANGED <<alive, next, sib, revived, deleted>>

\* Provision does just that.
LEMMA ProvisionEffect ==
    ASSUME CoreInv, NEW n \in Seqs, Provision(n)
    PROVE  Provisioned(n)
<1>. TypeOK /\ Stages
  BY DEF CoreInv
<1>. DEFINE K == (next + 1)..(next + Contexts[tx[n].c])
<1>1. PICK o \in Outcomes :
        /\ AddRules(K, o)
        /\ IF o = "ok"
           THEN tx' = [tx EXCEPT ![n].todo = K, ![n].pc = Relayed(n)]
           ELSE tx' = Completed(n, "rejected")
  BY DEF Provision, Complete
<1>2. /\ tx[n].pc = "provision" /\ next' = next + Contexts[tx[n].c]
      /\ UNCHANGED <<alive, bearers, sib, revived, deleted>>
  BY DEF Provision, mb
<1>3. next \in Nat /\ next' \in Nat /\ next' > next /\ K \subseteq Rules /\ K = (next + 1)..next'
  BY <1>2, NumbersDrawn DEF Rules
<1>4. tx[n].todo = {}
  BY <1>2 DEF Stages
<1>. HIDE DEF K
<1>5. CASE o = "ok"
  <2>1. Relayed(n) \in TxPcs
    BY DEF Relayed, TxPcs
  <2>2. Moved(n, Relayed(n), tx[n].held, K, tx[n].made, tx[n].resp)
    BY <1>1, <1>3, <1>5, <2>1, RelayedMoves
  <2>. QED  BY <1>1, <1>2, <1>3, <1>4, <1>5, <2>2 DEF Moved, Provisioned
<1>6. CASE o # "ok"
  <2>1. Moved(n, "done", FALSE, {}, tx[n].made, "rejected")
    BY <1>1, <1>6, CompletedMoves DEF Resps
  <2>. QED  BY <1>1, <1>2, <1>3, <1>4, <1>6, <2>1 DEF Moved, Provisioned
<1>. QED  BY <1>5, <1>6

\* What the rollback of a transaction does to bearers and rules.
LEMMA UndoAllEffect ==
    ASSUME CoreInv, NEW n \in Seqs, UndoAll(n)
    PROVE  \E o \in Outcomes :
               /\ RemoveRules(tx[n].todo, o) /\ tx'[n].todo = {}
               /\ \A m \in Seqs : tx'[m].made = tx[m].made /\ (m # n => tx'[m].todo = tx[m].todo)
               /\ UNCHANGED <<alive, bearers, next, sib, revived, deleted>>
<1>1. PICK o \in Outcomes : RemoveRules(tx[n].todo, o)
  BY DEF UndoAll
<1>2. tx' = Completed(n, "rejected") /\ UNCHANGED <<alive, bearers, next, sib, revived, deleted>>
  BY DEF UndoAll, Complete, mb
<1>3. Moved(n, "done", FALSE, {}, tx[n].made, "rejected")
  BY <1>2, CompletedMoves DEF Resps, CoreInv
<1>. QED  BY <1>1, <1>2, <1>3 DEF Moved

\* ApplyContext does just that.
LEMMA ApplyEffect ==
    ASSUME CoreInv, NEW n \in Seqs, ApplyContext(n)
    PROVE  Applied(n)
<1>. TypeOK /\ Drawn
  BY DEF CoreInv
<1>. DEFINE k == First(n)
<1>1. PICK o \in Outcomes, e \in EBIs :
        /\ bearers[e] \in {NoRule} \cup (revived \cap deleted)
        /\ ForwardRules({k}, o)
        /\ IF o = "ok"
           THEN /\ bearers' = [bearers EXCEPT ![e] = k]
                /\ tx' = [tx EXCEPT ![n].todo = @ \ {k}, ![n].made = @ \cup {k}]
           ELSE /\ tx' = [tx EXCEPT ![n].pc = "undo"]
                /\ UNCHANGED bearers
  BY DEF ApplyContext
<1>2. tx[n].todo # {} /\ UNCHANGED <<alive, next, sib, revived, deleted>>
  BY DEF ApplyContext, mb
<1>3. k \in tx[n].todo /\ k \in Rules
  BY <1>2, FirstMember
<1>. HIDE DEF k
<1>4. CASE o = "ok"
  <2>1. Moved(n, tx[n].pc, tx[n].held, tx[n].todo \ {k}, tx[n].made \cup {k}, tx[n].resp)
    BY <1>1, <1>3, <1>4, MadeMoves
  <2>. QED  BY <1>1, <1>2, <1>3, <1>4, <2>1 DEF Moved, Applied
<1>5. CASE o # "ok"
  <2>1. Moved(n, "undo", tx[n].held, tx[n].todo, tx[n].made, tx[n].resp)
    BY <1>1, <1>5, PcMoves DEF TxPcs
  <2>. QED  BY <1>1, <1>2, <1>3, <1>5, <2>1 DEF Moved, Applied
<1>. QED  BY <1>4, <1>5

\* What the rollback of one context does to bearers and rules.
LEMMA UndoEffect ==
    ASSUME CoreInv, NEW n \in Seqs, UndoContext(n)
    PROVE  \E o \in Outcomes, k \in tx[n].todo :
               /\ RemoveRules({k}, o) /\ tx'[n].todo = tx[n].todo \ {k}
               /\ \A m \in Seqs : tx'[m].made = tx[m].made /\ (m # n => tx'[m].todo = tx[m].todo)
               /\ UNCHANGED <<alive, bearers, next, sib, revived, deleted>>
<1>. TypeOK /\ Drawn
  BY DEF CoreInv
<1>. DEFINE k == First(n)
<1>1. PICK o \in Outcomes : RemoveRules({k}, o)
  BY DEF UndoContext, RolledBack
<1>2. /\ tx' = [tx EXCEPT ![n].pc = "apply", ![n].todo = @ \ {k}]
      /\ UNCHANGED <<alive, bearers, next, sib, revived, deleted>>
  BY DEF UndoContext, mb
<1>3. k \in tx[n].todo
  BY FirstMember DEF UndoContext, CoreInv, Stages
<1>. HIDE DEF k
<1>4. Moved(n, "apply", tx[n].held, tx[n].todo \ {k}, tx[n].made, tx[n].resp)
  BY <1>2, UndoneMoves
<1>. QED  BY <1>1, <1>2, <1>3, <1>4 DEF Moved

\* RemoveBearerRulesOnPeer takes the rules K away, or they are on record as failed.
Taken(K) ==
    /\ rules' \subseteq rules /\ forw' \subseteq forw /\ forw \ K \subseteq forw'
    /\ failed \subseteq failed'
    /\ rules' \cap K = {} \/ K \subseteq failed'

\* A rollback takes away rules that its transaction still had to do.
Rolled(n) ==
    \E K \in SUBSET tx[n].todo :
        /\ Taken(K) /\ tx'[n].todo = tx[n].todo \ K
        /\ \A m \in Seqs : tx'[m].made = tx[m].made /\ (m # n => tx'[m].todo = tx[m].todo)
        /\ UNCHANGED <<alive, bearers, next, sib, revived, deleted>>

\* Delete Bearer or the clean-up takes away the bearer of an EBI, or the failure is
\* on record.
Dropped(e) ==
    /\ Taken({bearers[e]})
    /\ \/ /\ bearers' = [bearers EXCEPT ![e] = NoRule]
          /\ deleted' = deleted \cup ({bearers[e]} \cap Rules)
       \/ /\ UNCHANGED <<bearers, deleted>>
          /\ bearers[e] \in failed' \cup {NoRule}
    /\ UNCHANGED <<alive, next, tx, sib, revived>>

\* Modify Bearer stores a listed bearer, or forwards its downlink.
Put(e) ==
    /\ sib[e] # NoRule
    /\ SetBearer(e) \/ UNCHANGED <<bearers, revived>>
    /\ sib' = sib \/ sib' = [sib EXCEPT ![e] = NoRule]
    /\ rules' = rules /\ forw \subseteq forw' /\ failed \subseteq failed'
    /\ UNCHANGED <<alive, next, tx, deleted>>

\* RemoveRules does what Taken says.
LEMMA RemovedTaken ==
    ASSUME NEW K, NEW o \in Outcomes, RemoveRules(K, o)
    PROVE  Taken(K)
BY DEF RemoveRules, Taken, Outcomes

\* Both rollbacks are Rolled.
LEMMA RolledBy ==
    ASSUME CoreInv, NEW n \in Seqs, UndoAll(n) \/ UndoContext(n)
    PROVE  Rolled(n)
<1>1. CASE UndoAll(n)
  <2>1. PICK o \in Outcomes :
               /\ RemoveRules(tx[n].todo, o) /\ tx'[n].todo = {}
               /\ \A m \in Seqs : tx'[m].made = tx[m].made /\ (m # n => tx'[m].todo = tx[m].todo)
               /\ UNCHANGED <<alive, bearers, next, sib, revived, deleted>>
    BY <1>1, UndoAllEffect
  <2>2. Taken(tx[n].todo)
    BY <2>1, RemovedTaken
  <2>3. tx[n].todo \in SUBSET tx[n].todo /\ tx'[n].todo = tx[n].todo \ tx[n].todo
    BY <2>1
  <2>. QED  BY <2>1, <2>2, <2>3 DEF Rolled
<1>2. CASE UndoContext(n)
  <2>1. PICK o \in Outcomes, k \in tx[n].todo :
               /\ RemoveRules({k}, o) /\ tx'[n].todo = tx[n].todo \ {k}
               /\ \A m \in Seqs : tx'[m].made = tx[m].made /\ (m # n => tx'[m].todo = tx[m].todo)
               /\ UNCHANGED <<alive, bearers, next, sib, revived, deleted>>
    BY <1>2, UndoEffect
  <2>2. Taken({k})
    BY <2>1, RemovedTaken
  <2>3. {k} \in SUBSET tx[n].todo
    OBVIOUS
  <2>. QED  BY <2>1, <2>2, <2>3 DEF Rolled
<1>. QED  BY <1>1, <1>2

\* Delete Bearer and the clean-up are Dropped.
LEMMA DroppedBy ==
    ASSUME CoreInv, NEW e \in EBIs, RemoveBearer(e) \/ Clean(e)
    PROVE  Dropped(e)
<1>. TypeOK
  BY DEF CoreInv
<1>. DEFINE k == bearers[e]
<1>0. NoRule \notin rules /\ NoRule \notin Rules /\ (k # NoRule => k \in Rules)
  BY DEF TypeOK, Rules, NoRule
<1>1. CASE RemoveBearer(e)
  <2>1. PICK o \in Outcomes :
          /\ IF k = NoRule THEN o = "ok" /\ UNCHANGED <<sgwu, fails, failed>> ELSE RemoveRules({k}, o)
          /\ bearers' = [bearers EXCEPT ![e] = NoRule]
          /\ deleted' = deleted \cup ({k} \cap Rules)
    BY <1>1 DEF RemoveBearer
  <2>2. Taken({k})
    <3>1. CASE k = NoRule
      BY <1>0, <2>1, <3>1 DEF Taken, sgwu
    <3>2. CASE k # NoRule
      BY <2>1, <3>2, RemovedTaken
    <3>. QED  BY <3>1, <3>2
  <2>3. UNCHANGED <<alive, next, tx, sib, revived>>
    BY <1>1 DEF RemoveBearer, mb
  <2>. QED  BY <2>1, <2>2, <2>3 DEF Dropped
<1>2. CASE Clean(e)
  <2>1. PICK o \in Outcomes :
          /\ IF k = NoRule THEN o = "no" /\ UNCHANGED <<sgwu, fails, failed>> ELSE RemoveRules({k}, o)
          /\ bearers' = IF o = "ok" THEN [bearers EXCEPT ![e] = NoRule] ELSE bearers
          /\ deleted' = IF o = "ok" THEN deleted \cup {k} ELSE deleted
    BY <1>2 DEF Clean
  <2>2. Taken({k})
    <3>1. CASE k = NoRule
      BY <1>0, <2>1, <3>1 DEF Taken, sgwu
    <3>2. CASE k # NoRule
      BY <2>1, <3>2, RemovedTaken
    <3>. QED  BY <3>1, <3>2
  <2>3. UNCHANGED <<alive, next, tx, sib, revived>>
    BY <1>2 DEF Clean, mb
  <2>4. \/ /\ bearers' = [bearers EXCEPT ![e] = NoRule]
           /\ deleted' = deleted \cup ({k} \cap Rules)
        \/ /\ UNCHANGED <<bearers, deleted>>
           /\ k \in failed' \cup {NoRule}
    <3>1. CASE o = "ok"
      <4>1. k # NoRule
        BY <2>1, <3>1
      <4>2. {k} \cap Rules = {k}
        BY <1>0, <4>1
      <4>. QED  BY <2>1, <3>1, <4>2
    <3>2. CASE o # "ok"
      BY <2>1, <3>2 DEF RemoveRules
    <3>. QED  BY <3>1, <3>2
  <2>. QED  BY <2>2, <2>3, <2>4 DEF Dropped
<1>. QED  BY <1>1, <1>2

\* Both steps of Modify Bearer about a sibling are Put.
LEMMA PutBy ==
    ASSUME CoreInv, NEW e \in EBIs, RestoreSibling(e) \/ SiblingAnswer(e)
    PROVE  Put(e)
<1>1. CASE RestoreSibling(e)
  BY <1>1 DEF Put, RestoreSibling, sgwu
<1>2. CASE SiblingAnswer(e)
  <2>1. PICK o \in Outcomes :
          /\ ForwardRules({sib[e]}, o)
          /\ IF o = "ok" THEN UNCHANGED <<bearers, revived>> ELSE SetBearer(e)
    BY <1>2 DEF SiblingAnswer
  <2>2. sent = e /\ sib' = [sib EXCEPT ![e] = NoRule] /\ UNCHANGED <<alive, next, tx, deleted>>
    BY <1>2 DEF SiblingAnswer
  <2>3. sib[e] # NoRule
    BY <2>2, BearerAssumption DEF CoreInv, SentListed, NoEBI
  <2>4. rules' = rules /\ forw \subseteq forw' /\ failed \subseteq failed'
    BY <2>1 DEF ForwardRules
  <2>. QED  BY <2>1, <2>2, <2>3, <2>4 DEF Put
<1>. QED  BY <1>1, <1>2

\* Modify Bearer lists the bearers.
Listed ==
    /\ sib' = bearers
    /\ UNCHANGED <<alive, bearers, next, rules, forw, failed, tx, revived, deleted>>

\* What a step can do to bearers and rules, of all procedures.
LEMMA Effects ==
    ASSUME CoreInv, [Next]_vars
    PROVE  \/ Calm
           \/ \E n \in Seqs : Provisioned(n) \/ Rolled(n) \/ Applied(n)
           \/ \E e \in EBIs : Dropped(e) \/ Put(e)
           \/ Listed \/ EndSession
<1>1. ASSUME NEW n \in Seqs, Active(n) PROVE Provisioned(n) \/ Rolled(n) \/ Applied(n)
  <2>1. CASE Provision(n)
    BY <2>1, ProvisionEffect
  <2>2. CASE ApplyContext(n)
    BY <2>2, ApplyEffect
  <2>. QED  BY <1>1, <2>1, <2>2, RolledBy DEF Active
<1>2. ASSUME NEW e \in EBIs, Touching(e) PROVE Dropped(e) \/ Put(e)
  BY <1>2, DroppedBy, PutBy DEF Touching
<1>3. ModifyBearer => Listed
  BY DEF ModifyBearer, Listed, sgwu
<1>. QED  BY <1>1, <1>2, <1>3, CalmSteps

-----------------------------------------------------------------------------
(* Bearers and their rules.                                                *)

\* The first part of BearerHasRules.
Served == \A e \in EBIs : bearers[e] \notin {NoRule} \cup revived \cup failed => bearers[e] \in forw

\* The last part of BearerHasRules: the PDR IDs of installed rules are distinct, and
\* none is the default bearer's.
Numbered == \A j, k \in rules \cup {0} : j % PairSpace = k % PairSpace => j = k

\* The numbers to do were drawn.
LEMMA TodoBelow ==
    ASSUME CoreInv, NEW n \in Seqs, NEW k \in tx[n].todo
    PROVE  k \in Nat \ {0} /\ k \in Rules /\ k <= next
<1>1. PICK a \in Nat \ {0}, b \in 0..next : tx[n].todo = a..b
  BY DEF CoreInv, Drawn
<1>2. next \in Nat
  BY BearerAssumption DEF CoreInv, TypeOK
<1>3. k \in Rules
  BY TxFields DEF CoreInv
<1>. QED  BY <1>1, <1>2, <1>3

\* Every step keeps Placed.
LEMMA PlacedStep ==
    ASSUME CoreInv, Placed, [Next]_vars
    PROVE  Placed'
<1>. TypeOK /\ Drawn
  BY DEF CoreInv
<1>0. next \in Nat /\ \A e \in EBIs : bearers[e] \in Nat /\ sib[e] \in Nat
  BY BearerAssumption DEF TypeOK, Rules, NoRule
<1>1. CASE Calm
  BY <1>0, <1>1 DEF Placed, Calm
<1>2. ASSUME NEW n \in Seqs, Provisioned(n) PROVE Placed'
  <2>1. PICK o \in Outcomes, K \in SUBSET Rules :
          /\ K = (next + 1)..next' /\ next' \in Nat /\ next' > next
          /\ tx'[n].todo = IF o = "ok" THEN K ELSE {}
          /\ \A m \in Seqs : m # n => tx'[m].todo = tx[m].todo
          /\ UNCHANGED <<bearers, sib>>
    BY <1>2 DEF Provisioned
  <2>2. \A e \in EBIs : bearers'[e] <= next' /\ sib'[e] <= next'
    BY <1>0, <2>1 DEF Placed
  <2>3. \A e \in EBIs : bearers[e] \notin K /\ sib[e] \notin K
    BY <1>0, <2>1 DEF Placed
  <2>4. \A e \in EBIs, m \in Seqs : bearers'[e] \notin tx'[m].todo /\ sib'[e] \notin tx'[m].todo
    BY <2>1, <2>3 DEF Placed
  <2>. QED  BY <2>1, <2>2, <2>4 DEF Placed
<1>3. ASSUME NEW n \in Seqs, Rolled(n) PROVE Placed'
  BY <1>3 DEF Placed, Rolled
<1>4. ASSUME NEW n \in Seqs, Applied(n) PROVE Placed'
  <2>1. PICK o \in Outcomes, e \in EBIs, k \in tx[n].todo :
          /\ bearers' = IF o = "ok" THEN [bearers EXCEPT ![e] = k] ELSE bearers
          /\ tx'[n].todo = IF o = "ok" THEN tx[n].todo \ {k} ELSE tx[n].todo
          /\ \A m \in Seqs : m # n => tx'[m].todo = tx[m].todo
          /\ UNCHANGED <<next, sib>>
    BY <1>4 DEF Applied
  <2>2. CASE o # "ok"
    BY <2>1, <2>2 DEF Placed
  <2>3. CASE o = "ok"
    <3>1. bearers'[e] = k /\ \A d \in EBIs : d # e => bearers'[d] = bearers[d]
      BY <2>1, <2>3 DEF TypeOK
    <3>2. k <= next
      BY TodoBelow
    <3>3. k \notin tx'[n].todo /\ \A m \in Seqs : m # n => k \notin tx'[m].todo
      BY <2>1, <2>3 DEF Drawn
    <3>4. \A d \in EBIs : bearers[d] # k /\ sib[d] # k
      BY DEF Placed
    <3>5. \A d \in EBIs : bearers'[d] <= next' /\ sib'[d] <= next'
      BY <2>1, <3>1, <3>2 DEF Placed
    <3>6. \A d \in EBIs, m \in Seqs : bearers'[d] \notin tx'[m].todo /\ sib'[d] \notin tx'[m].todo
      BY <2>1, <2>3, <3>1, <3>3 DEF Placed
    <3>. QED  BY <2>1, <3>1, <3>4, <3>5, <3>6 DEF Placed
  <2>. QED  BY <2>2, <2>3
<1>5. ASSUME NEW e \in EBIs, Dropped(e) PROVE Placed'
  <2>1. UNCHANGED <<next, tx, sib>> /\ \A d \in EBIs : bearers'[d] = bearers[d] \/ bearers'[d] = NoRule
    BY <1>5 DEF Dropped, TypeOK
  <2>2. \A n \in Seqs : NoRule \notin tx[n].todo
    BY TodoBelow DEF NoRule
  <2>3. NoRule <= next
    BY <1>0 DEF NoRule
  <2>. QED  BY <2>1, <2>2, <2>3 DEF Placed
<1>6. ASSUME NEW e \in EBIs, Put(e) PROVE Placed'
  <2>1. /\ UNCHANGED <<next, tx>> /\ sib[e] # NoRule
        /\ \A d \in EBIs : bearers'[d] \in {bearers[d], NoRule} \/ (d = e /\ bearers'[e] = sib[e])
        /\ \A d \in EBIs : sib'[d] \in {sib[d], NoRule}
    BY <1>6 DEF Put, SetBearer, TypeOK
  <2>2. \A n \in Seqs : NoRule \notin tx[n].todo
    BY TodoBelow DEF NoRule
  <2>3. NoRule <= next
    BY <1>0 DEF NoRule
  <2>4. \A d \in EBIs : bearers'[d] <= next' /\ sib'[d] <= next'
    BY <2>1, <2>3 DEF Placed
  <2>5. \A d \in EBIs, m \in Seqs : bearers'[d] \notin tx'[m].todo /\ sib'[d] \notin tx'[m].todo
    BY <2>1, <2>2 DEF Placed
  <2>6. \A c, d \in EBIs : c # d =>
           /\ bearers'[c] # NoRule => bearers'[c] # bearers'[d] /\ bearers'[c] # sib'[d]
           /\ sib'[c] # NoRule => sib'[c] # sib'[d]
    BY <2>1 DEF Placed
  <2>. QED  BY <2>4, <2>5, <2>6 DEF Placed
<1>7. CASE Listed
  BY <1>7 DEF Listed, Placed
<1>8. CASE EndSession
  <2>1. UNCHANGED <<next, tx, sib>> /\ \A d \in EBIs : bearers'[d] = NoRule
    BY <1>8 DEF EndSession
  <2>2. \A n \in Seqs : NoRule \notin tx[n].todo
    BY TodoBelow DEF NoRule
  <2>3. NoRule <= next
    BY <1>0 DEF NoRule
  <2>. QED  BY <2>1, <2>2, <2>3 DEF Placed
<1>. QED  BY <1>1, <1>2, <1>3, <1>4, <1>5, <1>6, <1>7, <1>8, Effects

\* Every step keeps Served: what a rollback or a removal takes away is, by Placed, no
\* other bearer's.
LEMMA ServedStep ==
    ASSUME CoreInv, Placed, Served, [Next]_vars
    PROVE  Served'
<1>. TypeOK
  BY DEF CoreInv
<1>1. CASE Calm
  BY <1>1 DEF Served, Calm
<1>2. ASSUME NEW n \in Seqs, Provisioned(n) PROVE Served'
  BY <1>2 DEF Served, Provisioned, AddRules
<1>3. ASSUME NEW n \in Seqs, Rolled(n) PROVE Served'
  <2>1. PICK K \in SUBSET tx[n].todo : Taken(K) /\ UNCHANGED <<bearers, revived>>
    BY <1>3 DEF Rolled
  <2>2. \A e \in EBIs : bearers[e] \notin K
    BY DEF Placed
  <2>. QED  BY <2>1, <2>2 DEF Served, Taken
<1>4. ASSUME NEW n \in Seqs, Applied(n) PROVE Served'
  <2>1. PICK o \in Outcomes, e \in EBIs, k \in tx[n].todo :
          /\ ForwardRules({k}, o)
          /\ bearers' = IF o = "ok" THEN [bearers EXCEPT ![e] = k] ELSE bearers
          /\ UNCHANGED revived
    BY <1>4 DEF Applied
  <2>2. forw \subseteq forw' /\ failed \subseteq failed' /\ (o = "ok" => k \in forw')
    BY <2>1 DEF ForwardRules
  <2>3. \A d \in EBIs : bearers'[d] = bearers[d] \/ (o = "ok" /\ bearers'[d] = k)
    BY <2>1 DEF TypeOK
  <2>. QED  BY <2>1, <2>2, <2>3 DEF Served
<1>5. ASSUME NEW e \in EBIs, Dropped(e) PROVE Served'
  <2>1. /\ Taken({bearers[e]}) /\ UNCHANGED revived
        /\ \A d \in EBIs : bearers'[d] = IF d = e THEN bearers'[e] ELSE bearers[d]
        /\ bearers'[e] \in failed' \cup {NoRule}
    BY <1>5 DEF Dropped, TypeOK
  <2>2. \A d \in EBIs : d # e /\ bearers[d] # NoRule => bearers[d] # bearers[e]
    BY DEF Placed
  <2>. QED  BY <2>1, <2>2 DEF Served, Taken
<1>6. ASSUME NEW e \in EBIs, Put(e) PROVE Served'
  <2>1. /\ forw \subseteq forw' /\ failed \subseteq failed' /\ revived \subseteq revived'
        /\ \A d \in EBIs : d # e => bearers'[d] = bearers[d]
        /\ bearers'[e] \in {bearers[e], NoRule} \cup revived'
    <3>1. sib[e] \in Rules
      BY <1>6 DEF Put, TypeOK
    <3>. QED  BY <1>6, <3>1 DEF Put, SetBearer, TypeOK
  <2>. QED  BY <2>1 DEF Served
<1>7. CASE Listed
  BY <1>7 DEF Listed, Served
<1>8. CASE EndSession
  BY <1>8 DEF EndSession, Served
<1>. QED  BY <1>1, <1>2, <1>3, <1>4, <1>5, <1>6, <1>7, <1>8, Effects

\* Every step keeps Ended.
LEMMA EndedStep ==
    ASSUME CoreInv, Ended, [Next]_vars
    PROVE  Ended'
<1>1. CASE Calm
  BY <1>1 DEF Ended, Calm
<1>2. ASSUME NEW n \in Seqs, Provisioned(n) PROVE Ended'
  BY <1>2 DEF Ended, Provisioned, AddRules
<1>3. ASSUME NEW n \in Seqs, Rolled(n) PROVE Ended'
  BY <1>3 DEF Ended, Rolled, Taken
<1>4. ASSUME NEW n \in Seqs, Applied(n) PROVE Ended'
  BY <1>4 DEF Ended, Applied, ForwardRules
<1>5. ASSUME NEW e \in EBIs, Dropped(e) PROVE Ended'
  BY <1>5 DEF Ended, Dropped, Taken
<1>6. ASSUME NEW e \in EBIs, Put(e) PROVE Ended'
  BY <1>6 DEF Ended, Put
<1>7. CASE Listed
  BY <1>7 DEF Listed, Ended
<1>8. CASE EndSession
  BY <1>8 DEF EndSession, Ended
<1>. QED  BY <1>1, <1>2, <1>3, <1>4, <1>5, <1>6, <1>7, <1>8, Effects

\* Every step keeps NoOrphanRules.
LEMMA OrphanStep ==
    ASSUME CoreInv, Ended, NoOrphanRules, [Next]_vars
    PROVE  NoOrphanRules'
<1>. TypeOK
  BY DEF CoreInv
<1>0. NoRule \notin rules
  BY DEF TypeOK, Rules, NoRule
<1>1. CASE Calm
  BY <1>1 DEF NoOrphanRules, Calm
<1>2. ASSUME NEW n \in Seqs, Provisioned(n) PROVE NoOrphanRules'
  <2>1. PICK o \in Outcomes, K \in SUBSET Rules :
          /\ AddRules(K, o) /\ tx[n].todo = {} /\ tx'[n].todo = IF o = "ok" THEN K ELSE {}
          /\ \A m \in Seqs : m # n => tx'[m].todo = tx[m].todo
          /\ UNCHANGED <<bearers, revived>>
    BY <1>2 DEF Provisioned
  <2>2. failed \subseteq failed' /\ \A k \in rules' : k \in rules \/ k \in tx'[n].todo \cup failed'
    BY <2>1 DEF AddRules, Outcomes
  <2>. QED  BY <2>1, <2>2 DEF NoOrphanRules
<1>3. ASSUME NEW n \in Seqs, Rolled(n) PROVE NoOrphanRules'
  BY <1>3 DEF NoOrphanRules, Rolled, Taken
<1>4. ASSUME NEW n \in Seqs, Applied(n) PROVE NoOrphanRules'
  <2>1. PICK o \in Outcomes, e \in EBIs, k \in tx[n].todo :
          /\ bearers[e] \in {NoRule} \cup (revived \cap deleted)
          /\ ForwardRules({k}, o)
          /\ bearers' = IF o = "ok" THEN [bearers EXCEPT ![e] = k] ELSE bearers
          /\ tx'[n].todo = IF o = "ok" THEN tx[n].todo \ {k} ELSE tx[n].todo
          /\ \A m \in Seqs : m # n => tx'[m].todo = tx[m].todo
          /\ UNCHANGED revived
    BY <1>4 DEF Applied
  <2>2. rules' = rules /\ failed \subseteq failed'
    BY <2>1 DEF ForwardRules
  <2>3. CASE o # "ok"
    BY <2>1, <2>2, <2>3 DEF NoOrphanRules
  <2>4. CASE o = "ok"
    <3>1. bearers'[e] = k /\ \A d \in EBIs : d # e => bearers'[d] = bearers[d]
      BY <2>1, <2>4 DEF TypeOK
    <3>2. tx'[n].todo = tx[n].todo \ {k}
      BY <2>1, <2>4
    <3>. SUFFICES ASSUME NEW j \in rules
                  PROVE  \/ \E d \in EBIs : bearers'[d] = j
                         \/ \E m \in Seqs : j \in tx'[m].todo
                         \/ j \in failed' \cup revived'
      BY <2>2 DEF NoOrphanRules
    <3>3. CASE j = k
      BY <3>1, <3>3
    <3>4. CASE j # k
      BY <1>0, <2>1, <2>2, <3>1, <3>2, <3>4 DEF NoOrphanRules
    <3>. QED  BY <3>3, <3>4
  <2>. QED  BY <2>3, <2>4
<1>5. ASSUME NEW e \in EBIs, Dropped(e) PROVE NoOrphanRules'
  <2>1. /\ Taken({bearers[e]}) /\ UNCHANGED <<tx, revived>>
        /\ \A d \in EBIs : d # e => bearers'[d] = bearers[d]
    BY <1>5 DEF Dropped, TypeOK
  <2>. QED  BY <2>1 DEF NoOrphanRules, Taken
<1>6. ASSUME NEW e \in EBIs, Put(e) PROVE NoOrphanRules'
  <2>1. CASE ~alive
    BY <1>6, <2>1 DEF Put, Ended, NoOrphanRules
  <2>2. CASE alive
    <3>1. /\ rules' = rules /\ failed \subseteq failed' /\ revived \subseteq revived' /\ tx' = tx
          /\ \A d \in EBIs : d # e => bearers'[d] = bearers[d]
          /\ bearers[e] \in {bearers'[e], NoRule} \cup revived'
      BY <1>6, <2>2 DEF Put, SetBearer, TypeOK
    <3>. QED  BY <1>0, <3>1 DEF NoOrphanRules
  <2>. QED  BY <2>1, <2>2
<1>7. CASE Listed
  BY <1>7 DEF Listed, NoOrphanRules
<1>8. CASE EndSession
  BY <1>8 DEF EndSession, NoOrphanRules
<1>. QED  BY <1>1, <1>2, <1>3, <1>4, <1>5, <1>6, <1>7, <1>8, Effects

\* Every step keeps MadeKept.
LEMMA MadeKeptStep ==
    ASSUME CoreInv, MadeKept, [Next]_vars
    PROVE  MadeKept'
<1>. TypeOK
  BY DEF CoreInv
<1>0. NoRule \notin Rules /\ \A n \in Seqs : tx[n].made \subseteq Rules
  BY TxFields DEF TypeOK, Rules, NoRule
<1>1. CASE Calm
  BY <1>1 DEF MadeKept, Calm
<1>2. ASSUME NEW n \in Seqs, Provisioned(n) PROVE MadeKept'
  BY <1>2 DEF MadeKept, Provisioned
<1>3. ASSUME NEW n \in Seqs, Rolled(n) PROVE MadeKept'
  BY <1>3 DEF MadeKept, Rolled
<1>4. ASSUME NEW n \in Seqs, Applied(n) PROVE MadeKept'
  <2>1. PICK o \in Outcomes, e \in EBIs, k \in tx[n].todo :
          /\ bearers[e] \in {NoRule} \cup (revived \cap deleted)
          /\ bearers' = IF o = "ok" THEN [bearers EXCEPT ![e] = k] ELSE bearers
          /\ tx'[n].made = IF o = "ok" THEN tx[n].made \cup {k} ELSE tx[n].made
          /\ \A m \in Seqs : m # n => tx'[m].made = tx[m].made
          /\ UNCHANGED <<alive, revived, deleted>>
    BY <1>4 DEF Applied
  <2>2. CASE o # "ok"
    BY <2>1, <2>2 DEF MadeKept
  <2>3. CASE o = "ok"
    <3>1. bearers'[e] = k /\ \A d \in EBIs : d # e => bearers'[d] = bearers[d]
      BY <2>1, <2>3 DEF TypeOK
    <3>2. \A m \in Seqs : tx'[m].made \subseteq tx[m].made \cup {k}
      BY <2>1, <2>3
    <3>. SUFFICES ASSUME alive, NEW m \in Seqs, NEW j \in tx'[m].made
                  PROVE  (\E d \in EBIs : bearers'[d] = j) \/ j \in deleted \cup revived
      BY <2>1 DEF MadeKept
    <3>3. CASE j = k
      BY <3>1, <3>3
    <3>4. CASE j # k
      <4>1. j \in tx[m].made /\ j # NoRule
        BY <1>0, <3>2, <3>4
      <4>. QED  BY <2>1, <3>1, <4>1 DEF MadeKept
    <3>. QED  BY <3>3, <3>4
  <2>. QED  BY <2>2, <2>3
<1>5. ASSUME NEW e \in EBIs, Dropped(e) PROVE MadeKept'
  <2>1. /\ UNCHANGED <<alive, tx, revived>> /\ deleted \subseteq deleted'
        /\ \A d \in EBIs : d # e => bearers'[d] = bearers[d]
        /\ bearers[e] \in {bearers'[e], NoRule} \cup deleted'
    BY <1>5 DEF Dropped, TypeOK
  <2>. QED  BY <1>0, <2>1 DEF MadeKept
<1>6. ASSUME NEW e \in EBIs, Put(e) PROVE MadeKept'
  <2>1. CASE ~alive
    BY <1>6, <2>1 DEF Put, MadeKept
  <2>2. CASE alive
    <3>1. /\ deleted' = deleted /\ revived \subseteq revived' /\ tx' = tx
          /\ \A d \in EBIs : d # e => bearers'[d] = bearers[d]
          /\ bearers[e] \in {bearers'[e], NoRule} \cup revived'
      BY <1>6, <2>2 DEF Put, SetBearer, TypeOK
    <3>. QED  BY <1>0, <2>2, <3>1 DEF MadeKept
  <2>. QED  BY <2>1, <2>2
<1>7. CASE Listed
  BY <1>7 DEF Listed, MadeKept
<1>8. CASE EndSession
  BY <1>8 DEF EndSession, MadeKept
<1>. QED  BY <1>1, <1>2, <1>3, <1>4, <1>5, <1>6, <1>7, <1>8, Effects

-----------------------------------------------------------------------------
(* PDR IDs wrap.                                                           *)

\* Division with remainder.
LEMMA DivMod ==
    ASSUME NEW k \in Nat, NEW P \in Nat \ {0}
    PROVE  k % P \in Nat /\ k % P < P /\ k \div P \in Nat /\ k = P * (k \div P) + (k % P)
<1>1. k % P \in Nat
  OBVIOUS
<1>2. k % P < P
  OBVIOUS
<1>3. k \div P \in Nat
  OBVIOUS
<1>4. k = P * (k \div P) + (k % P)
  OBVIOUS
<1>. QED  BY <1>1, <1>2, <1>3, <1>4

\* Multiples of P are at least P apart.
LEMMA Multiples ==
    ASSUME NEW P \in Nat \ {0}, NEW p \in Nat, NEW q \in Nat
    PROVE  /\ P * p \in Nat /\ P * q \in Nat /\ (P * q) % P = 0
           /\ p < q => P * p + P <= P * q
           /\ q <= p => P * q <= P * p
<1>1. P * p \in Nat /\ P * q \in Nat
  OBVIOUS
<1>2. (P * q) % P = 0
  OBVIOUS
<1>3. p < q => P * p + P <= P * q
  OBVIOUS
<1>4. q <= p => P * q <= P * p
  OBVIOUS
<1>. QED  BY <1>1, <1>2, <1>3, <1>4

\* Between two numbers of the same remainder lies a multiple, the upper one included.
LEMMA SameResidue ==
    ASSUME NEW P \in Nat \ {0}, NEW j \in Nat, NEW k \in Nat, j < k, j % P = k % P
    PROVE  \E m \in Nat : j < m /\ m <= k /\ m % P = 0
<1>. DEFINE p == j \div P
            q == k \div P
            r == k % P
            A == P * p
            B == P * q
<1>1. p \in Nat /\ q \in Nat /\ r \in Nat /\ r < P
  BY DivMod
<1>2. j = A + r /\ k = B + r
  BY DivMod
<1>. HIDE DEF p, q, r
<1>3. A \in Nat /\ B \in Nat /\ B % P = 0 /\ (p < q => A + P <= B) /\ (q <= p => B <= A)
  BY <1>1, Multiples
<1>. HIDE DEF A, B
<1>4. j < B /\ B <= k
  BY <1>1, <1>2, <1>3
<1>. QED  BY <1>3, <1>4

\* A run of numbers SGW-U accepts, which avoids the pair of the default bearer, is no
\* longer than one round of PDR IDs: no two of its numbers share one.
LEMMA FreshDistinct ==
    ASSUME NEW a \in Nat, NEW b \in Nat, Fresh((a + 1)..b)
    PROVE  \A j, k \in (a + 1)..b : j % PairSpace = k % PairSpace => j = k
<1>. SUFFICES ASSUME NEW j \in (a + 1)..b, NEW k \in (a + 1)..b, j < k,
                     j % PairSpace = k % PairSpace
              PROVE  FALSE
  OBVIOUS
<1>1. PairSpace \in Nat \ {0} /\ j \in Nat /\ k \in Nat
  BY BearerAssumption
<1>2. PICK m \in Nat : j < m /\ m <= k /\ m % PairSpace = 0
  BY <1>1, SameResidue
<1>3. m \in (a + 1)..b
  BY <1>1, <1>2
<1>. QED  BY <1>2, <1>3 DEF Fresh

\* Every step keeps Numbered, although PDR IDs wrap.
LEMMA NumberedStep ==
    ASSUME CoreInv, Numbered, [Next]_vars
    PROVE  Numbered'
<1>. TypeOK
  BY DEF CoreInv
<1>1. CASE Calm
  BY <1>1 DEF Numbered, Calm
<1>2. ASSUME NEW n \in Seqs, Provisioned(n) PROVE Numbered'
  <2>1. PICK o \in Outcomes, K \in SUBSET Rules :
          /\ K = (next + 1)..next' /\ AddRules(K, o) /\ next \in Nat /\ next' \in Nat
    BY <1>2 DEF Provisioned
  <2>2. CASE rules' = rules
    BY <2>2 DEF Numbered
  <2>3. CASE rules' # rules
    <3>1. Fresh(K) /\ rules' = rules \cup K
      BY <2>1, <2>3 DEF AddRules
    <3>2. \A j, k \in K : j % PairSpace = k % PairSpace => j = k
      BY <2>1, <3>1, FreshDistinct
    <3>3. 0 % PairSpace = 0
      BY BearerAssumption
    <3>4. \A j \in K, k \in rules \cup {0} : j % PairSpace # k % PairSpace
      BY <3>1, <3>3 DEF Fresh
    <3>. QED  BY <3>1, <3>2, <3>4 DEF Numbered
  <2>. QED  BY <2>2, <2>3
<1>3. ASSUME NEW n \in Seqs, Rolled(n) PROVE Numbered'
  BY <1>3 DEF Numbered, Rolled, Taken
<1>4. ASSUME NEW n \in Seqs, Applied(n) PROVE Numbered'
  BY <1>4 DEF Numbered, Applied, ForwardRules
<1>5. ASSUME NEW e \in EBIs, Dropped(e) PROVE Numbered'
  BY <1>5 DEF Numbered, Dropped, Taken
<1>6. ASSUME NEW e \in EBIs, Put(e) PROVE Numbered'
  BY <1>6 DEF Numbered, Put
<1>7. CASE Listed
  BY <1>7 DEF Listed, Numbered
<1>8. CASE EndSession
  BY <1>8 DEF EndSession, Numbered
<1>. QED  BY <1>1, <1>2, <1>3, <1>4, <1>5, <1>6, <1>7, <1>8, Effects

-----------------------------------------------------------------------------
(* The properties.                                                         *)

\* The inductive invariant.
BearerInv == CoreInv /\ Placed /\ Served /\ Numbered /\ Ended /\ NoOrphanRules /\ MadeKept

\* It holds initially.
LEMMA BearerInit == Init => BearerInv
<1>. SUFFICES ASSUME Init PROVE BearerInv
  OBVIOUS
<1>1. CoreInv
  BY CoreInit
<1>2. /\ next = 0 /\ rules = {} /\ alive = TRUE
      /\ \A e \in EBIs : bearers[e] = NoRule /\ sib[e] = NoRule
      /\ \A n \in Seqs : tx[n].todo = {} /\ tx[n].made = {}
  <2>1. \A n \in Seqs : tx[n].pc = "none"
    BY DEF Init
  <2>. QED  BY <1>1, <2>1 DEF CoreInv, Stages, Init
<1>3. Placed
  BY <1>2 DEF Placed, NoRule
<1>4. Served /\ Numbered /\ Ended /\ NoOrphanRules /\ MadeKept
  BY <1>2 DEF Served, Numbered, Ended, NoOrphanRules, MadeKept
<1>. QED  BY <1>1, <1>3, <1>4 DEF BearerInv

\* Every step keeps it.
LEMMA BearerStep == BearerInv /\ [Next]_vars => BearerInv'
BY CoreStep, PlacedStep, ServedStep, NumberedStep, EndedStep, OrphanStep, MadeKeptStep
   DEF BearerInv

\* It says what the properties say.
LEMMA BearerMeans ==
    BearerInv => AnsweredOnce /\ NoOrphanRules /\ AnswerIsTrue /\ BearerHasRules
<1>. SUFFICES ASSUME BearerInv PROVE AnsweredOnce /\ NoOrphanRules /\ AnswerIsTrue /\ BearerHasRules
  OBVIOUS
<1>1. AnsweredOnce /\ NoOrphanRules
  BY DEF BearerInv, CoreInv, Stages, AnsweredOnce
<1>2. AnswerIsTrue
  BY DEF BearerInv, CoreInv, Stages, MadeKept, AnswerIsTrue
<1>3. BearerHasRules
  BY DEF BearerInv, Placed, Served, Numbered, BearerHasRules
<1>. QED  BY <1>1, <1>2, <1>3

\* BearerHasRules: every dedicated bearer has forwarding rules of its own on SGW-U,
\* under PDR IDs no other uses, whatever procedures interleave, for any number of
\* requests, contexts and EBIs and any PDR ID space.
THEOREM BearerHasRulesHolds == Spec => []BearerHasRules
BY BearerInit, BearerStep, BearerMeans, PTL DEF Spec

\* NoOrphanRules: refusals, timeouts, removeAllCreateBearerTxnProvisioning, Delete
\* Bearer and the clean-up leave no rules of a bearer that is not there, unless an
\* exchange failed or Modify Bearer put a bearer back.
THEOREM NoOrphanRulesHolds == Spec => []NoOrphanRules
BY BearerInit, BearerStep, BearerMeans, PTL DEF Spec

\* AnswerIsTrue: what Create Bearer told the PGW is so.
THEOREM AnswerIsTrueHolds == Spec => []AnswerIsTrue
BY BearerInit, BearerStep, BearerMeans, PTL DEF Spec

\* AnsweredOnce: the timer of a piggybacked request and the late response of the MME
\* never both answer the PGW.
THEOREM AnsweredOnceHolds == Spec => []AnsweredOnce
BY BearerInit, BearerStep, BearerMeans, PTL DEF Spec
=============================================================================
