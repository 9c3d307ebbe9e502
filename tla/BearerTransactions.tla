------------------------- MODULE BearerTransactions -------------------------
(***************************************************************************)
(* The bearer procedures of one PDN session of SGW-C: Create Bearer, which *)
(* the PGW sends alone or piggybacked on a Create Session Response, with   *)
(* its transaction table, fingerprints, failure latch and timer; Update    *)
(* Bearer and Delete Bearer; Modify Bearer of the default bearer, which    *)
(* restores the dedicated ones as its siblings; the clean-up of idle       *)
(* bearers, which is no procedure; and Delete Session, which may cut into  *)
(* any of them.                                                            *)
(*                                                                         *)
(* A dedicated bearer has one pair of PDRs and FARs on SGW-U, named by the *)
(* number AllocBearerRuleIDs drew for it. The PDR ID is that number        *)
(* truncated; pair 0 is the default bearer's.                              *)
(***************************************************************************)
EXTENDS Naturals, FiniteSets

CONSTANTS
    Seqs,      \* sequence numbers of Create Bearer Requests
    Contents,  \* what a request asks for: its fingerprint
    Contexts,  \* [Contents -> Nat]: how many bearer contexts it has
    EBIs,      \* the EBIs the MME can give to dedicated bearers
    IdleEBIs,  \* those whose bearers can be idle
    PairSpace, \* pairs of PDR IDs before they wrap (2^15 in the code)
    MaxRule,   \* bound: rule pairs drawn
    MaxFail    \* bound: exchanges that fail

ASSUME BearerAssumption ==
    /\ Seqs \subseteq Nat \ {0}
    /\ Contents # {} /\ Contexts \in [Contents -> Nat \ {0}]
    /\ EBIs \subseteq Nat \ {0} /\ IdleEBIs \subseteq EBIs
    /\ PairSpace \in Nat \ {0} /\ MaxRule \in Nat /\ MaxFail \in Nat

NoTxn == 0
Rules == 1..MaxRule
NoRule == 0
NoEBI == 0

VARIABLES
    alive,    \* the session is stored and its PFCP session exists
    bearers,  \* SGWSession.Bearers: EBI -> rule pair, NoRule without a bearer
    next,     \* nextRuleID: rule pairs drawn so far
    rules,    \* SGW-U: the rule pairs installed
    forw,     \* SGW-U: those whose downlink FAR forwards
    txns,     \* cbTxns: sequence number -> transaction, named by its first number
    fps,      \* cbFPs: fingerprint -> transaction
    tx,       \* the transactions
    latched,  \* cbProcFailures
    proc,     \* per EBI: the Update or Delete Bearer that runs, by step
    mod,      \* a Modify Bearer of the default bearer runs
    sib,      \* its list of sibling bearers: those not yet restored
    sent,     \* the sibling it waits for SGW-U about
    scan,     \* the decisions of the clean-up: EBI -> the rule pair of the idle bearer
    fails,
    deleted,  \* history: rule pairs whose bearer Delete Bearer or the clean-up removed
    failed,   \* history: rule pairs of an exchange that failed
    revived,  \* history: rule pairs of bearers that Modify Bearer put back after they
              \* were deleted, and of those they took the place of
    answers   \* history: fresh answers a transaction gave to the PGW

sgwu == <<rules, forw>>
tabs == <<txns, fps, latched>>
mb   == <<mod, sib, sent, revived>>
vars == <<alive, bearers, next, sgwu, tabs, tx, proc, mb, scan, fails, deleted, failed, answers>>

TxPcs == {"none", "provision", "mme", "pending", "apply", "undo", "undoAll", "done"}
Resps == {"none", "accepted", "rejected"}
Txns  == [pc : TxPcs, c : Contents, piggy : BOOLEAN, held : BOOLEAN, latch : BOOLEAN,
          todo : SUBSET Rules, made : SUBSET Rules, resp : Resps]

TypeOK ==
    /\ alive \in BOOLEAN
    /\ bearers \in [EBIs -> Rules \cup {NoRule}]
    /\ next \in 0..MaxRule
    /\ rules \subseteq Rules /\ forw \subseteq rules
    /\ txns \in [Seqs -> Seqs \cup {NoTxn}]
    /\ fps \in [Contents -> Seqs \cup {NoTxn}]
    /\ tx \in [Seqs -> Txns]
    /\ latched \subseteq Contents
    /\ proc \in [EBIs -> {"none", "update", "delete", "remove"}]
    /\ mod \in BOOLEAN /\ sib \in [EBIs -> Rules \cup {NoRule}] /\ sent \in EBIs \cup {NoEBI}
    /\ scan \in [EBIs -> Rules \cup {NoRule}]
    /\ fails \in 0..MaxFail
    /\ deleted \subseteq Rules /\ failed \subseteq Rules /\ revived \subseteq Rules
    /\ answers \in [Seqs -> 0..2]

Init ==
    /\ alive = TRUE
    /\ bearers = [e \in EBIs |-> NoRule]
    /\ next = 0
    /\ rules = {} /\ forw = {}
    /\ txns = [n \in Seqs |-> NoTxn] /\ fps = [c \in Contents |-> NoTxn]
    /\ tx = [n \in Seqs |-> [pc |-> "none", c |-> CHOOSE c \in Contents : TRUE,
                piggy |-> FALSE, held |-> FALSE, latch |-> FALSE,
                todo |-> {}, made |-> {}, resp |-> "none"]]
    /\ latched = {}
    /\ proc = [e \in EBIs |-> "none"]
    /\ mod = FALSE /\ sib = [e \in EBIs |-> NoRule] /\ sent = NoEBI /\ revived = {}
    /\ scan = [e \in EBIs |-> NoRule]
    /\ fails = 0
    /\ deleted = {} /\ failed = {}
    /\ answers = [n \in Seqs |-> 0]

-----------------------------------------------------------------------------
(* Exchanges with SGW-U.                                                   *)

Outcomes == {"ok", "no", "lost"}
Exchange(o) == IF o = "ok" THEN fails' = fails ELSE fails < MaxFail /\ fails' = fails + 1

\* Faulty variant: a PDR ID in use is taken.
Fresh_Any(K) == TRUE

\* SGW-U accepts rules only under PDR IDs that are not in use; those of the default
\* bearer always are.
Fresh(K) == \A k \in K : k % PairSpace \notin {0} \cup {r % PairSpace : r \in rules}

\* AddBearerRulesOnPeer.
AddRules(K, o) ==
    /\ IF alive /\ Fresh(K) THEN Exchange(o) ELSE o = "no" /\ UNCHANGED fails
    /\ rules' = IF o # "no" THEN rules \cup K ELSE rules
    /\ failed' = IF o = "ok" THEN failed ELSE failed \cup K
    /\ UNCHANGED forw

\* RemoveBearerRulesOnPeer. SGW-U refuses as a whole when one rule is missing.
RemoveRules(K, o) ==
    /\ IF alive /\ K \subseteq rules THEN Exchange(o) ELSE o = "no" /\ UNCHANGED fails
    /\ rules' = IF o # "no" THEN rules \ K ELSE rules
    /\ forw' = IF o # "no" THEN forw \ K ELSE forw
    /\ failed' = IF o = "ok" THEN failed ELSE failed \cup K

\* ModifySessionOnPeer switches the downlink FARs of K to forward.
ForwardRules(K, o) ==
    /\ IF alive /\ K \subseteq rules THEN Exchange(o) ELSE o = "no" /\ UNCHANGED fails
    /\ forw' = IF o # "no" THEN forw \cup K ELSE forw
    /\ failed' = IF o = "ok" THEN failed ELSE failed \cup K
    /\ UNCHANGED rules

-----------------------------------------------------------------------------
(* handleCreateBearer and prepareCreateBearerRelay.                        *)

\* Create Bearer is a procedure on the linked bearer: it excludes another one and a
\* Modify Bearer of the default bearer, and no procedure on dedicated bearers.
MayCreate == ~mod /\ \A m \in Seqs : ~tx[m].held

\* findCreateBearerTxn and the retry guard: what is known is answered or suppressed.
Latched(c)  == c \in latched
Known(n, c) == txns[n] # NoTxn \/ Latched(c)

\* A fresh request: a transaction is entered under its number and its fingerprint.
EnterTxn(n, c, piggy) ==
    /\ alive /\ ~Known(n, c) /\ MayCreate
    /\ fps[c] = NoTxn
    /\ next + Contexts[c] <= MaxRule
    /\ txns' = [txns EXCEPT ![n] = n] /\ fps' = [fps EXCEPT ![c] = n]
    /\ tx' = [tx EXCEPT ![n].pc = "provision", ![n].c = c, ![n].piggy = piggy,
                        ![n].held = TRUE]
    /\ UNCHANGED <<alive, bearers, next, sgwu, latched, proc, mb, fails, deleted,
                   failed, answers, scan>>

\* The request comes alone, or on a Create Session Response.
CreateBearer(n, c) == EnterTxn(n, c, FALSE)
PrepareRelay(n, c) == EnterTxn(n, c, TRUE)

\* A new number for a fingerprint that is known joins its transaction: it is answered
\* from the cache, or dropped while the transaction is pending.
JoinTxn(n, c) ==
    /\ alive /\ ~Known(n, c) /\ MayCreate
    /\ fps[c] # NoTxn
    /\ txns' = [txns EXCEPT ![n] = fps[c]]
    /\ UNCHANGED <<alive, bearers, next, sgwu, fps, latched, tx, proc, mb, fails,
                   deleted, failed, answers, scan>>

\* completeCreateBearerTxn keeps the response; the procedure finishes.
Completed(n, resp) ==
    [tx EXCEPT ![n].pc = "done", ![n].resp = resp, ![n].held = FALSE, ![n].todo = {}]

\* rememberCreateBearerProcedureFailure.
Remember(c) == latched' = latched \cup {c}

\* The end: replyCreateBearerTxnError, or the response; a failure is latched where the
\* code says so.
Complete(n, resp, latch) ==
    /\ tx' = Completed(n, resp)
    /\ IF latch THEN Remember(tx[n].c) ELSE UNCHANGED latched
    /\ answers' = [answers EXCEPT ![n] = @ + 1]

\* A bearer context that cannot be used; the ones before it have drawn their numbers.
RejectContext(n) ==
    /\ tx[n].pc = "provision"
    /\ next' \in next..(next + Contexts[tx[n].c] - 1)
    /\ Complete(n, "rejected", FALSE)
    /\ UNCHANGED <<alive, bearers, sgwu, txns, fps, proc, mb, fails, deleted, failed, scan>>

\* The request then goes to the MME: Send awaits the response, or it is registered for
\* the timer and goes with the Create Session Response.
Relayed(n) == IF tx[n].piggy THEN "pending" ELSE "mme"

\* Rule pairs are drawn and added on SGW-U. On an error the PGW is refused and nothing
\* is removed.
Provision(n) == \E o \in Outcomes :
    LET K == (next + 1)..(next + Contexts[tx[n].c]) IN
    /\ tx[n].pc = "provision"
    /\ next' = next + Contexts[tx[n].c]
    /\ AddRules(K, o)
    /\ IF o = "ok"
       THEN /\ tx' = [tx EXCEPT ![n].todo = K, ![n].pc = Relayed(n)]
            /\ UNCHANGED <<latched, answers>>
       ELSE Complete(n, "rejected", FALSE)
    /\ UNCHANGED <<alive, bearers, txns, fps, proc, mb, deleted, scan>>

\* The MME does not answer, refuses, or answers what cannot be used (latched but for
\* the first): all rules go.
MmeRefuses(n) ==
    /\ tx[n].pc \in {"mme", "pending"}
    /\ \E latch \in BOOLEAN :
        /\ tx[n].pc = "pending" => latch
        /\ tx' = [tx EXCEPT ![n].pc = "undoAll", ![n].latch = latch]
    /\ UNCHANGED <<alive, bearers, next, sgwu, tabs, proc, mb, fails, deleted, failed,
                   answers, scan>>

\* The MME accepts in whole or in part: popPendingS11CreateBearer, or the return of Send.
MmeAccepts(n) ==
    /\ tx[n].pc \in {"mme", "pending"}
    /\ tx' = [tx EXCEPT ![n].pc = "apply"]
    /\ UNCHANGED <<alive, bearers, next, sgwu, tabs, proc, mb, fails, deleted, failed,
                   answers, scan>>

\* Faulty variant: the response in progress has not taken the entry.
Expirable_Applying(n) == tx[n].pc \in {"pending", "apply"} /\ tx[n].piggy

\* Faulty variant: the response never takes the entry.
Expirable_Answered(n) == tx[n].pc \in {"pending", "done"} /\ tx[n].piggy

\* popPendingS11CreateBearer: who takes the entry, the timer or the response, goes on.
Expirable(n) == tx[n].pc = "pending"

\* Faulty variant: the timer only forgets the request.
Expire_Forget(n) ==
    /\ Expirable(n)
    /\ tx' = [tx EXCEPT ![n].pc = "done", ![n].held = FALSE]
    /\ UNCHANGED <<alive, bearers, next, sgwu, tabs, proc, mb, fails, deleted, failed,
                   answers, scan>>

\* expirePendingS11CreateBearer finishes the procedure before it removes the rules.
Expire(n) ==
    /\ Expirable(n)
    /\ tx' = [tx EXCEPT ![n].pc = "undoAll", ![n].latch = TRUE, ![n].held = FALSE]
    /\ UNCHANGED <<alive, bearers, next, sgwu, tabs, proc, mb, fails, deleted, failed,
                   answers, scan>>

\* removeAllCreateBearerTxnProvisioning, and the answer to the PGW.
UndoAll(n) == \E o \in Outcomes :
    /\ tx[n].pc = "undoAll"
    /\ RemoveRules(tx[n].todo, o)
    /\ Complete(n, "rejected", tx[n].latch)
    /\ UNCHANGED <<alive, bearers, next, txns, fps, proc, mb, deleted, scan>>

First(n) == CHOOSE k \in tx[n].todo : \A j \in tx[n].todo : k <= j

\* A context the MME accepted, with an EBI and an eNodeB F-TEID: the downlink FAR is
\* switched, and the bearer stored if SGW-U accepts.
ApplyContext(n) == \E o \in Outcomes, e \in EBIs :
    LET k == First(n) IN
    /\ tx[n].pc = "apply" /\ tx[n].todo # {}
    /\ bearers[e] \in {NoRule} \cup (revived \cap deleted)
    /\ ForwardRules({k}, o)
    /\ IF o = "ok"
       THEN /\ bearers' = [bearers EXCEPT ![e] = k]
            /\ tx' = [tx EXCEPT ![n].todo = @ \ {k}, ![n].made = @ \cup {k}]
       ELSE /\ tx' = [tx EXCEPT ![n].pc = "undo"]
            /\ UNCHANGED bearers
    /\ UNCHANGED <<alive, next, tabs, proc, mb, deleted,
                   answers, scan>>

\* A context the MME refused, or accepted without an F-TEID.
RefuseContext(n) ==
    /\ tx[n].pc = "apply" /\ tx[n].todo # {}
    /\ tx' = [tx EXCEPT ![n].pc = "undo"]
    /\ UNCHANGED <<alive, bearers, next, sgwu, tabs, proc, mb, fails, deleted, failed,
                   answers, scan>>

\* Faulty variant: the rules of a refused context stay.
RolledBack_None(n) == {}

\* removeCreateBearerTxnProvisioning: the rules of the one context.
RolledBack(n) == {First(n)}

UndoContext(n) == \E o \in Outcomes :
    /\ tx[n].pc = "undo"
    /\ RemoveRules(RolledBack(n), o)
    /\ tx' = [tx EXCEPT ![n].pc = "apply", ![n].todo = @ \ {First(n)}]
    /\ UNCHANGED <<alive, bearers, next, tabs, proc, mb, deleted,
                   answers, scan>>

\* All contexts done: accepted, in part or in whole, if one bearer was made.
Respond(n) ==
    /\ tx[n].pc = "apply" /\ tx[n].todo = {}
    /\ IF tx[n].made # {} THEN Complete(n, "accepted", FALSE) ELSE Complete(n, "rejected", TRUE)
    /\ UNCHANGED <<alive, bearers, next, sgwu, txns, fps, proc, mb, fails, deleted, failed, scan>>

-----------------------------------------------------------------------------
(* Update Bearer and Delete Bearer.                                        *)

\* A request of the PGW about bearer e, relayed to the MME.
Relay(e, kind) ==
    /\ alive /\ proc[e] = "none" /\ bearers[e] # NoRule
    /\ proc' = [proc EXCEPT ![e] = kind]
    /\ UNCHANGED <<alive, bearers, next, sgwu, tabs, tx, mb, fails, deleted, failed,
                   answers, scan>>
UpdateBearer(e) == Relay(e, "update")
DeleteBearer(e) == Relay(e, "delete")

\* The answer of the MME to either, refused or none: relayed, nothing changes. So does
\* an accepted Update Bearer, but for the QoS and TFT of the bearer.
MmeAnswered(e) ==
    /\ proc[e] \in {"update", "delete"}
    /\ proc' = [proc EXCEPT ![e] = "none"]
    /\ UNCHANGED <<alive, bearers, next, sgwu, tabs, tx, mb, fails, deleted, failed,
                   answers, scan>>

MmeDeletes(e) ==
    /\ proc[e] = "delete"
    /\ proc' = [proc EXCEPT ![e] = "remove"]
    /\ UNCHANGED <<alive, bearers, next, sgwu, tabs, tx, mb, fails, deleted, failed,
                   answers, scan>>

\* The MME accepted the deletion: the rules of the bearer go, an error is logged, and
\* the bearer goes. Without a bearer nothing is sent.
RemoveBearer(e) == \E o \in Outcomes :
    LET k == bearers[e] IN
    /\ proc[e] = "remove"
    /\ IF k = NoRule THEN o = "ok" /\ UNCHANGED <<sgwu, fails, failed>> ELSE RemoveRules({k}, o)
    /\ bearers' = [bearers EXCEPT ![e] = NoRule]
    /\ deleted' = deleted \cup ({k} \cap Rules)
    /\ proc' = [proc EXCEPT ![e] = "none"]
    /\ UNCHANGED <<alive, next, tabs, tx, mb,
                   answers, scan>>

-----------------------------------------------------------------------------
(* Modify Bearer of the default bearer, once SGW-U has taken its F-TEID:   *)
(* restoreSiblingBearersAfterModifyBearer.                                 *)

\* The bearers are listed once.
ModifyBearer ==
    /\ alive /\ MayCreate
    /\ \E e \in EBIs : bearers[e] # NoRule
    /\ mod' = TRUE /\ sib' = bearers
    /\ UNCHANGED <<alive, bearers, next, sgwu, tabs, tx, proc, sent, fails, deleted,
                   failed, revived, answers, scan>>

\* SetBearer stores the listed bearer under its EBI, whatever is there now.
SetBearer(e) ==
    /\ bearers' = [bearers EXCEPT ![e] = IF alive THEN sib[e] ELSE NoRule]
    /\ revived' = IF alive /\ bearers[e] # sib[e]
                  THEN revived \cup ({sib[e], bearers[e]} \cap Rules) ELSE revived

\* The next listed bearer gets the eNodeB's F-TEID and SGW-U is asked to forward.
RestoreSibling(e) ==
    /\ mod /\ sent = NoEBI /\ sib[e] # NoRule
    /\ SetBearer(e)
    /\ sent' = e
    /\ UNCHANGED <<alive, next, sgwu, tabs, tx, proc, mod, sib, fails, deleted,
                   failed, answers, scan>>

\* SGW-U answers; on an error the bearer is stored once more, with its old F-TEID.
SiblingAnswer(e) == \E o \in Outcomes :
    /\ sent = e
    /\ ForwardRules({sib[e]}, o)
    /\ IF o = "ok" THEN UNCHANGED <<bearers, revived>> ELSE SetBearer(e)
    /\ sib' = [sib EXCEPT ![e] = NoRule] /\ sent' = NoEBI
    /\ UNCHANGED <<alive, next, tabs, tx, proc, mod, deleted,
                   answers, scan>>

ModifyReturn ==
    /\ mod /\ \A e \in EBIs : sib[e] = NoRule
    /\ mod' = FALSE
    /\ UNCHANGED <<alive, bearers, next, sgwu, tabs, tx, proc, sib, sent, fails, deleted,
                   failed, revived, answers, scan>>

-----------------------------------------------------------------------------
(* The clean-up of idle dedicated bearers: Runner and Executor.            *)

\* A tick: EvaluateManager decides which bearers are idle. Rules and activity times may
\* name any of them.
Scan ==
    /\ alive /\ \A e \in EBIs : scan[e] = NoRule
    /\ \E I \in SUBSET {e \in IdleEBIs : bearers[e] # NoRule} :
        /\ I # {}
        /\ scan' = [e \in EBIs |-> IF e \in I THEN bearers[e] ELSE NoRule]
    /\ UNCHANGED <<alive, bearers, next, sgwu, tabs, tx, proc, mb, fails, deleted, failed,
                   answers>>

\* cleanupDedicatedBearer, for the bearer that has the EBI by now: its rules go, and the
\* bearer, unless SGW-U fails.
Clean(e) == \E o \in Outcomes :
    LET k == bearers[e] IN
    /\ scan[e] # NoRule
    /\ scan' = [scan EXCEPT ![e] = NoRule]
    /\ IF k = NoRule THEN o = "no" /\ UNCHANGED <<sgwu, fails, failed>> ELSE RemoveRules({k}, o)
    /\ bearers' = IF o = "ok" THEN [bearers EXCEPT ![e] = NoRule] ELSE bearers
    /\ deleted' = IF o = "ok" THEN deleted \cup {k} ELSE deleted
    /\ UNCHANGED <<alive, next, tabs, tx, proc, mb, answers>>

-----------------------------------------------------------------------------
\* Delete Session does not wait for bearer procedures: the PFCP session goes with all
\* rules, and the latch of the session is cleared. The transactions stay. What the
\* histories tell apart is over, and the clean-up passes over its decisions.
EndSession ==
    /\ alive
    /\ alive' = FALSE
    /\ bearers' = [e \in EBIs |-> NoRule]
    /\ rules' = {} /\ forw' = {}
    /\ latched' = {}
    /\ deleted' = {} /\ failed' = {} /\ revived' = {}
    /\ scan' = [e \in EBIs |-> NoRule]
    /\ UNCHANGED <<next, txns, fps, tx, proc, mod, sib, sent, fails, answers>>

Step(n) ==
    \/ RejectContext(n) \/ Provision(n) \/ MmeRefuses(n) \/ MmeAccepts(n) \/ Expire(n)
    \/ UndoAll(n) \/ ApplyContext(n) \/ RefuseContext(n) \/ UndoContext(n) \/ Respond(n)

Next ==
    \/ \E n \in Seqs : Step(n)
    \/ \E n \in Seqs, c \in Contents :
        CreateBearer(n, c) \/ PrepareRelay(n, c) \/ JoinTxn(n, c)
    \/ \E e \in EBIs :
        \/ UpdateBearer(e) \/ DeleteBearer(e) \/ MmeAnswered(e) \/ MmeDeletes(e)
        \/ RemoveBearer(e)
        \/ RestoreSibling(e) \/ SiblingAnswer(e) \/ Clean(e)
    \/ ModifyBearer \/ ModifyReturn \/ Scan
    \/ EndSession

\* A handler comes to its end: the MME answers, or Send or the timer gives up.
Spec == Init /\ [][Next]_vars /\ \A n \in Seqs : WF_vars(Step(n))

-----------------------------------------------------------------------------
(* Properties.                                                             *)

\* Every dedicated bearer of the session has rules of its own on SGW-U, under PDR IDs
\* no other bearer uses, and its downlink forwards, whatever other transactions roll
\* back at the same time, and although PDR IDs wrap; the exceptions are a bearer that
\* Modify Bearer put back and one about which an exchange with SGW-U failed.
BearerHasRules ==
    /\ \A e \in EBIs : bearers[e] \notin {NoRule} \cup revived \cup failed => bearers[e] \in forw
    /\ \A d, e \in EBIs : d # e /\ bearers[d] # NoRule => bearers[d] # bearers[e]
    /\ \A j, k \in rules \cup {0} : j % PairSpace = k % PairSpace => j = k

\* Rules without a bearer belong to a transaction that is still running or to an
\* exchange that failed: a refusal, a timeout of the MME and a Delete Bearer all take
\* the rules away.
NoOrphanRules ==
    \A k \in rules :
        \/ \E e \in EBIs : bearers[e] = k
        \/ \E n \in Seqs : k \in tx[n].todo
        \/ k \in failed \cup revived

\* What the PGW was told is true: the bearers of an accepted transaction are in the
\* session until Delete Bearer or the clean-up removes them or the session ends, and a
\* refused one left no bearer.
AnswerIsTrue ==
    alive => \A n \in Seqs : \A k \in tx[n].made :
        LET there == \E e \in EBIs : bearers[e] = k IN
        /\ tx[n].resp = "accepted" => there \/ k \in deleted \cup revived
        /\ tx[n].resp = "rejected" => ~there

\* The timer of a piggybacked request and the MME's late response race: one of them
\* answers the PGW, never both, and no transaction is answered twice.
AnsweredOnce == \A n \in Seqs : answers[n] <= 1

\* Duplicates are dropped while a transaction is pending, so it must not stay so: it is
\* answered, also when the MME is silent or the session goes.
TxnsComplete == \A n \in Seqs : tx[n].pc # "none" ~> tx[n].resp # "none"

\* "DeleteBearer removes the bearer" (session.go): a deleted bearer is not in the session
\* again.
DeletedStaysDeleted == \A e \in EBIs : bearers[e] \notin deleted

\* The clean-up removes the bearers it found idle, none that took the EBI of one since.
CleanedWasIdle ==
    [][\A e \in EBIs : Clean(e) /\ bearers'[e] # bearers[e] => bearers[e] = scan[e]]_vars

\* The cached answer to a repeated request is true: "repeated Create Bearer operation
\* answered from fingerprint cache" speaks of bearers that are there.
CachedAnswerTrue ==
    alive => \A n \in Seqs : tx[n].resp = "accepted" =>
        \A k \in tx[n].made : \E e \in EBIs : bearers[e] = k
=============================================================================
