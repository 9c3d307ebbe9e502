--------------------------- MODULE GtpcTransport ---------------------------
(***************************************************************************)
(* One GTPv2-C endpoint (gtpv2/transport.Conn): the goroutines that        *)
(* dispatch inbound packets under dispatchSem, the retransmission cache    *)
(* and in-flight set that recognise a peer's duplicates, and the T3/N3     *)
(* transactions that handlers open with Send while they hold their slot.   *)
(*                                                                         *)
(* A slot is one unit of dispatchSem and the goroutine that holds it. A    *)
(* key stands for a retransmitKey, its tx field for (addr, seq, msgType).  *)
(* The network loses, delays, duplicates and reorders: a copy that is never*)
(* served is lost.                                                         *)
(***************************************************************************)
EXTENDS Naturals, FiniteSets

CONSTANTS
    Keys,        \* inbound request keys, records [tx, teid]
    NoKey,       \* the key of a slot that holds no request
    Callers,     \* the keys whose handler opens a transaction of its own
    Slots,       \* dispatchSem: 4096 units in the code
    N3,          \* N3-REQUESTS
    SeqSpace,    \* 2^24 in the code
    MaxCopies,   \* bound: copies of a request, or of an answer, on the wire
    MaxGen,      \* bound: requests that use one key
    MaxCalls     \* bound: transactions opened

ASSUME TransportAssumption ==
    /\ Callers \subseteq Keys
    /\ NoKey \notin Keys
    /\ IsFiniteSet(Slots)
    /\ N3 \in Nat \ {0}
    /\ SeqSpace \in Nat \ {0}
    /\ MaxCopies \in Nat /\ MaxGen \in Nat \ {0} /\ MaxCalls \in Nat

VARIABLES
    \* inbound
    inFlight,    \* c.inFlight
    cache,       \* c.inboundCache
    gen,         \* which request a key currently identifies
    copies,      \* copies of it the peer has still to send
    execs,       \* handler executions of it so far
    got,         \* the answers put on the wire for it
    \* goroutines
    pc, key, attempt, call, outcome,
    held,        \* the cached answer a slot resends
    storeKey,    \* the key a slot caches its answer under
    \* outbound
    calls,       \* AllocSeq, not reduced to 24 bits
    pending,     \* c.pending: the call registered under a sequence number
    chan, done,  \* the result channel and tCtx of a slot's Send
    owed         \* answers the remote peer may still send to a call

inVars  == <<inFlight, cache, gen, copies, execs, got>>
outVars == <<calls, pending, chan, done, owed>>
frame   == <<key, attempt, call, outcome, held, storeKey>>
goVars  == <<pc, frame>>
vars    == <<inVars, goVars, outVars>>

CallIds  == 1..MaxCalls
NoCall   == 0
SendPcs  == {"write", "select", "parked", "cleanup"}
HandlerPcs == {"handler", "handled", "keyFor", "store", "clear"} \cup SendPcs
RespPcs  == {"deliver", "hand", "cancel"}
Pcs      == {"idle", "check", "resend"} \cup HandlerPcs \cup RespPcs
Answers  == [gen : 1..MaxGen, n : 1..(MaxCopies * MaxGen)]
NoAnswer == [gen |-> 0, n |-> 0]
Outcomes == {"none", "answer", "nil", "error"}

\* An inboundCache entry; absent, or an answer with a TTL that may have run out.
NoEntry  == [has |-> FALSE]
Entry(a) == [has |-> TRUE, live |-> TRUE, ans |-> a]
Entries  == {NoEntry} \cup [has : {TRUE}, live : BOOLEAN, ans : Answers]
Live(k)  == cache[k].has /\ cache[k].live

TypeOK ==
    /\ inFlight \subseteq Keys
    /\ cache \in [Keys -> Entries]
    /\ gen \in [Keys -> 1..MaxGen]
    /\ copies \in [Keys -> 0..MaxCopies]
    /\ execs \in [Keys -> 0..(MaxCopies * MaxGen)]
    /\ got \in [Keys -> SUBSET Answers]
    /\ pc \in [Slots -> Pcs]
    /\ key \in [Slots -> Keys \cup {NoKey}]
    /\ attempt \in [Slots -> 0..N3]
    /\ call \in [Slots -> CallIds \cup {NoCall}]
    /\ outcome \in [Slots -> Outcomes]
    /\ held \in [Slots -> Answers \cup {NoAnswer}]
    /\ storeKey \in [Slots -> Keys \cup {NoKey}]
    /\ calls \in 0..MaxCalls
    /\ pending \in [0..(SeqSpace - 1) -> CallIds \cup {NoCall}]
    /\ chan \in [Slots -> BOOLEAN]
    /\ done \in [Slots -> {"no", "cancelled", "expired"}]
    /\ owed \in [CallIds -> 0..MaxCopies]

Init ==
    /\ inFlight = {}
    /\ cache = [k \in Keys |-> NoEntry]
    /\ gen = [k \in Keys |-> 1]
    /\ copies = [k \in Keys |-> MaxCopies]
    /\ execs = [k \in Keys |-> 0]
    /\ got = [k \in Keys |-> {}]
    /\ pc = [s \in Slots |-> "idle"]
    /\ key = [s \in Slots |-> NoKey]
    /\ attempt = [s \in Slots |-> 0]
    /\ call = [s \in Slots |-> NoCall]
    /\ outcome = [s \in Slots |-> "none"]
    /\ held = [s \in Slots |-> NoAnswer]
    /\ storeKey = [s \in Slots |-> NoKey]
    /\ calls = 0
    /\ pending = [q \in 0..(SeqSpace - 1) |-> NoCall]
    /\ chan = [s \in Slots |-> FALSE]
    /\ done = [s \in Slots |-> "no"]
    /\ owed = [c \in CallIds |-> 0]

Goto(s, l) == pc' = [pc EXCEPT ![s] = l]
SeqNo(c) == c % SeqSpace

\* The goroutine returns and its deferred receive frees the dispatchSem unit.
Release(s) ==
    /\ Goto(s, "idle")
    /\ key'     = [key EXCEPT ![s] = NoKey]
    /\ attempt' = [attempt EXCEPT ![s] = 0]
    /\ call'    = [call EXCEPT ![s] = NoCall]
    /\ outcome' = [outcome EXCEPT ![s] = "none"]
    /\ held'    = [held EXCEPT ![s] = NoAnswer]
    /\ storeKey' = [storeKey EXCEPT ![s] = NoKey]

-----------------------------------------------------------------------------
(* Inbound requests: Serve, dispatch, processFrame.                        *)

\* Serve reads a copy of the request and a dispatchSem unit is free.
ServeRequest(s, k) ==
    /\ copies[k] > 0
    /\ pc[s] = "idle"
    /\ copies' = [copies EXCEPT ![k] = @ - 1]
    /\ key' = [key EXCEPT ![s] = k]
    /\ Goto(s, "check")
    /\ UNCHANGED <<inFlight, cache, gen, execs, got,
                   attempt, call, outcome, held, storeKey, outVars>>

\* Serve reads a copy and dispatchSem is full: the packet is dropped.
OverloadRequest(k) ==
    /\ copies[k] > 0
    /\ \A s \in Slots : pc[s] # "idle"
    /\ copies' = [copies EXCEPT ![k] = @ - 1]
    /\ UNCHANGED <<inFlight, cache, gen, execs, got, goVars, outVars>>

\* Faulty variant: a cached answer is used although its TTL has run out.
CheckCached_NoTTL(s) ==
    /\ pc[s] = "check"
    /\ cache[key[s]].has
    /\ held' = [held EXCEPT ![s] = cache[key[s]].ans]
    /\ Goto(s, "resend")
    /\ UNCHANGED <<inVars, key, attempt, call, outcome, storeKey, outVars>>

\* checkAndMarkInFlight, first case: a live cached answer, handed out under the lock.
CheckCached(s) ==
    /\ pc[s] = "check"
    /\ Live(key[s])
    /\ held' = [held EXCEPT ![s] = cache[key[s]].ans]
    /\ Goto(s, "resend")
    /\ UNCHANGED <<inVars, key, attempt, call, outcome, storeKey, outVars>>

\* checkAndMarkInFlight, second case: another goroutine executes the request;
\* the duplicate is dropped. An expired entry is deleted on the way.
CheckInFlight(s) ==
    /\ pc[s] = "check"
    /\ ~Live(key[s])
    /\ key[s] \in inFlight
    /\ cache' = [cache EXCEPT ![key[s]] = NoEntry]
    /\ Release(s)
    /\ UNCHANGED <<inFlight, gen, copies, execs, got, outVars>>

\* checkAndMarkInFlight, third case: the request is new; its handler starts.
CheckNew(s) ==
    /\ pc[s] = "check"
    /\ ~Live(key[s])
    /\ key[s] \notin inFlight
    /\ cache' = [cache EXCEPT ![key[s]] = NoEntry]
    /\ inFlight' = inFlight \cup {key[s]}
    /\ execs' = [execs EXCEPT ![key[s]] = @ + 1]
    /\ Goto(s, "handler")
    /\ UNCHANGED <<gen, copies, got, frame, outVars>>

\* processFrame writes the cached bytes.
Resend(s) ==
    /\ pc[s] = "resend"
    /\ got' = [got EXCEPT ![key[s]] = @ \cup {held[s]}]
    /\ Release(s)
    /\ UNCHANGED <<inFlight, cache, gen, copies, execs, outVars>>

\* The answer of the execution that runs in slot s.
AnswerOf(s) == [gen |-> gen[key[s]], n |-> execs[key[s]]]

\* Reply, the write: the answer is on the wire.
Reply(s) ==
    /\ pc[s] \in {"handler", "handled"}
    /\ got' = [got EXCEPT ![key[s]] = @ \cup {AnswerOf(s)}]
    /\ Goto(s, "keyFor")
    /\ UNCHANGED <<inFlight, cache, gen, copies, execs, frame, outVars>>

\* The handler returns with no answer on the wire: it discarded the request, or
\* WriteToUDP failed, and then Reply returns before it writes the cache.
NoReply(s) ==
    /\ pc[s] \in {"handler", "handled"}
    /\ Goto(s, "clear")
    /\ UNCHANGED <<inVars, frame, outVars>>

\* inFlightRetransmitKeyForResponse: some in-flight key with the answer's peer,
\* sequence number and request type. The handler has not returned: there is one.
KeyFor(s) ==
    /\ pc[s] = "keyFor"
    /\ \E k \in inFlight :
        /\ k.tx = key[s].tx
        /\ storeKey' = [storeKey EXCEPT ![s] = k]
    /\ Goto(s, "store")
    /\ UNCHANGED <<inVars, key, attempt, call, outcome, held, outVars>>

\* Faulty variant: the answer is never cached.
Store_Nothing(s) ==
    /\ pc[s] = "store"
    /\ Goto(s, "clear")
    /\ UNCHANGED <<inVars, frame, outVars>>

\* storeInboundCache: sweep what has expired, then store.
Store(s) ==
    /\ pc[s] = "store"
    /\ cache' = [k \in Keys |-> IF k = storeKey[s] THEN Entry(AnswerOf(s))
                                ELSE IF Live(k) THEN cache[k] ELSE NoEntry]
    /\ Goto(s, "clear")
    /\ UNCHANGED <<inFlight, gen, copies, execs, got, frame, outVars>>

\* Faulty variant: the in-flight mark is forgotten.
ClearInFlight_Never(s) ==
    /\ pc[s] = "clear"
    /\ Release(s)
    /\ UNCHANGED <<inVars, outVars>>

\* The deferred clearInFlight.
ClearInFlight(s) ==
    /\ pc[s] = "clear"
    /\ inFlight' = inFlight \ {key[s]}
    /\ Release(s)
    /\ UNCHANGED <<cache, gen, copies, execs, got, outVars>>

\* inboundCacheTTL runs out. It outlasts the peer's T3*N3 window, so no copy of
\* the request is left anywhere; the peer may now give the key to a new request.
Expire(k) ==
    /\ Live(k)
    /\ gen[k] < MaxGen
    /\ \A s \in Slots : key[s] = k => pc[s] \notin {"check", "resend"}
    /\ cache' = [cache EXCEPT ![k].live = FALSE]
    /\ gen' = [gen EXCEPT ![k] = @ + 1]
    /\ copies' = [copies EXCEPT ![k] = MaxCopies]
    /\ got' = [got EXCEPT ![k] = {}]
    /\ UNCHANGED <<inFlight, execs, goVars, outVars>>

-----------------------------------------------------------------------------
(* Outbound transactions: SendWithPiggybacks, called by a handler.         *)

\* AllocSeq, then the registration under pendingMu. A sequence number that is
\* still pending makes Send fail at once.
SendBegin(s) ==
    LET c == calls + 1 IN
    /\ pc[s] = "handler"
    /\ key[s] \in Callers
    /\ calls < MaxCalls
    /\ calls' = c
    /\ IF pending[SeqNo(c)] = NoCall
       THEN /\ pending' = [pending EXCEPT ![SeqNo(c)] = c]
            /\ call' = [call EXCEPT ![s] = c]
            /\ chan' = [chan EXCEPT ![s] = FALSE]
            /\ done' = [done EXCEPT ![s] = "no"]
            /\ Goto(s, "write")
            /\ UNCHANGED outcome
       ELSE /\ outcome' = [outcome EXCEPT ![s] = "error"]
            /\ Goto(s, "handled")
            /\ UNCHANGED <<pending, call, chan, done>>
    /\ UNCHANGED <<inVars, key, attempt, held, storeKey, owed>>

\* One pass of the loop: WriteToUDP succeeds and the peer may answer, or it
\* fails and Send returns.
SendWrite(s) ==
    /\ pc[s] = "write"
    /\ \/ /\ owed' = [owed EXCEPT ![call[s]] = IF @ < MaxCopies THEN @ + 1 ELSE @]
          /\ Goto(s, "select")
          /\ UNCHANGED outcome
       \/ /\ outcome' = [outcome EXCEPT ![s] = "error"]
          /\ Goto(s, "cleanup")
          /\ UNCHANGED owed
    /\ UNCHANGED <<inVars, key, attempt, call, held, storeKey, calls, pending, chan, done>>

\* The select is reached with cases ready: it takes any of them, and a tCtx that
\* the deliverer cancelled makes Send return ctx.Err() of a live context, nil.
SelectReady(s) ==
    /\ pc[s] = "select"
    /\ \/ chan[s] /\ outcome' = [outcome EXCEPT ![s] = "answer"]
       \/ done[s] = "cancelled" /\ outcome' = [outcome EXCEPT ![s] = "nil"]
       \/ done[s] = "expired" /\ outcome' = [outcome EXCEPT ![s] = "error"]
    /\ Goto(s, "cleanup")
    /\ UNCHANGED <<inVars, key, attempt, call, held, storeKey, outVars>>

\* Nothing is ready: the goroutine parks until the first case becomes so.
SelectPark(s) ==
    /\ pc[s] = "select"
    /\ ~chan[s] /\ done[s] = "no"
    /\ Goto(s, "parked")
    /\ UNCHANGED <<inVars, frame, outVars>>

\* Faulty variant: one attempt too many.
T3Expires_OneMore(s) ==
    /\ pc[s] = "parked"
    /\ attempt' = [attempt EXCEPT ![s] = @ + 1]
    /\ IF attempt[s] + 1 <= N3
       THEN Goto(s, "write") /\ UNCHANGED outcome
       ELSE Goto(s, "cleanup") /\ outcome' = [outcome EXCEPT ![s] = "error"]
    /\ UNCHANGED <<inVars, key, call, held, storeKey, outVars>>

\* Faulty variant: the attempts are not counted.
T3Expires_Forever(s) ==
    /\ pc[s] = "parked"
    /\ Goto(s, "write")
    /\ UNCHANGED <<inVars, frame, outVars>>

\* T3 fires on a parked Send: transmit again, or give up after N3 attempts.
T3Expires(s) ==
    /\ pc[s] = "parked"
    /\ attempt' = [attempt EXCEPT ![s] = @ + 1]
    /\ IF attempt[s] + 1 < N3
       THEN Goto(s, "write") /\ UNCHANGED outcome
       ELSE Goto(s, "cleanup") /\ outcome' = [outcome EXCEPT ![s] = "error"]
    /\ UNCHANGED <<inVars, key, call, held, storeKey, outVars>>

\* The caller's context expires. A parked Send wakes up with its error.
CtxExpires(s) ==
    /\ pc[s] \in {"write", "select", "parked"}
    /\ done[s] # "expired"
    /\ done' = [done EXCEPT ![s] = "expired"]
    /\ IF pc[s] = "parked"
       THEN Goto(s, "cleanup") /\ outcome' = [outcome EXCEPT ![s] = "error"]
       ELSE UNCHANGED <<pc, outcome>>
    /\ UNCHANGED <<inVars, key, attempt, call, held, storeKey, calls, pending, chan, owed>>

\* Faulty variant: Send cleans up only after it gave up.
SendReturn_OnlyOnError(s) ==
    /\ pc[s] = "cleanup"
    /\ pending' = IF attempt[s] = N3 THEN [pending EXCEPT ![SeqNo(call[s])] = NoCall] ELSE pending
    /\ Goto(s, "handled")
    /\ UNCHANGED <<inVars, frame, calls, chan, done, owed>>

\* The deferred cleanup; Send returns to the handler.
SendReturn(s) ==
    /\ pc[s] = "cleanup"
    /\ pending' = [pending EXCEPT ![SeqNo(call[s])] = NoCall]
    /\ Goto(s, "handled")
    /\ UNCHANGED <<inVars, frame, calls, chan, done, owed>>

-----------------------------------------------------------------------------
(* Inbound responses: deliverPendingResponseFrame, deliverResponse.        *)

\* A copy of the peer's answer to call c is read; it takes a slot as well.
ServeResponse(s, c) ==
    /\ owed[c] > 0
    /\ pc[s] = "idle"
    /\ owed' = [owed EXCEPT ![c] = @ - 1]
    /\ call' = [call EXCEPT ![s] = c]
    /\ Goto(s, "deliver")
    /\ UNCHANGED <<inVars, key, attempt, outcome, held, storeKey, calls, pending, chan, done>>

\* Or it is dropped because every slot is taken, by handlers that wait for
\* answers among others.
OverloadResponse(c) ==
    /\ owed[c] > 0
    /\ \A s \in Slots : pc[s] # "idle"
    /\ owed' = [owed EXCEPT ![c] = @ - 1]
    /\ UNCHANGED <<inVars, goVars, calls, pending, chan, done>>

\* deliverResponse takes the entry registered under the answer's sequence
\* number; without one the answer is late and the handler ignores it.
Deliver(s) ==
    LET q == SeqNo(call[s]) IN
    /\ pc[s] = "deliver"
    /\ IF pending[q] = NoCall
       THEN Release(s) /\ UNCHANGED pending
       ELSE /\ pending' = [pending EXCEPT ![q] = NoCall]
            /\ call' = [call EXCEPT ![s] = pending[q]]
            /\ Goto(s, "hand")
            /\ UNCHANGED <<key, attempt, outcome, held, storeKey>>
    /\ UNCHANGED <<inVars, calls, chan, done, owed>>

\* The slot whose Send is still in progress for call c (none if it has returned).
Sender(c) == {t \in Slots : pc[t] \in SendPcs /\ call[t] = c}

\* pr.result <- ...: a parked receiver is handed the answer, otherwise it is buffered.
Hand(s) ==
    /\ pc[s] = "hand"
    /\ chan' = [t \in Slots |-> chan[t] \/ (t \in Sender(call[s]) /\ pc[t] # "parked")]
    /\ outcome' = [t \in Slots |-> IF t \in Sender(call[s]) /\ pc[t] = "parked"
                                   THEN "answer" ELSE outcome[t]]
    /\ pc' = [t \in Slots |-> IF t = s THEN "cancel"
                              ELSE IF t \in Sender(call[s]) /\ pc[t] = "parked"
                              THEN "cleanup" ELSE pc[t]]
    /\ UNCHANGED <<inVars, key, attempt, call, held, storeKey, calls, pending, done, owed>>

\* pr.cancel().
Cancel(s) ==
    /\ pc[s] = "cancel"
    /\ done' = [t \in Slots |-> IF t \in Sender(call[s]) /\ done[t] = "no"
                                THEN "cancelled" ELSE done[t]]
    /\ Release(s)
    /\ UNCHANGED <<inVars, calls, pending, chan, owed>>

-----------------------------------------------------------------------------
\* What the goroutine in slot s does next, the T3 timer included.
Step(s) ==
    \/ CheckCached(s) \/ CheckInFlight(s) \/ CheckNew(s) \/ Resend(s)
    \/ Reply(s) \/ NoReply(s) \/ KeyFor(s) \/ Store(s) \/ ClearInFlight(s)
    \/ SendBegin(s) \/ SendWrite(s) \/ SelectReady(s) \/ SelectPark(s)
    \/ T3Expires(s) \/ SendReturn(s)
    \/ Deliver(s) \/ Hand(s) \/ Cancel(s)

Next ==
    \/ \E s \in Slots : Step(s) \/ CtxExpires(s)
    \/ \E s \in Slots, k \in Keys : ServeRequest(s, k)
    \/ \E s \in Slots, c \in CallIds : ServeResponse(s, c)
    \/ \E k \in Keys : OverloadRequest(k) \/ Expire(k)
    \/ \E c \in CallIds : OverloadResponse(c)

\* The scheduler runs every runnable goroutine and timers fire.
Spec == Init /\ [][Next]_vars /\ \A s \in Slots : WF_vars(Step(s))

-----------------------------------------------------------------------------
(* Properties.                                                             *)

\* Whatever the interleaving of duplicates, handlers, the write of the answer and the
\* write of the cache, one request is never given the answers of two executions,
\* nor the answer remembered from an older request with the same key.
OneAnswer ==
    \A k \in Keys : \A a, b \in got[k] : a = b /\ a.gen = gen[k]

\* The in-flight mark is held exactly by the one goroutine that executes the
\* request: two copies never run at once and no mark outlives its handler, which
\* would make every later retransmission be dropped.
InFlightOwned ==
    \A k \in Keys :
        Cardinality({s \in Slots : pc[s] \in HandlerPcs /\ key[s] = k})
            = (IF k \in inFlight THEN 1 ELSE 0)

\* Every entry of the pending map belongs to a Send that has not returned: a
\* timed-out or failed transaction leaves nothing behind.
NoPendingLeak ==
    \A q \in DOMAIN pending :
        pending[q] # NoCall => Sender(pending[q]) # {}

\* A Send that returns no error returns the response.
SuccessHasResponse == \A s \in Slots : outcome[s] # "nil"

\* Even when every dispatch slot is held by a handler that waits for an answer
\* which has no slot to arrive in, T3 and N3 free the slots again.
SlotsAreFreed == \A s \in Slots : pc[s] # "idle" ~> pc[s] = "idle"

\* The endpoint implements at-most-once execution with a remembered answer.
phaseBar == [k \in Keys |->
    IF Live(k) \/ \E s \in Slots : key[s] = k /\ pc[s] \in {"keyFor", "store"} THEN "answered"
    ELSE IF k \in inFlight THEN
             IF \E s \in Slots : key[s] = k /\ pc[s] = "clear" THEN "fresh" ELSE "running"
    ELSE "fresh"]
answerBar == [k \in Keys |->
    IF phaseBar[k] = "answered" THEN CHOOSE a \in got[k] : TRUE ELSE NoAnswer]

A == INSTANCE AtMostOnce
        WITH Execs <- Answers, NoExec <- NoAnswer,
             phase <- phaseBar, answer <- answerBar

\* Refinement of the abstract service: an execution starts only while the request is
\* unanswered and not running, and its answer is kept until the TTL runs out.
ImplementsAtMostOnce == A!ASpec
=============================================================================
