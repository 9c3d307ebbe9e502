--------------------------- MODULE PfcpTransport ---------------------------
(***************************************************************************)
(* The two PFCP endpoints of the Sxa interface (pfcp/transport.Conn in     *)
(* SGW-C and in SGW-U) and the datagram network between them. Both sides   *)
(* run the same code, both may open transactions, each numbers its own     *)
(* requests from 1. An endpoint may restart, which empties its memory and  *)
(* starts its numbering again.                                             *)
(*                                                                         *)
(* A datagram carries its sender, its sequence number, whether its message *)
(* type is a request or a response, and, for the properties only, the      *)
(* request it carries or answers. The network loses, duplicates, delays    *)
(* and reorders: net keeps what was sent.                                  *)
(***************************************************************************)
EXTENDS Naturals

CONSTANTS
    Ends,        \* the two endpoints
    Initiators,  \* those that open transactions
    N1,          \* transmissions of one request
    MaxSends,    \* bound: transactions an endpoint opens, over all its lives
    Restarters,  \* those that may restart
    MaxRestarts, \* bound: restarts of an endpoint
    NoMsg

ASSUME PfcpTransportAssumption ==
    /\ \E c, u \in Ends : c # u /\ Ends = {c, u}
    /\ Initiators \subseteq Ends /\ Restarters \subseteq Ends
    /\ N1 \in Nat \ {0} /\ MaxSends \in Nat /\ MaxRestarts \in Nat

Txns    == [from : Ends, n : 1..MaxSends]
Seqs    == 1..MaxSends
Msgs    == [from : Ends, seq : Seqs, kind : {"request", "response"}, txn : Txns]
Peer(e) == CHOOSE f \in Ends : f # e

VARIABLES
    net,       \* datagrams sent so far
    seqVal,    \* c.seqVal
    opened,    \* transactions opened over all lives of the endpoint
    status,    \* where the Send of a transaction stands
    seqOf,     \* the sequence number of its request
    attempt,   \* transmissions it has made
    answer,    \* the datagram its Send returned
    pending,   \* c.pending: the transaction that waits under a sequence number
    cache,     \* c.inboundCache: the responses kept for the peer's sequence numbers
    inFlight,  \* c.inFlight: the datagrams whose handler runs
    executed,  \* handlers of a request that run or have answered it, over all lives
    restarts

sendVars == <<seqVal, opened, status, seqOf, attempt, answer, pending>>
wireVars == <<net, sendVars, cache, inFlight, executed, restarts>>

WireTypeOK ==
    /\ net \subseteq Msgs
    /\ seqVal \in [Ends -> 0..MaxSends]
    /\ opened \in [Ends -> 0..MaxSends]
    /\ status \in [Txns -> {"new", "sending", "answered", "failed"}]
    /\ seqOf \in [Txns -> 0..MaxSends]
    /\ attempt \in [Txns -> 0..N1]
    /\ answer \in [Txns -> Msgs \cup {NoMsg}]
    /\ pending \in [Ends -> SUBSET [seq : Seqs, txn : Txns]]
    /\ cache \in [Ends -> SUBSET Msgs]
    /\ inFlight \in [Ends -> SUBSET Msgs]
    /\ executed \in [Txns -> Nat]
    /\ restarts \in [Ends -> 0..MaxRestarts]

WireInit ==
    /\ net = {}
    /\ seqVal = [e \in Ends |-> 0]
    /\ opened = [e \in Ends |-> 0]
    /\ status = [t \in Txns |-> "new"]
    /\ seqOf = [t \in Txns |-> 0]
    /\ attempt = [t \in Txns |-> 0]
    /\ answer = [t \in Txns |-> NoMsg]
    /\ pending = [e \in Ends |-> {}]
    /\ cache = [e \in Ends |-> {}]
    /\ inFlight = [e \in Ends |-> {}]
    /\ executed = [t \in Txns |-> 0]
    /\ restarts = [e \in Ends |-> 0]

-----------------------------------------------------------------------------
\* AllocSeq: the next number of 24 bits, never wrapped within the bounds.
AllocSeq(e) == seqVal[e] + 1

\* Send: the registration replaces what is pending under the number, if anything
\* is; then the request is transmitted. Several goroutines may be in Send at once.
Send(e) ==
    LET t == [from |-> e, n |-> opened[e] + 1]
        q == AllocSeq(e) IN
    /\ e \in Initiators
    /\ opened[e] < MaxSends
    /\ opened' = [opened EXCEPT ![e] = @ + 1]
    /\ seqVal' = [seqVal EXCEPT ![e] = q]
    /\ status' = [status EXCEPT ![t] = "sending"]
    /\ seqOf' = [seqOf EXCEPT ![t] = q]
    /\ attempt' = [attempt EXCEPT ![t] = 1]
    /\ pending' = [pending EXCEPT ![e] = {p \in @ : p.seq # q} \cup {[seq |-> q, txn |-> t]}]
    /\ net' = net \cup {[from |-> e, seq |-> q, kind |-> "request", txn |-> t]}
    /\ UNCHANGED <<answer, cache, inFlight, executed, restarts>>

\* Faulty variant: one transmission too many.
Retransmit_OneMore(t) ==
    /\ status[t] = "sending"
    /\ attempt[t] <= N1
    /\ attempt' = [attempt EXCEPT ![t] = @ + 1]
    /\ net' = net \cup {[from |-> t.from, seq |-> seqOf[t], kind |-> "request", txn |-> t]}
    /\ UNCHANGED <<seqVal, opened, status, seqOf, answer, pending,
                   cache, inFlight, executed, restarts>>

\* T1 fires and the request is transmitted again.
Retransmit(t) ==
    /\ status[t] = "sending"
    /\ attempt[t] < N1
    /\ attempt' = [attempt EXCEPT ![t] = @ + 1]
    /\ net' = net \cup {[from |-> t.from, seq |-> seqOf[t], kind |-> "request", txn |-> t]}
    /\ UNCHANGED <<seqVal, opened, status, seqOf, answer, pending,
                   cache, inFlight, executed, restarts>>

\* Faulty variant: the entry stays pending when Send gives up.
GiveUp_KeepPending(t) ==
    /\ status[t] = "sending"
    /\ status' = [status EXCEPT ![t] = "failed"]
    /\ UNCHANGED <<net, seqVal, opened, seqOf, attempt, answer, pending,
                   cache, inFlight, executed, restarts>>

\* T1 fires for the last time, or the caller's context ends: Send returns an error
\* and its deferred function deletes what is pending under its number.
GiveUp(t) ==
    /\ status[t] = "sending"
    /\ status' = [status EXCEPT ![t] = "failed"]
    /\ pending' = [pending EXCEPT ![t.from] = {p \in @ : p.seq # seqOf[t]}]
    /\ UNCHANGED <<net, seqVal, opened, seqOf, attempt, answer,
                   cache, inFlight, executed, restarts>>

\* Faulty variant: any datagram of the peer answers any request.
Waiting_AnySeq(e, m) == pending[e]

\* What dispatch finds under the sequence number of a datagram of the peer.
Waiting(e, m)  == {p \in pending[e] : p.seq = m.seq}
Cached(e, m)   == {r \in cache[e] : r.seq = m.seq}
Handling(e, m) == {h \in inFlight[e] : h.seq = m.seq}

\* dispatch, first test: the sequence number is pending towards the sender. The
\* message type is not looked at. deliverResponse hands the datagram over and then
\* cancels the context, so that the select of Send may take either: it returns the
\* datagram, or nil with the nil error of a context that has not ended.
DeliverResponse(e, m) ==
    /\ m.from # e
    /\ \E p \in Waiting(e, m) :
        /\ pending' = [pending EXCEPT ![e] = @ \ {p}]
        /\ status' = [status EXCEPT ![p.txn] = "answered"]
        /\ answer' \in {answer, [answer EXCEPT ![p.txn] = m]}
    /\ UNCHANGED <<net, seqVal, opened, seqOf, attempt, cache, inFlight, executed, restarts>>

\* dispatch, otherwise: what is cached under the sequence number is sent again.
ResendCached(e, m) ==
    /\ m.from # e
    /\ Waiting(e, m) = {}
    /\ Cached(e, m) # {}
    /\ net' = net \cup Cached(e, m)
    /\ UNCHANGED <<sendVars, cache, inFlight, executed, restarts>>

\* dispatch, otherwise: a datagram with the sequence number of one whose handler
\* runs is dropped; any other is marked in flight and its handler starts.
StartHandler(e, m) ==
    /\ m.from # e
    /\ Waiting(e, m) = {}
    /\ Cached(e, m) = {}
    /\ Handling(e, m) = {}
    /\ inFlight' = [inFlight EXCEPT ![e] = @ \cup {m}]
    /\ executed' = IF m.kind = "request" THEN [executed EXCEPT ![m.txn] = @ + 1]
                   ELSE executed
    /\ UNCHANGED <<net, sendVars, cache, restarts>>

\* Faulty variant: the response is not cached.
FinishHandler_NoCache(e, m) ==
    /\ m \in inFlight[e]
    /\ inFlight' = [inFlight EXCEPT ![e] = @ \ {m}]
    /\ net' = IF m.kind = "request"
              THEN net \cup {[from |-> e, seq |-> m.seq, kind |-> "response", txn |-> m.txn]}
              ELSE net
    /\ UNCHANGED <<sendVars, cache, executed, restarts>>

\* The handler of a request replies (Reply writes, then caches) and the deferred
\* clearInFlight runs; the handlers do nothing with a response.
FinishHandler(e, m) ==
    LET r == [from |-> e, seq |-> m.seq, kind |-> "response", txn |-> m.txn] IN
    /\ m \in inFlight[e]
    /\ inFlight' = [inFlight EXCEPT ![e] = @ \ {m}]
    /\ IF m.kind = "request"
       THEN /\ net' = net \cup {r}
            /\ cache' = [cache EXCEPT ![e] = @ \cup {r}]
       ELSE UNCHANGED <<net, cache>>
    /\ UNCHANGED <<sendVars, executed, restarts>>

\* The handler of a request returns without an answer (a message it cannot parse, a
\* Reply whose write fails): nothing is sent, nothing cached, and the next copy of
\* the request is handled again.
FinishUnanswered(e, m) ==
    /\ m \in inFlight[e]
    /\ m.kind = "request"
    /\ inFlight' = [inFlight EXCEPT ![e] = @ \ {m}]
    /\ executed' = [executed EXCEPT ![m.txn] = @ - 1]
    /\ UNCHANGED <<net, sendVars, cache, restarts>>

\* The process restarts: its maps are empty and its numbering starts again. The
\* restart outlasts the datagrams on their way, but not the peer's cache (30 s).
Restart(e) ==
    /\ e \in Restarters
    /\ restarts[e] < MaxRestarts
    /\ restarts' = [restarts EXCEPT ![e] = @ + 1]
    /\ seqVal' = [seqVal EXCEPT ![e] = 0]
    /\ status' = [t \in Txns |-> IF t.from = e /\ status[t] = "sending"
                                 THEN "failed" ELSE status[t]]
    /\ pending' = [pending EXCEPT ![e] = {}]
    /\ cache' = [cache EXCEPT ![e] = {}]
    /\ inFlight' = [inFlight EXCEPT ![e] = {}]
    /\ net' = {}
    /\ UNCHANGED <<opened, seqOf, attempt, answer, executed>>

WireNext ==
    \/ \E e \in Ends : Send(e) \/ Restart(e)
    \/ \E t \in Txns : Retransmit(t) \/ GiveUp(t)
    \/ \E e \in Ends, m \in net :
        DeliverResponse(e, m) \/ ResendCached(e, m) \/ StartHandler(e, m)
    \/ \E e \in Ends : \E m \in inFlight[e] : FinishHandler(e, m) \/ FinishUnanswered(e, m)

\* Timers fire.
WireSpec == WireInit /\ [][WireNext]_wireVars /\ \A t \in Txns : WF_wireVars(Retransmit(t) \/ GiveUp(t))

-----------------------------------------------------------------------------
(* Properties.                                                             *)

\* Duplicates, retransmissions and late responses never make a request be handled
\* twice at once, or handled again after it was answered, in one life of the
\* endpoint that serves it, whichever side sent it and however the sequence numbers
\* of the two sides coincide.
ExecutedOnce ==
    \A t \in Txns : executed[t] <= restarts[Peer(t.from)] + 1

\* The datagram that Send returns as the response answers the request it sent.
OwnResponse ==
    \A t \in Txns :
        answer[t] # NoMsg => answer[t].kind = "response" /\ answer[t].txn = t

\* A Send whose response arrived returns the response (transport.go 238: it "waits
\* for the response").
AnsweredHasResponse ==
    \A t \in Txns : status[t] = "answered" => answer[t] # NoMsg

\* Whatever is lost, a Send returns, and nothing is left pending in its name.
SendReturns ==
    \A t \in Txns :
        status[t] = "sending" ~>
            (status[t] # "sending" /\ \A p \in pending[t.from] : p.txn # t)
=============================================================================
