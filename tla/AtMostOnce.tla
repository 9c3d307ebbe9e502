----------------------------- MODULE AtMostOnce -----------------------------
(***************************************************************************)
(* What the GTPv2-C endpoint promises to a peer that retransmits: a        *)
(* request is executed until one execution has answered it; from then on,  *)
(* for as long as the answer is remembered, every further copy of the      *)
(* request is served that same answer and nothing is executed again.       *)
(*                                                                         *)
(* phase[k]  : where the current request with key k stands                 *)
(* answer[k] : the execution whose answer the request was given, or NoExec *)
(* gen[k]    : how many requests have used key k (a peer reuses a sequence *)
(*             number only once the old answer has been forgotten)         *)
(***************************************************************************)
EXTENDS Naturals

CONSTANTS Keys, MaxGen, Execs, NoExec

VARIABLES phase, answer, gen

aVars == <<phase, answer, gen>>

AInit ==
    /\ phase  = [k \in Keys |-> "fresh"]
    /\ answer = [k \in Keys |-> NoExec]
    /\ gen    = [k \in Keys |-> 1]

\* One copy of the request starts to execute; no other copy is executing.
Start(k) ==
    /\ phase[k] = "fresh"
    /\ phase' = [phase EXCEPT ![k] = "running"]
    /\ UNCHANGED <<answer, gen>>

\* The execution ends without an answer on the wire: a copy may try again.
GiveUp(k) ==
    /\ phase[k] = "running"
    /\ phase' = [phase EXCEPT ![k] = "fresh"]
    /\ UNCHANGED <<answer, gen>>

\* The execution puts its answer on the wire.
Answer(k, e) ==
    /\ phase[k] = "running"
    /\ phase'  = [phase EXCEPT ![k] = "answered"]
    /\ answer' = [answer EXCEPT ![k] = e]
    /\ UNCHANGED gen

\* The answer is forgotten; the key may identify a new request.
Forget(k) ==
    /\ phase[k] = "answered"
    /\ gen[k] < MaxGen
    /\ phase'  = [phase EXCEPT ![k] = "fresh"]
    /\ answer' = [answer EXCEPT ![k] = NoExec]
    /\ gen'    = [gen EXCEPT ![k] = @ + 1]

ANext ==
    \E k \in Keys :
        \/ Start(k)
        \/ GiveUp(k)
        \/ \E e \in Execs : Answer(k, e)
        \/ Forget(k)

ASpec == AInit /\ [][ANext]_aVars
=============================================================================
