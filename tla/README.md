# Verification of VectorCore SGW

TLA+ models of the control logic of VectorCore SGW, an LTE Serving Gateway split
into a control plane process (SGW-C) and a user plane process (SGW-U). The models
are translated from the Go source; paths below are relative to the repository.
`PROJECT.json` maps every definition to the lines it stands for and lists the runs,
the hazards, the findings and the theorems.

## The system

    MME --S11 (GTPv2-C)--> SGW-C --S5/S8-C (GTPv2-C)--> PGW
                             |
                           Sxa (PFCP)
                             |
    eNodeB --S1-U (GTP-U)--> SGW-U --S5/S8-U (GTP-U)--> PGW

| Component | State | Operations | What makes it correct |
| --- | --- | --- | --- |
| GTPv2-C transport (`internal/gtpv2/transport`) | dispatch semaphore, in-flight set, response cache, pending map, sequence counter | `Serve`, `dispatch`, `Send`, `Reply`, `deliverResponse` | a request is executed at most once, a duplicate gets the first answer, `Send` always ends and leaves nothing pending |
| PFCP transport (`internal/pfcp/transport`) | the same, without semaphore | the same | a request is answered by its own response and executed once |
| PFCP client and server (`sgwc/pfcpclient`, `sgwu/pfcpserver`, `sgwu/session`) | association, Recovery Time Stamps, SEID counters, session contexts | association, heartbeat, session establishment, modification, deletion | a binding never outlives the SGW-U it came from, a SEID names one context, no request reaches another session |
| Session store (`sgwc/session/manager.go`, `restore.go`, `sgwc/teid`) | six indexes, TEID pools | `Create` (which evicts), `RegisterS5CTEID`, `RegisterPGW`, `Delete`, `RestoreSnapshots` | the indexes agree with the set of sessions, no TEID is lost or given twice |
| Collision handling (`sgwc/collision`, `s11/collision.go`) | active procedures of each session | `Begin`, `Finish`, expiry sweep, peer-down block | strict mode admits no unsafe overlap, every entry is taken out |
| Checkpointing (`sgwc/sessioncheckpoint`, `session/checkpoint.go`) | queues of saves, deletes and peers, SQLite store | `SaveSessionSnapshot`, `DeleteSessionSnapshot`, `Flush`, restore | the store comes to agree with memory, a deleted session does not come back |
| S11 handler, S5/S8-C client (`s11/handler.go`, `sgwc/s5c`) | session fields | Create, Modify, Release and Delete with their legs | the MME, PGW and SGW-U legs agree after every outcome |
| Bearer procedures (`s11/bearer_handler.go`) | dedicated bearers, Create Bearer transactions by sequence number and fingerprint, failure latch, timers | Create Bearer (alone or piggybacked), Update, Delete Bearer, sibling restoration | a bearer has its rules, the PGW gets one true answer, every transaction ends |
| Session object (`session/session.go`) | FSM state, bearers, rule IDs, restoration fields | its mutators, each followed by a checkpoint | legal transitions, unique rule IDs |
| Peer health, PGW failure (`sgwc/peerhealth`, `sgwc/pgwfailure`) | per-peer state, misses, recovery counters | observe, echo response, echo timeout | a restart is reported once, down means missed Echoes, marks follow the state |
| MME restoration, DDN control, idle downlink (`sgwc/mmerestoration`, `ddncontrol`, `idledownlink`) | per-session policy, delayed queue, token buckets | restart, delayed DDN, ack, failure | no preserved session is forgotten, the queue keeps its count, restored means the MME was asked |
| Bearer inactivity, repair, reconciliation | decisions | evaluate, clean up, classify | acts only on what it decided about |
| SGW-U rules and forwarding (`sgwu/pfcpserver`, `sgwu/session`, `sgwu/gtpu`, `ebpf`, `internal/dataplane`) | PDRs and FARs of a session, entries of the fast path, locks | establish, modify, delete, look up and forward | both paths forward as the rules say, idle data is reported, nobody waits for ever |
| Codecs, configuration, API, metrics, logging, wiring | | | not control logic |

Interaction: a datagram takes a slot of the dispatch semaphore and a goroutine; the
S11 handler called there changes the session store, opens PFCP and S5/S8-C
transactions and waits for them in the same goroutine, under an operation context
with a deadline. Sessions hand snapshots to the checkpoint writer, whose goroutine
writes them at every tick. The PFCP client's `managePeer` goroutine calls back into
the session store when SGW-U restarts or goes down. Every S11 and S5/S8-C message
passes the peer table first, whose reports of restarts and outages run in the
goroutine that received the message. On SGW-U each PFCP request has a goroutine, and
the GTP-U receive loop reads the rules they change.

What is hard to test is the interleaving of these goroutines, datagrams that are
lost, repeated or late, the restart of one process while the other goes on, and
failures in the middle of several writes. The hazards are listed in `PROJECT.json`,
each at its line.

## Modules

| Module | Models | State and actions |
| --- | --- | --- |
| `AtMostOnce` | what a request/response endpoint promises | a request is fresh, running or answered; execute, answer, resend, forget |
| `GtpcTransport` | one GTPv2-C endpoint | a slot is a unit of `dispatchSem` and its goroutine, `pc` its place in `dispatch`, the handler and `Send`; one action per critical section |
| `PfcpTransport` | both ends of Sxa | `net` holds every datagram sent (loss, repetition and reordering are choices of what is delivered); `Send`, `Retransmit`, `GiveUp`, the branches of `dispatch`, `Restart` |
| `SxaLifecycle` | `managePeer`, associations, SEIDs and session contexts at both processes | the client's goroutine step by step (`mgr`), a procedure per session (`op`), restarts of either process |
| `SessionManager` | the session store with the handlers that create and delete sessions | the six indexes and the two TEID pools; `NewSession` and `Store` are the two halves of `Create`, outside and inside the lock |
| `CollisionTracker` | the procedures of the sessions of one UE | `active`, `nextID` per tracker, `Begin`, `Reject`, `Run`, `Block`, `End`, `Overrun` |
| `CheckpointWriter` | handlers, writer and database | `Change`, `Snapshot` and `SaveSessionSnapshot` are three steps as in the code; a flush drains, then writes item by item |
| `S11Procedures` | Create Session, Modify Bearer, Release Access Bearers, Delete Session of one UE | `ses` is SGW-C's view, `up` and `pgw` what SGW-U and the PGW hold; a handler's step ends where it waits for a leg |
| `BearerTransactions` | the bearer procedures and the inactivity clean-up of one PDN session | `txns`, `fps`, `latched` are the tables of the handler, `tx` the transactions, `proc`, `sib`, `scan` the other procedures, `rules` and `forw` SGW-U |
| `PeerHealth` | the table entry of one peer | the entry changes in one step, its reports (`th`) are delivered in later ones |
| `MMERestoration` | restoration, DDN control, idle downlink; extends `PeerHealth` with MME sessions | `job` is `OnPeerRestart` in the goroutine that detected the restart; `queue`, `firing` the delayed notifications; `owner`, `answer` what the MME was sent and said |
| `SgwuRules` | session rules, locks, fast path and forwarder of SGW-U | `req` a PFCP request by step, `fwd` a forwarder and its packet; lock holders and waiters follow from the steps |
| `X_proofs` | proofs about `X`: `GtpcTransport`, `SessionManager`, `CollisionTracker`, `CheckpointWriter`, `S11Procedures`, `BearerTransactions`, `MMERestoration` (with `PeerHealth`) | |
| `Sxa_proofs` | proofs about `SxaLifecycle`, `PfcpTransport` and `SgwuRules` | extends all three; the specifications of the last two are called `WireSpec` and `PlaneSpec` for that |
| `MC*` | the values TLC cannot take from a `.cfg` | |

Operators named `X_Something` are faulty variants of `X`; `PROJECT.json` names the
property each one breaks.

### Abstractions

- Messages are records or model values; encoding is left out.
- `GtpcTransport` has one peer and one response type, so `pending` is keyed by the
  sequence number alone. A cached answer expires only after the peer has given up
  retransmitting (the TTL is 30 s, the default T3*N3 15 s). The piggyback split,
  `SendInitial` and the observer are not modelled.
- `PfcpTransport`: the 30 s inbound cache outlasts T1*N1, so its expiry is left out.
- `SxaLifecycle`: a life number stands for the Recovery Time Stamp; one SGW-C and one
  SGW-U; the contents of the rules are left out, and so is a PGW that gives no
  S5/S8-U TEID.
- `SessionManager.Restart` restores sessions with distinct PDN connections only; what
  happens otherwise is in `CheckpointWriter`. A subscriber's newest session is
  recomputed by creation order, as in the code.
- `CollisionTracker`: a procedure that runs includes a piggybacked Create Bearer that
  waits for the MME, whose entry the response or the timer finishes.
- `CheckpointWriter`: the contents of a session is a version number; the final flush
  at shutdown is ordinary flush steps before `Crash`, and `Crash` includes the reload.
- `S11Procedures`: one UE, whose sessions share the S11 TEID. An exchange succeeds, is
  refused, or takes effect and loses its answer; at most `MaxFail` go wrong. With
  `MmeSerial` an MME waits for the answer to one Modify Bearer or Release Access Bearers
  before it sends the next for the same UE.
- `BearerTransactions`: one PDN session. A content stands for its fingerprint, a rule
  pair for a PDR and a FAR in each direction; `PairSpace` is 2^15 in the code. Which
  bearers the clean-up finds idle is a free choice. `EndSession` is the whole of Delete
  Session or eviction (its legs are in `S11Procedures`) and ends the histories with the
  session. SGW-U's answer and the local change after it are one step in `RemoveBearer`
  and `Clean`: the code sends no message between them.
- `PeerHealth`: one peer; round-trip times are reduced to slow or not.
- `MMERestoration`: one MME, a session is created once. Tokens refill and windows close
  at any time. Echo timeouts are left to `PeerHealth`: they change no session here.
- `SgwuRules`: TEIDs are random and taken as unique, so a rule stands for its TEID. A
  critical section under one lock is one step; the two places that hold one lock and take
  another are several. A waiting writer keeps new readers out, as `sync.RWMutex` says. A
  request changes one rule. Any packet may reach the socket, as XDP may not be attached
  to the interface it came in by, or its headers may be ones XDP passes on.

## Runs

Every configuration says `CHECK_DEADLOCK FALSE`: the bounds on requests, sessions or
restarts end the behaviours.

| Run | Properties | Shows |
| --- | --- | --- |
| `GtpcInbound` | `OneAnswer`, `InFlightOwned`, `ImplementsAtMostOnce` | three slots, two keys, up to three copies each, one key used again after its TTL |
| `GtpcSend` | `NoPendingLeak`, `SlotsAreFreed` | two slots, both handlers open a transaction, one sequence number for both (the wrap) |
| `PfcpOneSide` | `OwnResponse`, `ExecutedOnce`, `SendReturns` | three transactions of SGW-C, SGW-U may restart |
| `SxaRestarts` | `SeidsIdentify`, `NoStaleBinding`, `NoCrossSession`, `Reassociates` | two sessions, each process restarts once |
| `SessConcurrent` | `TypeOK`, `NoDanglingEntry`, `Reachable`, `NoS11TeidLeak` | two handlers, two subscribers with two PDN connections, three sessions, one restart |
| `CollisionStrict` | `TypeOK`, `NoUnsafeOverlap`, `TrackedIsLive`, `TrackersDrain` | three procedures at once on two bearers, the PGW may go down, one procedure outlasts the timeout |
| `CkptWriter` | `TypeOK`, `QueuesDisjoint`, `NothingForgottenUntilError`, `NoZombieUntilFailure`, `RemovedLeaveStore` | two sessions, one handler, one store failure, one crash |
| `S11Overlap` | `NothingLeaked`, `ActiveHasLegs`, `DownlinkAgrees` | two handlers, two PDN connections, two sessions, two failing exchanges (811,281 states) |
| `BearerProcs` | `BearerHasRules`, `NoOrphanRules`, `AnswerIsTrue`, `AnsweredOnce`, `TxnsComplete` | two transactions, one with two bearer contexts, two EBIs, rule IDs that wrap after three pairs, one failing exchange (573,860 states) |
| `MmeRestoration` | `RestartSeenOnce`, `QueueCounted`, `NotSkipped`, `RestoredWasAsked` | one restart, two sessions of two UEs, one token, a queue of one, two notifications (672,446 states) |
| `SgwuRules` | `SentIsCurrent`, `IdleReported`, `UnknownIsTrue` | three requests on two sessions with two rules and two tunnels, one packet at a time, failures of the installation (778,501 states) |

Why these bounds: two handlers are enough for any pair of interleaved critical
sections, a third copy or procedure for one that arrives while the others are between
steps; two sessions for one to be mistaken for the other; one restart of each process
for every stale value, as no code remembers more than the previous life. One failing
exchange reaches every error path, two a roll-back that fails itself. Two tunnels are a
handover, three requests one that changes what another has just read while a third waits
for the lock. A token and a place in the queue are one so that both run out.

The passing runs have premises that the code does not guarantee by itself, and each
has an instance that shows what happens without it. One is a run that TLC must refute:
`SgwuDeadlock` refutes `LoopRuns`. The forwarder holds the store's read lock and waits for
a session's lock, a modification holds that session's lock and asks for the store's read
lock, and a creation or deletion that waits to write between them makes both wait for ever.

Further instances outside the regular runs, to be given to TLC with the module
`MC<component>`, or with the component's module where there is no such (`PfcpTransport`,
`SxaLifecycle`, `CheckpointWriter`, `PeerHealth`):

| Instance | Result |
| --- | --- |
| `GtpcNilSuccess` | `SuccessHasResponse` fails: `deliverResponse` cancels the context that `Send` waits on |
| `PfcpCrossed` | `OwnResponse` fails: both sides number from 1 and responses are matched without their type |
| `PfcpRestart` | `OwnResponse` fails: a restarted SGW-C meets the responses cached under its old numbers |
| `SxaOrphan` | `NoOrphanContext` fails: association setup does not delete the sessions of the peer's earlier life |
| `SxaCross` | `NoCrossSession` fails: a procedure that spans a restart of SGW-U uses a UP-SEID that now names another session |
| `SxaSeidReuse` | `FreshCPSEID` fails: CP-SEIDs restart from 1 while SGW-U still has contexts |
| `SxaCallback` | `NoStaleBinding` fails: `main` sets the callbacks after `Serve` |
| `CollisionMultiPDN` | `NoUnsafeOverlap` fails: UE-wide procedures begin on one session's tracker |
| `CkptFlushLoss` | `NothingForgotten` fails: a failure in a flush drops what was drained after it |
| `CkptRequeue` | `NothingForgotten` fails: a requeued snapshot replaces a newer one |
| `CkptZombie` | `NoZombie` fails with two handlers: the snapshot is taken and handed over in two steps |
| `CkptRestore` | `RestoreComplete` fails: two snapshots of one PDN connection make the restore give up |
| `S11DeleteRetry` | `DeleteRetrySucceeds` fails: the PGW has deleted its session and can only refuse the retry |
| `BearerRevived` | `DeletedStaysDeleted` fails: sibling restoration stores bearers of a list it read earlier |
| `BearerReused` | `CleanedWasIdle` fails: the clean-up goes by EBI, which another bearer may have by then |
| `BearerStaleCache` | `CachedAnswerTrue` fails: fingerprints outlive the bearers of their transaction |
| `PeerFalseDown` | `DownMeansMissed` fails: a message does not reset the misses |
| `SgwuStale` | `RemovedIsDead` fails: entries of removed rules stay in the fast path |
| `SgwuTorn` | `SentIsCurrent` fails when a write fails: the modification is refused, some entries are new |

Variations of these that have no file of their own:

- `PfcpOneSide.cfg` with `AnsweredHasResponse`: the PFCP `Send` has the race that
  `GtpcNilSuccess` shows.
- `MmeRestoration.cfg` with `MaxLife = 3` and `NotStuck`: after a second restart a
  restored session stays pending. With `RecoveringEnds`: an acknowledged idle
  notification leaves the session recovering. With `UE <- OneUE`: an early
  acknowledgement is matched to another session of the UE (`RestoredWasAsked`).
- The premises of the theorems, dropped one at a time: `GtpcInbound.cfg` with the same
  `tx` in both requests (`OneAnswer`); `S11Overlap.cfg` with `MmeSerial = FALSE`
  (`DownlinkAgrees`); `CkptZombie.cfg` with `NothingForgottenUntilError`; `SxaCross.cfg` with
  `Recovery = FALSE`, or with `OpsOutlive = FALSE` and `MaxCLives = 2` (`NoCrossSession`), and
  `SxaCallback.cfg` with `Recovery = FALSE` and `OpsOutlive = TRUE` (`NoStaleBinding`). TLC finds a
  violation of each.
- `PeerFalseDown.cfg` with two members of `Rx` and `MarksFollow`: the later report may be
  delivered first.
- `SessionManager` also states `OneUEPerS11Teid` (the S11 TEID to reuse is read before
  the lock) and `S5CTeidFindsOwner` (restoration does not reserve S5/S8-C TEIDs). Both
  fail only by a 32-bit coincidence.

### Fairness

- `GtpcTransport`: every runnable goroutine and timer step is weakly fair (the Go
  scheduler and T3). Nothing is assumed of the network: datagrams may all be lost.
- `PfcpTransport`: `Retransmit \/ GiveUp` of a transaction is weakly fair (T1).
- `SxaLifecycle`: `managePeer` loops until the process ends and callbacks are set at
  start-up (weak fairness). A request that is repeated for ever gets through
  some time: strong fairness of `Associate` and `Heartbeat`. A procedure goes on because its context has a
  deadline.
- `CollisionTracker`: a handler ends because its operation context has a deadline.
- `CheckpointWriter`: the ticker fires and a handler goes on. No fairness is needed
  of failures.
- `S11Procedures`: an exchange has a deadline, so a handler goes on. That the MME asks
  again for a deletion (strong fairness) is assumed in favour of the retry that
  `S11DeleteRetry` refutes.
- `BearerTransactions`: a step of a transaction is weakly fair: the MME answers, `Send`
  gives up, or the timer fires.
- `SgwuRules` (`FairSpec`): goroutines that can run do. A goroutine that waits for a lock
  cannot run.

## Proofs

TLAPS proves the following for every value of the constants that satisfies the
`ASSUME` of the module (natural bounds, the special values outside their sets).

- `CollisionTracker_proofs`. `TypeCorrect`; `NoOrphanEntry` (`TrackedIsLive`), from
  the type invariant and the numbering of entries; `MutualExclusion`
  (`NoUnsafeOverlap`), for a UE with one PDN session (`Sessions = {Control}`, the premise
  `CollisionMultiPDN` shows to be necessary) and in either mode, with the mode's own
  decision as what is allowed. The
  property is not inductive: a step could admit a procedure whose rival is missing
  from the tracker, or finish somebody else's entry. `ExclInv` adds that the entry of
  every procedure within its timeout is tracked (`Tracked`), that numbers in use were
  handed out (`Known`) and differ (`Distinct`), and states exclusion between all busy
  handlers, running or not (`Exclusive`).
- `SessionManager_proofs`. `IndexesSound` (`NoDanglingEntry`), `IndexesComplete`
  (`Reachable`), `TeidsComeBack` (`NoS11TeidLeak`), `TypeCorrect`. The three
  properties are one induction with `HandlerInv`, which says what a handler between two
  critical sections may rely on: its session is its own, carries its TEID and request,
  and has no S5/S8-C TEID or PGW before the step that sets it. The lemmas `Evict`,
  `Insert` and `Shrink` state what removing and adding a session do to all indexes, once for
  eviction, deletion, abort and store.
- `CheckpointWriter_proofs`. `TypeCorrect`, and `QueuesNeverMeet` (`QueuesDisjoint`),
  which needs that handlers hold sessions that were made (`Holds`) and that queues and
  store know no others (`Known`). `NothingIsForgotten` (`NothingForgottenUntilError`)
  under `Serial`, that no two handlers hold one session: `UpToDate` says that what the
  database will hold when both queues are empty (`Newest`) is the current contents, or a
  handler has yet to hand it over. `NoZombies` (`NoZombieUntilFailure`) also needs
  `Unevicted`, that no handler holds a session another has evicted. Without them the
  handover of a snapshot in two steps goes wrong (`CkptZombie`). `OneHandlerSuffices`
  derives both from a single handler, the constant of the run.
- `MMERestoration_proofs`. `RestartsOnce` (`RestartSeenOnce`) is proved of the peer table
  alone, from `Reports`: every detected restart is reported or waits in one goroutine,
  and the remembered counter is ahead of the detections. It carries over because every step
  of the restoration is a step of the table or none (`ImplementsPeerHealth`).
  `QueueKeepsCount` (`QueueCounted`). `TypeCorrect`. `RestoredAreAsked` (`RestoredWasAsked`)
  for UEs with one session each (`OneSessionPerUE`, without which it fails): `Asked` adds
  that every sequence number recorded on a session, about to be recorded by the restart's
  goroutine, or left to a timer or an idle report, is that of a notification of the same
  session, so that an answer matched by number or by UE is the session's own.
  `NoneSkipped` (`NotSkipped`), from `Looked`: a session that is due is noted, waits in
  the queue or a timer, or is in the hands of a goroutine that handles the restart.
- `GtpcTransport_proofs`. `TypeCorrect` needs `Budget`: executions and copies stay within
  the copies the peer may send. `InFlightOwnedHolds` from `Owned`: a request is marked
  exactly while one goroutine is in its handler. `NoPendingLeakHolds` from `Registered`: the
  goroutine of a pending entry is inside `Send`. `OneAnswerHolds` (`OneAnswer`) and
  `RefinesAtMostOnce` (the refinement `ImplementsAtMostOnce`, step by step) from `Answered`,
  which ties the answers on the wire to the cache and to the handlers between write and
  caching. Both assume `TxDistinct`: no two requests in flight agree on sequence number and
  message type, since `keyFor` looks a response's request up by these two. `OneAnswerDistinct` and
  `RefinesDistinct` state the same with a condition on the constants, `KeysDistinct`.
- `S11Procedures_proofs`. `TypeCorrect`; `ActiveHasLegsHolds`; `NothingLeakedHolds`;
  `OneSessionPerBearer`; `DownlinkAgreesHolds` for an MME that waits for its answers
  (`MmeSerial`). The actions are reduced to their effects on sessions and legs.
  `SessionInv` adds who does what to which session (`Roles`: one maker at most, an evicted
  or deleted session is somebody's), what legs a session has on its way to Active
  (`Legs`), and what of it remains on its way out (`Tidy`). `Downlink` adds what each
  plane has while a Modify Bearer or Release Access Bearers is under way.
- `BearerTransactions_proofs`. `TypeCorrect`, `BearerHasRulesHolds`, `NoOrphanRulesHolds`,
  `AnswerIsTrueHolds`, `AnsweredOnceHolds`, without further premises. `CoreInv` follows a
  transaction through its steps and says that the rule pairs to do were drawn and are
  nobody else's (`Drawn`); `Placed` that a pair is to do for one transaction or belongs
  to one EBI, stored or in the list of the sibling restoration, so that a roll-back or a
  removal touches no other bearer.
- `Sxa_proofs`, three parts.
  - `SxaLifecycle`: `TypeCorrect` and `SeidsIdentifyHolds` for all constants, from
    `Numbered`. `NoStaleBindingHolds` and `NoCrossSessionHolds` under `Contained`: SGW-C does
    not restore sessions and no procedure spans the loss of the association (neither half
    can be dropped: `SxaCallback`, `SxaCross` and the variations above). `BindInv` says what
    the client knows of SGW-U's life at each step of `managePeer` (`Loop`), that nothing is
    bound or in progress between the loss and the next association (`Idle`), that there is
    nothing to invalidate before the callbacks are set (`Called`), and that a binding of this
    life names no context but its own (`Owns`).
  - `PfcpTransport`: `WireTypeCorrect` and `ExecutedOnceHolds`, for two ends that both open
    transactions and both restart. `Guarded` and `Counted` say that every execution in this
    life is still known to the in-flight set or the cache. `OwnResponseHolds` when one
    side alone opens transactions and does not restart (`PfcpCrossed` and `PfcpRestart` show
    both conditions to be needed): then sequence numbers follow transactions (`Straight`).
  - `SgwuRules`: `PlaneTypeCorrect` and `UnknownIsTrueHolds` for all constants;
    `SentIsCurrentHolds` and `IdleReportedHolds` when no write of a modification to the
    fast path fails (`Whole`; `SgwuTorn` shows what happens otherwise; an installation or a
    clearing may fail). `Mirrored` says the fast path has no entry for a rule or the one
    compiled from its FAR, `Reasoned` that a FAR forwards or has a reason to drop, and
    `Watched` that what a forwarder has noted since its packet came is true at every step of
    the search, which is why the search may take one session's lock at a time.

Every safety invariant of the passing runs is stated by a theorem; the refinement
`ImplementsAtMostOnce` too. Where a theorem has a premise, the code does not guarantee it,
and an instance or a variation above shows that the property fails without it.

Only model-checked: the liveness properties (`SlotsAreFreed`, `SendReturns`, `Reassociates`,
`TrackersDrain`, `RemovedLeaveStore`, `TxnsComplete`), as liveness under fairness is out of
the prover's reach, and the instances that end in a violation.

## Plan

Done: transports, association and SEIDs, session store, collision handling,
checkpointing, the S11 and bearer procedures, peer health with PGW failure, MME
restoration with DDN control, inactivity clean-up, SGW-U rules, and the proofs above.
Left, in this order:

1. Action properties of the session store and the bearer tables: what a step of one
   procedure may never do to the sessions or bearers of another.
2. Delete Bearer Command and a Delete Bearer of the default bearer.
3. Two abstract specifications: a session store as one set of sessions that the indexed
   one implements, and a procedure that takes effect at all legs or none.

## Not modelled

- Codecs (`gtpv2/ie`, `gtpv2/message`, `pfcp/ie`, `pfcp/message`), configuration, API,
  metrics, logging, `sgwctl`: encoding, views and I/O without control state.
- Repair and reconciliation (`session/repair.go`, `session/reconcile.go`): they classify
  sessions for reports and the API, and the repair itself has no caller.
- Echo, end markers and path probing of GTP-U: a failed path is reported to SGW-C, which
  logs it. The rewriting of packets by the eBPF program.
- Stop Paging, the relay of secondary RAT usage reports, Delete Bearer Command, late
  responses to bearer procedures that ended, several EBIs in one Delete Bearer Request.
- Association release and the allow-list of peers.
