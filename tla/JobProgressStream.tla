--------------------------- MODULE JobProgressStream ---------------------------
(***************************************************************************)
(* Job progress on its way from the workers to the browsers: the Redis     *)
(* stream job:progress, its consumer group, and the consumer of each API   *)
(* process (websocket/job-progress-stream.consumer.ts) with its read loop  *)
(* and its recovery timer.                                                 *)
(*                                                                         *)
(* Redis streams are external: a message read with `>` is pending for the  *)
(* consumer NAME that read it until someone acknowledges it, and XCLAIM    *)
(* moves idle pending messages to another name.  Messages are numbered in  *)
(* the order they are added.  The stream stays below its MAXLEN (10000),   *)
(* so nothing is trimmed, and a recovery ends before the next one begins.  *)
(***************************************************************************)
EXTENDS Naturals, Sequences, FiniteSets

CONSTANTS
    Procs,        \* API processes
    ConsumerId,   \* the name each consumes under: `api-${process.pid}`
    MaxMessages,  \* BOUND on the messages published
    MaxFaults     \* BOUND on lost replies, failed commands, crashes and messages not emitted

ASSUME StreamBoundsAssumption == MaxMessages \in Nat /\ MaxFaults \in Nat

Messages == 1 .. MaxMessages
Ids      == {ConsumerId[p] : p \in Procs}

VARIABLES
    sent,      \* messages added to the stream
    lastId,    \* the group's last-delivered-id
    pending,   \* pending entries: message -> consumer name
    idle,      \* those pending longer than CLAIM_IDLE_MS
    acked,     \* messages acknowledged
    emitted,   \* messages emitted to the document's room
    dropped,   \* history: messages passed over, which nobody is shown
    loop,      \* the read loop of each process, with the batch it works on
    recovery,  \* the recovery of each process, with the messages it claims
    faults     \* faults so far

streamVars == <<sent, lastId, pending, idle, acked, emitted, dropped, loop, recovery, faults>>

Least(S) == CHOOSE m \in S : \A n \in S : m <= n

Pend(ms, id) == [m \in ms \cup DOMAIN pending |-> IF m \in ms THEN id ELSE pending[m]]
Unpend(m)    == [n \in DOMAIN pending \ {m} |-> pending[n]]

Up(p) == loop[p].pc # "down"

\* XACK removes the message from the pending entries, whoever owns it.
Acknowledge(m) ==
    /\ acked' = acked \cup {m}
    /\ pending' = Unpend(m)
    /\ idle' = idle \ {m}

Fault == faults < MaxFaults /\ faults' = faults + 1

-----------------------------------------------------------------------------
(* Around the consumers. *)

\* XADD.  A publish that fails is only logged, and adds nothing.
Publish ==
    /\ sent < MaxMessages
    /\ sent' = sent + 1
    /\ UNCHANGED <<lastId, pending, idle, acked, emitted, dropped, loop, recovery, faults>>

\* A pending message becomes old enough to be claimed.
Age(m) ==
    /\ m \in DOMAIN pending \ idle
    /\ idle' = idle \cup {m}
    /\ UNCHANGED <<sent, lastId, pending, acked, emitted, dropped, loop, recovery, faults>>

Crash(p) ==
    /\ Up(p)
    /\ Fault
    /\ loop' = [loop EXCEPT ![p] = [pc |-> "down", batch |-> {}]]
    /\ recovery' = [recovery EXCEPT ![p] = [pc |-> "off", ids |-> {}]]
    /\ UNCHANGED <<sent, lastId, pending, idle, acked, emitted, dropped>>

\* onModuleInit: the group exists already, and both loops start.
Restart(p) ==
    /\ ~Up(p)
    /\ loop' = [loop EXCEPT ![p].pc = "read"]
    /\ UNCHANGED <<sent, lastId, pending, idle, acked, emitted, dropped, recovery, faults>>

-----------------------------------------------------------------------------
(* runLoop: a batch is kept as the set of its messages, taken in order. *)

Current(p) == Least(loop[p].batch)

\* XREADGROUP returns all that the group has not delivered.
ReadGroup(p, batch) ==
    /\ loop[p].pc = "read"
    /\ lastId < sent
    /\ pending' = Pend(lastId + 1 .. sent, ConsumerId[p])
    /\ lastId' = sent
    /\ loop' = [loop EXCEPT ![p] = [pc |-> IF batch = {} THEN "read" ELSE "emit",
                                    batch |-> batch]]
    /\ UNCHANGED <<sent, idle, acked, emitted, dropped, recovery>>

Read(p)      == ReadGroup(p, lastId + 1 .. sent) /\ UNCHANGED faults
ReadLost(p)  == ReadGroup(p, {}) /\ Fault        \* the reply is lost

\* Mutant: a message is acknowledged before it is emitted.
MutantEmit(p) ==
    /\ loop[p].pc = "emit"
    /\ Acknowledge(Current(p))
    /\ loop' = [loop EXCEPT ![p].pc = "ack"]
    /\ UNCHANGED <<sent, lastId, emitted, dropped, recovery, faults>>

Emit(p) ==
    /\ loop[p].pc = "emit"
    /\ emitted' = emitted \cup {Current(p)}
    /\ loop' = [loop EXCEPT ![p].pc = "ack"]
    /\ UNCHANGED <<sent, lastId, pending, idle, acked, dropped, recovery, faults>>

\* processMessage returns without an emit: the sockets' server is not set yet,
\* or the message lacks a field or its payload is no JSON.
PassOver(p) ==
    /\ loop[p].pc = "emit"
    /\ dropped' = dropped \cup {Current(p)}
    /\ loop' = [loop EXCEPT ![p].pc = "ack"]
    /\ Fault
    /\ UNCHANGED <<sent, lastId, pending, idle, acked, emitted, recovery>>

NextOfBatch(p) ==
    LET rest == loop[p].batch \ {Current(p)}
    IN loop' = [loop EXCEPT ![p] = [pc |-> IF rest = {} THEN "read" ELSE "emit",
                                    batch |-> rest]]

Ack(p) ==
    /\ loop[p].pc = "ack"
    /\ Acknowledge(Current(p))
    /\ NextOfBatch(p)
    /\ UNCHANGED <<sent, lastId, emitted, dropped, recovery, faults>>

\* processMessage or XACK throws: "Don't ACK - message will be retried or claimed".
HandlingFails(p) ==
    /\ loop[p].pc \in {"emit", "ack"}
    /\ NextOfBatch(p)
    /\ Fault
    /\ UNCHANGED <<sent, lastId, pending, idle, acked, emitted, dropped, recovery>>

-----------------------------------------------------------------------------
(* claimStuckMessages. *)

Recover(p, pc, ids) ==
    recovery' = [recovery EXCEPT ![p] =
                   IF ids = {} THEN [pc |-> "off", ids |-> {}]
                   ELSE [pc |-> pc, ids |-> ids]]

\* XPENDING IDLE: what other names have left pending for too long.
Scan(p) ==
    /\ Up(p) /\ recovery[p].pc = "off"
    /\ Recover(p, "claim", {m \in idle : pending[m] # ConsumerId[p]})
    /\ UNCHANGED <<sent, lastId, pending, idle, acked, emitted, dropped, loop, faults>>

\* XCLAIM takes those that are still idle.
ClaimIdle(p) ==
    LET ids == recovery[p].ids \cap idle
    IN /\ recovery[p].pc = "claim"
       /\ pending' = Pend(ids, ConsumerId[p])
       /\ idle' = idle \ ids
       /\ UNCHANGED <<sent, lastId, acked, emitted, dropped, loop>>

\* Mutant: what XCLAIM returned is not handled.
MutantClaim(p) == ClaimIdle(p) /\ Recover(p, "off", {}) /\ UNCHANGED faults

Claim(p) ==
    /\ ClaimIdle(p)
    /\ Recover(p, "emit", recovery[p].ids \cap idle)
    /\ UNCHANGED faults

ClaimLost(p) == ClaimIdle(p) /\ Recover(p, "off", {}) /\ Fault

Claimed(p) == Least(recovery[p].ids)

EmitClaimed(p) ==
    /\ recovery[p].pc = "emit"
    /\ emitted' = emitted \cup {Claimed(p)}
    /\ Recover(p, "ack", recovery[p].ids)
    /\ UNCHANGED <<sent, lastId, pending, idle, acked, dropped, loop, faults>>

\* processMessage returns without an emit, or throws: it is acknowledged either way.
PassOverClaimed(p) ==
    /\ recovery[p].pc = "emit"
    /\ dropped' = dropped \cup {Claimed(p)}
    /\ \E pc \in {"ack", "ack again"} : Recover(p, pc, recovery[p].ids)
    /\ Fault
    /\ UNCHANGED <<sent, lastId, pending, idle, acked, emitted, loop>>

AckClaimed(p) ==
    /\ recovery[p].pc \in {"ack", "ack again"}
    /\ Acknowledge(Claimed(p))
    /\ Recover(p, "emit", recovery[p].ids \ {Claimed(p)})
    /\ UNCHANGED <<sent, lastId, emitted, dropped, loop, faults>>

\* The catch block acknowledges once more; when that throws too, the recovery
\* ends and leaves the other messages it claimed.
AckClaimedFails(p) ==
    /\ \/ recovery[p].pc = "ack" /\ Recover(p, "ack again", recovery[p].ids)
       \/ recovery[p].pc = "ack again" /\ Recover(p, "off", {})
    /\ Fault
    /\ UNCHANGED <<sent, lastId, pending, idle, acked, emitted, dropped, loop>>

-----------------------------------------------------------------------------
StreamInit ==
    /\ sent = 0 /\ lastId = 0
    /\ pending = <<>> /\ idle = {}
    /\ acked = {} /\ emitted = {} /\ dropped = {}
    /\ loop = [p \in Procs |-> [pc |-> "read", batch |-> {}]]
    /\ recovery = [p \in Procs |-> [pc |-> "off", ids |-> {}]]
    /\ faults = 0

LoopStep(p)     == Read(p) \/ Emit(p) \/ Ack(p) \/ Restart(p)
RecoveryStep(p) == Scan(p) \/ Claim(p) \/ EmitClaimed(p) \/ AckClaimed(p)
FaultStep(p)    ==
    \/ Crash(p) \/ ReadLost(p) \/ PassOver(p) \/ HandlingFails(p)
    \/ ClaimLost(p) \/ PassOverClaimed(p) \/ AckClaimedFails(p)

StreamNext ==
    \/ Publish
    \/ \E m \in Messages : Age(m)
    \/ \E p \in Procs : LoopStep(p) \/ RecoveryStep(p) \/ FaultStep(p)

StreamSpec == StreamInit /\ [][StreamNext]_streamVars

\* Time passes; the loops go on, the timer fires every minute, and a process
\* that died is started again (restart: unless-stopped in the compose files).
FairStreamSpec ==
    /\ StreamSpec
    /\ \A m \in Messages : WF_streamVars(Age(m))
    /\ \A p \in Procs : WF_streamVars(LoopStep(p)) /\ WF_streamVars(RecoveryStep(p))

-----------------------------------------------------------------------------
(* Properties. *)

StreamTypeOK ==
    /\ sent \in 0 .. MaxMessages /\ lastId \in 0 .. sent
    /\ pending \in [DOMAIN pending -> Ids]
    /\ DOMAIN pending \cup acked = 1 .. lastId
    /\ idle \subseteq DOMAIN pending
    /\ emitted \subseteq 1 .. lastId /\ dropped \subseteq 1 .. lastId
    /\ loop \in [Procs -> [pc : {"down", "read", "emit", "ack"}, batch : SUBSET Messages]]
    /\ recovery \in [Procs -> [pc : {"off", "claim", "emit", "ack", "ack again"},
                               ids : SUBSET Messages]]
    /\ faults \in 0 .. MaxFaults

\* Delivery is at least once: whatever crashes or is claimed when, a message is
\* acknowledged only after it was emitted to the browsers, unless it was passed
\* over: with no server set or malformed, or claimed while handling it threw.
AckedWasEmitted == acked \subseteq emitted \cup dropped

\* Why it holds: who is about to acknowledge a message has just handled it.
AcksWhatItEmitted ==
    /\ AckedWasEmitted
    /\ \A p \in Procs :
         /\ loop[p].pc = "ack" => Current(p) \in emitted \cup dropped
         /\ recovery[p].pc \in {"ack", "ack again"} => Claimed(p) \in emitted \cup dropped

\* Recovery works: every message in the stream is acknowledged in the end, so
\* it was emitted or passed over, when the processes consume under names of
\* their own.
PublishedIsAcked == \A m \in Messages : (m <= sent) ~> (m \in acked)

\* A message that was handled but not acknowledged, and that nobody works on.
Stuck(m) ==
    /\ m \in DOMAIN pending \cap emitted
    /\ \A p \in Procs : m \notin loop[p].batch \cup recovery[p].ids

\* "Don't ACK - message will be retried or claimed" (runLoop).
StuckIsRetriedOrClaimed == \A m \in Messages : Stuck(m) ~> ~Stuck(m)
=============================================================================
