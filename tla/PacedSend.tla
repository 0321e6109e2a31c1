----------------------------- MODULE PacedSend -----------------------------
(***************************************************************************)
(* The paced send path of one session of the SFU: its token bucket (Pacer) *)
(* and the queue of packets that wait for tokens (QueueOrSend and          *)
(* DrainPendingSend of SfuServerFull).                                     *)
(*                                                                         *)
(* All handlers run on the event loop thread.  The drain loop reads the    *)
(* clock before every packet, so it is a start step and one step per       *)
(* packet, between which time may pass but no other handler runs.          *)
(*                                                                         *)
(* Time is counted in ticks, Second of them to the second (microseconds in *)
(* the code); rates are in bytes per second, tokens in bytes.  All the     *)
(* truncating divisions of the code are kept.                              *)
(***************************************************************************)
EXTENDS Integers, Sequences

CONSTANTS
    Second,       \* ticks per second (1'000'000)
    RetryTicks,   \* pause of the drain timer when the computed wait is 0 (1000)
    InitialRate,  \* bandwidth_bytes_per_sec_ of a new session
    Bucket,       \* bucket_size_bytes_ of a new session
    Rates,        \* rates SetSessionBandwidth is called with
    Sizes,        \* sizes of forwarded packets
    MaxPending,   \* kMaxPendingSendPackets
    MaxIdle,      \* bound on the clock: an idle time that fills the bucket at any rate
    MaxPackets,   \* bound on the packets that are forwarded
    MaxChanges    \* bound on the calls of SetSessionBandwidth

ASSUME PacedSendAssumption ==
    /\ Second \in Nat \ {0} /\ RetryTicks \in Nat \ {0}
    /\ InitialRate \in Nat \ {0} /\ Bucket \in Nat
    /\ Rates \subseteq Nat
    /\ Sizes \subseteq Nat \ {0}
    /\ MaxPending \in Nat \ {0}
    /\ MaxIdle \in Nat /\ MaxPackets \in Nat /\ MaxChanges \in Nat

ASSUME MaxIdleAssumption ==
    \A r \in (Rates \cup {InitialRate}) \ {0} : r * MaxIdle >= Bucket * Second

VARIABLES
    rate,      \* bandwidth_bytes_per_sec_
    bucket,    \* bucket_size_bytes_
    tokens,    \* current_tokens_
    idle,      \* ticks since last_refill_time_, up to MaxIdle
    queue,     \* pending_send, packets with the order they were forwarded in
    timer,     \* ticks until pacing_timer fires, or Off
    draining,  \* DrainPendingSend is running
    session,   \* "live", or what became of the session
    forwarded, \* packets forwarded to the session so far
    sent,      \* the last packet that went out
    unpaid,    \* the last packet went out without being charged
    changes,   \* calls of SetSessionBandwidth so far
    ideal      \* Second times the tokens of an exact bucket, see ExactBucket

pacer == <<rate, bucket>>
vars == <<rate, bucket, tokens, idle, queue, timer, draining, session,
          forwarded, sent, unpaid, changes, ideal>>

Off == -1

Packet == [id : 1..MaxPackets, size : Sizes]

Smaller(a, b) == IF a <= b THEN a ELSE b

\* An exact bucket, one byte larger than the pacer's, that is refilled at
\* InitialRate without truncation: Second times its capacity.
ExactBucket == (Bucket + 1) * Second

Init ==
    /\ rate = InitialRate
    /\ bucket = Bucket
    /\ tokens = Bucket
    /\ idle = 0
    /\ queue = <<>>
    /\ timer = Off
    /\ draining = FALSE
    /\ session = "live"
    /\ forwarded = 0
    /\ sent = 0
    /\ unpaid = FALSE
    /\ changes = 0
    /\ ideal = ExactBucket

-----------------------------------------------------------------------------
(* Pacer *)

NewTokens == (rate * idle) \div Second

\* Mutant: tokens pile up beyond the bucket.
RefilledUncapped == IF NewTokens > 0 THEN tokens + NewTokens ELSE tokens

\* refillTokens: the tokens after it and the time it leaves uncounted.
Refilled == IF NewTokens > 0 THEN Smaller(tokens + NewTokens, bucket) ELSE tokens

\* Mutant: the time is counted again by the next refill.
StillIdleKept == idle

\* Mutant: a refill that comes too early for a token loses the time it looked at.
StillIdleLost == 0

StillIdle == IF NewTokens > 0 THEN 0 ELSE idle

\* timeUntilAvailable, after its refill: rounded down, and 0 without bandwidth.
TimeUntilAvailable(n) ==
    IF n <= Refilled \/ rate = 0 THEN 0 ELSE ((n - Refilled) * Second) \div rate

\* tryConsume(n) after its refill, with n bytes actually charged or none.
Charge(n) ==
    /\ tokens' = Refilled - n
    /\ idle' = StillIdle
    /\ ideal' = ideal - n * Second

\* setBandwidth: the bucket is computed from itself, in floating point, which
\* may lose a byte; without bandwidth it becomes, and then remains, empty.
SetBandwidth(r) ==
    /\ session = "live"
    /\ ~draining
    /\ changes < MaxChanges
    /\ changes' = changes + 1
    /\ rate' = r
    /\ bucket' \in IF r = 0 THEN {0} ELSE {bucket, bucket - 1} \cap Nat
    /\ tokens' = Smaller(tokens, bucket')
    /\ UNCHANGED <<idle, queue, timer, draining, session, forwarded, sent, unpaid, ideal>>

-----------------------------------------------------------------------------
(* QueueOrSend *)

\* A packet that need not wait goes out at once.  Whether tryConsume could
\* charge for it is not looked at.
SendNow(n) ==
    /\ queue = <<>>
    /\ TimeUntilAvailable(n) = 0
    /\ Charge(IF n <= Refilled THEN n ELSE 0)
    /\ unpaid' = (n > Refilled)
    /\ sent' = forwarded + 1
    /\ UNCHANGED <<queue, timer>>

\* The first packet that has to wait starts the timer.
QueueFirst(n) ==
    /\ queue = <<>>
    /\ TimeUntilAvailable(n) > 0
    /\ Charge(0)
    /\ timer' = TimeUntilAvailable(n)
    /\ queue' = <<[id |-> forwarded + 1, size |-> n]>>
    /\ unpaid' = FALSE
    /\ UNCHANGED sent

\* Mutant: the limit is tested with > instead of >=.
QueueBehindOneMore(n) ==
    /\ queue # <<>>
    /\ queue' = IF Len(queue) > MaxPending THEN queue
                ELSE Append(queue, [id |-> forwarded + 1, size |-> n])
    /\ unpaid' = FALSE
    /\ UNCHANGED <<tokens, idle, ideal, timer, sent>>

\* Packets queue up behind it; beyond the limit they are dropped.
QueueBehind(n) ==
    /\ queue # <<>>
    /\ queue' = IF Len(queue) >= MaxPending THEN queue
                ELSE Append(queue, [id |-> forwarded + 1, size |-> n])
    /\ unpaid' = FALSE
    /\ UNCHANGED <<tokens, idle, ideal, timer, sent>>

\* Mutant: a packet that fits the tokens overtakes the queue.
QueueOrSendOvertaking(n) ==
    /\ session = "live"
    /\ ~draining
    /\ forwarded < MaxPackets
    /\ forwarded' = forwarded + 1
    /\ \/ SendNow(n)
       \/ QueueFirst(n)
       \/ /\ queue # <<>> /\ Refilled >= n
          /\ Charge(n) /\ sent' = forwarded + 1 /\ unpaid' = FALSE
          /\ UNCHANGED <<queue, timer>>
       \/ Refilled < n /\ QueueBehind(n)
    /\ UNCHANGED <<pacer, draining, session, changes>>

QueueOrSend(n) ==
    /\ session = "live"
    /\ ~draining
    /\ forwarded < MaxPackets
    /\ forwarded' = forwarded + 1
    /\ SendNow(n) \/ QueueFirst(n) \/ QueueBehind(n)
    /\ UNCHANGED <<pacer, draining, session, changes>>

-----------------------------------------------------------------------------
(* DrainPendingSend *)

PacingTimerCb ==
    /\ timer = 0
    /\ session = "live"
    /\ timer' = Off
    /\ draining' = TRUE
    /\ UNCHANGED <<pacer, tokens, idle, queue, session, forwarded, sent, unpaid, changes, ideal>>

DrainSend ==
    /\ draining
    /\ queue # <<>>
    /\ Head(queue).size <= Refilled
    /\ Charge(Head(queue).size)
    /\ sent' = Head(queue).id
    /\ queue' = Tail(queue)
    /\ unpaid' = FALSE
    /\ UNCHANGED <<pacer, timer, draining, session, forwarded, changes>>

\* Mutant: the timer is not set again.
DrainWaitForgotten ==
    /\ draining
    /\ queue # <<>>
    /\ Head(queue).size > Refilled
    /\ Charge(0)
    /\ draining' = FALSE
    /\ UNCHANGED <<pacer, timer, queue, session, forwarded, sent, unpaid, changes>>

DrainWait ==
    LET wait == TimeUntilAvailable(Head(queue).size)
    IN  /\ draining
        /\ queue # <<>>
        /\ Head(queue).size > Refilled
        /\ Charge(0)
        /\ timer' = IF wait > 0 THEN wait ELSE RetryTicks
        /\ draining' = FALSE
        /\ UNCHANGED <<pacer, queue, session, forwarded, sent, unpaid, changes>>

DrainDone ==
    /\ draining
    /\ queue = <<>>
    /\ draining' = FALSE
    /\ UNCHANGED <<pacer, tokens, idle, queue, timer, session, forwarded, sent, unpaid, changes, ideal>>

-----------------------------------------------------------------------------
(* The end of the session, and time *)

\* DestroySession stops the timer before it frees the session.
DestroySession ==
    /\ session = "live"
    /\ ~draining
    /\ session' = "destroyed"
    /\ timer' = Off
    /\ queue' = <<>>
    /\ UNCHANGED <<pacer, tokens, idle, draining, forwarded, sent, unpaid, changes, ideal>>

\* OnEvStop frees all sessions; it stops only the timers of the server itself,
\* and the loop goes on running.
OnEvStop ==
    /\ session = "live"
    /\ ~draining
    /\ session' = "freed"
    /\ queue' = <<>>
    /\ UNCHANGED <<pacer, tokens, idle, timer, draining, forwarded, sent, unpaid, changes, ideal>>

\* The timer of a freed session fires.
PacingTimerCbFreed ==
    /\ timer = 0
    /\ session = "freed"
    /\ timer' = Off
    /\ session' = "used after free"
    /\ UNCHANGED <<pacer, tokens, idle, queue, draining, forwarded, sent, unpaid, changes, ideal>>

\* The clock, which also moves the exact bucket.
Tick ==
    /\ idle' = Smaller(idle + 1, MaxIdle)
    /\ timer' = IF timer > 0 THEN timer - 1 ELSE timer
    /\ ideal' = Smaller(ideal + InitialRate, ExactBucket)
    /\ UNCHANGED <<pacer, tokens, queue, draining, session, forwarded, sent, unpaid, changes>>

Drain == PacingTimerCb \/ DrainSend \/ DrainWait \/ DrainDone

Next ==
    \/ \E n \in Sizes : QueueOrSend(n)
    \/ \E r \in Rates : SetBandwidth(r)
    \/ Drain
    \/ DestroySession
    \/ OnEvStop
    \/ PacingTimerCbFreed
    \/ Tick

\* libev runs a timer that is due, a callback that runs finishes, time passes.
Fairness == WF_vars(Tick) /\ WF_vars(Drain)

Spec == Init /\ [][Next]_vars /\ Fairness

-----------------------------------------------------------------------------
(* Properties *)

\* The pacer and the queue of a session hold what their C++ types allow: tokens are
\* never negative and never exceed the bucket.
TypeOK ==
    /\ rate \in Nat
    /\ bucket \in 0..Bucket
    /\ tokens \in 0..bucket
    /\ idle \in 0..MaxIdle
    /\ queue \in Seq(Packet)
    /\ timer \in Nat \cup {Off}
    /\ draining \in BOOLEAN
    /\ session \in {"live", "destroyed", "freed", "used after free"}
    /\ forwarded \in 0..MaxPackets
    /\ sent \in 0..MaxPackets
    /\ unpaid \in BOOLEAN
    /\ changes \in 0..MaxChanges
    /\ ideal \in Int

\* A packet is never stranded and the timer never started twice: outside the
\* drain loop the timer of a live session runs exactly while packets wait.
TimerRunsWhilePending ==
    session = "live" => IF draining THEN timer = Off ELSE (timer # Off <=> queue # <<>>)

\* Pacing keeps the order of the packets (QueueOrSend's "keeps ordering"): the
\* queue is sorted, and everything in it is younger than what was sent.
OrderKept ==
    /\ \A i \in 1..Len(queue) : sent < queue[i].id /\ queue[i].id <= forwarded
    /\ \A i, j \in 1..Len(queue) : i < j => queue[i].id < queue[j].id

\* A subscriber that is too slow costs at most kMaxPendingSendPackets packets.
BackpressureHolds == Len(queue) <= MaxPending

\* As long as the bandwidth is not changed, the pacer never has tokens an exact
\* token bucket one byte larger would not have: whatever the truncations, it
\* charges in any period at most the bucket, one byte and rate times time.
NeverAheadOfExactBucket == changes = 0 => tokens * Second <= ideal

IsQueued(i) == \E k \in 1..Len(queue) : queue[k].id = i

\* The bucket can no longer hold the tokens the packet at the head costs.
Blocked == queue # <<>> /\ bucket < Head(queue).size

\* A queued packet leaves the queue, by being sent or with its session, unless
\* calls of setBandwidth have made the bucket smaller than the packet at the head.
\* Nothing else holds it up: not the truncations of refillTokens and
\* timeUntilAvailable, nor a change of the rate while it waits.
QueuedIsSent == \A i \in 1..MaxPackets : IsQueued(i) ~> ~IsQueued(i) \/ Blocked

-----------------------------------------------------------------------------
(* What comments of the source promise and the code does not keep *)

\* "Tokens are deducted when a packet is really sent (exactly once for each)":
\* not when the wait is rounded down to 0.
EveryPacketPaid == ~unpaid

\* "Not enough tokens: queued, and sent later by the timer": not once the bucket
\* has become smaller than the packet at the head, with no bandwidth or byte by
\* byte.  The session then sends nothing more, whatever bandwidth it is given.
QueueDrains == \A i \in 1..MaxPackets : IsQueued(i) ~> ~IsQueued(i)

\* "After that the loop thread enters no callback of this server."
NoCallbackAfterStop == session # "used after free"

=============================================================================
