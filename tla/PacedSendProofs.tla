-------------------------- MODULE PacedSendProofs --------------------------
(***************************************************************************)
(* The safety properties of PacedSend for every rate, bucket, packet size  *)
(* and queue limit.                                                        *)
(*                                                                         *)
(* Order and timer are inductive together with the types.  The budget is   *)
(* not: tokens lag behind the clock by the time that is not yet counted,   *)
(* so Budget adds what the next refill will add, which is capped by the    *)
(* bucket only if it is a whole token.                                     *)
(***************************************************************************)
EXTENDS PacedSend, TLAPS

\* The provers, and their time, for a leaf that names none.
USE SMTT(10), ZenonT(20), SMTT(60)

Budget ==
    changes = 0 =>
        /\ rate = InitialRate
        /\ bucket = Bucket
        /\ ideal <= ExactBucket
        /\ IF rate * idle < Second
           THEN tokens * Second + rate * idle <= ideal
           ELSE Smaller(tokens * Second + rate * idle, Bucket * Second) <= ideal

SentIsForwarded == sent <= forwarded

Inv ==
    /\ TypeOK
    /\ TimerRunsWhilePending
    /\ OrderKept
    /\ SentIsForwarded
    /\ BackpressureHolds
    /\ Budget

-----------------------------------------------------------------------------
(* Arithmetic *)

LEMMA DivIs ==
    ASSUME NEW a \in Nat, NEW b \in Nat \ {0}
    PROVE  a \div b \in Nat /\ b * (a \div b) <= a /\ a < b * (a \div b) + b
OBVIOUS

LEMMA TimesNat ==
    ASSUME NEW a \in Nat, NEW b \in Nat
    PROVE  a * b \in Nat
OBVIOUS

LEMMA TimesMonotone ==
    ASSUME NEW a \in Int, NEW b \in Int, NEW c \in Nat, a <= b
    PROVE  a * c <= b * c
OBVIOUS

LEMMA Distribute ==
    ASSUME NEW a \in Int, NEW b \in Int, NEW c \in Int
    PROVE  (a + b) * c = a * c + b * c /\ (a - b) * c = a * c - b * c /\ a * c = c * a
OBVIOUS

\* The numbers of the state.
LEMMA Numbers ==
    ASSUME TypeOK
    PROVE  /\ rate \in Nat /\ Second \in Nat \ {0} /\ Bucket \in Nat /\ ideal \in Int
           /\ bucket \in Nat /\ bucket <= Bucket
           /\ tokens \in Nat /\ tokens <= bucket
           /\ idle \in Nat /\ idle <= MaxIdle /\ MaxIdle \in Nat
<1>1. rate \in Nat /\ bucket \in 0..Bucket /\ tokens \in 0..bucket /\ idle \in 0..MaxIdle /\ ideal \in Int
  BY Zenon DEF TypeOK
<1> QED
  BY <1>1, PacedSendAssumption

-----------------------------------------------------------------------------
(* Pacer *)

\* A refill adds at most what the time since the last one is worth, and keeps
\* the tokens within the bucket.
LEMMA RefillIs ==
    ASSUME TypeOK
    PROVE  /\ NewTokens \in Nat
           /\ rate * idle \in Nat
           /\ NewTokens = 0 <=> rate * idle < Second
           /\ Second * NewTokens <= rate * idle
           /\ Refilled \in 0..bucket
           /\ StillIdle \in 0..MaxIdle
<1>1. rate \in Nat /\ idle \in Nat /\ Second \in Nat \ {0}
  BY Numbers
<1>2. PICK credit \in Nat : credit = rate * idle
  BY <1>1, TimesNat
<1>3. PICK q \in Nat : q = credit \div Second /\ Second * q <= credit /\ credit < Second * q + Second
  BY <1>1, DivIs
<1>4. NewTokens = q
  BY <1>2, <1>3 DEF NewTokens
<1>5. q = 0 <=> credit < Second
  <2>1. CASE q = 0
    BY <1>1, <1>3, <2>1
  <2>2. CASE q >= 1
    <3>1. 1 * Second <= q * Second
      BY <1>1, <2>2, TimesMonotone
    <3> QED
      BY <1>1, <1>3, <2>2, <3>1, Distribute
  <2> QED
    BY <2>1, <2>2
<1>6. Refilled \in 0..bucket /\ StillIdle \in 0..MaxIdle
  BY <1>3, <1>4, Numbers DEF Refilled, StillIdle, Smaller
<1> QED
  BY <1>2, <1>3, <1>4, <1>5, <1>6

\* timeUntilAvailable is a time.
LEMMA WaitIs ==
    ASSUME TypeOK, NEW n \in Sizes
    PROVE  TimeUntilAvailable(n) \in Nat
<1>1. n \in Nat /\ Refilled \in Nat /\ rate \in Nat /\ Second \in Nat
  BY RefillIs, Numbers, PacedSendAssumption
<1>2. CASE n <= Refilled \/ rate = 0
  BY <1>2 DEF TimeUntilAvailable
<1>3. CASE ~(n <= Refilled \/ rate = 0)
  <2>1. PICK d \in Nat : d = n - Refilled
    BY <1>1, <1>3
  <2>2. PICK p \in Nat : p = d * Second
    BY <1>1, <2>1, TimesNat
  <2>3. p \div rate \in Nat
    BY <1>1, <1>3, <2>2, DivIs
  <2> QED
    BY <1>3, <2>1, <2>2, <2>3 DEF TimeUntilAvailable
<1> QED
  BY <1>2, <1>3

\* Charging for n bytes keeps types and budget.
LEMMA ChargeInv ==
    ASSUME TypeOK, Budget, NEW n \in Nat, n <= Refilled, Charge(n),
           UNCHANGED <<rate, bucket, changes>>
    PROVE  /\ tokens' \in 0..bucket'
           /\ idle' \in 0..MaxIdle
           /\ ideal' \in Int
           /\ Budget'
<1>1. /\ tokens' \in 0..bucket' /\ idle' \in 0..MaxIdle
  BY RefillIs, Numbers DEF Charge
<1>2. /\ Second \in Nat \ {0} /\ tokens \in Nat /\ bucket \in Nat /\ ideal \in Int /\ Bucket \in Nat
      /\ rate \in Nat /\ idle \in Nat
  BY Numbers
<1>3. PICK cost \in Nat : cost = n * Second
  BY <1>2, TimesNat
<1>4. ideal' = ideal - cost /\ ideal' \in Int
  BY <1>2, <1>3 DEF Charge
<1>5. ASSUME changes = 0
      PROVE  /\ ideal' <= ExactBucket
             /\ IF rate * idle' < Second
                THEN tokens' * Second + rate * idle' <= ideal'
                ELSE Smaller(tokens' * Second + rate * idle', Bucket * Second) <= ideal'
  <2>1. ideal' <= ExactBucket
    BY <1>2, <1>4, <1>5, PacedSendAssumption DEF Budget, ExactBucket
  <2>2. PICK credit \in Nat : credit = rate * idle
    BY RefillIs
  <2>3. PICK have \in Nat : have = tokens * Second
    BY <1>2, TimesNat
  <2>4. CASE credit < Second
    <3>1. NewTokens = 0
      BY <2>2, <2>4, RefillIs
    <3>2. Refilled = tokens /\ idle' = idle /\ tokens' = tokens - n
      BY <3>1 DEF Refilled, StillIdle, Charge
    <3>3. tokens' * Second = have - cost
      BY <1>2, <1>3, <2>3, <3>2, Distribute
    <3> QED
      BY <1>2, <1>3, <1>4, <1>5, <2>1, <2>2, <2>3, <2>4, <3>2, <3>3 DEF Budget
  <2>5. CASE credit >= Second
    <3>1. NewTokens \in Nat \ {0} /\ Second * NewTokens <= credit
      BY <1>2, <2>2, <2>5, RefillIs
    <3>2. Refilled = Smaller(tokens + NewTokens, bucket) /\ idle' = 0 /\ tokens' = Refilled - n
      BY <3>1 DEF Refilled, StillIdle, Charge
    <3>3. Refilled * Second <= have + credit
      <4>1. Refilled <= tokens + NewTokens /\ Refilled \in Int /\ tokens + NewTokens \in Int
        BY <1>2, <3>1, <3>2 DEF Smaller
      <4>2. Refilled * Second <= (tokens + NewTokens) * Second
        BY <1>2, <4>1, TimesMonotone
      <4>3. (tokens + NewTokens) * Second = have + Second * NewTokens
        BY <1>2, <2>3, <3>1, Distribute
      <4> QED
        BY <1>2, <2>2, <2>3, <3>1, <4>1, <4>2, <4>3
    <3>4. Refilled * Second <= Bucket * Second
      <4>1. Refilled <= Bucket /\ Refilled \in Int
        BY <1>2, <1>5, <3>1, <3>2 DEF Smaller, Budget
      <4> QED
        BY <1>2, <4>1, TimesMonotone
    <3>5. Refilled * Second <= ideal
      <4>1. Refilled \in Int /\ Refilled * Second \in Int /\ Bucket * Second \in Int
        BY <1>2, RefillIs
      <4>2. Smaller(have + credit, Bucket * Second) <= ideal
        BY <1>2, <1>5, <2>2, <2>3, <2>5 DEF Budget
      <4> QED
        BY <1>2, <2>2, <2>3, <3>3, <3>4, <4>1, <4>2 DEF Smaller
    <3>6. tokens' * Second = Refilled * Second - cost
      BY <1>2, <1>3, <3>2, RefillIs, Distribute
    <3>7. rate * idle' = 0
      BY <1>2, <3>2
    <3> QED
      BY <1>2, <1>3, <1>4, <2>1, <3>5, <3>6, <3>7, RefillIs
  <2> QED
    BY <1>2, <2>2, <2>4, <2>5
<1>6. Budget'
  BY <1>5 DEF Budget
<1> QED
  BY <1>1, <1>4, <1>6

-----------------------------------------------------------------------------
(* The actions *)

\* The rest of TypeOK.
Others ==
    /\ queue \in Seq(Packet)
    /\ timer \in Nat \cup {Off}
    /\ draining \in BOOLEAN
    /\ session \in {"live", "destroyed", "freed", "used after free"}
    /\ forwarded \in 0..MaxPackets
    /\ sent \in 0..MaxPackets
    /\ unpaid \in BOOLEAN
    /\ changes \in 0..MaxChanges

LEMMA TypeOKIs ==
    TypeOK <=> /\ rate \in Nat /\ bucket \in 0..Bucket /\ tokens \in 0..bucket
               /\ idle \in 0..MaxIdle /\ ideal \in Int /\ Others
BY Zenon DEF TypeOK, Others

LEMMA Counters ==
    ASSUME Others
    PROVE  /\ forwarded \in Nat /\ forwarded <= MaxPackets /\ sent \in Nat /\ sent <= MaxPackets
           /\ MaxPackets \in Nat /\ queue \in Seq(Packet)
<1>1. forwarded \in 0..MaxPackets /\ sent \in 0..MaxPackets /\ queue \in Seq(Packet)
  BY Zenon DEF Others
<1> QED
  BY <1>1, PacedSendAssumption

LEMMA IdsNat ==
    ASSUME NEW q \in Seq(Packet), NEW i \in 1..Len(q)
    PROVE  q[i] \in Packet /\ q[i].id \in Nat
<1>1. q[i] \in Packet
  OBVIOUS
<1>2. q[i].id \in 1..MaxPackets
  BY <1>1 DEF Packet
<1> QED
  BY <1>1, <1>2, PacedSendAssumption

\* The parts of Inv put together again after a step.
LEMMA Together ==
    ASSUME rate' \in Nat, bucket' \in 0..Bucket, tokens' \in 0..bucket', idle' \in 0..MaxIdle,
           ideal' \in Int, Others', TimerRunsWhilePending', OrderKept', SentIsForwarded',
           BackpressureHolds', Budget'
    PROVE  Inv'
<1>1. TypeOK'
  BY Zenon DEF TypeOK, Others
<1> QED
  BY <1>1 DEF Inv

LEMMA SendNowInv ==
    ASSUME Inv, NEW n \in Sizes, QueueOrSend(n), SendNow(n)
    PROVE  Inv'
<1>1. PICK paid \in Nat : paid = (IF n <= Refilled THEN n ELSE 0) /\ paid <= Refilled
  BY RefillIs, PacedSendAssumption DEF Inv
<1>2. UNCHANGED <<rate, bucket, changes, draining, session>> /\ Charge(paid)
  BY <1>1 DEF QueueOrSend, SendNow, pacer
<1>3. tokens' \in 0..bucket' /\ idle' \in 0..MaxIdle /\ ideal' \in Int /\ Budget'
  BY <1>1, <1>2, ChargeInv DEF Inv
<1>4. Others' /\ TimerRunsWhilePending' /\ OrderKept' /\ BackpressureHolds'
  <2>1. Others /\ TimerRunsWhilePending /\ BackpressureHolds
    BY TypeOKIs DEF Inv
  <2>2. /\ queue = <<>> /\ queue' = <<>> /\ timer' = timer
        /\ forwarded < MaxPackets /\ forwarded' = forwarded + 1 /\ sent' = forwarded + 1
    BY DEF QueueOrSend, SendNow
  <2>3. unpaid' \in BOOLEAN
    BY DEF SendNow
  <2>4. forwarded' \in 0..MaxPackets /\ sent' \in 0..MaxPackets
    BY <2>1, <2>2, Counters
  <2>5. Others'
    BY <1>2, <2>1, <2>2, <2>3, <2>4 DEF Others
  <2>6. TimerRunsWhilePending' /\ BackpressureHolds'
    BY <1>2, <2>1, <2>2 DEF TimerRunsWhilePending, BackpressureHolds
  <2>7. OrderKept'
    BY <2>2 DEF OrderKept
  <2> QED
    BY <2>5, <2>6, <2>7
<1>5. SentIsForwarded'
  <2>1. Others
    BY TypeOKIs DEF Inv
  <2> QED
    BY <2>1, Counters DEF QueueOrSend, SendNow, SentIsForwarded
<1>6. rate' \in Nat /\ bucket' \in 0..Bucket
  BY <1>2, TypeOKIs DEF Inv
<1> QED
  BY <1>3, <1>4, <1>5, <1>6, Together

LEMMA QueueFirstInv ==
    ASSUME Inv, NEW n \in Sizes, QueueOrSend(n), QueueFirst(n)
    PROVE  Inv'
<1>1. UNCHANGED <<rate, bucket, changes, draining, session>> /\ Charge(0) /\ 0 <= Refilled
  BY RefillIs DEF QueueOrSend, QueueFirst, pacer, Inv
<1>2. tokens' \in 0..bucket' /\ idle' \in 0..MaxIdle /\ ideal' \in Int /\ Budget'
  BY <1>1, ChargeInv DEF Inv
<1>3. Others' /\ TimerRunsWhilePending' /\ OrderKept' /\ BackpressureHolds'
  <2>1. Others
    BY TypeOKIs DEF Inv
  <2>2. PICK wait \in Nat \ {0} : wait = TimeUntilAvailable(n)
    BY WaitIs DEF QueueFirst, Inv
  <2>3. PICK p : p = [id |-> forwarded + 1, size |-> n]
    OBVIOUS
  <2>4. /\ queue' = <<p>> /\ timer' = wait /\ unpaid' = FALSE /\ sent' = sent
        /\ forwarded < MaxPackets /\ forwarded' = forwarded + 1 /\ ~draining
    BY <2>2, <2>3 DEF QueueOrSend, QueueFirst
  <2>5. /\ forwarded \in 0..MaxPackets /\ forwarded' \in 0..MaxPackets /\ forwarded + 1 \in 1..MaxPackets
        /\ sent \in Nat
    BY <2>1, <2>4, Counters
  <2>6. p \in Packet /\ p.id = forwarded + 1
    BY <2>3, <2>5 DEF Packet
  <2>7. queue' \in Seq(Packet) /\ Len(queue') = 1 /\ queue'[1] = p /\ queue' # <<>>
    BY <2>4, <2>6
  <2>8. Others'
    BY <1>1, <2>1, <2>4, <2>5, <2>7 DEF Others
  <2>9. TimerRunsWhilePending' /\ BackpressureHolds'
    BY <1>1, <2>4, <2>7, PacedSendAssumption DEF TimerRunsWhilePending, BackpressureHolds, Off
  <2>10. sent <= forwarded
    BY DEF Inv, SentIsForwarded
  <2>11. OrderKept'
    BY <2>1, <2>4, <2>5, <2>6, <2>7, <2>10 DEF OrderKept
  <2> QED
    BY <2>8, <2>9, <2>11
<1>4. rate' \in Nat /\ bucket' \in 0..Bucket /\ Others
  BY <1>1, TypeOKIs DEF Inv
<1>5. SentIsForwarded'
  BY <1>4, Counters DEF QueueOrSend, QueueFirst, Inv, SentIsForwarded
<1> QED
  BY <1>2, <1>3, <1>4, <1>5, Together

LEMMA QueueBehindInv ==
    ASSUME Inv, NEW n \in Sizes, QueueOrSend(n), QueueBehind(n)
    PROVE  Inv'
<1>1. UNCHANGED <<rate, bucket, changes, draining, session, tokens, idle, ideal, timer, sent>>
  BY DEF QueueOrSend, QueueBehind, pacer
<1>2. rate' \in Nat /\ bucket' \in 0..Bucket /\ tokens' \in 0..bucket' /\ idle' \in 0..MaxIdle /\ ideal' \in Int /\ Others
  BY <1>1, TypeOKIs DEF Inv
<1>3. Budget'
  BY <1>1 DEF Inv, Budget
<1>4. PICK p : p = [id |-> forwarded + 1, size |-> n]
  OBVIOUS
<1>5. /\ forwarded < MaxPackets /\ forwarded' = forwarded + 1 /\ ~draining /\ unpaid' = FALSE
      /\ queue # <<>>
      /\ queue' = IF Len(queue) >= MaxPending THEN queue ELSE Append(queue, p)
  BY <1>4 DEF QueueOrSend, QueueBehind
<1>6. /\ forwarded \in 0..MaxPackets /\ forwarded' \in 0..MaxPackets /\ forwarded + 1 \in 1..MaxPackets
      /\ sent \in Nat
  BY <1>2, <1>5, Counters
<1>7. p \in Packet /\ p.id = forwarded + 1
  BY <1>4, <1>6 DEF Packet
<1>8. queue \in Seq(Packet) /\ queue' \in Seq(Packet) /\ queue' # <<>>
  BY <1>2, <1>5, <1>7, Counters
<1>9. Others'
  BY <1>1, <1>2, <1>5, <1>6, <1>8 DEF Others
<1>10. TimerRunsWhilePending'
  BY <1>1, <1>5, <1>8 DEF Inv, TimerRunsWhilePending
<1>11. BackpressureHolds'
  BY <1>5, <1>8, PacedSendAssumption DEF Inv, BackpressureHolds
<1>12. OrderKept'
  <2>1. \A i \in 1..Len(queue) : queue[i] \in Packet /\ queue[i].id \in Nat
    BY <1>8, IdsNat
  <2>2. CASE Len(queue) >= MaxPending
    BY <1>1, <1>5, <1>6, <1>8, <2>1, <2>2 DEF Inv, OrderKept
  <2>3. CASE ~(Len(queue) >= MaxPending)
    <3>1. /\ Len(queue') = Len(queue) + 1 /\ queue'[Len(queue) + 1] = p
          /\ \A i \in 1..Len(queue) : queue'[i] = queue[i]
      BY <1>5, <1>7, <1>8, <2>3
    <3>2. Len(queue) \in Nat /\ sent <= forwarded
      BY <1>8 DEF Inv, SentIsForwarded
    <3>3. \A i \in 1..Len(queue') : sent' < queue'[i].id /\ queue'[i].id <= forwarded'
      BY <1>1, <1>5, <1>6, <1>7, <2>1, <3>1, <3>2 DEF Inv, OrderKept
    <3>4. \A i, j \in 1..Len(queue') : i < j => queue'[i].id < queue'[j].id
      <4> SUFFICES ASSUME NEW i \in 1..Len(queue'), NEW j \in 1..Len(queue'), i < j
                   PROVE  queue'[i].id < queue'[j].id
        OBVIOUS
      <4>1. i \in 1..Len(queue) /\ queue'[i] = queue[i]
        BY <3>1, <3>2
      <4>2. CASE j \in 1..Len(queue)
        BY <3>1, <4>1, <4>2 DEF Inv, OrderKept
      <4>3. CASE j = Len(queue) + 1
        BY <1>6, <1>7, <2>1, <3>1, <4>1, <4>3 DEF Inv, OrderKept
      <4> QED
        BY <3>1, <3>2, <4>2, <4>3
    <3> QED
      BY <3>3, <3>4 DEF OrderKept
  <2> QED
    BY <2>2, <2>3
<1>13. SentIsForwarded'
  BY <1>1, <1>5, <1>6 DEF Inv, SentIsForwarded
<1> QED
  BY <1>2, <1>3, <1>9, <1>10, <1>11, <1>12, <1>13, Together

LEMMA SetBandwidthInv ==
    ASSUME Inv, NEW r \in Rates, SetBandwidth(r)
    PROVE  Inv'
<1>1. /\ rate' = r /\ changes' = changes + 1 /\ changes < MaxChanges
      /\ bucket' \in IF r = 0 THEN {0} ELSE {bucket, bucket - 1} \cap Nat
      /\ tokens' = Smaller(tokens, bucket')
      /\ UNCHANGED <<idle, queue, timer, draining, session, forwarded, sent, unpaid, ideal>>
  BY DEF SetBandwidth
<1>2. Others /\ idle \in 0..MaxIdle /\ ideal \in Int
  BY TypeOKIs DEF Inv
<1>3. rate' \in Nat /\ bucket' \in 0..Bucket /\ tokens' \in 0..bucket'
  BY <1>1, Numbers, PacedSendAssumption DEF Inv, Smaller
<1>4. changes' \in 0..MaxChanges /\ changes' # 0
  <2>1. changes \in 0..MaxChanges
    BY <1>2, Zenon DEF Others
  <2> QED
    BY <1>1, <2>1, PacedSendAssumption
<1>5. Others'
  BY <1>1, <1>2, <1>4 DEF Others
<1>6. Budget'
  BY <1>4 DEF Budget
<1>7. TimerRunsWhilePending' /\ OrderKept' /\ SentIsForwarded' /\ BackpressureHolds'
  BY <1>1 DEF Inv, TimerRunsWhilePending, OrderKept, SentIsForwarded, BackpressureHolds
<1> QED
  BY <1>1, <1>2, <1>3, <1>5, <1>6, <1>7, Together

LEMMA DrainSendInv ==
    ASSUME Inv, DrainSend
    PROVE  Inv'
<1>1. Others /\ rate \in Nat /\ bucket \in 0..Bucket
  BY TypeOKIs DEF Inv
<1>2. queue \in Seq(Packet) /\ queue # <<>>
  BY <1>1, Counters DEF DrainSend
<1>3. PICK n \in Nat : n = Head(queue).size /\ n <= Refilled
  <2>1. Head(queue) \in Packet
    BY <1>2
  <2>2. Head(queue).size \in Sizes
    BY <2>1 DEF Packet
  <2> QED
    BY <2>2, PacedSendAssumption DEF DrainSend
<1>4. /\ UNCHANGED <<rate, bucket, changes, timer, draining, session, forwarded>> /\ Charge(n)
      /\ unpaid' = FALSE
  BY <1>3 DEF DrainSend, pacer
<1>5. tokens' \in 0..bucket' /\ idle' \in 0..MaxIdle /\ ideal' \in Int /\ Budget'
  BY <1>3, <1>4, ChargeInv DEF Inv
<1>6. /\ queue' \in Seq(Packet) /\ Len(queue') = Len(queue) - 1 /\ Len(queue) \in Nat \ {0}
      /\ \A i \in 1..Len(queue') : queue'[i] = queue[i + 1] /\ i + 1 \in 1..Len(queue)
      /\ queue[1].id = sent'
  BY <1>2 DEF DrainSend
<1>7. \A i \in 1..Len(queue) : queue[i].id \in Nat
  BY <1>2, IdsNat
<1>8. sent' \in 0..MaxPackets /\ sent' <= forwarded /\ sent' \in Nat
  BY <1>1, <1>6, <1>7, Counters DEF Inv, OrderKept
<1>9. Others'
  BY <1>1, <1>4, <1>6, <1>8 DEF Others
<1>10. OrderKept'
  <2>1. \A i \in 1..Len(queue') : sent' < queue'[i].id /\ queue'[i].id <= forwarded'
    BY <1>4, <1>6, <1>7, 1 \in 1..Len(queue) DEF Inv, OrderKept
  <2>2. \A i, j \in 1..Len(queue') : i < j => queue'[i].id < queue'[j].id
    BY <1>6 DEF Inv, OrderKept
  <2> QED
    BY <2>1, <2>2 DEF OrderKept
<1>11. TimerRunsWhilePending'
  BY <1>4 DEF DrainSend, Inv, TimerRunsWhilePending
<1>12. SentIsForwarded' /\ BackpressureHolds'
  BY <1>4, <1>6, <1>8, PacedSendAssumption DEF Inv, SentIsForwarded, BackpressureHolds
<1> QED
  BY <1>1, <1>4, <1>5, <1>9, <1>10, <1>11, <1>12, Together

LEMMA DrainWaitInv ==
    ASSUME Inv, DrainWait
    PROVE  Inv'
<1>1. Others /\ rate \in Nat /\ bucket \in 0..Bucket
  BY TypeOKIs DEF Inv
<1>2. queue \in Seq(Packet) /\ queue # <<>>
  BY <1>1, Counters DEF DrainWait
<1>3. timer' \in Nat
  <2>1. Head(queue) \in Packet
    BY <1>2
  <2>2. PICK n \in Sizes : n = Head(queue).size
    BY <2>1 DEF Packet
  <2>3. TimeUntilAvailable(n) \in Nat
    BY WaitIs DEF Inv
  <2> QED
    BY <2>2, <2>3, PacedSendAssumption DEF DrainWait
<1>4. /\ UNCHANGED <<rate, bucket, changes, queue, session, forwarded, sent, unpaid>> /\ Charge(0)
      /\ draining' = FALSE
  BY DEF DrainWait, pacer
<1>5. tokens' \in 0..bucket' /\ idle' \in 0..MaxIdle /\ ideal' \in Int /\ Budget'
  BY <1>4, ChargeInv, RefillIs DEF Inv
<1>6. Others'
  BY <1>1, <1>3, <1>4 DEF Others
<1>7. TimerRunsWhilePending'
  BY <1>2, <1>3, <1>4 DEF TimerRunsWhilePending, Off
<1>8. OrderKept' /\ SentIsForwarded' /\ BackpressureHolds'
  BY <1>4 DEF Inv, OrderKept, SentIsForwarded, BackpressureHolds
<1> QED
  BY <1>1, <1>4, <1>5, <1>6, <1>7, <1>8, Together

\* The steps that leave the pacer alone and at most empty the queue.
LEMMA ControlStepInv ==
    ASSUME Inv, UNCHANGED <<rate, bucket, tokens, idle, ideal, forwarded, sent, unpaid, changes>>,
           PacingTimerCb \/ DrainDone \/ DestroySession \/ OnEvStop \/ PacingTimerCbFreed
    PROVE  Inv'
<1>1. /\ Others /\ rate' \in Nat /\ bucket' \in 0..Bucket /\ tokens' \in 0..bucket'
      /\ idle' \in 0..MaxIdle /\ ideal' \in Int
  BY TypeOKIs DEF Inv
<1>2. /\ queue' = queue \/ queue' = <<>>
      /\ timer' = timer \/ timer' = Off
      /\ draining' \in BOOLEAN
      /\ session' \in {"live", "destroyed", "freed", "used after free"}
  BY <1>1, Zenon DEF Others, PacingTimerCb, DrainDone, DestroySession, OnEvStop, PacingTimerCbFreed
<1>3. Others'
  <2>1. queue' \in Seq(Packet) /\ timer' \in Nat \cup {Off}
    <3>1. queue \in Seq(Packet) /\ timer \in Nat \cup {Off}
      BY <1>1, Zenon DEF Others
    <3>2. <<>> \in Seq(Packet)
      OBVIOUS
    <3>3. queue' \in Seq(Packet)
      BY <1>2, <3>1, <3>2, Zenon
    <3>4. timer' \in Nat \cup {Off}
      BY <1>2, <3>1
    <3> QED
      BY <3>3, <3>4
  <2> QED
    BY <1>1, <1>2, <2>1, Zenon DEF Others
<1>4. OrderKept' /\ SentIsForwarded' /\ BackpressureHolds'
  <2>1. CASE queue' = queue
    BY <2>1 DEF Inv, OrderKept, SentIsForwarded, BackpressureHolds
  <2>2. CASE queue' = <<>>
    <3>1. Len(queue') = 0
      BY <2>2
    <3> QED
      BY <3>1, PacedSendAssumption DEF Inv, OrderKept, SentIsForwarded, BackpressureHolds
  <2> QED
    BY <1>2, <2>1, <2>2
<1>5. TimerRunsWhilePending'
  BY DEF Inv, TimerRunsWhilePending, PacingTimerCb, DrainDone, DestroySession, OnEvStop, PacingTimerCbFreed, Off
<1>6. Budget'
  BY DEF Inv, Budget
<1> QED
  BY <1>1, <1>3, <1>4, <1>5, <1>6, Together

LEMMA TickInv ==
    ASSUME Inv, Tick
    PROVE  Inv'
<1>1. /\ UNCHANGED <<rate, bucket, tokens, queue, draining, session, forwarded, sent, unpaid, changes>>
      /\ idle' = Smaller(idle + 1, MaxIdle)
      /\ timer' = IF timer > 0 THEN timer - 1 ELSE timer
      /\ ideal' = Smaller(ideal + InitialRate, ExactBucket)
  BY DEF Tick, pacer
<1>2. Others /\ rate \in Nat /\ bucket \in 0..Bucket /\ tokens \in 0..bucket
  BY TypeOKIs DEF Inv
<1>3. timer \in Nat \cup {Off}
  BY <1>2, Zenon DEF Others
<1>4. timer' \in Nat \cup {Off} /\ (timer' = Off <=> timer = Off)
  BY <1>1, <1>3 DEF Off
<1>5. /\ rate \in Nat /\ Second \in Nat \ {0} /\ Bucket \in Nat /\ ideal \in Int /\ tokens \in Nat
      /\ tokens <= bucket /\ idle \in Nat /\ idle <= MaxIdle /\ MaxIdle \in Nat /\ InitialRate \in Nat
  BY Numbers, PacedSendAssumption DEF Inv
<1>6. ExactBucket = Bucket * Second + Second /\ Bucket * Second \in Nat
  BY <1>5, Distribute, TimesNat DEF ExactBucket
<1>7. idle' \in 0..MaxIdle /\ ideal' \in Int
  BY <1>1, <1>5, <1>6 DEF Smaller
<1>8. Others'
  BY <1>1, <1>2, <1>4 DEF Others
<1>9. TimerRunsWhilePending' /\ OrderKept' /\ SentIsForwarded' /\ BackpressureHolds'
  BY <1>1, <1>4 DEF Inv, TimerRunsWhilePending, OrderKept, SentIsForwarded, BackpressureHolds
<1>10. Budget'
  <2> SUFFICES ASSUME changes = 0
               PROVE  /\ ideal' <= ExactBucket
                      /\ IF rate * idle' < Second
                         THEN tokens * Second + rate * idle' <= ideal'
                         ELSE Smaller(tokens * Second + rate * idle', Bucket * Second) <= ideal'
    BY <1>1 DEF Inv, Budget
  <2>1. PICK have \in Nat : have = tokens * Second
    BY <1>5, TimesNat
  <2>2. PICK before \in Nat : before = rate * idle
    BY <1>5, TimesNat
  <2>3. PICK after \in Nat : after = rate * idle'
    <3>1. idle' \in Nat
      BY <1>5, <1>7
    <3> QED
      BY <1>5, <3>1, TimesNat
  <2>4. after <= before + rate
    <3>1. CASE idle' = idle
      BY <1>5, <2>2, <2>3, <3>1
    <3>2. CASE idle' = idle + 1
      BY <1>5, <2>2, <2>3, <3>2
    <3> QED
      BY <1>1, <1>5, <3>1, <3>2 DEF Smaller
  <2>5. have <= Bucket * Second
    <3>1. tokens <= Bucket
      BY <1>5 DEF Inv, Budget
    <3> QED
      BY <1>5, <2>1, <3>1, TimesMonotone
  <2>6. /\ rate = InitialRate /\ ideal <= ExactBucket
        /\ IF before < Second THEN have + before <= ideal
                              ELSE Smaller(have + before, Bucket * Second) <= ideal
    BY <2>1, <2>2 DEF Inv, Budget
  <2>7. IF after < Second THEN have + after <= ideal'
                          ELSE Smaller(have + after, Bucket * Second) <= ideal'
    <3>1. PICK full \in Nat : full = Bucket * Second
      BY <1>6
    <3>2. ideal' = Smaller(ideal + rate, full + Second)
      BY <1>1, <1>6, <2>6, <3>1
    <3>3. before <= after
      <4>1. idle <= idle'
        BY <1>1, <1>5 DEF Smaller
      <4> QED
        BY <1>1, <1>5, <2>2, <2>3 DEF Smaller
    <3> QED
      BY <1>5, <2>4, <2>5, <2>6, <3>1, <3>2, <3>3 DEF Smaller
  <2>8. ideal' <= ExactBucket
    BY <1>1, <1>5, <1>6 DEF Smaller
  <2> QED
    BY <2>1, <2>3, <2>7, <2>8
<1> QED
  BY <1>1, <1>2, <1>7, <1>8, <1>9, <1>10, Together

-----------------------------------------------------------------------------
(* The theorems *)

LEMMA InitInv ==
    ASSUME Init
    PROVE  Inv
<1>1. TypeOK
  <2>1. /\ rate \in Nat /\ bucket \in 0..Bucket /\ tokens \in 0..bucket /\ idle \in 0..MaxIdle
        /\ timer \in Nat \cup {Off} /\ forwarded \in 0..MaxPackets /\ sent \in 0..MaxPackets
        /\ changes \in 0..MaxChanges
    BY PacedSendAssumption DEF Init, Off
  <2>2. ideal \in Int
    <3>1. Bucket + 1 \in Nat /\ Second \in Nat
      BY PacedSendAssumption
    <3> QED
      BY <3>1, TimesNat DEF Init, ExactBucket
  <2>3. <<>> \in Seq(Packet)
    OBVIOUS
  <2> QED
    BY <2>1, <2>2, <2>3, Zenon DEF Init, TypeOK
<1>2. TimerRunsWhilePending /\ OrderKept /\ SentIsForwarded /\ BackpressureHolds
  BY PacedSendAssumption DEF Init, TimerRunsWhilePending, OrderKept, SentIsForwarded, BackpressureHolds, Off
<1>3. Budget
  <2>1. rate * idle = 0 /\ tokens * Second \in Nat /\ ExactBucket = tokens * Second + Second
    BY PacedSendAssumption, Distribute, TimesNat DEF Init, ExactBucket
  <2> QED
    BY <2>1, PacedSendAssumption DEF Init, Budget
<1> QED
  BY <1>1, <1>2, <1>3 DEF Inv

LEMMA NextInv ==
    ASSUME Inv, [Next]_vars
    PROVE  Inv'
<1>1. ASSUME NEW n \in Sizes, QueueOrSend(n)
      PROVE  Inv'
  <2>1. SendNow(n) \/ QueueFirst(n) \/ QueueBehind(n)
    BY <1>1 DEF QueueOrSend
  <2> QED
    BY <1>1, <2>1, SendNowInv, QueueFirstInv, QueueBehindInv
<1>2. ASSUME NEW r \in Rates, SetBandwidth(r)
      PROVE  Inv'
  BY <1>2, SetBandwidthInv
<1>3. CASE PacingTimerCb \/ DrainDone \/ DestroySession \/ OnEvStop \/ PacingTimerCbFreed
  <2>1. UNCHANGED <<rate, bucket, tokens, idle, ideal, forwarded, sent, unpaid, changes>>
    BY <1>3 DEF PacingTimerCb, DrainDone, DestroySession, OnEvStop, PacingTimerCbFreed, pacer
  <2> QED
    BY <1>3, <2>1, ControlStepInv
<1>4. CASE UNCHANGED vars
  BY <1>4, Zenon DEF vars, Inv, TypeOK, TimerRunsWhilePending, OrderKept, SentIsForwarded, BackpressureHolds, Budget
<1> QED
  BY <1>1, <1>2, <1>3, <1>4, DrainSendInv, DrainWaitInv, TickInv DEF Next, Drain

\* Whatever is forwarded, and however the clock, the timer and the bandwidth
\* interleave, Inv holds.
THEOREM PacedSendInv == Spec => []Inv
<1>1. Init => Inv
  BY InitInv
<1>2. Inv /\ [Next]_vars => Inv'
  BY NextInv
<1> QED
  BY <1>1, <1>2, PTL DEF Spec

\* The timer of a live session runs exactly while packets wait.
THEOREM TimerMatchesQueue == Spec => []TimerRunsWhilePending
  BY PacedSendInv, PTL DEF Inv

\* Pacing keeps the order of the packets.
THEOREM PacingKeepsOrder == Spec => []OrderKept
  BY PacedSendInv, PTL DEF Inv

\* The queue never exceeds kMaxPendingSendPackets.
THEOREM QueueIsBounded == Spec => []BackpressureHolds
  BY PacedSendInv, PTL DEF Inv

\* The pacer is never ahead of an exact token bucket one byte larger.
THEOREM ChargesWithinRate == Spec => []NeverAheadOfExactBucket
<1>1. Inv => NeverAheadOfExactBucket
  <2> SUFFICES ASSUME Inv, changes = 0
               PROVE  tokens * Second <= ideal
    BY DEF NeverAheadOfExactBucket
  <2>1. /\ tokens \in Nat /\ Second \in Nat \ {0} /\ rate \in Nat /\ idle \in Nat /\ ideal \in Int
        /\ Bucket \in Nat /\ tokens <= Bucket
    BY Numbers DEF Inv
  <2>2. tokens * Second \in Nat /\ rate * idle \in Nat /\ tokens * Second <= Bucket * Second /\ Bucket * Second \in Nat
    BY <2>1, TimesNat, TimesMonotone
  <2> QED
    BY <2>1, <2>2 DEF Inv, Budget, Smaller
<1> QED
  BY <1>1, PacedSendInv, PTL

=============================================================================
