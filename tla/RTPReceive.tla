----------------------------- MODULE RTPReceive -----------------------------
(***************************************************************************)
(* The way of an RTP packet from the socket to the depacketizer: the       *)
(* sequence check of the validator (rtp/validator.go), the sequence        *)
(* statistics of the session (session.go, ProcessPacket), the jitter       *)
(* buffer (jitter_buffer.go) and the packet-loss tracker                   *)
(* (packet_loss_tracker.go) that sees the packets in play-out order.       *)
(*                                                                         *)
(* The sender emits packet n at time n with the sequence number and the    *)
(* RTP time stamp advanced by one each; the network loses, delays,         *)
(* reorders and duplicates packets.  Packets are named by n: the code only *)
(* sees Seq(n) and Ts(n).  routePackets adds packets, processJitterBuffer  *)
(* polls; the two share nothing but the buffer, whose mutex makes Add and  *)
(* Get atomic, so the loop of Get is written as steps that nothing can     *)
(* come between (polling).                                                 *)
(***************************************************************************)
EXTENDS Integers, Sequences, FiniteSets

CONSTANTS
    SeqModulus,           \* 2^16
    TsMod,            \* 2^32
    FirstSeq, FirstTs,\* what packet 0 carries
    MaxGap,           \* 100: the validator's MaxSequenceGap and the session's
                      \* and the tracker's limit for reordering
    MaxSize,          \* maxSize of the jitter buffer
    TargetDelay,      \* targetDelay
    MaxRecent,        \* maxRecentLosses
    MaxTime,          \* bound: the last packet
    MaxDelay,         \* the longest delay in the network
    Duplicates,       \* how many copies the network may add
    PollEvery         \* the longest time between two calls of Get

ASSUME WireAssumption ==
    /\ {SeqModulus, TsMod, FirstSeq, FirstTs} \subseteq Nat
    /\ SeqModulus > 1 /\ TsMod > 1
ASSUME ReceiveAssumption ==
    /\ {MaxGap, MaxSize, TargetDelay, MaxRecent, MaxTime} \subseteq Nat
    /\ {MaxDelay, Duplicates, PollEvery} \subseteq Nat
    /\ MaxSize > 0
\* Get is called every 10 ms, the target delay is 100 ms, and the period of the
\* time stamp is hours (session.go:150, :893).
ASSUME PaceAssumption ==
    PollEvery <= TargetDelay /\ TsMod > MaxDelay + 2 * TargetDelay

Packets == 0 .. MaxTime
NoSeq == -1

VARIABLES
    now,              \* the time at sender and receiver
    arrived,          \* the packets that have arrived
    copies,           \* how many copies have
    lastValid,        \* ssrcTracker.lastSequence
    session,          \* the sequence fields of SessionStats; `first` names
                      \* the packet that set InitialSequence
    heap,             \* JitterBuffer.packets
    seqSeen,          \* JitterBuffer.seqSeen
    base,             \* baseTime and baseTS; `first` names the packet that set them
    polling,          \* inside Get
    sincePoll,        \* the time since the last Get
    tracker,          \* the PacketLossTracker; `first` names the packet that
                      \* set baseSeq
    received,         \* ghost: the packets the session has counted
    arrivedAt,        \* ghost: when each packet in the buffer arrived
    played,           \* ghost: the packets handed to the depacketizer
    lastPlayed,       \* ghost: the last of them, -1 before the first
    replayed,         \* ghost: packets played twice
    overtaken,        \* ghost: packets played after a later one
    tardy,            \* ghost: packets of which a copy came as late as the
                      \* target delay, or later
    cameAgain,        \* ghost: packets of which a copy came after they were played
    punctualLost      \* ghost: packets that came in good time and were
                      \* dropped as late

network == <<now, arrived, copies>>
counting == <<session, received>>
buffer  == <<heap, seqSeen, base>>
playing == <<played, lastPlayed, replayed, overtaken>>
ghosts  == <<arrivedAt, tardy, cameAgain, punctualLost>>
vars    == <<network, lastValid, counting, buffer, polling, sincePoll, tracker,
             playing, ghosts>>

Seq16(n) == (FirstSeq + n) % SeqModulus
Ts(n)    == (FirstTs + n) % TsMod

\* The difference of two unsigned numbers of the given width as a signed one
\* (int16(a - b), int32(a - b)).
Signed(diff, mod) ==
    LET r == diff % mod IN IF 2 * r >= mod THEN r - mod ELSE r

Init ==
    /\ now = 0
    /\ arrived = {}
    /\ copies = 0
    /\ lastValid = NoSeq
    /\ session = [last |-> NoSeq, lost |-> 0, reordered |-> 0, resets |-> 0,
                  first |-> -1]
    /\ received = {}
    /\ heap = {}
    /\ seqSeen = {}
    /\ base = [set |-> FALSE, time |-> 0, ts |-> 0, first |-> 0]
    /\ polling = FALSE
    /\ sincePoll = 0
    /\ tracker = [high |-> NoSeq, cycles |-> 0, lost |-> 0, recovered |-> 0,
                  recent |-> <<>>, first |-> -1]
    /\ arrivedAt = [n \in Packets |-> -1]
    /\ played = {}
    /\ lastPlayed = -1
    /\ replayed = {}
    /\ overtaken = {}
    /\ punctualLost = {}
    /\ tardy = {}
    /\ cameAgain = {}

----------------------------------------------------------------------------
(* Validator and session statistics *)

\* ValidatePacket: the first packet of a source sets the mark; after that a
\* packet further than MaxGap from the last valid one is refused, and the mark
\* stays.
Abs(d) == IF d < 0 THEN -d ELSE d

SequenceValid(seq) ==
    \/ lastValid = NoSeq
    \/ LET gap == Abs(Signed(seq - lastValid, SeqModulus)) IN gap <= 1 \/ gap <= MaxGap

\* The loss, reordering and reset counters of ProcessPacket.
CountSequence(s, n) ==
    LET seq  == Seq16(n)
        gap  == Signed(seq - s.last, SeqModulus)
        next == [s EXCEPT !.last = seq]
    IN  IF s.last = NoSeq THEN [next EXCEPT !.first = n]
        ELSE IF gap = 0 THEN next
        ELSE IF gap > 0 /\ gap < MaxGap
             THEN [next EXCEPT !.lost = @ + gap - 1]
        ELSE IF gap < 0 /\ gap > -MaxGap
             THEN [next EXCEPT !.reordered = @ + 1]
        ELSE [next EXCEPT !.resets = @ + 1]

----------------------------------------------------------------------------
(* Jitter buffer *)

\* packetHeap.Less
Less(m, n) ==
    LET diff == Seq16(m) - Seq16(n)
        half == SeqModulus \div 2
    IN  (IF diff > half THEN diff - SeqModulus
         ELSE IF diff < -half THEN diff + SeqModulus ELSE diff) < 0

\* The root of the heap.  (Less is a total order on packets that lie less than
\* half the number space apart; a buffer never spans more.)
IsRoot(n, h) == n \in h /\ \A m \in h : ~Less(m, n)

\* Mutant of Insert: the number of the packet that is given up stays.
InsertKeepsSeen(n) ==
    \E victim \in heap \cup {n} :
      /\ IF Cardinality(heap) >= MaxSize
         THEN IsRoot(victim, heap) /\ heap' = (heap \ {victim}) \cup {n}
         ELSE victim = n /\ heap' = heap \cup {n}
      /\ seqSeen' = seqSeen \cup {Seq16(n)}

\* Add, for a packet that is not a duplicate; `victim` is the packet a full
\* buffer gives up.
Insert(n) ==
    IF Cardinality(heap) >= MaxSize
    THEN \E victim \in heap :
           /\ IsRoot(victim, heap)
           /\ heap' = (heap \ {victim}) \cup {n}
           /\ seqSeen' = (seqSeen \cup {Seq16(n)}) \ {Seq16(victim)}
    ELSE /\ heap' = heap \cup {n}
         /\ seqSeen' = seqSeen \cup {Seq16(n)}

Add(n) ==
    /\ base' = IF base.set THEN base
               ELSE [set |-> TRUE, time |-> now, ts |-> Ts(n), first |-> n]
    /\ IF Seq16(n) \in seqSeen
       THEN UNCHANGED <<heap, seqSeen, arrivedAt>>
       ELSE /\ Insert(n)
            /\ arrivedAt' = [arrivedAt EXCEPT ![n] = now]

\* A copy of packet n reaches routePackets.
Arrive(n) ==
    /\ ~polling
    /\ n <= now /\ now - n <= MaxDelay
    /\ n \in arrived => copies < Duplicates
    /\ arrived' = arrived \cup {n}
    /\ copies' = IF n \in arrived THEN copies + 1 ELSE copies
    /\ IF SequenceValid(Seq16(n))
       THEN /\ lastValid' = Seq16(n)
            /\ session' = CountSequence(session, n)
            /\ received' = received \cup {n}
            /\ Add(n)
       ELSE UNCHANGED <<lastValid, counting, buffer, arrivedAt>>
    /\ tardy' = IF now - n >= TargetDelay THEN tardy \cup {n} ELSE tardy
    /\ cameAgain' = IF n \in played THEN cameAgain \cup {n} ELSE cameAgain
    /\ UNCHANGED <<now, polling, sincePoll, tracker, playing, punctualLost>>

\* Mutant of PlayoutTime: time stamps are compared as unsigned numbers.
PlayoutTimeUnsigned(n) == base.time + (Ts(n) - base.ts) + TargetDelay

\* When Get lets a packet go.  baseTS never moves.
PlayoutTime(n) == base.time + Signed(Ts(n) - base.ts, TsMod) + TargetDelay

Late(n) == now - PlayoutTime(n) > TargetDelay

----------------------------------------------------------------------------
(* Packet-loss tracker *)

\* recordLoss stores the lost numbers until the array is full.
RecordLoss(recent, from, count) ==
    LET room == MaxRecent - Len(recent)
        kept == IF count < room THEN count ELSE room
    IN  recent \o [i \in 1 .. kept |-> (from + i) % SeqModulus]

WasRecentlyLost(t, seq) == \E i \in DOMAIN t.recent : t.recent[i] = seq

\* ProcessSequence.  A duplicate of the highest number and a number far behind
\* are reported as errors and change nothing.
ProcessSequence(t, n) ==
    LET seq      == Seq16(n)
        distance == Signed(seq - t.high, SeqModulus)
    IN
    IF t.high = NoSeq THEN [t EXCEPT !.high = seq, !.first = n]
    ELSE IF distance > 0
         THEN [t EXCEPT !.high = seq,
                        !.cycles = @ + (IF seq < t.high THEN 1 ELSE 0),
                        !.lost = @ + distance - 1,
                        !.recent = RecordLoss(@, t.high, distance - 1)]
    ELSE IF distance < 0 /\ distance > -MaxGap /\ WasRecentlyLost(t, seq)
         THEN [t EXCEPT !.recovered = @ + 1]
    ELSE t

----------------------------------------------------------------------------
(* Play-out *)

StartPoll ==
    /\ ~polling
    /\ polling' = TRUE
    /\ UNCHANGED <<network, lastValid, counting, buffer, sincePoll, tracker,
                   playing, ghosts>>

Play(n) ==
    /\ tracker' = ProcessSequence(tracker, n)
    /\ played' = played \cup {n}
    /\ lastPlayed' = n
    /\ replayed' = replayed \cup ({n} \cap played)
    /\ overtaken' = IF n < lastPlayed THEN overtaken \cup {n} ELSE overtaken

\* One round of Get's loop: the root is due, and is played or dropped as late.
PopDue(n) ==
    /\ polling
    /\ IsRoot(n, heap)
    /\ now >= PlayoutTime(n)
    /\ heap' = heap \ {n}
    /\ seqSeen' = seqSeen \ {Seq16(n)}
    /\ IF Late(n)
       THEN /\ punctualLost' = IF arrivedAt[n] - n <= TargetDelay
                               THEN punctualLost \cup {n} ELSE punctualLost
            /\ UNCHANGED <<tracker, playing>>
       ELSE Play(n) /\ UNCHANGED punctualLost
    /\ arrivedAt' = [arrivedAt EXCEPT ![n] = -1]
    /\ UNCHANGED <<network, lastValid, counting, base, polling, sincePoll, tardy,
                   cameAgain>>

\* The root is not due, or the buffer is empty.
EndPoll ==
    /\ polling
    /\ \A n \in heap : IsRoot(n, heap) => now < PlayoutTime(n)
    /\ polling' = FALSE
    /\ sincePoll' = 0
    /\ UNCHANGED <<network, lastValid, counting, buffer, tracker, playing, ghosts>>

----------------------------------------------------------------------------

\* Time passes, and the ticker of processJitterBuffer keeps its interval.
Tick ==
    /\ ~polling
    /\ now < MaxTime /\ sincePoll < PollEvery
    /\ now' = now + 1
    /\ sincePoll' = sincePoll + 1
    /\ UNCHANGED <<arrived, copies, lastValid, counting, buffer, polling, tracker,
                   playing, ghosts>>

Next ==
    \/ \E n \in Packets : Arrive(n) \/ PopDue(n)
    \/ StartPoll \/ EndPoll
    \/ Tick

Spec == Init /\ [][Next]_vars

----------------------------------------------------------------------------
(* Properties *)

\* The duplicate filter of the jitter buffer (jitter_buffer.go:111-121, 181-186)
\* remembers exactly the sequence numbers that wait in the buffer: however a
\* packet leaves it - played, dropped as late, pushed out by overflow - its
\* number is forgotten with it, and no two packets in it share a number, so the
\* buffer also keeps its size.
SeenExact ==
    /\ seqSeen = {Seq16(n) : n \in heap}
    /\ \A m, n \in heap : Seq16(m) = Seq16(n) => m = n
    /\ Cardinality(heap) <= MaxSize

\* What the buffer is for (jitter_buffer.go:11), across the wrap of the 16-bit
\* sequence number and of the 32-bit time stamp and whatever is lost, pushed out
\* or late around it: a packet is handed to the depacketizer before every later
\* one unless a copy of it took as long as the target delay.  It is handed on
\* once, unless a copy came after it was played: the filter has forgotten it by
\* then (:186).  No copy that took less than the target delay comes so late.
PlayedInOrder ==
    /\ overtaken \subseteq tardy
    /\ replayed \subseteq cameAgain /\ cameAgain \subseteq tardy

\* Half the range of the time stamp, or more, after the packet that set baseTS
\* (six and a half hours at 90 kHz).
FarFromBase(n) == base.set /\ 2 * (n - base.first) >= TsMod

\* A packet that arrives no more than the target delay after it was sent is not
\* dropped as late, within half the range of the time stamp from the packet that
\* set baseTS.  From there on every packet is, whenever it arrives: baseTS never
\* moves and the difference turns negative (jitter_buffer.go:166, :179).
PunctualPlayed ==
    /\ \A n \in punctualLost : FarFromBase(n)
    /\ \A n \in played : ~ FarFromBase(n)

\* The packets missing among those from `first` to the latest member of `got`.
Missing(first, got) ==
    {n \in first .. MaxTime : n \notin got /\ \E m \in got : m > n}

\* What the tracker reports as unrecoverable loss (packet_loss_tracker.go:224)
\* is exactly the number of packets that were never played, counted from the
\* first one played, whatever was reordered, lost, dropped or recovered, unless
\* a copy was played of a packet already played.
LossExact ==
    replayed = {} =>
      tracker.lost - tracker.recovered
        = Cardinality(IF played = {} THEN {} ELSE Missing(tracker.first, played))

\* The extended sequence number (packet_loss_tracker.go:110-115) names the latest
\* packet played: the wraps are all counted, reordering around a wrap included.
ExtendedExact ==
    played # {} =>
      \E n \in played :
        /\ \A m \in played : m <= n
        /\ tracker.high + tracker.cycles * SeqModulus
             = FirstSeq + n - SeqModulus * ((FirstSeq + tracker.first) \div SeqModulus)

\* What the tracker reports is right: the loss and the extended number.
TrackerExact == LossExact /\ ExtendedExact

\* The session's own loss counter (session.go:836-872) follows the packet that
\* came last, not the highest, and so counts too much after a reordering; it
\* never counts too little while the gaps are small enough to be counted.
SessionLossNotUnderstated ==
    session.resets = 0 =>
      session.lost
        >= Cardinality(IF received = {} THEN {} ELSE Missing(session.first, received))

\* What becomes of a packet and what is counted of it: within half the range of
\* the time stamp punctual packets are played, in order and, copies that come
\* after the play aside, once; and no loss stays hidden from the tracker or the
\* session (jitter_buffer.go, packet_loss_tracker.go, session.go:836-872).
ReceiveExact ==
    PlayedInOrder /\ PunctualPlayed /\ TrackerExact /\ SessionLossNotUnderstated
=============================================================================
