----------------------------- MODULE RtpPlayout ------------------------------
(***************************************************************************)
(* The receiving half of an RTP session (src/rtp/RtpSession.js): packets   *)
(* arrive late, out of order, twice or never, and are played by a timer in *)
(* the order of their sequence numbers, which wrap.                        *)
(*                                                                         *)
(* Packet n of the sender, n = 0, 1, 2, ..., has the number                *)
(* (First + n) % Width.  The last packets the buffer holds are listed in   *)
(* order of arrival; one that has the number of another replaces it.       *)
(***************************************************************************)
EXTENDS Integers, Sequences

CONSTANTS
  Modes,        \* the playout modes that are tried
  Width,        \* 2^16 in the code
  First,        \* the sender's first sequence number
  InitDepth,    \* cfg.jitterBufferInitDepth
  MaxDepth,     \* cfg.jitterBufferMaxDepth (fixed) and ...MaxPackets
  MissSkip,     \* cfg.jitterBufferMissSkipTicks
  SkipDepth,    \* cfg.jitterBufferPackets
  MaxGap,       \* cfg.maxSeqGap
  Packets,      \* bound: packets sent
  Lost,         \* packets that never arrive
  Late,         \* bound: packets sent while one is on its way
  Twice         \* bound: packets that arrive a second time

ConstantsOK ==
  /\ Modes \subseteq {"buffered", "immediate", "fixed-buffered"}
  /\ {Width, Packets, Late} \subseteq Nat
  /\ Width % 2 = 0 /\ Packets < Width \div 2
  /\ First \in 0 .. Width - 1
  /\ {InitDepth, MaxDepth, MissSkip, SkipDepth, MaxGap} \subseteq Nat \ {0}
  /\ Lost \subseteq 0 .. Packets - 1 /\ Twice \in Nat

VARIABLES
  mode,       \* _playoutMode
  sent,       \* packets sent
  net,        \* packets on their way
  twice,      \* second copies so far
  buf,        \* _jitterBuf: packets held, by arrival
  next,       \* _nextPlaySeq
  misses,     \* _silenceCount, up to MissSkip
  running,    \* the session is open
  out         \* what 'audio' events carried: packets, -1 for silence

vars == <<mode, sent, net, twice, buf, next, misses, running, out>>
network == <<sent, net, twice>>

NoSeq == -1
Silence == -1
Seq16(n) == (First + n) % Width
Held == {buf[i] : i \in DOMAIN buf}

(* ((a - b) << 16) >> 16                                                   *)
Distance(a, b) ==
  LET d == (a - b) % Width IN IF d < Width \div 2 THEN d ELSE d - Width

-----------------------------------------------------------------------------
TypeOK ==
  /\ mode \in Modes
  /\ sent \in 0 .. Packets /\ net \subseteq 0 .. Packets - 1 /\ twice \in 0 .. Twice
  /\ buf \in Seq(0 .. Packets - 1) /\ Len(buf) <= MaxDepth
  /\ \A i, j \in DOMAIN buf : Seq16(buf[i]) = Seq16(buf[j]) => i = j
  /\ next \in 0 .. Width - 1 \cup {NoSeq}
  /\ misses \in 0 .. MissSkip
  /\ running \in BOOLEAN
  /\ out \in Seq(-1 .. Packets - 1)

Init ==
  /\ mode \in Modes
  /\ sent = 0 /\ net = {} /\ twice = 0
  /\ buf = <<>> /\ next = NoSeq /\ misses = 0 /\ running = TRUE /\ out = <<>>

-----------------------------------------------------------------------------
(* The other end sends a packet every 20 ms, in an outage too.             *)
SenderSends ==
  /\ sent < Packets
  /\ sent' = sent + 1
  /\ net' = IF sent \in Lost THEN net ELSE net \cup {sent}
  /\ UNCHANGED <<mode, twice, buf, next, misses, running, out>>

(* Map.delete(): without the packet that has the number.                   *)
Without(b, seq) ==
  LET at == {i \in DOMAIN b : Seq16(b[i]) = seq}
      i  == CHOOSE i \in at : TRUE
  IN IF at = {} THEN b ELSE SubSeq(b, 1, i - 1) \o SubSeq(b, i + 1, Len(b))

(* Map.set(); the time of arrival is the new one's.                        *)
Insert(b, n) == Append(Without(b, Seq16(n)), n)

(* Mutant: the buffer grows.                                               *)
NoCap(b) == b

(* Too many: _flushOldest(), by time of arrival.                           *)
Cap(b) == IF Len(b) > MaxDepth THEN Tail(b) ELSE b

(* Mutant: the smallest number.                                            *)
EarliestNumber(b) ==
  CHOOSE s \in {Seq16(b[i]) : i \in DOMAIN b} :
    \A i \in DOMAIN b : s <= Seq16(b[i])

(* The number playout starts with.                                         *)
Earliest(b) ==
  LET scan[i \in 1 .. Len(b)] ==
        IF i = 1 THEN Seq16(b[1])
        ELSE IF Distance(Seq16(b[i]), scan[i - 1]) < 0 THEN Seq16(b[i])
        ELSE scan[i - 1]
  IN scan[Len(b)]

(* _onPacket()                                                             *)
OnPacket(n) ==
  IF mode = "immediate"
  THEN /\ out' = Append(out, n)
       /\ UNCHANGED <<buf, next>>
  ELSE LET b == Insert(buf, n)
       IN /\ next' = IF next # NoSeq THEN next
                     ELSE IF mode = "buffered" THEN Seq16(n)
                     ELSE IF Len(b) >= InitDepth THEN Earliest(b)
                     ELSE NoSeq
          /\ buf' = Cap(b)
          /\ UNCHANGED out

(* The network delivers a packet, perhaps not for the last time.           *)
Deliver(n) ==
  /\ running /\ n \in net /\ sent - n <= Late
  /\ \/ net' = net \ {n} /\ UNCHANGED twice
     \/ twice < Twice /\ twice' = twice + 1 /\ UNCHANGED net
  /\ OnPacket(n)
  /\ UNCHANGED <<mode, sent, misses, running>>

(* Mutant: nothing beyond the next number is looked for.                   *)
SkipOne(seq, gap) ==
  IF \E n \in Held : Distance(Seq16(n), seq) = 1 THEN (seq + 1) % Width ELSE seq

(* Mutant: the last one held.                                              *)
SkipFar(seq, gap) ==
  LET ahead == {d \in 1 .. gap : \E n \in Held : Distance(Seq16(n), seq) = d}
  IN IF ahead = {} THEN seq
     ELSE (seq + CHOOSE d \in ahead : \A e \in ahead : e <= d) % Width

(* The nearest number after seq that is held and not too far away, or seq. *)
SkipTo(seq, gap) ==
  LET ahead == {d \in 1 .. gap : \E n \in Held : Distance(Seq16(n), seq) = d}
  IN IF ahead = {} THEN seq
     ELSE (seq + CHOOSE d \in ahead : \A e \in ahead : d <= e) % Width

(* Mutant: the packet stays in the buffer, and so does the pointer.        *)
PlayKeeps(n) ==
  /\ out' = Append(out, n) /\ misses' = 0
  /\ UNCHANGED <<buf, next>>

Play(n) ==
  /\ buf' = Without(buf, next)
  /\ next' = (next + 1) % Width
  /\ out' = Append(out, n)
  /\ misses' = 0

(* A miss in the mode for modems: no sound; the pointer moves after        *)
(* MissSkip of them.                                                       *)
MissFixed ==
  /\ LET count == IF misses < MissSkip THEN misses + 1 ELSE misses
         to == IF count >= MissSkip THEN SkipTo(next, MaxGap) ELSE next
     IN next' = to /\ misses' = IF to = next THEN count ELSE 0
  /\ UNCHANGED <<buf, out>>

(* A miss in the mode for voice: a frame of silence.                       *)
MissBuffered ==
  /\ next' = IF Len(buf) >= SkipDepth THEN SkipTo(next, MaxGap) ELSE next
  /\ misses' = IF misses < MissSkip THEN misses + 1 ELSE misses
  /\ out' = Append(out, Silence)
  /\ UNCHANGED buf

(* _playoutTick(); frames of silence are bounded.                          *)
Tick ==
  /\ running /\ next # NoSeq
  /\ \/ \E n \in Held : Seq16(n) = next /\ Play(n)
     \/ /\ \A n \in Held : Seq16(n) # next
        /\ \/ mode = "fixed-buffered" /\ MissFixed
           \/ mode = "buffered" /\ Len(out) < Packets /\ MissBuffered
  /\ UNCHANGED <<mode, running, network>>

(* close()                                                                 *)
Close ==
  /\ running
  /\ running' = FALSE
  /\ UNCHANGED <<mode, buf, next, misses, out, network>>

-----------------------------------------------------------------------------
Next ==
  SenderSends \/ (\E n \in net : Deliver(n)) \/ Tick \/ Close

Spec == Init /\ [][Next]_vars

(* The sender goes on, what is not lost arrives, the timer fires.          *)
FairSpec ==
  /\ Spec
  /\ WF_vars(SenderSends) /\ WF_vars(Tick)
  /\ \A n \in 0 .. Packets - 1 : WF_vars(Deliver(n))

(* The sender's clock and the timer's have the same period: a frame goes   *)
(* out for every packet sent, the first after Late of them at most.        *)
InStep == Len(out') <= sent' /\ sent' <= Len(out') + Late
PacedSpec == Init /\ [][Next /\ InStep]_vars

-----------------------------------------------------------------------------
Played == {i \in DOMAIN out : out[i] # Silence}

(* What is played through the buffer is played once and in the sender's    *)
(* order, across wraps, skips and late copies.                             *)
InOrder ==
  mode # "immediate" =>
    \A i, j \in Played : i < j => out[i] < out[j]

(* Playout never passes by a packet it holds: what is held and in front of *)
(* the pointer is played, or still in front of it, or gone in an overflow. *)
Ahead(n) == next # NoSeq /\ Distance(Seq16(n), next) >= 0
PassesNothingHeld ==
  [][\A n \in Held :
       Ahead(n) => Ahead(n)' \/ (Len(out') > Len(out) /\ out'[Len(out')] = n)]_vars

(* Playout starts with the earliest packet it holds.                       *)
StartsAtEarliest ==
  [][next = NoSeq /\ next' # NoSeq =>
       \A n \in Held : Distance(Seq16(n), next') >= 0]_vars

(* A packet that is held in front of the pointer is played, flushed, or    *)
(* the session closed: playout comes to it whatever was lost before it.    *)
PlaysOn ==
  \A n \in 0 .. Packets - 1 :
    (mode = "fixed-buffered" /\ n \in Held /\ Ahead(n))
      ~> (n \notin Held \/ ~running)

(* config.js: "Without this the buffer could stall forever if a packet was *)
(* truly lost in transit."                                                 *)
NeverStalls == PlaysOn

(* RtpSession.js: "Drop stale packets": with any number of packets, wraps  *)
(* of their numbers included, one that comes too late is not played.       *)
StaleDropped == InOrder

(* Playout is in order, starts at the earliest packet and passes by none   *)
(* that it holds.                                                          *)
PlayoutHolds ==
  /\ [](TypeOK /\ InOrder)
  /\ PassesNothingHeld /\ StartsAtEarliest

=============================================================================
