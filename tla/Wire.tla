-------------------------------- MODULE Wire --------------------------------
(***************************************************************************)
(* The framing of the control channel between the gateway and the modem    *)
(* VM: vm/qemu-runner/wire.js at the host, wire_write() and                *)
(* wire_try_parse() of vm/ctrl/modemd-ctrl.c in the VM.                    *)
(*                                                                         *)
(* Bytes are numbers, the stream is cut anywhere.  A frame is a length     *)
(* (two bytes, little-endian, counting the type), a type and a payload.    *)
(***************************************************************************)
EXTENDS Naturals, Sequences, SequencesExt

CONSTANTS
  Types,        \* message types that are sent, known to the reader or not
  Bytes,        \* values of payload bytes
  Sizes,        \* payload sizes that are tried
  MaxPayload,   \* WIRE_MAX_PAYLOAD
  HostFrames,   \* bound: frames written by the host
  VmFrames,     \* bound: frames written by the VM
  BadHeaders    \* bound: headers with a bad length that reach the host

ConstantsOK ==
  /\ Types \subseteq 0 .. 255 /\ Bytes \subseteq 0 .. 255
  /\ MaxPayload \in 1 .. 65533 /\ Sizes \subseteq Nat
  /\ HostFrames \in Nat /\ VmFrames \in Nat /\ BadHeaders \in {0, 1}

VARIABLES
  toHost, toVm,         \* bytes on the way
  buf, dead,            \* this._buf and this._dead of the host's Parser
  errors,               \* its 'error' events
  rxBuf,                \* S.ctrl_rx_buf
  sentVm, rcvdVm,       \* frames written by the host, handled in the VM
  sentHost, rcvdHost,   \* frames written by the VM, emitted at the host
  bad                   \* bad headers so far

hostVars == <<buf, dead, errors>>
vars == <<toHost, toVm, hostVars, rxBuf, sentVm, rcvdVm, sentHost, rcvdHost,
          bad>>

HeaderSize == 3      \* WIRE_HEADER_SIZE

Payloads == UNION {[1 .. n -> Bytes] : n \in Sizes}
Frame == [type : Types, payload : Payloads]

LowByte(n)  == n % 256
HighByte(n) == n \div 256

Header(len, type) == <<LowByte(len), HighByte(len), type>>

(* encode(), wire_encode_header().                                         *)
Encode(f) == Header(Len(f.payload) + 1, f.type) \o f.payload

WireLen(s) == s[1] + 256 * s[2]

(* Mutant: a frame is taken to be as long as its length field says.        *)
FrameSizeLong(s) == HeaderSize + WireLen(s)

FrameSize(s) == HeaderSize + WireLen(s) - 1

-----------------------------------------------------------------------------
TypeOK ==
  /\ \A s \in {toHost, toVm, buf, rxBuf} : s \in Seq(0 .. 255)
  /\ dead \in BOOLEAN
  /\ errors \in Nat /\ bad \in 0 .. BadHeaders
  /\ \A s \in {sentVm, rcvdVm, sentHost, rcvdHost} :
       \A i \in DOMAIN s : s[i].type \in 0 .. 255 /\ Len(s[i].payload) <= MaxPayload

Init ==
  /\ toHost = <<>> /\ toVm = <<>>
  /\ buf = <<>> /\ dead = FALSE /\ errors = 0
  /\ rxBuf = <<>>
  /\ sentVm = <<>> /\ rcvdVm = <<>> /\ sentHost = <<>> /\ rcvdHost = <<>>
  /\ bad = 0

-----------------------------------------------------------------------------
(* The host writes: encode() throws a RangeError for what is too long.     *)
HostWrites(f) ==
  /\ Len(sentVm) < HostFrames
  /\ Len(f.payload) <= MaxPayload
  /\ toVm' = toVm \o Encode(f)
  /\ sentVm' = Append(sentVm, f)
  /\ UNCHANGED <<toHost, hostVars, rxBuf, rcvdVm, sentHost, rcvdHost, bad>>

(* wire_write() refuses what is too long.                                  *)
VmWrites(f) ==
  /\ Len(sentHost) < VmFrames
  /\ Len(f.payload) <= MaxPayload
  /\ toHost' = toHost \o Encode(f)
  /\ sentHost' = Append(sentHost, f)
  /\ UNCHANGED <<toVm, hostVars, rxBuf, sentVm, rcvdVm, rcvdHost, bad>>

(* The stream to the host loses its framing: no length can be trusted from *)
(* here on.  The first that shows it is 0 or too large.                    *)
Desync(len) ==
  /\ bad < BadHeaders
  /\ len \in {0, MaxPayload + 2}
  /\ bad' = bad + 1
  /\ toHost' = toHost \o Header(len, 0)
  /\ UNCHANGED <<toVm, hostVars, rxBuf, sentVm, rcvdVm, sentHost, rcvdHost>>

-----------------------------------------------------------------------------
(* The host's Parser.                                                      *)

(* Mutant: only an empty frame is refused.                                 *)
BadLengthLow(s) == WireLen(s) < 1

BadLength(s) == WireLen(s) < 1 \/ WireLen(s) > MaxPayload + 1

(* The loop of feed(): the frames that are complete, what is left, and     *)
(* whether it ended in _fatal().                                           *)
Feed[s \in Seq(0 .. 255)] ==
  IF Len(s) < HeaderSize THEN [frames |-> <<>>, rest |-> s, fatal |-> FALSE]
  ELSE IF BadLength(s) THEN [frames |-> <<>>, rest |-> <<>>, fatal |-> TRUE]
  ELSE IF Len(s) < FrameSize(s)
       THEN [frames |-> <<>>, rest |-> s, fatal |-> FALSE]
  ELSE LET f == [type |-> s[3], payload |-> SubSeq(s, HeaderSize + 1, FrameSize(s))]
           more == Feed[SubSeq(s, FrameSize(s) + 1, Len(s))]
       IN [more EXCEPT !.frames = <<f>> \o @]

(* Mutant: a parser that met an error goes on with what comes next.        *)
HostReadsOn(k) ==
  /\ k <= Len(toHost)
  /\ toHost' = SubSeq(toHost, k + 1, Len(toHost))
  /\ LET d == Feed[buf \o SubSeq(toHost, 1, k)] IN
       /\ buf' = d.rest
       /\ dead' = d.fatal
       /\ errors' = errors + (IF d.fatal THEN 1 ELSE 0)
       /\ rcvdHost' = rcvdHost \o d.frames
  /\ UNCHANGED <<toVm, rxBuf, sentVm, rcvdVm, sentHost, bad>>

(* feed(): nobody calls reset(), so an error is for good.                  *)
HostReads(k) ==
  /\ k <= Len(toHost)
  /\ toHost' = SubSeq(toHost, k + 1, Len(toHost))
  /\ IF dead THEN UNCHANGED <<hostVars, rcvdHost>>
     ELSE LET d == Feed[buf \o SubSeq(toHost, 1, k)] IN
            /\ buf' = d.rest
            /\ dead' = d.fatal
            /\ errors' = errors + (IF d.fatal THEN 1 ELSE 0)
            /\ rcvdHost' = rcvdHost \o d.frames
  /\ UNCHANGED <<toVm, rxBuf, sentVm, rcvdVm, sentHost, bad>>

-----------------------------------------------------------------------------
(* wire_try_parse(): it returns a pointer into the buffer and, before the  *)
(* caller looks at it, moves what follows the frame to the front.          *)
Memory(s, rest) == [i \in DOMAIN s |-> IF i <= Len(rest) THEN rest[i] ELSE s[i]]

(* Mutant: the type is read after the move.                                *)
TryParseLate(s) ==
  LET rest == SubSeq(s, FrameSize(s) + 1, Len(s))
  IN [type |-> Memory(s, rest)[3], rest |-> rest,
      payload |-> SubSeq(Memory(s, rest), HeaderSize + 1, FrameSize(s))]

TryParse(s) ==
  LET rest == SubSeq(s, FrameSize(s) + 1, Len(s))
  IN [type |-> s[3], rest |-> rest,
      payload |-> SubSeq(Memory(s, rest), HeaderSize + 1, FrameSize(s))]

(* The loop of handle_host_control_readable().                             *)
VmFeed[s \in Seq(0 .. 255)] ==
  IF Len(s) < HeaderSize \/ Len(s) < FrameSize(s)
  THEN [frames |-> <<>>, rest |-> s]
  ELSE LET p == TryParse(s)
           more == VmFeed[p.rest]
       IN [more EXCEPT !.frames =
             <<[type |-> p.type, payload |-> p.payload]>> \o @]

(* Without room the poll loop would end: "host_control rx buffer full".    *)
RxRoom == MaxPayload + HeaderSize - Len(rxBuf)

VmReads(k) ==
  /\ k <= Len(toVm) /\ k <= RxRoom
  /\ toVm' = SubSeq(toVm, k + 1, Len(toVm))
  /\ LET d == VmFeed[rxBuf \o SubSeq(toVm, 1, k)] IN
       /\ rxBuf' = d.rest
       /\ rcvdVm' = rcvdVm \o d.frames
  /\ UNCHANGED <<toHost, hostVars, sentVm, sentHost, rcvdHost, bad>>

-----------------------------------------------------------------------------
HostFeeds == \E k \in 1 .. Len(toHost) : HostReads(k)
VmFeeds   == \E k \in 1 .. Len(toVm) : VmReads(k)

(* The two directions have nothing to do with each other.                  *)
NextToHost ==
  \/ \E f \in Frame : VmWrites(f)
  \/ \E len \in {0, MaxPayload + 2} : Desync(len)
  \/ HostFeeds

NextToVm ==
  \/ \E f \in Frame : HostWrites(f)
  \/ VmFeeds

Next == NextToHost \/ NextToVm

Spec == Init /\ [][Next]_vars

(* Both ends read what arrives.                                            *)
Fairness == WF_vars(HostFeeds) /\ WF_vars(VmFeeds)
FairSpec == Spec /\ Fairness

-----------------------------------------------------------------------------
(* The host gets the VM's frames whole and in order, wherever the stream   *)
(* is cut and whatever their type, until the stream loses its framing.     *)
HostWard == INSTANCE FrameFifo WITH sent <- sentHost, received <- rcvdHost,
                                    up <- ~dead
FramesToHost == HostWard!Order
AllReachHost == HostWard!Arrival

(* A stream that lost its framing is noticed once, and nothing is made of  *)
(* the bytes behind it.                                                    *)
DesyncIsFatal ==
  /\ errors <= bad
  /\ IsPrefix(rcvdHost, sentHost)

(* modemd-ctrl sees as many frames as were written, of the type they were  *)
(* written with, and its buffer never fills up.                            *)
VmSeesTypes ==
  /\ Len(rcvdVm) <= Len(sentVm)
  /\ \A i \in DOMAIN rcvdVm :
       /\ rcvdVm[i].type = sentVm[i].type
       /\ Len(rcvdVm[i].payload) = Len(sentVm[i].payload)
  /\ RxRoom > 0

(* modemd-ctrl.c on wire_try_parse(): "`payload` points inside `buf` and   *)
(* remains valid only until the next call that modifies buf" - so what is  *)
(* handled is what was sent.                                               *)
PayloadIntact == IsPrefix(rcvdVm, sentVm)

(* The host makes of the stream what was sent, until it is lost.           *)
ToHostSafe == TypeOK /\ DesyncIsFatal

(* The VM sees every frame with its type and length, wherever it was cut.  *)
ToVmSafe == TypeOK /\ VmSeesTypes

=============================================================================
