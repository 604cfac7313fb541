---------------------------- MODULE UdpTcpTunnel ----------------------------
(***************************************************************************)
(* The tunnel that carries the datagrams of the SIP, RTP and RTCP channels *)
(* over the one byte stream between host and VM: src/tunnel/UdpTcpTunnel.js *)
(* at the host, vm/tunnel/modemd-tunnel.c in the VM.  TCP keeps the order  *)
(* of the bytes and cuts them anywhere.                                    *)
(*                                                                         *)
(* Bytes are cells: two for the length, one for channel and ports, and the *)
(* payload.  A channel has one consumer at each end (the client's or the   *)
(* bridge's socket at the host, PJSIP's in the VM), so an end has learnt   *)
(* its consumer's address or has not.                                      *)
(***************************************************************************)
EXTENDS Naturals, Sequences, SequencesExt

CONSTANTS
  Channels,      \* channels with a consumer
  VmPort,        \* this.vmPorts: the well-known port or another
  MaxPayload,    \* MAX_PAYLOAD, in cells
  StageSize,     \* STAGE_BUF_SIZE of the VM's end, in cells
  HostFrames,    \* bound: frames handed in at the host
  VmFrames       \* bound: frames sent by the VM's end, copies of echoes apart

HdrFixed == 1    \* FRAME_HDR_FIXED
LenCells == 2    \* FRAME_LEN_BYTES

ConstantsOK ==
  /\ Channels \cap {"echo", "unknown"} = {}
  /\ VmPort \in {"wellKnown", "other"}
  /\ MaxPayload \in Nat \ {0} /\ HostFrames \in Nat /\ VmFrames \in Nat
  \* The largest frame fits: the code has twice that.
  /\ StageSize \in Nat /\ StageSize >= LenCells + HdrFixed + MaxPayload

VARIABLES
  (* The host's end. *)
  state,         \* this.state
  tcp,           \* "none", "connecting" or "up" (the connection is attached)
  udp,           \* its UDP sockets are bound
  hostStage,     \* this.stage
  hostPeer,      \* channels whose consumer is in this.learnedPeer
  hostHeard,     \* channels on which a frame of the VM's consumer has arrived
  errors,        \* 'error' events were emitted
  (* The VM's end. *)
  vmStage,       \* S.stage[0 .. stage_len - 1]
  vmPeer,        \* channels with peer_learned
  vmHeard,       \* channels on which a frame of the host's consumer has come
  (* The streams, and what went in and came out. *)
  toVm, toHost,
  sentVm, rcvdVm, sentHost, rcvdHost,
  strays             \* what was not delivered to the consumer, and where

host == <<state, tcp, udp, hostStage, hostPeer, hostHeard, errors>>
guest == <<vmStage, vmPeer, vmHeard>>
log == <<sentVm, rcvdVm, sentHost, rcvdHost>>
vars == <<host, guest, toVm, toHost, log, strays>>

-----------------------------------------------------------------------------
(* Frames.  "unknown" is a channel number neither end knows.  src names    *)
(* who wrote the payload; dst is the consumer's port or the well-known     *)
(* one; re: it answers a datagram of the other end's consumer.             *)
Lengths == 0 .. MaxPayload + 1

Payload == [ch : Channels \cup {"echo", "unknown"},
            src : {"consumer", "tunnel"}, dst : {"other", "wellKnown"},
            re : BOOLEAN, size : Lengths]

Frame == {f \in Payload : f.size <= MaxPayload}

(* A cell, as the frame and place it comes from, and as the number it is.  *)
Cell == [of : Payload, pos : 1 .. LenCells + HdrFixed + MaxPayload + 1,
         n : 0 .. HdrFixed + MaxPayload + 1]

(* _sendFrame(), send_frame(): header and payload, written in one go.      *)
Encode(f) ==
  [i \in 1 .. LenCells + HdrFixed + f.size |->
     [of |-> f, pos |-> i,
      n |-> IF i = 1 THEN HdrFixed + f.size
            ELSE IF i = LenCells THEN 0 ELSE MaxPayload]]

(* Those of frames that are written one after the other.                   *)
Cells[fs \in Seq(Frame)] ==
  IF fs = <<>> THEN <<>> ELSE Encode(Head(fs)) \o Cells[Tail(fs)]

Length(s) == s[1].n + s[2].n

(* Mutant: the length is taken to count its own field.                     *)
TotalShort(s) == Length(s)

Total(s) == LenCells + Length(s)

BadLength(s) == Len(s) >= LenCells /\ Length(s) > HdrFixed + MaxPayload

HasFrame(s) == Len(s) >= LenCells /\ ~BadLength(s) /\ Len(s) >= Total(s)

(* _drainStage(), drain_stage(): the frames that are complete, and what is *)
(* left of the stage.  A frame whose cells are not one frame's is Garbled. *)
Garbled == [ch |-> "unknown", src |-> "tunnel", dst |-> "wellKnown",
            re |-> FALSE, size |-> MaxPayload + 1]

Decode(cells) ==
  IF cells = Encode(cells[1].of) THEN cells[1].of ELSE Garbled

Drain[s \in Seq(Cell)] ==
  IF ~HasFrame(s) THEN [frames |-> <<>>, rest |-> s]
  ELSE LET more == Drain[SubSeq(s, Total(s) + 1, Len(s))]
       IN [more EXCEPT !.frames = <<Decode(SubSeq(s, 1, Total(s)))>> \o @]

(* Mutant: the stage is emptied once a frame has been processed.           *)
NothingKept(d) == IF d.frames = <<>> THEN d.rest ELSE <<>>

(* What stays in the stage.                                                *)
Kept(d) == d.rest

-----------------------------------------------------------------------------
TypeOK ==
  /\ state \in {"idle", "starting", "ready", "stopped"}
  /\ tcp \in {"none", "connecting", "up"}
  /\ udp \in BOOLEAN /\ errors \in BOOLEAN
  /\ hostStage \in Seq(Cell) /\ vmStage \in Seq(Cell)
  /\ {hostPeer, hostHeard, vmPeer, vmHeard} \subseteq SUBSET Channels
  /\ toVm \in Seq(Cell) /\ toHost \in Seq(Cell)
  /\ {sentVm, rcvdVm, sentHost, rcvdHost} \subseteq Seq(Frame)
  /\ strays \subseteq [at : {"host", "vm"}, to : {"dstPort", "nobody"},
                       re : BOOLEAN]

Init ==
  /\ state = "idle"
  /\ tcp = "none"
  /\ udp = FALSE /\ errors = FALSE
  /\ hostStage = <<>> /\ vmStage = <<>>
  /\ hostPeer = {} /\ hostHeard = {} /\ vmPeer = {} /\ vmHeard = {}
  /\ toVm = <<>> /\ toHost = <<>>
  /\ sentVm = <<>> /\ rcvdVm = <<>> /\ sentHost = <<>> /\ rcvdHost = <<>>
  /\ strays = {}

-----------------------------------------------------------------------------
(* Life of the host's end, in mode 'connect'.                              *)

(* start(): the UDP sockets are bound at once, the connection is awaited.  *)
Start ==
  /\ state = "idle"
  /\ state' = "starting"
  /\ tcp' = "connecting"
  /\ udp' = TRUE
  /\ UNCHANGED <<hostStage, hostPeer, hostHeard, errors, guest, toVm, toHost,
                 log, strays>>

(* The connection is attached, and start() goes on.                        *)
Connected ==
  /\ tcp = "connecting"
  /\ tcp' = "up"
  /\ state' = "ready"
  /\ UNCHANGED <<udp, hostStage, hostPeer, hostHeard, errors, guest, toVm,
                 toHost, log, strays>>

(* It is refused: start() calls stop() and throws.                         *)
Refused ==
  /\ tcp = "connecting"
  /\ tcp' = "none"
  /\ state' = "stopped"
  /\ udp' = FALSE
  /\ UNCHANGED <<hostStage, hostPeer, hostHeard, errors, guest, toVm, toHost,
                 log, strays>>

(* stop(): it closes what it knows of, which a connection that is being    *)
(* made is not.                                                            *)
Stop ==
  /\ state # "stopped"
  /\ state' = "stopped"
  /\ udp' = FALSE
  /\ tcp' = IF tcp = "up" THEN "none" ELSE tcp
  /\ toVm' = <<>> /\ toHost' = <<>>
  /\ UNCHANGED <<hostStage, hostPeer, hostHeard, errors, guest, log, strays>>

(* The VM is gone: _onTcpClose().                                          *)
TcpCloses ==
  /\ tcp = "up" /\ ~errors
  /\ errors' = (errors \/ state # "stopped")
  /\ tcp' = "none"
  /\ toVm' = <<>> /\ toHost' = <<>>
  /\ UNCHANGED <<state, udp, hostStage, hostPeer, hostHeard, guest, log, strays>>

-----------------------------------------------------------------------------
(* Into the tunnel.                                                        *)

(* Mutant: the size is not looked at.                                      *)
SendToVmAnySize(f) ==
  IF tcp # "up" THEN UNCHANGED <<toVm, sentVm>>
  ELSE toVm' = toVm \o Encode(f) /\ sentVm' = Append(sentVm, f)

(* _sendFrame(): nothing without a connection, nothing that is too large.  *)
SendToVm(f) ==
  IF tcp # "up" \/ f.size > MaxPayload THEN UNCHANGED <<toVm, sentVm>>
  ELSE toVm' = toVm \o Encode(f) /\ sentVm' = Append(sentVm, f)

(* send_frame(): the same limit at the other end.                          *)
Fits(f) == IF f.size <= MaxPayload THEN <<f>> ELSE <<>>

(* recvfrom() cuts off what its buffer, of the largest size, cannot take.   *)
Truncated(size) == IF size <= MaxPayload THEN size ELSE MaxPayload

SendToHost(fs) ==
  toHost' = toHost \o Cells[fs] /\ sentHost' = sentHost \o fs

(* _onUdp(): the consumer's datagram; its address is learnt first.         *)
HostDatagram(c, size) ==
  /\ udp /\ Len(sentVm) < HostFrames
  /\ hostPeer' = hostPeer \cup {c}
  /\ SendToVm([ch |-> c, src |-> "consumer", dst |-> VmPort,
               re |-> c \in hostHeard, size |-> size])
  /\ UNCHANGED <<state, tcp, udp, hostStage, hostHeard, errors, guest, toHost,
                 sentHost, rcvdVm, rcvdHost,
                 strays>>

(* injectFrame(): the registrar's answer to a frame it was shown.          *)
InjectFrame(c, size) ==
  /\ c \in hostHeard /\ Len(sentVm) < HostFrames
  /\ SendToVm([ch |-> c, src |-> "tunnel", dst |-> "other", re |-> TRUE,
               size |-> size])
  /\ UNCHANGED <<host, guest, toHost, sentHost, rcvdVm, rcvdHost,
                 strays>>

(* sendEcho(), and the same with a channel the VM does not know.           *)
SendEcho(ch, size) ==
  /\ Len(sentVm) < HostFrames
  /\ SendToVm([ch |-> ch, src |-> "tunnel", dst |-> "wellKnown", re |-> FALSE,
               size |-> size])
  /\ UNCHANGED <<host, guest, toHost, sentHost, rcvdVm, rcvdHost,
                 strays>>

(* Mutant: the consumer's address is not learnt.                           *)
VmDatagramUnlearnt(c, size) ==
  /\ tcp = "up" /\ Len(sentHost) < VmFrames
  /\ UNCHANGED vmPeer
  /\ SendToHost(<<[ch |-> c, src |-> "consumer", dst |-> "wellKnown",
                   re |-> c \in vmHeard, size |-> Truncated(size)]>>)
  /\ UNCHANGED <<host, vmStage, vmHeard, toVm, sentVm, rcvdVm, rcvdHost,
                 strays>>

(* handle_udp_readable(): PJSIP's datagram; its address is learnt first.   *)
VmDatagram(c, size) ==
  /\ tcp = "up" /\ Len(sentHost) < VmFrames
  /\ vmPeer' = vmPeer \cup {c}
  /\ SendToHost(<<[ch |-> c, src |-> "consumer", dst |-> "wellKnown",
                   re |-> c \in vmHeard, size |-> Truncated(size)]>>)
  /\ UNCHANGED <<host, vmStage, vmHeard, toVm, sentVm, rcvdVm, rcvdHost,
                 strays>>

-----------------------------------------------------------------------------
(* Out of the tunnel.                                                      *)

Consumer(frames) ==
  {f.ch : f \in {g \in Range(frames) : g.src = "consumer"}} \cap Channels

OnChannels(frames) == {f \in Range(frames) : f.ch \in Channels}

(* _onTcpData(), _processFrame(): the frame is shown to 'frame-rx'         *)
(* listeners, then goes to the consumer that is known; an echo is          *)
(* reported; an unknown channel is dropped.                                *)
HostChunk(k) ==
  /\ tcp = "up" /\ k <= Len(toHost)
  /\ toHost' = SubSeq(toHost, k + 1, Len(toHost))
  /\ LET d == Drain[hostStage \o SubSeq(toHost, 1, k)] IN
       /\ hostStage' = Kept(d)
       /\ rcvdHost' = rcvdHost \o d.frames
       /\ hostHeard' = hostHeard \cup Consumer(d.frames)
       /\ strays' = strays \cup
            {[at |-> "host", to |-> "nobody", re |-> f.re] :
               f \in {g \in OnChannels(d.frames) :
                       udp /\ g.ch \notin hostPeer}}
  /\ UNCHANGED <<state, tcp, udp, hostPeer, errors, guest, toVm, sentVm,
                 rcvdVm, sentHost>>

(* deliver_to_udp(), when the consumer is not known: to the port the frame *)
(* names, unless that is the tunnel's own.                                 *)
Target(f) ==
  IF f.dst # "wellKnown" THEN "dstPort" ELSE "nobody"

Echoes[fs \in Seq(Payload)] ==
  IF fs = <<>> THEN <<>>
  ELSE (IF Head(fs).ch = "echo" THEN Fits(Head(fs)) ELSE <<>>) \o Echoes[Tail(fs)]

(* handle_tunnel_readable(), process_frame(): an echo goes back.           *)
VmChunk(k) ==
  /\ tcp = "up" /\ k <= Len(toVm) /\ k <= StageSize - Len(vmStage)
  /\ toVm' = SubSeq(toVm, k + 1, Len(toVm))
  /\ LET d == Drain[vmStage \o SubSeq(toVm, 1, k)] IN
       /\ vmStage' = Kept(d)
       /\ rcvdVm' = rcvdVm \o d.frames
       /\ vmHeard' = vmHeard \cup Consumer(d.frames)
       /\ strays' = strays \cup
            {[at |-> "vm", to |-> Target(f), re |-> f.re] :
               f \in {g \in OnChannels(d.frames) : g.ch \notin vmPeer}}
       /\ SendToHost(Echoes[d.frames])
  /\ UNCHANGED <<host, vmPeer, sentVm, rcvdHost>>

-----------------------------------------------------------------------------
Enter ==
  \/ \E c \in Channels, size \in Lengths :
       HostDatagram(c, size) \/ InjectFrame(c, size) \/ VmDatagram(c, size)
  \/ \E ch \in {"echo", "unknown"}, size \in Lengths : SendEcho(ch, size)

HostReads == \E k \in 1 .. Len(toHost) : HostChunk(k)
VmReads   == \E k \in 1 .. Len(toVm) : VmChunk(k)

Next ==
  \/ Start \/ Connected \/ Refused \/ Stop \/ TcpCloses
  \/ Enter \/ HostReads \/ VmReads

Spec == Init /\ [][Next]_vars

(* Both ends read what arrives.                                            *)
Fairness == WF_vars(HostReads) /\ WF_vars(VmReads)
FairSpec == Spec /\ Fairness

-----------------------------------------------------------------------------
(* Each direction.                                                         *)
VmWard   == INSTANCE FrameFifo WITH sent <- sentVm, received <- rcvdVm,
                                    up <- tcp = "up"
HostWard == INSTANCE FrameFifo WITH sent <- sentHost, received <- rcvdHost,
                                    up <- tcp = "up"

(* Neither end meets a length it must treat as a broken stream, and the    *)
(* VM's end, which gives up when its stage buffer has no room to read      *)
(* into, always has room.                                                  *)
FramingHolds ==
  /\ ~BadLength(hostStage) /\ ~BadLength(vmStage)
  /\ Len(vmStage) < StageSize

(* What answers a datagram reaches the socket that datagram came from: an  *)
(* end learns its consumer before anything can come back for it.  The      *)
(* registrar's 200 and the client's INVITE find PJSIP, PJSIP's answers     *)
(* find the client.                                                        *)
RepliesFindSender ==
  \A s \in strays : ~s.re

(* PROTOCOL.md: "Before a peer has been learned, deliveries on that        *)
(* channel to the UDP side are dropped".                                   *)
DroppedUntilLearned == \A s \in strays : s.to # "dstPort"

(* "Close everything.  Safe to call from any state."                       *)
StopIsFinal == [][state = "stopped" => state' = "stopped"]_vars

(* The tunnel never loses its framing, and answers reach who asked.        *)
TunnelSafe == TypeOK /\ FramingHolds /\ RepliesFindSender

(* Wherever TCP cuts the bytes, each direction is a queue of whole frames: *)
(* they come out in the order they went in, none twice, none left out.     *)
FramesInOrder == VmWard!Order /\ HostWard!Order

(* While the connection is up, what went in comes out.                     *)
FramesArrive == VmWard!Arrival /\ HostWard!Arrival

=============================================================================
