----------------------------- MODULE MCDatagrams -----------------------------
(***************************************************************************)
(* Small instances of what carries datagrams and frames: the tunnel        *)
(* between backend and VM, the framing of the control channel beside it,   *)
(* the bridge of a call, and the playout of its RTP.  They share no state, *)
(* so TLC takes one at a time: part says which, and the others rest in an  *)
(* initial state.                                                          *)
(***************************************************************************)
EXTENDS RtpBridge

(* UdpTcpTunnel's, RtpPlayout's and Wire's.                                *)
CONSTANTS
  Channels, VmPort, MaxPayload, StageSize, HostFrames, VmFrames,
  Modes, Width, First, InitDepth, MaxDepth, MissSkip, SkipDepth, MaxGap, Packets,
  Lost, Late, Twice,
  Types, Bytes, Sizes, WirePayload, ToVmFrames, ToHostFrames, BadHeaders

VARIABLES
  part,
  state, tcp, udp, hostStage, hostPeer, hostHeard, errors, vmStage, vmPeer, vmHeard,
  toVm, toHost, sentVm, rcvdVm, sentHost, rcvdHost, strays,
  mode, sent, net, twice, buf, next, misses, running, out,
  hostWire, vmWire, parsed, dead, faults, rxBuf, toldVm, heardVm, toldHost, heardHost,
  bad

Tunnel == INSTANCE UdpTcpTunnel
Playout == INSTANCE RtpPlayout
Framing == INSTANCE Wire
  WITH toHost <- hostWire, toVm <- vmWire, buf <- parsed, errors <- faults,
       sentVm <- toldVm, rcvdVm <- heardVm, sentHost <- toldHost, rcvdHost <- heardHost,
       MaxPayload <- WirePayload, HostFrames <- ToVmFrames, VmFrames <- ToHostFrames

ASSUME BoundsAssumption ==
  ConstantsOK /\ Tunnel!ConstantsOK /\ Playout!ConstantsOK /\ Framing!ConstantsOK

tunnelVars == <<state, tcp, udp, hostStage, hostPeer, hostHeard, errors, vmStage,
                vmPeer, vmHeard, toVm, toHost, sentVm, rcvdVm, sentHost, rcvdHost,
                strays>>
playoutVars == <<mode, sent, net, twice, buf, next, misses, running, out>>
framingVars == <<hostWire, vmWire, parsed, dead, faults, rxBuf, toldVm, heardVm,
                 toldHost, heardHost, bad>>
all == <<part, vars, tunnelVars, playoutVars, framingVars>>

MCInit ==
  /\ part \in {"tunnel", "bridge", "playout", "wireToHost", "wireToVm"}
  /\ Init /\ Tunnel!Init /\ Playout!Init /\ Framing!Init
  /\ part # "bridge" => extPeer = Null /\ intPeer = Null
  /\ part # "playout" => mode = "buffered"

Runs(p) == part = p /\ UNCHANGED part
TunnelRuns ==
  Runs("tunnel") /\ Tunnel!Next /\ UNCHANGED <<vars, playoutVars, framingVars>>
BridgeRuns ==
  Runs("bridge") /\ Next /\ UNCHANGED <<tunnelVars, playoutVars, framingVars>>
PlayoutRuns ==
  Runs("playout") /\ Playout!Next /\ UNCHANGED <<vars, tunnelVars, framingVars>>
ToHostRuns ==
  Runs("wireToHost") /\ Framing!NextToHost /\ UNCHANGED <<vars, tunnelVars, playoutVars>>
ToVmRuns ==
  Runs("wireToVm") /\ Framing!NextToVm /\ UNCHANGED <<vars, tunnelVars, playoutVars>>

MCNext == TunnelRuns \/ BridgeRuns \/ PlayoutRuns \/ ToHostRuns \/ ToVmRuns

(* The fairness of the parts; a tunnel and a wire at rest owe nothing.     *)
MCSpec ==
  /\ MCInit /\ [][MCNext]_all
  /\ Tunnel!Fairness /\ Framing!Fairness
  /\ WF_playoutVars(part = "playout" /\ Playout!SenderSends)
  /\ WF_playoutVars(part = "playout" /\ Playout!Tick)
  /\ \A n \in 0 .. Packets - 1 : WF_playoutVars(part = "playout" /\ Playout!Deliver(n))

-----------------------------------------------------------------------------
(* The tunnel's and the playout's promises, as the other parts run too.    *)
TunnelSafe    == Tunnel!TunnelSafe
FramesInOrder == Tunnel!FramesInOrder
PlayoutHolds  == Playout!PlayoutHolds

(* Wherever the stream is cut, both ends of the control channel make of it *)
(* the frames that were written.                                           *)
WireHolds == [](Framing!ToHostSafe /\ Framing!ToVmSafe) /\ Framing!FramesToHost

(* No frame stays on its way, and playout is never stuck.                  *)
DatagramsArrive == Tunnel!FramesArrive /\ Framing!AllReachHost /\ Playout!PlaysOn

=============================================================================
