------------------------------ MODULE RtpBridge ------------------------------
(***************************************************************************)
(* The bridge between the caller's RTP and the modem's                     *)
(* (src/rtp/RtpBridge.js), and the hand-over of the caller's socket to an  *)
(* RTP session when the call falls back to the native modem                *)
(* (src/session/CallSession.js, _swapToNative).                            *)
(*                                                                         *)
(* A packet is named by the address it comes from; what matters is where   *)
(* it is sent on to.  Datagrams may come from anybody, in any order.       *)
(***************************************************************************)
EXTENDS Naturals, FiniteSets

CONSTANTS
  Callers,     \* addresses packets for the external socket come from
  Modems,      \* addresses packets for the internal socket come from
  Null,        \* no address
  MaxPackets   \* bound: packets

ConstantsOK == Null \notin Callers \cup Modems /\ MaxPackets \in Nat

VARIABLES
  packets,     \* packets so far
  bridge,      \* "new", "started" or "stopped"
  session,     \* the RTP session: "none", "adopted" or "closed"
  extSocket,   \* "open" or "closed"; the call session owns it
  extPeer, intPeer,
  remote,      \* _remoteAddr of the session
  stats,       \* packets and drops
  lastExt,     \* where the last packet to the caller's side went, and
  lastInt,     \*   to the modem's side
  handled      \* who handled the last packet from the caller

vars == <<packets, bridge, session, extSocket, extPeer, intPeer, remote, stats,
          lastExt, lastInt, handled>>
peers == <<extPeer, intPeer, remote>>
life == <<bridge, session, extSocket>>
traffic == <<packets, stats, lastExt, lastInt, handled>>

Counter == 0 .. MaxPackets

TypeOK ==
  /\ packets \in Counter
  /\ bridge \in {"new", "started", "stopped"}
  /\ session \in {"none", "adopted", "closed"}
  /\ extSocket \in {"open", "closed"}
  /\ extPeer \in Callers \cup {Null} /\ remote \in Callers \cup {Null}
  /\ intPeer \in Modems \cup {Null}
  /\ stats \in [extToInt : Counter, intToExt : Counter,
                extToIntDrops : Counter, intToExtDrops : Counter]
  /\ lastExt \in Callers \cup {Null} /\ lastInt \in Modems \cup {Null}
  /\ handled \subseteq {"bridge", "session"}

Init ==
  /\ packets = 0
  /\ bridge = "new" /\ session = "none" /\ extSocket = "open"
  /\ extPeer \in Callers \cup {Null} /\ intPeer \in Modems \cup {Null}
  /\ remote = Null
  /\ stats = [extToInt |-> 0, intToExt |-> 0, extToIntDrops |-> 0,
              intToExtDrops |-> 0]
  /\ lastExt = Null /\ lastInt = Null /\ handled = {}

-----------------------------------------------------------------------------
Learned(peer, src) == IF peer = Null THEN src ELSE peer

(* Mutant: the drop is counted instead of the packet.                      *)
CountOne(s, all, drops, peer) ==
  IF peer = Null THEN [s EXCEPT ![drops] = @ + 1] ELSE [s EXCEPT ![all] = @ + 1]

(* The packet is counted, then perhaps dropped.                            *)
Count(s, all, drops, peer) ==
  [s EXCEPT ![all] = @ + 1, ![drops] = IF peer = Null THEN @ + 1 ELSE @]

(* The listeners of the external socket.                                   *)
Listeners ==
  (IF bridge = "started" THEN {"bridge"} ELSE {})
    \cup (IF session = "adopted" THEN {"session"} ELSE {})

(* _forward('ext', ...)                                                    *)
ForwardExt(src) ==
  /\ extPeer' = Learned(extPeer, src)
  /\ stats' = Count(stats, "extToInt", "extToIntDrops", intPeer)
  /\ lastInt' = intPeer

(* A packet for the external socket: every listener hears it.              *)
(* RtpSession._onPacket() learns its peer once, too.                       *)
ExtPacket(src) ==
  /\ extSocket = "open" /\ Listeners # {} /\ packets < MaxPackets
  /\ packets' = packets + 1
  /\ IF "bridge" \in Listeners THEN ForwardExt(src)
     ELSE UNCHANGED <<extPeer, stats, lastInt>>
  /\ remote' = IF "session" \in Listeners THEN Learned(remote, src) ELSE remote
  /\ handled' = Listeners
  /\ UNCHANGED <<life, intPeer, lastExt>>

(* Mutant: the sender is taken for the caller.                             *)
IntPacketMixed(src) ==
  /\ bridge = "started" /\ packets < MaxPackets
  /\ packets' = packets + 1
  /\ extPeer' = Learned(extPeer, src)
  /\ stats' = Count(stats, "intToExt", "intToExtDrops", extPeer)
  /\ lastExt' = extPeer
  /\ UNCHANGED <<life, intPeer, remote, lastInt, handled>>

(* _forward('int', ...)                                                    *)
IntPacket(src) ==
  /\ bridge = "started" /\ packets < MaxPackets
  /\ packets' = packets + 1
  /\ intPeer' = Learned(intPeer, src)
  /\ stats' = Count(stats, "intToExt", "intToExtDrops", extPeer)
  /\ lastExt' = extPeer
  /\ UNCHANGED <<life, extPeer, remote, lastInt, handled>>

(* start(), from activate()                                                *)
Start ==
  /\ bridge = "new" /\ extSocket = "open" /\ session = "none"
  /\ bridge' = "started"
  /\ UNCHANGED <<session, extSocket, peers, traffic>>

(* Mutant: the listeners stay.                                             *)
StopLeaves(b) == b

(* stop(): the listeners go, the sockets stay.                             *)
Stop(b) == "stopped"

(* _swapToNative(): the backend is stopped, the session adopts the socket  *)
(* and is told the peer of the SIP dialog.                                 *)
SwapToNative(peer) ==
  /\ extSocket = "open" /\ session = "none"
  /\ bridge' = Stop(bridge)
  /\ session' = "adopted" /\ remote' = peer
  /\ UNCHANGED <<extSocket, extPeer, intPeer, traffic>>

(* Mutant: the session's socket is left open.                              *)
TeardownHalf ==
  /\ session # "closed" /\ extSocket = "open"
  /\ bridge' = Stop(bridge)
  /\ extSocket' = IF session = "none" THEN "closed" ELSE extSocket
  /\ session' = "closed"
  /\ UNCHANGED <<peers, traffic>>

(* _finalizeTeardown(): the backend is stopped, then whoever owns the      *)
(* socket closes it.                                                       *)
Teardown ==
  /\ session # "closed" /\ extSocket = "open"
  /\ bridge' = Stop(bridge)
  /\ extSocket' = "closed"
  /\ session' = "closed"
  /\ UNCHANGED <<peers, traffic>>

-----------------------------------------------------------------------------
Next ==
  \/ Start \/ Teardown
  \/ \E src \in Callers : ExtPacket(src)
  \/ \E src \in Modems : IntPacket(src)
  \/ \E peer \in Callers \cup {Null} : SwapToNative(peer)

Spec == Init /\ [][Next]_vars

-----------------------------------------------------------------------------
(* A packet of the caller reaches one of the two modems, never both: the   *)
(* listener of the bridge is gone when the session adopts the socket.      *)
OneListener == Cardinality(Listeners) <= 1 /\ Cardinality(handled) <= 1

(* What is not dropped has gone to the peer, and nothing goes to one that  *)
(* was never told or heard: the counters say what was forwarded.           *)
CountersAgree ==
  /\ stats.extToIntDrops <= stats.extToInt
  /\ (lastInt # Null => stats.extToIntDrops < stats.extToInt)
  /\ stats.intToExtDrops <= stats.intToExt
  /\ (lastExt # Null => stats.intToExtDrops < stats.intToExt)

(* When the call is over nobody listens and the socket is closed.          *)
OverIsClosed == session = "closed" => Listeners = {} /\ extSocket = "closed"

(* RtpBridge.js: "Later packets from different sources are accepted        *)
(* (updates the peer)".                                                    *)
Relearns ==
  [][\A src \in Callers :
       bridge = "started" /\ ExtPacket(src) => extPeer' = src]_vars

(* One modem hears the caller, what is counted was forwarded, and nothing  *)
(* stays open when the call is over.                                       *)
BridgeSafe == TypeOK /\ OneListener /\ CountersAgree /\ OverIsClosed

=============================================================================
