----------------------------- MODULE MCModemData -----------------------------
(***************************************************************************)
(* Small instances of what carries a caller's bytes and the modem's        *)
(* results: the control channel between modem and backend, and the telnet  *)
(* proxy above it.  They share no state, so TLC takes one at a time: part  *)
(* says which, and the other rests in its initial state.                   *)
(***************************************************************************)
EXTENDS ModemControl

(* TelnetProxy's.                                                          *)
CONSTANTS Chunks, Heartbeat, IdleTimeout, Connections, MaxBeats

VARIABLES part, proxy, conn, timers, idles, over, beats

Telnet == INSTANCE TelnetProxy WITH p <- proxy

(* Reads of the caller's keys, with one line's end each at most.           *)
OneLine ==
  {<<"host">>, <<"cr">>, <<"host", "cr">>, <<"blocked", "cr">>, <<"help", "cr">>,
   <<"esc">>, <<"noise">>}

ASSUME BoundsAssumption == Telnet!ConstantsOK /\ Telnet!OneLineARead

telnetVars == <<proxy, conn, timers, idles, over, beats>>
all == <<part, vars, telnetVars>>

MCInit == part \in {"control", "telnet"} /\ Init /\ Telnet!Init

Runs(which) == part = which /\ UNCHANGED part
ControlRuns == Runs("control") /\ Next /\ UNCHANGED telnetVars
TelnetRuns  == Runs("telnet") /\ Telnet!Next /\ UNCHANGED vars

MCNext == ControlRuns \/ TelnetRuns

(* The fairness of the parts; a channel at rest owes nothing.              *)
MCSpec ==
  /\ MCInit /\ [][MCNext]_all
  /\ Fairness
  /\ WF_telnetVars(part = "telnet" /\ Telnet!Tick)
  /\ WF_telnetVars(part = "telnet" /\ Telnet!FireHeartbeat)
  /\ \A s \in Telnet!Sockets :
       /\ WF_telnetVars(part = "telnet" /\ Telnet!ConnectTimeout(s))
       /\ WF_telnetVars(part = "telnet" /\ Telnet!SocketClose(s))

-----------------------------------------------------------------------------
(* The proxy's promises, as the channel runs too.                          *)
TelnetSafe == Telnet!TelnetSafe

(* CONNECT and the end of a call are reported, and nobody is left at a     *)
(* connection that is not made or is gone.                                 *)
CallerIsServed == ControlReports /\ Telnet!AttemptEnds /\ Telnet!ProxyEnds

=============================================================================
