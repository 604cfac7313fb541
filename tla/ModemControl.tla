---------------------------- MODULE ModemControl ----------------------------
(***************************************************************************)
(* The control channel of a call: slmodemd's PTY, modemd-ctrl in the VM    *)
(* (vm/ctrl/modemd-ctrl.c), which cuts the PTY's bytes into result lines   *)
(* and call data, and PjsipBackend at the host, which reads the lines and  *)
(* tells the call session 'connected', 'data' and 'silenceHangup'.         *)
(*                                                                         *)
(* The PTY is cut anywhere.  A byte is a token: half a keyword, a rate, a  *)
(* line end's character, a result code the VM does not look for, or a byte *)
(* of the caller.  Frames arrive whole and in order (module Wire).         *)
(***************************************************************************)
EXTENDS Naturals, Sequences, FiniteSets, SequencesExt, TLC

CONSTANTS
  CallerBytes,   \* what the caller sends: "d", or "NO" as a keyword starts
  Codes,         \* other result codes of the modem: "RING", "BUSY"
  DataMax,       \* bound: bytes of the caller
  CodeMax,       \* bound: unsolicited result codes
  Writes,        \* bound: frames on the way to the VM
  Prompt         \* the VM reads a CONNECT line before the call can drop

ASSUME ControlAssumption ==
  /\ CallerBytes \subseteq {"d", "NO"} /\ Codes \subseteq {"RING", "BUSY"}
  /\ DataMax \in Nat /\ CodeMax \in Nat /\ Writes \in Nat
  /\ Prompt \in BOOLEAN

VARIABLES
  modem,        \* "idle", "training" (ATA was given), "online" or "over"
  pty,          \* what it has written and the VM has not read
  made,         \* it has connected
  rate,         \* at that rate (0: it did not say)
  sent,         \* the caller's bytes
  codes,        \* unsolicited result codes so far
  dataMode,     \* S.data_mode
  pending,      \* S.pending_buf
  toHost, toVm, \* frames on the way
  host,         \* the backend: connected, bps, and its events so far
  lineBuf,      \* this._ptyLineBuf
  flushTimer,   \* this._ptyUnterminatedTimer is running
  ata,          \* ATA was sent
  typed         \* what the modem was doing when DATA_TX was written to it

modemVars == <<modem, pty, made, rate, sent, codes>>
vmVars == <<dataMode, pending>>
hostVars == <<host, lineBuf, flushTimer>>
vars == <<modemVars, vmVars, toHost, toVm, hostVars, ata, typed>>

Crlf      == <<"CR", "LF">>
Connect   == <<"CON", "NECT">>
NoCarrier == <<"NO", "CARRIER">>
Rates     == {0, 9600}

Bytes == {"CON", "NECT", "RATE", "NO", "CARRIER", "RING", "BUSY", "CR", "LF", "d"}

Host == [connected : BOOLEAN, bps : Nat, connects : Nat, hangups : Nat,
         data : Seq(Bytes), early : BOOLEAN]

Rate(n) == IF n = 0 THEN <<>> ELSE <<"RATE">>

-----------------------------------------------------------------------------
TypeOK ==
  /\ modem \in {"idle", "training", "online", "over"}
  /\ pty \in Seq(Bytes) /\ pending \in Seq(Bytes) /\ lineBuf \in Seq(Bytes)
  /\ made \in BOOLEAN /\ rate \in Rates /\ ata \in BOOLEAN
  /\ codes \in 0 .. CodeMax
  /\ dataMode \in BOOLEAN /\ flushTimer \in BOOLEAN
  /\ host \in Host /\ sent \in Seq(Bytes)
  /\ Len(pending) <= 5
  /\ typed \subseteq {"idle", "training", "online", "over", "told"}

Init ==
  /\ modem = "idle" /\ pty = <<>> /\ made = FALSE /\ rate = 0
  /\ codes = 0 /\ sent = <<>>
  /\ dataMode = FALSE /\ pending = <<>>
  /\ toHost = <<>> /\ toVm = <<>>
  /\ host = [connected |-> FALSE, bps |-> 0, connects |-> 0, hangups |-> 0,
             data |-> <<>>, early |-> FALSE]
  /\ lineBuf = <<>> /\ flushTimer = FALSE
  /\ ata = FALSE /\ typed = {}

-----------------------------------------------------------------------------
(* slmodemd.                                                               *)

Says(bytes) == pty' = pty \o bytes

ModemCode(c) ==
  /\ modem = "idle" /\ codes < CodeMax
  /\ codes' = codes + 1
  /\ Says(<<c>> \o Crlf)
  /\ UNCHANGED <<modem, made, rate, sent, vmVars, toHost, toVm, hostVars,
                 ata, typed>>

ModemConnects(r) ==
  /\ modem = "training"
  /\ modem' = "online"
  /\ made' = TRUE /\ rate' = r
  /\ Says(Connect \o Rate(r) \o Crlf)
  /\ UNCHANGED <<sent, codes, vmVars, toHost, toVm, hostVars, ata, typed>>

ModemFails ==
  /\ modem = "training"
  /\ modem' = "over"
  /\ Says(NoCarrier \o Crlf)
  /\ UNCHANGED <<made, rate, sent, codes, vmVars, toHost, toVm, hostVars, ata,
                 typed>>

CallerSends(b) ==
  /\ modem = "online"
  /\ Len(sent) < DataMax
  /\ Says(<<b>>)
  /\ sent' = Append(sent, b)
  /\ UNCHANGED <<modem, made, rate, codes, vmVars, toHost, toVm, hostVars,
                 ata, typed>>

(* The empty line before NO CARRIER still belongs to the call's bytes.     *)
ModemDrops ==
  /\ modem = "online"
  /\ Prompt => dataMode
  /\ modem' = "over"
  /\ Says(Crlf \o NoCarrier \o Crlf)
  /\ sent' = sent \o Crlf
  /\ UNCHANGED <<made, rate, codes, vmVars, toHost, toVm, hostVars, ata, typed>>

-----------------------------------------------------------------------------
(* modemd-ctrl.                                                            *)

From(s, i) == SubSeq(s, i, Len(s))
UpTo(s, i) == SubSeq(s, 1, i)

(* find_keyword(), find_lf_after(): a place, or 0.                         *)
First(S) == IF S = {} THEN 0 ELSE CHOOSE i \in S : \A j \in S : i <= j

FindKeyword(s, word) ==
  First({i \in 1 .. Len(s) - 1 : SubSeq(s, i, i + 1) = word})

FindLf(s, from) == First({i \in from .. Len(s) : s[i] = "LF"})

(* Mutant: nothing is held back.                                           *)
NoTail(s, words) == Len(s)

(* partial_keyword_tail(): up to where s can be sent on.                   *)
PartialTail(s, words) ==
  IF s # <<>> /\ \E w \in words : Last(s) = w[1] THEN Len(s) - 1 ELSE Len(s)

(* wire_write(), for a payload that is not empty.                          *)
Emit(type, s) == IF s = <<>> THEN <<>> ELSE <<[type |-> type, payload |-> s]>>
Status(event, n) == <<[type |-> "MODEM_STATUS", payload |-> <<event, n>>]>>

(* Mutant: the first digit only.                                           *)
RateOfDigit(line) == IF \E i \in DOMAIN line : line[i] = "RATE" THEN 9 ELSE 0

RateOf(line) == IF \E i \in DOMAIN line : line[i] = "RATE" THEN 9600 ELSE 0

Held(s, i, type, mode) ==
  [frames |-> Emit(type, UpTo(s, i - 1)), pending |-> From(s, i), mode |-> mode]

(* process_command_mode_bytes()                                            *)
CommandBytes(s) ==
  LET nc == FindKeyword(s, NoCarrier)
      cn == FindKeyword(s, Connect)
      at == IF nc # 0 THEN nc ELSE cn
      lf == FindLf(s, at)
  IN IF at = 0
     THEN Held(s, PartialTail(s, {NoCarrier, Connect}) + 1, "AT_RESPONSE", FALSE)
     ELSE IF lf = 0 THEN Held(s, at, "AT_RESPONSE", FALSE)
     ELSE IF nc # 0
     THEN [frames |-> Emit("AT_RESPONSE", UpTo(s, lf))
                        \o Status("nocarrier", 0)
                        \o Emit("AT_RESPONSE", From(s, lf + 1)),
           pending |-> <<>>, mode |-> FALSE]
     ELSE [frames |-> Emit("AT_RESPONSE", UpTo(s, lf))
                        \o Status("connect", RateOf(SubSeq(s, cn, lf)))
                        \o Emit("DATA_RX", From(s, lf + 1)),
           pending |-> <<>>, mode |-> TRUE]

(* Mutant: data mode does not look for NO CARRIER.                         *)
DataBytesStay(s) ==
  [frames |-> Emit("DATA_RX", UpTo(s, PartialTail(s, {NoCarrier}))),
   pending |-> From(s, PartialTail(s, {NoCarrier}) + 1), mode |-> TRUE]

(* process_data_mode_bytes()                                               *)
DataBytes(s) ==
  LET nc == FindKeyword(s, NoCarrier)
      lf == FindLf(s, nc)
  IN IF nc = 0
     THEN Held(s, PartialTail(s, {NoCarrier}) + 1, "DATA_RX", TRUE)
     ELSE IF lf = 0 THEN Held(s, nc, "DATA_RX", TRUE)
     ELSE [frames |-> Emit("DATA_RX", UpTo(s, nc - 1))
                        \o Emit("AT_RESPONSE", SubSeq(s, nc, lf))
                        \o Status("nocarrier", 0)
                        \o Emit("AT_RESPONSE", From(s, lf + 1)),
           pending |-> <<>>, mode |-> FALSE]

(* Mutant: bytes that were held back are lost.                             *)
VmReadsPtyForgets(k) ==
  /\ k <= Len(pty)
  /\ pty' = From(pty, k + 1)
  /\ LET work == UpTo(pty, k)
         r == IF dataMode THEN DataBytes(work) ELSE CommandBytes(work)
     IN /\ toHost' = toHost \o r.frames
        /\ pending' = r.pending
        /\ dataMode' = r.mode
  /\ UNCHANGED <<modem, made, rate, sent, codes, toVm, hostVars, ata, typed>>

(* handle_pty_readable()                                                   *)
VmReadsPty(k) ==
  /\ k <= Len(pty)
  /\ pty' = From(pty, k + 1)
  /\ LET work == pending \o UpTo(pty, k)
         r == IF dataMode THEN DataBytes(work) ELSE CommandBytes(work)
     IN /\ toHost' = toHost \o r.frames
        /\ pending' = r.pending
        /\ dataMode' = r.mode
  /\ UNCHANGED <<modem, made, rate, sent, codes, toVm, hostVars, ata, typed>>

(* Whom a write to the PTY reaches: "told" is a modem whose NO CARRIER has *)
(* been read.                                                              *)
Reaches ==
  IF modem = "over" /\ FindKeyword(pending \o pty, NoCarrier) = 0
  THEN "told" ELSE modem

(* Mutant: data is written whatever the mode.                              *)
VmReadsFrameAnyMode ==
  /\ toVm # <<>>
  /\ toVm' = Tail(toVm)
  /\ IF Head(toVm) = "AT"
     THEN /\ modem' = IF modem = "idle" THEN "training" ELSE modem
          /\ UNCHANGED typed
     ELSE /\ typed' = typed \cup {Reaches}
          /\ UNCHANGED modem
  /\ UNCHANGED <<pty, made, rate, sent, codes, vmVars, toHost, hostVars, ata>>

(* handle_host_control_readable(): AT text goes to the PTY as a command,   *)
(* data only in data mode.                                                 *)
VmReadsFrame ==
  /\ toVm # <<>>
  /\ toVm' = Tail(toVm)
  /\ IF Head(toVm) = "AT"
     THEN /\ modem' = IF modem = "idle" THEN "training" ELSE modem
          /\ UNCHANGED typed
     ELSE /\ typed' = typed \cup (IF dataMode THEN {Reaches} ELSE {})
          /\ UNCHANGED modem
  /\ UNCHANGED <<pty, made, rate, sent, codes, vmVars, toHost, hostVars, ata>>

-----------------------------------------------------------------------------
(* PjsipBackend.                                                           *)

(* parseResultLine()                                                       *)
Parse(line) ==
  CASE line = Connect -> "connect"
    [] line = Connect \o <<"RATE">> -> "connect"
    [] line = NoCarrier -> "nocarrier"
    [] line = <<"BUSY">> -> "busy"
    [] line = <<"RING">> -> "ring"
    [] OTHER -> "none"

SetConnected(h, bps) ==
  [h EXCEPT !.connected = TRUE, !.bps = bps, !.connects = @ + 1]

(* The MODEM_STATUS case of _onCtrlFrame(): the first of line and status   *)
(* wins, a rate the line did not have is filled in; other events are       *)
(* ignored.                                                                *)
OnStatus(h, event, bps) ==
  IF event # "connect" THEN h
  ELSE IF ~h.connected THEN SetConnected(h, bps)
  ELSE IF h.bps = 0 THEN [h EXCEPT !.bps = bps] ELSE h

(* _handleResultLine()                                                     *)
HandleLine(h, line) ==
  CASE Parse(line) = "connect" ->
         IF h.connected THEN h ELSE SetConnected(h, RateOf(line))
    [] Parse(line) \in {"nocarrier", "busy"} ->
         IF h.connected
         THEN [h EXCEPT !.connected = FALSE, !.bps = 0, !.hangups = @ + 1]
         ELSE [h EXCEPT !.hangups = @ + 1]
    [] OTHER -> h

(* Where the first line ends, and where the text goes on after its end.    *)
LineEnd(s) == First({i \in DOMAIN s : s[i] \in {"CR", "LF"}})

AfterEnd(s) ==
  LET end == LineEnd(s)
  IN IF s[end] = "CR" /\ end < Len(s) /\ s[end + 1] = "LF"
     THEN end + 2 ELSE end + 1

(* The first line, if it is not empty.                                     *)
HearLine(h, s) ==
  IF LineEnd(s) = 1 THEN h ELSE HandleLine(h, UpTo(s, LineEnd(s) - 1))

(* The loop of _onPtyText(): complete lines are handled, and what is left. *)
Hear[s \in Seq(Bytes)] ==
  [h \in Host |-> IF LineEnd(s) = 0 THEN [host |-> h, rest |-> s]
                  ELSE Hear[From(s, AfterEnd(s))][HearLine(h, s)]]

(* _onPtyText(), _maybeScheduleUnterminatedFlush()                         *)
OnPtyText(text) ==
  LET heard == Hear[lineBuf \o text][host]
  IN /\ lineBuf' = heard.rest
     /\ host' = heard.host
     /\ flushTimer' = (Parse(heard.rest) # "none")

(* _onCtrlFrame()                                                          *)
HostReadsFrame ==
  /\ toHost # <<>>
  /\ toHost' = Tail(toHost)
  /\ LET f == Head(toHost) IN
       CASE f.type = "AT_RESPONSE" -> OnPtyText(f.payload)
         [] f.type = "DATA_RX" ->
              /\ host' = [host EXCEPT !.data = @ \o f.payload,
                                      !.early = @ \/ host.connects = 0]
              /\ UNCHANGED <<lineBuf, flushTimer>>
         [] f.type = "MODEM_STATUS" ->
              /\ host' = OnStatus(host, f.payload[1], f.payload[2])
              /\ UNCHANGED <<lineBuf, flushTimer>>
  /\ UNCHANGED <<modemVars, vmVars, toVm, ata, typed>>

(* Mutant: the line stays in the buffer.                                   *)
FlushFiresKeeps ==
  /\ flushTimer
  /\ flushTimer' = FALSE
  /\ host' = HandleLine(host, lineBuf)
  /\ UNCHANGED <<modemVars, vmVars, toHost, toVm, lineBuf, ata, typed>>

(* 150 ms without more text: the result code is taken for a line.          *)
FlushFires ==
  /\ flushTimer
  /\ flushTimer' = FALSE
  /\ lineBuf' = <<>>
  /\ host' = HandleLine(host, lineBuf)
  /\ UNCHANGED <<modemVars, vmVars, toHost, toVm, ata, typed>>

(* sendAt('ATA'), once for a backend.                                      *)
SendAta ==
  /\ ~ata
  /\ ata' = TRUE
  /\ toVm' = Append(toVm, "AT")
  /\ UNCHANGED <<modemVars, vmVars, toHost, hostVars, typed>>

(* Mutant: write() does not wait for 'connected'.                          *)
WriteEarly ==
  /\ ata
  /\ Len(toVm) < Writes
  /\ toVm' = Append(toVm, "DATA_TX")
  /\ UNCHANGED <<modemVars, vmVars, toHost, hostVars, ata, typed>>

(* write(): dropped before 'connected'.                                    *)
Write ==
  /\ host.connected
  /\ Len(toVm) < Writes
  /\ toVm' = Append(toVm, "DATA_TX")
  /\ UNCHANGED <<modemVars, vmVars, toHost, hostVars, ata, typed>>

-----------------------------------------------------------------------------
Modem ==
  \/ \E c \in Codes : ModemCode(c)
  \/ \E r \in Rates : ModemConnects(r)
  \/ ModemFails \/ ModemDrops
  \/ \E b \in CallerBytes : CallerSends(b)

VmReads == VmReadsFrame \/ \E k \in 1 .. Len(pty) : VmReadsPty(k)
HostReads == HostReadsFrame \/ FlushFires

Next == Modem \/ VmReads \/ HostReads \/ SendAta \/ Write

Spec == Init /\ [][Next]_vars

(* The poll loop and the event loop run, the debounce timer fires, and a   *)
(* modem that trains gets to a result.                                     *)
Fairness ==
  /\ WF_vars(VmReadsFrame) /\ WF_vars(\E k \in 1 .. Len(pty) : VmReadsPty(k))
  /\ WF_vars(HostReadsFrame) /\ WF_vars(FlushFires)
  /\ WF_vars(ModemFails \/ \E r \in Rates : ModemConnects(r))
FairSpec == Spec /\ Fairness

-----------------------------------------------------------------------------
(* A modem's CONNECT is reported once, whether line or status comes first  *)
(* and however the line was cut; an end is reported once for the failed or *)
(* dropped call and every BUSY, flushed early or not.                      *)
ReportedOnce ==
  /\ host.connects <= (IF made THEN 1 ELSE 0)
  /\ host.hangups <= codes + (IF modem = "over" THEN 1 ELSE 0)

(* The session gets the caller's bytes and nothing else: no byte of a      *)
(* result line, none out of order, none before 'connected'.                *)
DataInOrder == IsPrefix(host.data, sent) /\ ~host.early

(* What the session writes never reaches a modem before its CONNECT, where *)
(* it would be taken for a command or abort the answer, nor after its NO   *)
(* CARRIER has been read.                                                  *)
NoJunkCommands == typed \subseteq {"online", "over"}

(* When nothing is on the way, host, VM and modem agree on whether there   *)
(* is a call, and the host knows its rate.                                 *)
Quiet == pty = <<>> /\ toHost = <<>>

ModesAgree ==
  Quiet =>
    /\ dataMode = (modem = "online")
    /\ modem = "online" => host.bps = rate
    /\ host.connected => dataMode

(* A CONNECT is reported, even if its line end is late; so is the end of   *)
(* the call.                                                               *)
ConnectReported == made ~> (host.connects = 1)
EndReported == (modem = "over") ~> (host.hangups > 0 /\ ~host.connected)

(* modemd-ctrl.c: "Worst case we delay <= 9 bytes by one PTY read cycle,   *)
(* which is a few ms".                                                     *)
DataDelivered ==
  \A n \in 1 .. DataMax : (Len(sent) >= n) ~> (Len(host.data) >= n)

(* modemd-ctrl.c: the line of a transition travels whole, "regardless of   *)
(* how slmodemd's writes were chunked", so its end is seen.                *)
LineTravelsWhole ==
  Quiet /\ modem = "over" => ~dataMode

(* What the backend is told is what the modem did: results once, bytes in  *)
(* order, nothing typed at the modem that it would take for a command.     *)
ControlSafe ==
  TypeOK /\ ReportedOnce /\ DataInOrder /\ NoJunkCommands /\ ModesAgree

(* The connection and its end are reported in the end.                     *)
ControlReports == ConnectReported /\ EndReported

=============================================================================
