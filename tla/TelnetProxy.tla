---------------------------- MODULE TelnetProxy -----------------------------
(***************************************************************************)
(* The caller's terminal (src/telnet/TelnetProxy.js): a menu that reads a  *)
(* host name, a TCP connection to that host, and back to the menu.  The    *)
(* sockets and timers of Node call back when they like; the call may end   *)
(* at any point.                                                           *)
(*                                                                         *)
(* What the caller types is a sequence of tokens: a line's text, the Enter *)
(* key, the escape key, or noise that means nothing to the menu.           *)
(***************************************************************************)
EXTENDS Naturals, Sequences, FiniteSets

CONSTANTS
  Chunks,         \* what one read from the modem may hold
  Heartbeat,      \* cfg.menuIdleHeartbeatMs, in ticks; 0: disabled
  IdleTimeout,    \* cfg.idleTimeoutMs > 0
  Connections,    \* bound: connections that are tried
  MaxBeats        \* bound: heartbeats

(* The proxy does not look at its state between the keys of one read: its  *)
(* promises hold if a line's end is the only one in a read, as when a      *)
(* person types.                                                           *)
OneLineARead ==
  \A keys \in Chunks : \A i, j \in DOMAIN keys :
    keys[i] = "cr" /\ keys[j] = "cr" => i = j

Texts == {"host", "blocked", "quit", "help", "bad"}
Tokens == Texts \cup {"cr", "esc", "noise"}

ConstantsOK ==
  /\ Chunks \subseteq Seq(Tokens)
  /\ Heartbeat \in Nat /\ IdleTimeout \in BOOLEAN
  /\ Connections \in Nat /\ MaxBeats \in Nat

Sockets == 1 .. Connections
None == 0
Off == Heartbeat + 1       \* no heartbeat timer

VARIABLES
  p,        \* the proxy: state, inputBuf, tcpSocket, connectTimer,
            \* idleTimer and menuHeartbeat
  conn,     \* of every socket: "new", "connecting", "open", "destroyed",
            \* "ended" (the other end is gone) or "closed"
  timers,   \* connect timers that run, named after their sockets
  idles,    \* idle timers that run
  over,     \* disconnect() was called
  beats     \* heartbeats so far

vars == <<p, conn, timers, idles, over, beats>>

(* The whole of it, for operators that change part of it.                  *)
World == [p |-> p, conn |-> conn, timers |-> timers, idles |-> idles]

Becomes(w) ==
  /\ p' = w.p /\ conn' = w.conn /\ timers' = w.timers /\ idles' = w.idles

-----------------------------------------------------------------------------
TypeOK ==
  /\ p \in [state : {"MENU", "CONNECTING", "PROXYING", "CLOSING"},
            buf : Texts \cup {"none"}, socket : {None} \cup Sockets,
            timer : {None} \cup Sockets,
            idle : {None} \cup Sockets, beat : 0 .. Off]
  /\ conn \in [Sockets -> {"new", "connecting", "open", "destroyed", "ended",
                           "closed"}]
  /\ timers \subseteq Sockets /\ idles \subseteq Sockets
  /\ over \in BOOLEAN /\ beats \in 0 .. MaxBeats

(* attach(): banner, prompt, heartbeat.                                    *)
Init ==
  /\ p = [state |-> "MENU", buf |-> "none", socket |-> None, timer |-> None,
          idle |-> None, beat |-> IF Heartbeat > 0 THEN Heartbeat ELSE Off]
  /\ conn = [s \in Sockets |-> "new"]
  /\ timers = {} /\ idles = {} /\ over = FALSE /\ beats = 0

-----------------------------------------------------------------------------
(* Parts of the handlers, from a world to a world.                         *)

(* Mutant: the state is not looked at.                                     *)
ScheduleAlways(w) ==
  [w EXCEPT !.p.beat = IF Heartbeat > 0 THEN Heartbeat ELSE Off]

(* _scheduleMenuHeartbeat(): it cancels first.                             *)
ScheduleHeartbeat(w) ==
  [w EXCEPT !.p.beat =
     IF w.p.state = "MENU" /\ Heartbeat > 0 THEN Heartbeat ELSE Off]

(* _send()                                                                 *)
Send(w) == ScheduleHeartbeat(w)

(* Mutant: the idle timer runs on.                                         *)
CloseKeepsIdle(w) ==
  IF w.p.socket = None THEN w
  ELSE [w EXCEPT !.conn[w.p.socket] = "destroyed", !.p.socket = None]

(* Mutant: the socket is forgotten, not destroyed.                         *)
CloseForgets(w) ==
  [w EXCEPT !.idles = @ \ {w.p.idle}, !.p.idle = None, !.p.socket = None]

(* _closeConnection(); destroy() makes 'close' come later.                 *)
CloseConnection(w) ==
  LET s == w.p.socket
      v == [w EXCEPT !.idles = @ \ {w.p.idle}, !.p.idle = None]
  IN IF s = None THEN v
     ELSE [v EXCEPT !.conn[s] = IF @ = "closed" THEN @ ELSE "destroyed",
                    !.p.socket = None]

(* _returnToMenu()                                                         *)
ReturnToMenu(w) ==
  Send(CloseConnection([w EXCEPT !.p.state = "MENU", !.p.buf = "none"]))

NextSocket(w) == Cardinality({s \in Sockets : w.conn[s] # "new"}) + 1

(* _connect(): the connect timer of a connection before is forgotten, not  *)
(* cleared.                                                                *)
Connect(w, host) ==
  LET s == NextSocket(w)
      v == Send([w EXCEPT !.p.state = "CONNECTING"])
  IN IF host = "blocked" THEN ReturnToMenu(v)
     ELSE [v EXCEPT !.p.timer = s, !.timers = @ \cup {s},
                    !.p.socket = s, !.conn[s] = "connecting"]

(* _handleInput(); QUIT asks the session to hang up, which calls           *)
(* disconnect() later.                                                     *)
HandleInput(w, text) ==
  CASE text \in {"none", "help", "bad", "quit"} -> Send(w)
    [] OTHER -> Connect(w, text)

(* A turn of the loop of receive() in the menu, which does not look at the *)
(* state again.                                                            *)
Key(w, key) ==
  CASE key = "cr" -> [HandleInput(Send(w), w.p.buf) EXCEPT !.p.buf = "none"]
    [] key \in Texts -> Send([w EXCEPT !.p.buf = key])
    [] OTHER -> w

(* Mutant: the timer is remembered as the connect timer.                   *)
StartIdleMixed(w, s) ==
  IF IdleTimeout THEN [w EXCEPT !.idles = @ \cup {w.p.timer}] ELSE w

(* _startIdleTimer(), _resetIdleTimer()                                    *)
StartIdle(w, s) ==
  IF IdleTimeout THEN [w EXCEPT !.idles = @ \cup {s}, !.p.idle = s] ELSE w

(* The keys of one read, one after the other.                              *)
Keys(w, keys) ==
  LET after[i \in 0 .. Len(keys)] ==
        IF i = 0 THEN w ELSE Key(after[i - 1], keys[i])
  IN after[Len(keys)]

-----------------------------------------------------------------------------
Hosts(keys) == Cardinality({i \in DOMAIN keys : keys[i] = "host"})

(* receive(); connections are bounded.                                     *)
Receive(keys) ==
  /\ ~over
  /\ Hosts(Append(keys, p.buf)) <= Cardinality({s \in Sockets : conn[s] = "new"})
  /\ LET w == ScheduleHeartbeat(World)
     IN CASE p.state = "PROXYING" ->
               Becomes(IF keys = <<"esc">> THEN ReturnToMenu(Send(w)) ELSE w)
          [] p.state = "MENU" -> Becomes(Keys(w, keys))
          [] p.state = "CONNECTING" -> Becomes(w)
  /\ UNCHANGED <<over, beats>>

(* Mutant: the connect timer is left running.                              *)
ConnectedKeepsTimer(s) ==
  /\ conn[s] = "connecting"
  /\ \A r \in Sockets : r < s => conn[r] # "destroyed"
  /\ LET w == [World EXCEPT !.conn[s] = "open", !.p.timer = None,
                            !.p.state = "PROXYING"]
     IN Becomes(StartIdle(Send(w), s))
  /\ UNCHANGED <<over, beats>>

(* The connection is made.  What was destroyed before has closed by now:   *)
(* 'close' comes within the turn of the event loop.                        *)
Connected(s) ==
  /\ conn[s] = "connecting"
  /\ \A r \in Sockets : r < s => conn[r] # "destroyed"
  /\ LET w == [World EXCEPT !.conn[s] = "open", !.timers = @ \ {p.timer},
                            !.p.timer = None, !.p.state = "PROXYING"]
     IN Becomes(StartIdle(Send(w), s))
  /\ UNCHANGED <<over, beats>>

(* It is refused, or breaks: 'error'.                                      *)
SocketError(s) ==
  /\ conn[s] \in {"connecting", "open"}
  /\ LET w == [World EXCEPT !.timers = @ \ {p.timer}, !.conn[s] = "destroyed"]
     IN Becomes(ReturnToMenu(Send(w)))
  /\ UNCHANGED <<over, beats>>

(* The other end closes.                                                   *)
RemoteEnds(s) ==
  /\ conn[s] = "open"
  /\ conn' = [conn EXCEPT ![s] = "ended"]
  /\ UNCHANGED <<p, timers, idles, over, beats>>

(* Mutant: 'close' is only logged.                                         *)
SocketCloseSilent(s) ==
  /\ conn[s] \in {"destroyed", "ended"}
  /\ Becomes([World EXCEPT !.conn[s] = "closed"])
  /\ UNCHANGED <<over, beats>>

(* 'close': the caller is told while a connection is in use.               *)
SocketClose(s) ==
  /\ conn[s] \in {"destroyed", "ended"}
  /\ LET w == [World EXCEPT !.conn[s] = "closed"]
     IN Becomes(IF p.state = "PROXYING" THEN ReturnToMenu(Send(w)) ELSE w)
  /\ UNCHANGED <<over, beats>>

(* 'data' from the other end.                                              *)
SocketData(s) ==
  /\ conn[s] = "open"
  /\ Becomes(Send(World))
  /\ UNCHANGED <<over, beats>>

(* Mutant: the caller is told, and that is all.                            *)
ConnectTimeoutTells(s) ==
  /\ s \in timers
  /\ Becomes(Send([World EXCEPT !.timers = @ \ {s}]))
  /\ UNCHANGED <<over, beats>>

ConnectTimeout(s) ==
  /\ s \in timers
  /\ Becomes(ReturnToMenu(Send([World EXCEPT !.timers = @ \ {s}])))
  /\ UNCHANGED <<over, beats>>

IdleFires(s) ==
  /\ s \in idles
  /\ Becomes(ReturnToMenu(CloseConnection(Send([World EXCEPT !.idles = @ \ {s}]))))
  /\ UNCHANGED <<over, beats>>

(* Time passes; _fireMenuHeartbeat() when it is up.                        *)
Tick ==
  /\ p.beat \in 1 .. Heartbeat
  /\ p' = [p EXCEPT !.beat = @ - 1]
  /\ UNCHANGED <<conn, timers, idles, over, beats>>

FireHeartbeat ==
  /\ p.beat = 0 /\ beats < MaxBeats
  /\ IF p.state # "MENU"
     THEN Becomes([World EXCEPT !.p.beat = Off]) /\ UNCHANGED beats
     ELSE Becomes(ScheduleHeartbeat(World)) /\ beats' = beats + 1
  /\ UNCHANGED over

(* disconnect(): the call is over.  The connect timer is not cleared.      *)
Disconnect ==
  /\ ~over
  /\ over' = TRUE
  /\ Becomes([CloseConnection(World) EXCEPT !.p.state = "CLOSING", !.p.beat = Off])
  /\ UNCHANGED beats

-----------------------------------------------------------------------------
Next ==
  \/ \E keys \in Chunks : Receive(keys)
  \/ \E s \in Sockets :
       Connected(s) \/ SocketError(s) \/ RemoteEnds(s) \/ SocketClose(s)
       \/ SocketData(s) \/ ConnectTimeout(s) \/ IdleFires(s)
  \/ Tick \/ FireHeartbeat \/ Disconnect

Spec == Init /\ [][Next]_vars

(* Node's timers fire, and a closed socket says so.                        *)
FairSpec ==
  /\ Spec
  /\ WF_vars(Tick) /\ WF_vars(FireHeartbeat)
  /\ \A s \in Sockets : WF_vars(ConnectTimeout(s)) /\ WF_vars(SocketClose(s))

-----------------------------------------------------------------------------
Live == {s \in Sockets : conn[s] \in {"connecting", "open", "ended"}}

(* In the proxying state there is a connection that was made: the screen   *)
(* a caller types at is never left behind by a connection that is gone.    *)
ProxyingMeansConnected ==
  p.state = "PROXYING" =>
    p.socket # None /\ conn[p.socket] \in {"open", "ended"}

(* There is one connection at a time, and none once the call is over,      *)
(* whatever order timeouts, errors and the caller's keys come in.          *)
OneConnection ==
  /\ Cardinality(Live) <= 1
  /\ Live # {} => ~over /\ p.socket \in Live

(* A connect timer runs for the connection being made, never for one that  *)
(* was made, refused or given up - it would cut off a later one.           *)
NoStrayTimeout ==
  ~over => \A s \in timers : p.state = "CONNECTING" /\ p.socket = s

(* The idle timer runs for the connection in use only, or it would put the *)
(* caller of the next one out.                                             *)
IdleOnlyProxying ==
  idles # {} => p.state = "PROXYING" /\ idles = {p.socket}

(* The heartbeat's CR never lands in a connection's data.                  *)
BeatOnlyInMenu == p.beat # Off => p.state = "MENU"

(* An attempt to connect ends, and so does a proxied connection whose      *)
(* other end is gone.                                                      *)
AttemptEnds == (p.state = "CONNECTING") ~> (p.state # "CONNECTING")
ProxyEnds ==
  \A s \in Sockets :
    (conn[s] = "ended") ~> (conn[s] = "closed" /\ p.socket # s)

(* TelnetProxy.js: "PROXYING: Bidirectional proxy active": what the caller *)
(* types goes to the connection the proxy reads from.                      *)
ProxyIsBidirectional ==
  p.state = "PROXYING" =>
    \A s \in Sockets : conn[s] = "open" => p.socket = s

(* heartbeat.test.js: "The heartbeat is cancelled on disconnect/close."    *)
BeatCancelled == over => p.beat = Off

(* heartbeat.test.js: "receive() activity does NOT defer the next          *)
(* heartbeat".                                                             *)
BeatNotDeferred ==
  (p.state = "MENU" /\ beats = 0) ~> (beats > 0 \/ p.state # "MENU")

(* One connection at a time, and a timer only in the state it is meant     *)
(* for.                                                                    *)
TelnetSafe ==
  /\ TypeOK /\ ProxyingMeansConnected /\ OneConnection /\ NoStrayTimeout
  /\ IdleOnlyProxying /\ BeatOnlyInMenu

=============================================================================
