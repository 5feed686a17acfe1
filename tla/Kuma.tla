---------------------------------- MODULE Kuma ----------------------------------
(***************************************************************************)
(* The client of Uptime Kuma (stdlib_kuma.go): each builtin dials, logs    *)
(* in, makes one or two calls and closes the connection.  The dial waits   *)
(* for Kuma four times, and only its second wait has a timeout.  main then *)
(* sends a call and waits for its answer, a timeout or the end of the      *)
(* connection; the goroutine readLoop takes the answers from the socket    *)
(* and hands each to the channel of its number in pending, with mu held.   *)
(*                                                                         *)
(* Uptime Kuma is external: it executes calls in order, answers or does    *)
(* not, and may go away.                                                   *)
(*                                                                         *)
(* Of what the code permits, KumaFeatures names what is enumerated:        *)
(*   "refused"    Kuma answers a call other than login and addMaintenance  *)
(*                with ok = false, which nobody looks at                   *)
(*                (stdlib_kuma.go:375, :410)                               *)
(*   "ping_race"  the reader answers a ping while main writes (:170)       *)
(*   "silent"     Kuma accepts the connection and then leaves the dial     *)
(*                without an answer, for which it waits forever            *)
(*                (http.Get, :72; ReadMessage without deadline, :137,      *)
(*                :151)                                                    *)
(***************************************************************************)
EXTENDS Integers, Sequences

CONSTANTS KumaFeatures,  \* a set of the names above
          MaxPings       \* the pings of the server

ASSUME KumaAssumption == KumaFeatures \subseteq {"refused", "ping_race", "silent"} /\ MaxPings \in Nat

VARIABLES
  caller,     \* where main is, in which builtin, at which of its calls, and what it returns
  pending,    \* the numbers in the map pending
  channel,    \* the channel of each number that was given
  mu,         \* who holds the mutex, or "free"
  loop,       \* where readLoop is, and the answer it has in hand
  socket,     \* "none", "up", "closed" by us, "lost"
  toKuma, fromKuma,  \* what is on the way
  kuma        \* the server: the maintenances, the monitors at rest, who is logged in, the pings sent

clientVars == <<caller, pending, channel, mu, loop, socket>>
kumaVars   == <<clientVars, toKuma, fromKuma, kuma>>

Ping == [id |-> 0, says |-> "ping"]

Calls == [SetMaintenance    |-> <<"login", "addMaintenance", "addMonitorMaintenance">>,
          StopMaintenance   |-> <<"login", "editMaintenance">>,
          DeleteMaintenance |-> <<"login", "deleteMaintenance">>,
          PauseMonitor      |-> <<"login", "pauseMonitor">>,
          ResumeMonitor     |-> <<"login", "resumeMonitor">>]

CallOf == Calls[caller.builtin][caller.step]
Number == Len(channel)

\* The room in the channel of a call; without it the reader would wait for main with mu held.
Capacity_None == 0

Capacity == 1

KumaInit ==
  /\ caller = [at |-> "idle", builtin |-> "none", step |-> 0, result |-> "none"]
  /\ pending = {} /\ channel = <<>> /\ mu = "free" /\ socket = "none"
  /\ loop = [at |-> "none", answer |-> Ping]
  /\ toKuma = <<>> /\ fromKuma = <<>>
  /\ kuma \in [open : {{"old"}}, active : {{"old"}}, assigned : {{"old"}}, paused : BOOLEAN,
               user : {FALSE}, pings : {0}]

-----------------------------------------------------------------------------
(***************************************************************************)
(* main.                                                                   *)
(***************************************************************************)
At(where) == caller' = [caller EXCEPT !.at = where]

\* The deferred client.close().
Finish(result) ==
  /\ caller' = [caller EXCEPT !.at = "returned", !.result = result]
  /\ socket' = IF socket = "up" THEN "closed" ELSE socket

\* What main waits for in kumaDial: the session by HTTP, the upgrade to a WebSocket, the answer to
\* its probe and the one to the connection; then the goroutine is started.
After == [session |-> "upgrade", upgrade |-> "probe", probe |-> "connect", connect |-> "call"]

Dialing == caller.at \in DOMAIN After

Dial ==
  /\ caller.at = "idle"
  /\ \E b \in DOMAIN Calls : caller' = [at |-> "session", builtin |-> b, step |-> 0, result |-> "none"]
  /\ UNCHANGED <<pending, channel, mu, loop, socket, toKuma, fromKuma, kuma>>

DialGoesOn ==
  /\ Dialing /\ socket # "lost"
  /\ caller' = [caller EXCEPT !.at = After[@], !.step = IF caller.at = "connect" THEN 1 ELSE 0]
  /\ socket' = IF caller.at = "upgrade" THEN "up" ELSE socket
  /\ loop' = IF caller.at = "connect" THEN [loop EXCEPT !.at = "reading"] ELSE loop
  /\ UNCHANGED <<pending, channel, mu, toKuma, fromKuma, kuma>>

\* No answer, another one than that expected, or the end of the connection: conn.Close().
DialFails ==
  /\ Dialing /\ Finish("error")
  /\ UNCHANGED <<pending, channel, mu, loop, toKuma, fromKuma, kuma>>

\* call: a number and a channel for the answer,
Prepare ==
  /\ caller.at = "call" /\ mu = "free"
  /\ channel' = Append(channel, <<>>)
  /\ pending' = pending \cup {Number + 1}
  /\ At("writing")
  /\ UNCHANGED <<mu, loop, socket, toKuma, fromKuma, kuma>>

\* the message,
Write ==
  /\ caller.at = "writing"
  /\ IF socket = "up"
     THEN /\ toKuma' = Append(toKuma, [id |-> Number, call |-> CallOf])
          /\ At("waiting") /\ UNCHANGED socket
     ELSE Finish("error") /\ UNCHANGED toKuma
  /\ UNCHANGED <<pending, channel, mu, loop, fromKuma, kuma>>

\* A bug of the kind an answer of many forms invites: any answer to login is taken for a success.
Accepted_Any(answer) == answer # "refused" \/ CallOf # "addMaintenance"

\* and of what Kuma says, only the answers to login and addMaintenance are looked at.
Accepted(answer) == answer # "refused" \/ CallOf \notin {"login", "addMaintenance"}

TakeReply ==
  /\ caller.at = "waiting" /\ channel[Number] # <<>>
  /\ LET answer == Head(channel[Number])
     IN  IF ~ Accepted(answer) THEN Finish("error")
         ELSE IF caller.step < Len(Calls[caller.builtin])
              THEN caller' = [caller EXCEPT !.at = "call", !.step = @ + 1] /\ UNCHANGED socket
              ELSE Finish(IF caller.builtin = "SetMaintenance" THEN "id" ELSE "OK")
  /\ channel' = [channel EXCEPT ![Number] = <<>>]
  /\ UNCHANGED <<pending, mu, loop, toKuma, fromKuma, kuma>>

\* time.After, with the answer possibly in the channel, and the lock it takes then.
CallTimesOut ==
  /\ caller.at = "waiting"
  /\ At("timeout")
  /\ UNCHANGED <<pending, channel, mu, loop, socket, toKuma, fromKuma, kuma>>

Forget ==
  /\ caller.at = "timeout" /\ mu = "free"
  /\ pending' = pending \ {Number}
  /\ Finish("error")
  /\ UNCHANGED <<channel, mu, loop, toKuma, fromKuma, kuma>>

SeesClosed ==
  /\ caller.at = "waiting" /\ loop.at = "ended"
  /\ Finish("error")
  /\ UNCHANGED <<pending, channel, mu, loop, toKuma, fromKuma, kuma>>

-----------------------------------------------------------------------------
(***************************************************************************)
(* readLoop.                                                               *)
(***************************************************************************)
ReadAnswer ==
  /\ loop.at = "reading" /\ fromKuma # <<>> /\ Head(fromKuma) # Ping
  /\ loop' = [at |-> "locking", answer |-> Head(fromKuma)]
  /\ fromKuma' = Tail(fromKuma)
  /\ UNCHANGED <<caller, pending, channel, mu, socket, toKuma, kuma>>

\* WriteMessage may be used by one goroutine at a time: gorilla/websocket panics otherwise.
Pong ==
  /\ loop.at = "reading" /\ fromKuma # <<>> /\ Head(fromKuma) = Ping
  /\ "ping_race" \in KumaFeatures \/ caller.at # "writing"
  /\ fromKuma' = Tail(fromKuma)
  /\ IF caller.at = "writing" THEN At("panic") ELSE UNCHANGED caller
  /\ UNCHANGED <<pending, channel, mu, loop, socket, toKuma, kuma>>

LockPending ==
  /\ loop.at = "locking" /\ mu = "free"
  /\ IF loop.answer.id \in pending
     THEN mu' = "reader" /\ loop' = [loop EXCEPT !.at = "handing"]
     ELSE loop' = [loop EXCEPT !.at = "reading"] /\ UNCHANGED mu
  /\ UNCHANGED <<caller, pending, channel, socket, toKuma, fromKuma, kuma>>

\* ch <- arr[0]: into the channel, or to main where it waits.
HandOver ==
  /\ loop.at = "handing"
  /\ LET id == loop.answer.id
     IN  /\ Len(channel[id]) < Capacity \/ (caller.at = "waiting" /\ id = Number /\ channel[id] = <<>>)
         /\ channel' = [channel EXCEPT ![id] = Append(@, loop.answer.says)]
         /\ pending' = pending \ {id}
  /\ mu' = "free" /\ loop' = [loop EXCEPT !.at = "reading"]
  /\ UNCHANGED <<caller, socket, toKuma, fromKuma, kuma>>

\* The connection ends, with what had arrived possibly unread.
ReadEnds ==
  /\ loop.at = "reading" /\ socket \in {"closed", "lost"}
  /\ loop' = [loop EXCEPT !.at = "ended"]
  /\ UNCHANGED <<caller, pending, channel, mu, socket, toKuma, fromKuma, kuma>>

-----------------------------------------------------------------------------
(***************************************************************************)
(* Uptime Kuma.                                                            *)
(***************************************************************************)
Executed(call) ==
  CASE call = "login"                 -> [kuma EXCEPT !.user = TRUE]
    [] call = "addMaintenance"        -> [kuma EXCEPT !.open = @ \cup {"new"}, !.active = @ \cup {"new"}]
    [] call = "addMonitorMaintenance" -> [kuma EXCEPT !.assigned = @ \cup {"new"}]
    [] call = "editMaintenance"       -> [kuma EXCEPT !.active = @ \ {"old"}]
    [] call = "deleteMaintenance"     -> [kuma EXCEPT !.open = @ \ {"old"}, !.active = @ \ {"old"}]
    [] call = "pauseMonitor"          -> [kuma EXCEPT !.paused = TRUE]
    [] call = "resumeMonitor"         -> [kuma EXCEPT !.paused = FALSE]

Answer(says) ==
  fromKuma' = IF socket = "closed" THEN fromKuma ELSE Append(fromKuma, [id |-> Head(toKuma).id, says |-> says])

ServeCall ==
  /\ toKuma # <<>> /\ socket # "lost"
  /\ toKuma' = Tail(toKuma)
  /\ LET call == Head(toKuma).call
     IN  \/ /\ kuma.user \/ call = "login"
            /\ kuma' = Executed(call)
            /\ Answer("ok") \/ UNCHANGED fromKuma
         \/ /\ ~ kuma.user \/ call = "addMaintenance" \/ "refused" \in KumaFeatures
            /\ Answer("refused") /\ UNCHANGED kuma
  /\ UNCHANGED clientVars

\* A ping in the midst of the dial is another answer than that expected, as in DialFails.
SendPing ==
  /\ socket = "up" /\ ~ Dialing /\ kuma.pings < MaxPings
  /\ kuma' = [kuma EXCEPT !.pings = @ + 1]
  /\ fromKuma' = Append(fromKuma, Ping)
  /\ UNCHANGED <<clientVars, toKuma>>

GoesAway ==
  /\ socket = "up" /\ socket' = "lost"
  /\ UNCHANGED <<caller, pending, channel, mu, loop, toKuma, fromKuma, kuma>>

HandshakeStep == DialGoesOn \/ DialFails
Main          == Prepare \/ Write \/ TakeReply \/ CallTimesOut \/ Forget \/ SeesClosed
Reader        == ReadAnswer \/ Pong \/ LockPending \/ HandOver \/ ReadEnds

KumaNext == Dial \/ HandshakeStep \/ Main \/ Reader \/ ServeCall \/ SendPing \/ GoesAway

\* The waits of the dial that end: the upgrade has the HandshakeTimeout of websocket.DefaultDialer,
\* and a lost connection is noticed.  That the others end is an assumption on Kuma.
HandshakeEnds ==
  HandshakeStep /\ (caller.at = "upgrade" \/ socket = "lost" \/ "silent" \notin KumaFeatures)

\* Goroutines that can go on do, and a deadline passes; once the dial is over, Kuma promises nothing.
KumaFairness == WF_kumaVars(HandshakeEnds) /\ WF_kumaVars(Main) /\ WF_kumaVars(Reader)

KumaSpec == KumaInit /\ [][KumaNext]_kumaVars /\ KumaFairness

-----------------------------------------------------------------------------
\* What a script is told has happened: a number is that of a maintenance that is active for the
\* monitors, "OK" says that the call was executed (md/kuma.md: "bei Erfolg"), an error at the login
\* that nothing was changed.  And what is left in pending has no answer that anybody waits for.
KumaResultsMean ==
  /\ caller.result = "id" => "new" \in kuma.active /\ "new" \in kuma.assigned
  /\ caller.result = "OK" =>
       CASE caller.builtin = "StopMaintenance"   -> "old" \notin kuma.active
         [] caller.builtin = "DeleteMaintenance" -> "old" \notin kuma.open
         [] caller.builtin = "PauseMonitor"      -> kuma.paused
         [] caller.builtin = "ResumeMonitor"     -> ~ kuma.paused
  /\ caller.at = "returned" /\ caller.step < 2 =>
       kuma.open = {"old"} /\ kuma.active = {"old"}
  /\ caller.at = "returned" /\ caller.result # "error" => pending = {}
  /\ caller.at = "waiting" => Number \in pending \/ channel[Number] # <<>>

\* A builtin of Kuma that dials returns, its connection closed or lost and its reader, where it was
\* started, ended.  The calls have a timeout each (stdlib_kuma.go:213) and need no answer; the dial
\* has none but for the upgrade (:72, :137, :151), so that Kuma is assumed to answer it or to go
\* away: with "silent" the property does not hold.
KumaReturns ==
  caller.at = "session" ~> (caller.at = "returned" /\ socket # "up" /\ loop.at \in {"none", "ended"})
================================================================================
