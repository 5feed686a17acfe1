------------------------------ MODULE ObsSession ------------------------------
(***************************************************************************)
(* A script that records with OBS Studio, and the end of the process       *)
(* (stdlib_websocket.go).                                                  *)
(*                                                                         *)
(* Three goroutines share a connection: main runs the script and, after    *)
(* it, the deferred half of runWithShutdownHook; hook waits for Ctrl+C or  *)
(* SIGTERM; reader (readLoop) moves messages from the socket to a bounded  *)
(* channel.  obsRecording says that the running recording is the script's, *)
(* and decides whether the end of the process stops it.                    *)
(*                                                                         *)
(* OBS itself and the socket are external: OBS answers requests in order,  *)
(* sends events in between, and executes what was written before the       *)
(* process ended.  What is sent to it or received is reduced to the        *)
(* request, its identifier and the answer.                                 *)
(***************************************************************************)
EXTENDS Naturals, Sequences

CONSTANTS
  QueueSize,     \* capacity of the channel messages (64 in the code)
  MaxRequests,   \* bound on the requests of the script
  MaxEvents,     \* bound on the events OBS sends
  Features

(***************************************************************************)
(* script_goes_on   the script begins another call, or ends, although the  *)
(*                  signal has arrived: nothing stops the goroutine main   *)
(* signal_at_exit   the signal arrives when the script has ended           *)
(* by_hand          somebody operates OBS while the script's recording, or *)
(*                  obsRecording, is on                                    *)
(***************************************************************************)
AllFeatures == {"script_goes_on", "signal_at_exit", "by_hand"}

ASSUME ObsAssumption ==
  /\ QueueSize \in Nat \ {0}
  /\ MaxRequests \in Nat
  /\ MaxEvents \in Nat
  /\ Features \subseteq AllFeatures

VARIABLES
  at,         \* what main and hook are executing
  call,       \* the builtin main is in
  id,         \* the identifier of the request each of the two waits for
  lastId,     \* obsRequestNext
  readMu,     \* who holds readMu, or "free"
  flag,       \* obsRecording
  registered, \* the connection is in webSocketConnections
  link,       \* the socket: none, up, closed (by us), lost
  toObs, fromObs,  \* what is on the way
  queue,      \* the channel messages
  done,       \* the channel done is closed: the reader has ended
  signal,     \* none, pending (in sigCh), or ignored (signal.Stop was called)
  process,    \* running, or exited
  recording,  \* OBS records
  ours,       \* history: the recording was started by a request of VBX
  abandoned,  \* history: a StartRecord was given up without its answer
  events      \* number of events sent

calls  == <<at, call, id, lastId>>
client == <<readMu, flag, registered, link, queue, done>>
wire   == <<toObs, fromObs>>
ends   == <<signal, process>>
obs    == <<recording, ours, events>>
vars   == <<calls, client, wire, ends, obs, abandoned>>

Threads  == {"main", "hook"}
Requests == {"GetRecordStatus", "StartRecord", "StopRecord"}
Builtins == {"OBSGetRecordStatus", "OBSStartRecord", "OBSStopRecord"}

ExitId  == 0          \* "vbx-exit", the request whose answer nobody waits for
NoId    == MaxRequests + 3
Hello      == [op |-> "Hello"]
Identified == [op |-> "Identified"]
Event      == [op |-> "Event"]
Response(i, ok, active) == [op |-> "Response", id |-> i, ok |-> ok, active |-> active]
Request(r, i) == [op |-> r, id |-> i]

Init ==
  /\ at = [main |-> "idle", hook |-> "listening"]
  /\ call = "none" /\ id = [t \in Threads |-> NoId] /\ lastId = 0
  /\ readMu = "free" /\ flag = FALSE /\ registered = FALSE
  /\ link = "none" /\ toObs = <<>> /\ fromObs = <<>>
  /\ queue = <<>> /\ done = FALSE
  /\ signal = "none" /\ process = "running"
  /\ recording \in BOOLEAN /\ ours = FALSE /\ abandoned = FALSE /\ events = 0

Running == process = "running"

\* main, or hook, goes on with p.
Goes(t, p) == at' = [at EXCEPT ![t] = p]

\* The script may begin a call or end.
ScriptMoves ==
  /\ Running /\ at["main"] = "idle"
  /\ "script_goes_on" \notin Features => signal = "none" /\ at["hook"] = "listening"

--------------------------------------------------------------------------------
(* A request: obsRequest.                                                   *)

\* It locks readMu, numbers the request and sends it.
Send(t, request) ==
  /\ readMu = "free"
  /\ lastId' = lastId + 1
  /\ id' = [id EXCEPT ![t] = lastId + 1]
  /\ readMu' = t
  /\ toObs' = IF link = "up" THEN Append(toObs, Request(request, lastId + 1)) ELSE toObs
  /\ UNCHANGED <<flag, registered, link, queue, done, fromObs, ends, obs, abandoned>>

Awaiting(t) == at[t] \in {"status", "change", "stopping"}

\* The answer to another request, an event or anything else is dropped.
Answers(m, t) == m.op = "Response" /\ m.id = id[t]

Unlock(t) == readMu' = "free" /\ id' = [id EXCEPT ![t] = NoId]

Drop(t) ==
  /\ Running /\ Awaiting(t) /\ queue # <<>> /\ ~Answers(Head(queue), t)
  /\ queue' = Tail(queue)
  /\ UNCHANGED <<calls, readMu, flag, registered, link, done, wire, ends, obs, abandoned>>

\* What main does with the answer: GetRecordStatus precedes StartRecord, which
\* wants OBS idle, and StopRecord, which wants it recording.
AfterAnswer(m) ==
  CASE at["main"] = "change" /\ m.ok -> "store"
    [] at["main"] = "status" /\ m.ok /\ call # "OBSGetRecordStatus"
         /\ (m.active <=> call = "OBSStopRecord") -> "ready"
    [] OTHER -> "idle"

TakeAnswer(t) ==
  /\ Running /\ Awaiting(t) /\ queue # <<>> /\ Answers(Head(queue), t)
  /\ queue' = Tail(queue)
  /\ Goes(t, IF at[t] = "stopping" THEN "leaving" ELSE AfterAnswer(Head(queue)))
  /\ Unlock(t)
  /\ UNCHANGED <<call, lastId, flag, registered, link, done, wire, ends, obs, abandoned>>

\* The deadline passes, or the connection ends.
GiveUp(t) ==
  /\ Running /\ Awaiting(t)
  /\ Goes(t, IF at[t] = "stopping" THEN "leaving" ELSE "idle")
  /\ Unlock(t)
  /\ abandoned' = (abandoned \/ (at[t] = "change" /\ call = "OBSStartRecord"))
  /\ UNCHANGED <<call, lastId, flag, registered, link, queue, done, wire, ends, obs>>

--------------------------------------------------------------------------------
(* The script.                                                              *)

\* OBSConnect: the connection is registered before the handshake.
OBSConnect ==
  /\ ScriptMoves /\ link = "none"
  /\ link' = "up" /\ registered' = TRUE
  /\ fromObs' = <<Hello>>
  /\ Goes("main", "hello")
  /\ UNCHANGED <<call, id, lastId, readMu, flag, queue, done, toObs, ends, obs, abandoned>>

Handshake ==
  /\ Running /\ at["main"] \in {"hello", "identify"} /\ queue # <<>>
  /\ queue' = Tail(queue)
  /\ IF at["main"] = "hello"
     THEN Goes("main", "identify") /\ toObs' = Append(toObs, Request("Identify", ExitId))
     ELSE Goes("main", "idle") /\ UNCHANGED toObs
  /\ UNCHANGED <<call, id, lastId, readMu, flag, registered, link, done, fromObs,
                 ends, obs, abandoned>>

\* Close, and the failure of OBSConnect: the connection leaves the registry.
Discard ==
  /\ Goes("main", "idle")
  /\ registered' = FALSE /\ link' = IF link = "up" THEN "closed" ELSE link
  /\ fromObs' = <<>>
  /\ UNCHANGED <<call, id, lastId, readMu, flag, queue, done, toObs, ends, obs, abandoned>>

HandshakeFails == Running /\ at["main"] \in {"hello", "identify"} /\ Discard

Close == ScriptMoves /\ registered /\ Discard

\* The three builtins begin with a GetRecordStatus.
Begin(builtin) ==
  /\ ScriptMoves /\ registered /\ lastId < MaxRequests
  /\ call' = builtin
  /\ Goes("main", "status")
  /\ Send("main", "GetRecordStatus")

Change ==
  /\ Running /\ at["main"] = "ready"
  /\ Goes("main", "change")
  /\ UNCHANGED call
  /\ Send("main", IF call = "OBSStartRecord" THEN "StartRecord" ELSE "StopRecord")

\* A bug of the kind two Stores invite: both clear the flag.
Store_Clears ==
  /\ Running /\ at["main"] = "store"
  /\ flag' = FALSE
  /\ Goes("main", "idle")
  /\ UNCHANGED <<call, id, lastId, readMu, registered, link, queue, done, wire, ends, obs, abandoned>>

\* The answer has arrived and readMu is free again.
Store ==
  /\ Running /\ at["main"] = "store"
  /\ flag' = (call = "OBSStartRecord")
  /\ Goes("main", "idle")
  /\ UNCHANGED <<call, id, lastId, readMu, registered, link, queue, done, wire, ends, obs, abandoned>>

\* Receive, without a timeout (blocking) or with one.
Receive(how) ==
  /\ ScriptMoves /\ registered /\ readMu = "free"
  /\ readMu' = "main"
  /\ Goes("main", how)
  /\ UNCHANGED <<call, id, lastId, flag, registered, link, queue, done, wire, ends, obs, abandoned>>

EndReceive ==
  /\ Running /\ at["main"] \in {"receive", "receiveTimeout"}
  /\ queue # <<>> \/ done \/ at["main"] = "receiveTimeout"
  /\ queue' = IF queue # <<>> THEN Tail(queue) ELSE queue
  /\ Goes("main", "idle") /\ readMu' = "free"
  /\ UNCHANGED <<call, id, lastId, flag, registered, link, done, wire, ends, obs, abandoned>>

--------------------------------------------------------------------------------
(* The end of the process: runWithShutdownHook and StopAllOBSRecordings.    *)

\* It begins with a copy of the registry.
Shutdown(t) == Goes(t, IF registered THEN "swap" ELSE "leaving")

\* The script has ended: signal.Stop, close(done), StopAllOBSRecordings.
ScriptEnds ==
  /\ ScriptMoves
  /\ Shutdown("main")
  /\ signal' = IF signal = "none" THEN "ignored" ELSE signal
  /\ UNCHANGED <<call, id, lastId, client, wire, process, obs, abandoned>>

\* Ctrl+C or SIGTERM.  After signal.Stop it ends the process at once.
Signal ==
  /\ Running
  /\ \/ signal = "none" /\ signal' = "pending" /\ UNCHANGED process
     \/ /\ "signal_at_exit" \in Features
        /\ signal = "ignored" /\ process' = "exited" /\ UNCHANGED signal
  /\ UNCHANGED <<calls, client, wire, obs, abandoned>>

\* The select of the hook.
HookWakes ==
  /\ Running /\ at["hook"] = "listening"
  /\ \/ signal = "pending" /\ Shutdown("hook")
     \/ at["main"] \in {"swap", "try", "lock", "stopping", "leaving"} /\ Goes("hook", "gone")
  /\ UNCHANGED <<call, id, lastId, client, wire, ends, obs, abandoned>>

\* obsRecording.Swap(false)
Swap(t) ==
  /\ Running /\ at[t] = "swap"
  /\ flag' = FALSE
  /\ Goes(t, IF flag THEN "try" ELSE "leaving")
  /\ UNCHANGED <<call, id, lastId, readMu, registered, link, queue, done, wire, ends, obs, abandoned>>

\* A bug of the kind locks invite: without TryLock, the hook waits for the
\* lock that Receive holds.
TryLock_Waits(t) ==
  /\ Running /\ at[t] = "try"
  /\ Goes(t, "lock")
  /\ UNCHANGED <<call, id, lastId, client, wire, ends, obs, abandoned>>

\* A bug of the opposite kind: a connection somebody reads from is skipped.
TryLock_SkipsBusy(t) ==
  /\ Running /\ at[t] = "try"
  /\ Goes(t, IF readMu = "free" THEN "lock" ELSE "leaving")
  /\ UNCHANGED <<call, id, lastId, client, wire, ends, obs, abandoned>>

\* TryLock and Unlock: obsRequest locks again.  If somebody reads, the request
\* is sent without waiting for its answer.
TryLock(t) ==
  /\ Running /\ at[t] = "try"
  /\ Goes(t, IF readMu = "free" THEN "lock" ELSE "leaving")
  /\ toObs' = IF readMu # "free" /\ link = "up"
              THEN Append(toObs, Request("StopRecord", ExitId)) ELSE toObs
  /\ UNCHANGED <<call, id, lastId, client, fromObs, ends, obs, abandoned>>

RequestStop(t) ==
  /\ Running /\ at[t] = "lock"
  /\ Goes(t, "stopping")
  /\ UNCHANGED call
  /\ Send(t, "StopRecord")

\* os.Exit(130), or main returns.
Exit(t) ==
  /\ Running /\ at[t] = "leaving"
  /\ process' = "exited"
  /\ UNCHANGED <<calls, client, wire, signal, obs, abandoned>>

--------------------------------------------------------------------------------
(* readLoop.                                                                *)

ReadMessage ==
  /\ Running /\ fromObs # <<>> /\ Len(queue) < QueueSize /\ ~done
  /\ queue' = Append(queue, Head(fromObs))
  /\ fromObs' = Tail(fromObs)
  /\ UNCHANGED <<calls, readMu, flag, registered, link, done, toObs, ends, obs, abandoned>>

ReadError ==
  /\ Running /\ link \in {"closed", "lost"} /\ ~done
  /\ done' = TRUE
  /\ UNCHANGED <<calls, readMu, flag, registered, link, queue, wire, ends, obs, abandoned>>

--------------------------------------------------------------------------------
(* OBS and the network.                                                     *)

Reply(m) == fromObs' = IF link = "up" THEN Append(fromObs, m) ELSE fromObs

Serve ==
  /\ toObs # <<>>
  /\ toObs' = Tail(toObs)
  /\ LET r  == Head(toObs)
         ok == \/ r.op = "GetRecordStatus"
               \/ r.op = "StartRecord" /\ ~recording
               \/ r.op = "StopRecord" /\ recording
     IN  /\ Reply(IF r.op = "Identify" THEN Identified ELSE Response(r.id, ok, recording))
         /\ recording' = CASE r.op = "StartRecord" -> TRUE
                           [] r.op = "StopRecord"  -> FALSE
                           [] OTHER -> recording
         /\ ours' = CASE r.op = "StartRecord" -> ours \/ ok
                      [] r.op = "StopRecord"  -> FALSE
                      [] OTHER -> ours
  /\ UNCHANGED <<calls, client, ends, events, abandoned>>

\* Once a client is identified, OBS reports what happens.
SendEvent ==
  /\ link = "up" /\ events < MaxEvents
  /\ at["main"] \notin {"hello", "identify"}
  /\ events' = events + 1
  /\ Reply(Event)
  /\ UNCHANGED <<calls, client, toObs, ends, recording, ours, abandoned>>

\* Somebody starts or stops a recording in OBS.
ByHand ==
  /\ "by_hand" \notin Features => ~flag /\ ~ours
  /\ recording' = ~recording /\ ours' = FALSE
  /\ UNCHANGED <<calls, client, wire, ends, events, abandoned>>

LoseConnection ==
  /\ Running /\ link = "up"
  /\ link' = "lost" /\ toObs' = <<>> /\ fromObs' = <<>>
  /\ UNCHANGED <<calls, readMu, flag, registered, queue, done, ends, obs, abandoned>>

--------------------------------------------------------------------------------
Request_(t) == Drop(t) \/ TakeAnswer(t) \/ GiveUp(t)

Ending(t) == Swap(t) \/ TryLock(t) \/ RequestStop(t) \/ Exit(t)

Next ==
  \/ OBSConnect \/ Handshake \/ HandshakeFails \/ Close
  \/ \E b \in Builtins : Begin(b)
  \/ Change \/ Store
  \/ \E how \in {"receive", "receiveTimeout"} : Receive(how)
  \/ EndReceive
  \/ ScriptEnds \/ Signal \/ HookWakes
  \/ \E t \in Threads : Request_(t) \/ Ending(t)
  \/ ReadMessage \/ ReadError
  \/ Serve \/ SendEvent \/ ByHand \/ LoseConnection

(***************************************************************************)
(* Goroutines that can go on do; a deadline passes; OBS executes what it   *)
(* has received.  Nobody promises that a script goes on, that OBS sends    *)
(* anything by itself or that a signal arrives.                            *)
(***************************************************************************)
Fairness ==
  /\ \A t \in Threads : WF_vars(Request_(t)) /\ WF_vars(Ending(t))
  /\ WF_vars(Handshake \/ HandshakeFails)
  /\ WF_vars(Change) /\ WF_vars(Store) /\ WF_vars(EndReceive)
  /\ WF_vars(HookWakes)
  /\ WF_vars(ReadMessage) /\ WF_vars(ReadError)
  /\ WF_vars(Serve)

Spec == Init /\ [][Next]_vars /\ Fairness

--------------------------------------------------------------------------------
(* Correctness.                                                             *)

Idle        == {"idle", "hello", "identify", "ready", "store"}
Waiting     == {"status", "change", "receive", "receiveTimeout"}
LeavingAt   == {"swap", "try", "lock", "stopping", "leaving"}
Messages    == {Hello, Identified, Event}
                 \cup {Response(i, ok, active) : i \in 0 .. NoId, ok \in BOOLEAN, active \in BOOLEAN}

\* The types, and: readMu is held by exactly the goroutine that waits for a
\* message, under a request of its own.
TypeOK ==
  /\ at \in [Threads -> Idle \cup Waiting \cup LeavingAt \cup {"listening", "gone"}]
  /\ call \in Builtins \cup {"none"}
  /\ id \in [Threads -> 0 .. NoId] /\ lastId \in 0 .. NoId
  /\ flag \in BOOLEAN /\ registered \in BOOLEAN /\ done \in BOOLEAN
  /\ link \in {"none", "up", "closed", "lost"}
  /\ queue \in Seq(Messages) /\ Len(queue) <= QueueSize /\ fromObs \in Seq(Messages)
  /\ signal \in {"none", "pending", "ignored"} /\ process \in {"running", "exited"}
  /\ recording \in BOOLEAN /\ ours \in BOOLEAN /\ abandoned \in BOOLEAN
  /\ \A t \in Threads : /\ readMu = t <=> at[t] \in Waiting \cup {"stopping"}
                        /\ id[t] # NoId <=> Awaiting(t)

\* A recording that VBX started is known as such, unless its start was given up
\* or the process is stopping it: no order of timeouts, late answers and calls
\* loses it.
OwnRecordingIsFlagged ==
  ours /\ ~abandoned =>
    \/ flag
    \/ call = "OBSStartRecord" /\ at["main"] \in {"change", "store"}
    \/ \E t \in Threads : at[t] \in LeavingAt

\* The signal, and the end of the script, end the process: whatever the script
\* is doing with the connection then, nobody waits for readMu for ever.
ShutdownEnds ==
  (signal = "pending" \/ at["main"] \in LeavingAt) ~> process = "exited"

\* A recording that OBSStartRecord has reported as started is stopped after
\* Ctrl+C or SIGTERM, unless the connection was closed or broke before
\* (md/websocket.md: "Die so gestartete Aufnahme wird bei Strg+C bzw. SIGTERM
\* automatisch gestoppt").
SignalStopsRecording ==
  (ours /\ flag /\ registered /\ signal = "pending" /\ at["hook"] = "listening")
    ~> (~ours \/ link = "lost")

\* The same, and the end of the script stops it too.
RecordingIsStopped ==
  /\ SignalStopsRecording
  /\ (ours /\ flag /\ at["main"] = "swap") ~> (~ours \/ link = "lost")
================================================================================
