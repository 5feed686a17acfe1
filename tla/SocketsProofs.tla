----------------------------- MODULE SocketsProofs -----------------------------
(***************************************************************************)
(* Proofs about the two users of WebSockets.                               *)
(*                                                                         *)
(* OBS, for any number of requests and events, and any capacity of the     *)
(* channel: the flag obsRecording is on whenever a recording runs that VBX *)
(* has started.  Between the request and the flag are two queues and a     *)
(* channel, and the answer may be lost, late, or to another request.  The  *)
(* invariant follows the one StartRecord that can be on its way: it waits  *)
(* at OBS, or its answer is on the way back, or main has it in hand.       *)
(*                                                                         *)
(* Uptime Kuma, for any number of pings: what a builtin returns is so.     *)
(* The calls of a builtin have numbers, and the invariant says of each     *)
(* number what its answer tells about Kuma, wherever that answer is: on    *)
(* the way, in the hand of the reader, or in its channel.                  *)
(***************************************************************************)
EXTENDS MCSockets, SequenceTheorems, TLAPS

Elems(s) == {s[i] : i \in 1 .. Len(s)}

Asked == [op : Requests \cup {"Identify"}, id : Nat]
Told  == {Hello, Identified, Event}
           \cup [op : {"Response"}, id : Nat, ok : BOOLEAN, active : BOOLEAN]

Types ==
  /\ at \in [Threads -> Idle \cup Waiting \cup LeavingAt \cup {"listening", "gone"}]
  /\ id \in [Threads -> Nat] /\ lastId \in Nat /\ recording \in BOOLEAN
  /\ toObs \in Seq(Asked) /\ queue \in Seq(Told) /\ fromObs \in Seq(Told)
  /\ at["hook"] \in LeavingAt \cup {"listening", "gone"}

\* The answers main and the hook may still get.
Back == {m \in Elems(queue) \cup Elems(fromObs) : m.op = "Response"}

\* A number is new when it is given.
Fresh ==
  /\ \A r \in Elems(toObs) : r.id <= lastId
  /\ \A m \in Back : m.id <= lastId

\* Nobody has given up a start or begun to end the process.
Calm == ~abandoned /\ \A t \in Threads : at[t] \notin LeavingAt

Starting == at["main"] = "change" /\ call = "OBSStartRecord"
Starts   == {i \in 1 .. Len(toObs) : toObs[i].op = "StartRecord"}
Mine     == {m \in Back : m.id = id["main"]}

\* A StartRecord that waits at OBS is the one main waits for, and the only one.
StartIsAwaited ==
  /\ \A i \in Starts : Starting /\ toObs[i].id = id["main"] /\ Mine = {}
  /\ \A i, j \in Starts : i = j

\* What is asked under the number main waits for is what main has asked.
NumberIsOwn ==
  at["main"] = "change" =>
    /\ id["main"] > 0
    /\ \A r \in Elems(toObs) :
         r.id = id["main"] => r.op = IF call = "OBSStartRecord" THEN "StartRecord" ELSE "StopRecord"

\* A recording of VBX is flagged, or main is about to hear of it.
StartIsHeard ==
  ours => \/ flag
          \/ Starting /\ Starts = {} /\ \A m \in Mine : m.ok
          \/ at["main"] = "store" /\ call = "OBSStartRecord"

\* When a StopRecord is answered, no recording of VBX runs.
StopIsHeard ==
  call # "OBSStartRecord" =>
    /\ at["main"] = "change" /\ Mine # {} => ~ours
    /\ at["main"] = "store" => ~ours

Facts == StartIsAwaited /\ NumberIsOwn /\ StartIsHeard /\ StopIsHeard

IInv == Types /\ Fresh /\ (Calm => Facts)

--------------------------------------------------------------------------------
\* What a queue holds when something is added at its end or taken from its front.
LEMMA ElementsOfAppend ==
  ASSUME NEW S, NEW s \in Seq(S), NEW e \in S
  PROVE  Append(s, e) \in Seq(S) /\ Elems(Append(s, e)) = Elems(s) \cup {e}
<1>1. Append(s, e) \in Seq(S) /\ Len(Append(s, e)) = Len(s) + 1
  OBVIOUS
<1>2. ASSUME NEW i \in 1 .. Len(s) + 1
      PROVE  Append(s, e)[i] = IF i <= Len(s) THEN s[i] ELSE e
  OBVIOUS
<1> QED
  BY <1>1, <1>2 DEF Elems

LEMMA ElementsOfTail ==
  ASSUME NEW S, NEW s \in Seq(S), s # <<>>
  PROVE  /\ Tail(s) \in Seq(S) /\ Len(Tail(s)) = Len(s) - 1 /\ Len(s) >= 1
         /\ Head(s) = s[1] /\ Head(s) \in S
         /\ \A i \in 1 .. Len(Tail(s)) : Tail(s)[i] = s[i + 1]
         /\ Elems(s) = {Head(s)} \cup Elems(Tail(s))
<1>1. /\ Tail(s) \in Seq(S) /\ Len(Tail(s)) = Len(s) - 1 /\ Len(s) >= 1
      /\ Head(s) = s[1] /\ Head(s) \in S
  OBVIOUS
<1>2. \A i \in 1 .. Len(Tail(s)) : Tail(s)[i] = s[i + 1]
  OBVIOUS
<1>3. ASSUME NEW i \in 1 .. Len(s)
      PROVE  i = 1 \/ (i - 1 \in 1 .. Len(Tail(s)) /\ s[i] = Tail(s)[i - 1])
  BY <1>1, <1>2
<1>4. Elems(s) \subseteq {Head(s)} \cup Elems(Tail(s))
  <2> SUFFICES ASSUME NEW i \in 1 .. Len(s) PROVE s[i] \in {Head(s)} \cup Elems(Tail(s))
    BY DEF Elems
  <2> QED
    BY <1>1, <1>3 DEF Elems
<1>5. {Head(s)} \cup Elems(Tail(s)) \subseteq Elems(s)
  <2>1. Head(s) \in Elems(s)
    BY <1>1 DEF Elems
  <2>2. ASSUME NEW i \in 1 .. Len(Tail(s)) PROVE Tail(s)[i] \in Elems(s)
    BY <1>1, <1>2 DEF Elems
  <2> QED
    BY <2>1, <2>2 DEF Elems
<1> QED
  BY <1>1, <1>2, <1>4, <1>5

\* The first of a queue is an element of it, and an empty queue has none.
LEMMA NoElements == Elems(<<>>) = {}
  BY DEF Elems

--------------------------------------------------------------------------------
\* Init establishes the invariant: nothing has been asked or answered.
LEMMA InitInv == Init => IInv
<1> SUFFICES ASSUME Init PROVE IInv
  OBVIOUS
<1> USE ObsAssumption
<1>1. Types
  BY DEF Init, Types, Threads, NoId, Idle, LeavingAt
<1>2. Elems(toObs) = {} /\ Back = {} /\ Starts = {}
  BY DEF Init, Elems, Back, Starts
<1>3. Fresh
  BY <1>2 DEF Fresh
<1>4. Facts
  BY <1>2 DEF Init, Facts, StartIsAwaited, NumberIsOwn, StartIsHeard, StopIsHeard
<1> QED
  BY <1>1, <1>3, <1>4 DEF IInv

\* Types is inductive.
LEMMA TypesStep == Types /\ [Next]_vars => Types'
<1> SUFFICES ASSUME Types, [Next]_vars PROVE Types'
  OBVIOUS
<1> USE ObsAssumption
<1>0. NoId \in Nat
  BY DEF NoId
<1>1. CASE OBSConnect
  BY <1>1 DEF OBSConnect, ScriptMoves, Types, Goes, Threads, Idle, LeavingAt, Told, ends, obs
<1>2. CASE Handshake
  <2>1. Request("Identify", ExitId) \in Asked
    BY DEF Request, ExitId, Asked
  <2> DEFINE asked == Append(toObs, Request("Identify", ExitId))
  <2>4. asked \in Seq(Asked) /\ toObs \in Seq(Asked)
    BY <2>1, ElementsOfAppend DEF Types
  <2>5. toObs' = asked \/ toObs' = toObs
    BY <1>2 DEF Handshake
  <2> HIDE DEF asked
  <2>2. toObs' \in Seq(Asked)
    BY <2>4, <2>5
  <2>3. queue' \in Seq(Told)
    BY <1>2, ElementsOfTail DEF Handshake, Types
  <2> QED
    BY <1>2, <2>2, <2>3 DEF Handshake, Types, Goes, Threads, Idle, LeavingAt, ends, obs
<1>3. CASE HandshakeFails \/ Close
  <2>1. fromObs' = <<>> /\ <<>> \in Seq(Told)
    BY <1>3 DEF HandshakeFails, Close, Discard
  <2>2. UNCHANGED <<id, lastId, queue, toObs, recording>> /\ Goes("main", "idle")
    BY <1>3 DEF HandshakeFails, Close, Discard, obs
  <2> QED
    BY <2>1, <2>2 DEF Types, Goes, Threads, Idle, LeavingAt
<1>4. ASSUME NEW t \in Threads, NEW request \in Requests, Send(t, request), recording' = recording,
             at' \in [Threads -> Idle \cup Waiting \cup LeavingAt \cup {"listening", "gone"}],
             at'["hook"] \in LeavingAt \cup {"listening", "gone"}
      PROVE  Types'
  <2>1. Request(request, lastId + 1) \in Asked
    BY <1>4 DEF Request, Asked, Types
  <2>2. toObs' \in Seq(Asked)
    BY <1>4, <2>1 DEF Send, Types
  <2> QED
    BY <1>4, <2>2 DEF Send, Types
<1>5. ASSUME NEW b \in Builtins, Begin(b) PROVE Types'
  <2>1. Send("main", "GetRecordStatus") /\ recording' = recording
    BY <1>5 DEF Begin, Send, obs
  <2>2. /\ at' \in [Threads -> Idle \cup Waiting \cup LeavingAt \cup {"listening", "gone"}]
        /\ at'["hook"] \in LeavingAt \cup {"listening", "gone"}
    BY <1>5 DEF Begin, Goes, Types, Threads, Waiting
  <2> QED
    BY <1>4, <2>1, <2>2 DEF Threads, Requests
<1>6. CASE Change
  <2>1. PICK r \in Requests : Send("main", r)
    BY <1>6 DEF Change, Requests
  <2>2. recording' = recording
    BY <2>1 DEF Send, obs
  <2>3. /\ at' \in [Threads -> Idle \cup Waiting \cup LeavingAt \cup {"listening", "gone"}]
        /\ at'["hook"] \in LeavingAt \cup {"listening", "gone"}
    BY <1>6 DEF Change, Goes, Types, Threads, Waiting
  <2> QED
    BY <1>4, <2>1, <2>2, <2>3 DEF Threads
<1>7. CASE Store
  BY <1>7 DEF Store, Types, Goes, Threads, Idle, wire, obs
<1>8. ASSUME NEW how \in {"receive", "receiveTimeout"}, Receive(how) PROVE Types'
  BY <1>8 DEF Receive, Types, Goes, Threads, Waiting, wire, obs
<1>9. CASE EndReceive
  <2>1. queue' \in Seq(Told)
    BY <1>9, ElementsOfTail DEF EndReceive, Types
  <2> QED
    BY <1>9, <2>1 DEF EndReceive, Types, Goes, Threads, Idle, wire, obs
<1>10. CASE ScriptEnds
  BY <1>10 DEF ScriptEnds, Shutdown, Types, Goes, Threads, LeavingAt, client, wire, obs
<1>11. CASE Signal
  BY <1>11 DEF Signal, Types, calls, client, wire, obs
<1>12. CASE HookWakes
  BY <1>12 DEF HookWakes, Shutdown, Types, Goes, Threads, LeavingAt, client, wire, obs
<1>13. ASSUME NEW t \in Threads, Drop(t) PROVE Types'
  <2>1. queue' \in Seq(Told)
    BY <1>13, ElementsOfTail DEF Drop, Types
  <2> QED
    BY <1>13, <2>1 DEF Drop, Types, calls, wire, obs
<1>14. ASSUME NEW t \in Threads, TakeAnswer(t) PROVE Types'
  <2>1. queue' \in Seq(Told)
    BY <1>14, ElementsOfTail DEF TakeAnswer, Types
  <2>2. AfterAnswer(Head(queue)) \in {"store", "ready", "idle"}
    BY DEF AfterAnswer
  <2>3. t = "hook" => at[t] = "stopping"
    BY <1>14 DEF TakeAnswer, Awaiting, Types, LeavingAt
  <2> QED
    BY <1>14, <1>0, <2>1, <2>2, <2>3 DEF TakeAnswer, Unlock, Goes, Types, Threads, Idle, LeavingAt, wire, obs
<1>15. ASSUME NEW t \in Threads, GiveUp(t) PROVE Types'
  <2>1. t = "hook" => at[t] = "stopping"
    BY <1>15 DEF GiveUp, Awaiting, Types, LeavingAt
  <2> QED
    BY <1>15, <1>0, <2>1 DEF GiveUp, Unlock, Goes, Types, Threads, Idle, LeavingAt, wire, obs
<1>16. ASSUME NEW t \in Threads, Swap(t) PROVE Types'
  BY <1>16 DEF Swap, Goes, Types, Threads, LeavingAt, wire, obs
<1>17. ASSUME NEW t \in Threads, TryLock(t) PROVE Types'
  <2>1. Request("StopRecord", ExitId) \in Asked
    BY DEF Request, ExitId, Asked, Requests
  <2>2. toObs' \in Seq(Asked)
    BY <1>17, <2>1 DEF TryLock, Types
  <2> QED
    BY <1>17, <2>2 DEF TryLock, Goes, Types, Threads, LeavingAt, client, obs
<1>18. ASSUME NEW t \in Threads, RequestStop(t) PROVE Types'
  <2>1. Send(t, "StopRecord") /\ recording' = recording
    BY <1>18 DEF RequestStop, Send, obs
  <2>2. /\ at' \in [Threads -> Idle \cup Waiting \cup LeavingAt \cup {"listening", "gone"}]
        /\ at'["hook"] \in LeavingAt \cup {"listening", "gone"}
    BY <1>18 DEF RequestStop, Goes, Types, Threads, LeavingAt
  <2> QED
    BY <1>4, <2>1, <2>2 DEF Requests
<1>19. ASSUME NEW t \in Threads, Exit(t) PROVE Types'
  BY <1>19 DEF Exit, Types, calls, client, wire, obs
<1>20. CASE ReadMessage
  <2>1. queue' \in Seq(Told) /\ fromObs' \in Seq(Told)
    BY <1>20, ElementsOfTail, ElementsOfAppend DEF ReadMessage, Types
  <2> QED
    BY <1>20, <2>1 DEF ReadMessage, Types, calls, obs
<1>21. CASE ReadError
  BY <1>21 DEF ReadError, Types, calls, wire, obs
<1>22. CASE Serve
  <2>1. Head(toObs) \in Asked /\ toObs' \in Seq(Asked)
    BY <1>22, ElementsOfTail DEF Serve, Types
  <2>2. PICK m \in Told : Reply(m)
    <3>1. ASSUME NEW ok \in BOOLEAN PROVE Response(Head(toObs).id, ok, recording) \in Told
      BY <2>1 DEF Response, Told, Asked, Types
    <3> DEFINE ok == \/ Head(toObs).op = "GetRecordStatus"
                     \/ Head(toObs).op = "StartRecord" /\ ~recording
                     \/ Head(toObs).op = "StopRecord" /\ recording
    <3>2. ok \in BOOLEAN
      OBVIOUS
    <3>3. Response(Head(toObs).id, ok, recording) \in Told /\ Identified \in Told
      BY <3>1, <3>2 DEF Told
    <3> HIDE DEF ok
    <3>4. Reply(IF Head(toObs).op = "Identify" THEN Identified
                ELSE Response(Head(toObs).id, ok, recording))
      BY <1>22 DEF Serve, ok
    <3> QED
      BY <3>3, <3>4
  <2>3. fromObs' \in Seq(Told)
    BY <2>2, ElementsOfAppend DEF Reply, Types
  <2>4. recording' \in BOOLEAN
    BY <1>22 DEF Serve, Types
  <2> QED
    BY <1>22, <2>1, <2>3, <2>4 DEF Serve, Types, calls, client
<1>23. CASE SendEvent
  <2>1. fromObs' \in Seq(Told)
    BY <1>23, ElementsOfAppend DEF SendEvent, Reply, Types, Told
  <2> QED
    BY <1>23, <2>1 DEF SendEvent, Types, calls, client
<1>24. CASE ByHand
  BY <1>24 DEF ByHand, Types, calls, client, wire
<1>25. CASE LoseConnection
  BY <1>25 DEF LoseConnection, Types, calls, obs
<1>26. CASE UNCHANGED vars
  BY <1>26 DEF vars, Types, calls, client, wire, obs
<1> QED
  BY <1>1, <1>2, <1>3, <1>5, <1>6, <1>7, <1>8, <1>9, <1>10, <1>11, <1>12, <1>13, <1>14, <1>15,
     <1>16, <1>17, <1>18, <1>19, <1>20, <1>21, <1>22, <1>23, <1>24, <1>25, <1>26
     DEF Next, Request_, Ending

--------------------------------------------------------------------------------
\* The answers on their way, and what a step does to them.
LEMMA BackOf == Types => \A m \in Back : m \in Told /\ m.op = "Response" /\ m.id \in Nat
<1> SUFFICES ASSUME Types, NEW m \in Back PROVE m \in Told /\ m.op = "Response" /\ m.id \in Nat
  OBVIOUS
<1>1. m \in Told
  BY DEF Back, Types, Elems
<1>2. m.op = "Response"
  BY DEF Back
<1>3. m \in [op : {"Response"}, id : Nat, ok : BOOLEAN, active : BOOLEAN]
  BY <1>1, <1>2 DEF Told, Hello, Identified, Event
<1> QED
  BY <1>1, <1>2, <1>3

\* Nothing answers a question nobody has asked: all answers but that of Serve were there before.
LEMMA BackShrinks ==
  ASSUME Types, [Next]_vars, ~Serve
  PROVE  Back' \subseteq Back
<1>1. CASE UNCHANGED <<queue, fromObs>>
  BY <1>1 DEF Back, Elems
<1>2. CASE fromObs' = fromObs /\ queue # <<>> /\ queue' = Tail(queue)
  <2>1. Elems(queue') \subseteq Elems(queue) /\ Elems(fromObs') = Elems(fromObs)
    BY <1>2, ElementsOfTail DEF Types, Elems
  <2> QED
    BY <2>1 DEF Back
<1>3. CASE queue' = queue /\ fromObs' = <<>>
  <2>1. Elems(queue') = Elems(queue) /\ Elems(fromObs') = {}
    BY <1>3 DEF Elems
  <2> QED
    BY <2>1 DEF Back
<1>4. CASE OBSConnect
  <2>1. Elems(fromObs') = {Hello} /\ Elems(queue') = Elems(queue)
    BY <1>4 DEF OBSConnect, Elems
  <2> QED
    BY <2>1 DEF Back, Hello
<1>5. CASE ReadMessage
  <2>1. /\ Elems(queue') = Elems(queue) \cup {Head(fromObs)}
        /\ Elems(fromObs) = {Head(fromObs)} \cup Elems(fromObs')
    BY <1>5, ElementsOfAppend, ElementsOfTail DEF ReadMessage, Types
  <2> QED
    BY <2>1 DEF Back
<1>6. CASE SendEvent
  <2>1. Event \in Told
    BY DEF Told
  <2>2. Elems(queue') = Elems(queue) /\ Elems(fromObs') \subseteq Elems(fromObs) \cup {Event}
    BY <1>6, <2>1, ElementsOfAppend DEF SendEvent, Reply, Types, client, Elems
  <2> QED
    BY <2>2 DEF Back, Event
<1> QED
  <2>1. CASE HandshakeFails \/ Close
    BY <1>3, <2>1 DEF HandshakeFails, Close, Discard
  <2>2. CASE Handshake
    BY <1>2, <2>2 DEF Handshake
  <2>3. ASSUME NEW t \in Threads, Drop(t) \/ TakeAnswer(t) PROVE Back' \subseteq Back
    BY <1>2, <2>3 DEF Drop, TakeAnswer, wire
  <2>4. CASE EndReceive
    BY <1>1, <1>2, <2>4 DEF EndReceive, wire
  <2>5. CASE LoseConnection
    BY <1>3, <2>5 DEF LoseConnection
  <2>6. ASSUME NEW t \in Threads, GiveUp(t) \/ Ending(t) PROVE Back' \subseteq Back
    BY <1>1, <2>6 DEF GiveUp, Ending, Swap, TryLock, RequestStop, Send, Exit, wire, client
  <2>7. CASE \/ \E b \in Builtins : Begin(b)
             \/ Change \/ Store
             \/ \E how \in {"receive", "receiveTimeout"} : Receive(how)
             \/ ScriptEnds \/ Signal \/ HookWakes \/ ReadError \/ ByHand \/ UNCHANGED vars
    BY <1>1, <2>7 DEF Begin, Change, Send, Store, Receive, ScriptEnds, Signal, HookWakes, ReadError,
                      ByHand, vars, wire, client
  <2> QED
    BY <1>4, <1>5, <1>6, <2>1, <2>2, <2>3, <2>4, <2>5, <2>6, <2>7 DEF Next, Request_

\* And what Serve adds is the answer to the request at the front.
LEMMA BackGrows ==
  ASSUME Types, Serve
  PROVE  \A m \in Back' : \/ m \in Back
                          \/ /\ m.id = Head(toObs).id /\ Head(toObs).op # "Identify"
                             /\ Head(toObs).op = "StartRecord" => m.ok = ~recording
<1> DEFINE r  == Head(toObs)
           ok == \/ r.op = "GetRecordStatus"
                 \/ r.op = "StartRecord" /\ ~recording
                 \/ r.op = "StopRecord" /\ recording
           answer == IF r.op = "Identify" THEN Identified ELSE Response(r.id, ok, recording)
<1>1. r \in Asked
  BY ElementsOfTail DEF Serve, Types
<1>2. ok \in BOOLEAN
  OBVIOUS
<1>3. r.op = "StartRecord" => ok = ~recording
  BY DEF Types
<1>4. Reply(answer) /\ queue' = queue
  BY DEF Serve, client
<1> HIDE DEF ok
<1>5. Response(r.id, ok, recording) \in Told
  BY <1>1, <1>2 DEF Response, Told, Asked, Types
<1>6. answer \in Told
  BY <1>5 DEF Told
<1>7. Elems(queue') = Elems(queue) /\ Elems(fromObs') \subseteq Elems(fromObs) \cup {answer}
  BY <1>4, <1>6, ElementsOfAppend DEF Reply, Types, Elems
<1>8. answer.op = "Response" =>
        /\ answer.id = r.id /\ r.op # "Identify"
        /\ r.op = "StartRecord" => answer.ok = ~recording
  BY <1>3 DEF Response, Identified
<1> HIDE DEF answer
<1> QED
  BY <1>6, <1>7, <1>8 DEF Back

\* The same for the requests.
LEMMA AskedOf == Types => \A r \in Elems(toObs) : r \in Asked /\ r.id \in Nat
<1> SUFFICES ASSUME Types, NEW r \in Elems(toObs) PROVE r \in Asked /\ r.id \in Nat
  OBVIOUS
<1>1. r \in Asked
  BY DEF Types, Elems
<1> QED
  BY <1>1 DEF Asked

LEMMA AskedGrows ==
  ASSUME Types, Types', NEW r \in Asked, toObs' = Append(toObs, r)
  PROVE  /\ Elems(toObs') = Elems(toObs) \cup {r}
         /\ r.op # "StartRecord" => Starts' = Starts
         /\ Starts = {} => Starts' \subseteq {Len(toObs) + 1} /\ toObs'[Len(toObs) + 1] = r
<1>1. Elems(toObs') = Elems(toObs) \cup {r}
  BY ElementsOfAppend DEF Types
<1>2. Len(toObs') = Len(toObs) + 1 /\ Len(toObs) \in Nat
  BY DEF Types
<1>3. \A i \in 1 .. Len(toObs') : toObs'[i] = IF i <= Len(toObs) THEN toObs[i] ELSE r
  BY DEF Types
<1> QED
  BY <1>1, <1>2, <1>3 DEF Starts

LEMMA AskedShrinks ==
  ASSUME Types, Serve
  PROVE  /\ toObs' \in Seq(Asked) /\ Head(toObs) \in Asked
         /\ Elems(toObs') \subseteq Elems(toObs) /\ Head(toObs) \in Elems(toObs)
         /\ \A i \in Starts' : i + 1 \in Starts /\ toObs'[i] = toObs[i + 1]
         /\ Head(toObs).op = "StartRecord" => 1 \in Starts /\ toObs[1] = Head(toObs)
<1>1. toObs' = Tail(toObs) /\ toObs # <<>> /\ toObs \in Seq(Asked)
  BY DEF Serve, Types
<1>2. \A i \in Starts' : i + 1 \in Starts /\ toObs'[i] = toObs[i + 1]
  BY <1>1, ElementsOfTail DEF Starts
<1> QED
  BY <1>1, <1>2, ElementsOfTail DEF Starts

--------------------------------------------------------------------------------
\* Fresh is inductive: a number is given by Send only, which counts.
LEMMA FreshStep == Types /\ Types' /\ Fresh /\ [Next]_vars => Fresh'
<1> SUFFICES ASSUME Types, Types', Fresh, [Next]_vars PROVE Fresh'
  OBVIOUS
<1>1. lastId' = lastId \/ lastId' = lastId + 1
  BY DEF Next, OBSConnect, Handshake, HandshakeFails, Close, Discard, Begin, Change, Send, Store, Receive,
         EndReceive, ScriptEnds, Signal, HookWakes, Request_, Drop, TakeAnswer, GiveUp, Ending, Swap, TryLock,
         RequestStop, Exit, ReadMessage, ReadError, Serve, SendEvent, ByHand, LoseConnection, vars, calls
<1>2. lastId \in Nat /\ lastId' \in Nat /\ lastId' >= lastId
  BY <1>1 DEF Types
<1>3. ASSUME \A r \in Elems(toObs') : r.id <= lastId'
      PROVE  Fresh'
  <2>1. CASE ~Serve
    BY <1>2, <1>3, <2>1, BackShrinks, BackOf DEF Fresh
  <2>2. CASE Serve
    <3>1. Head(toObs).id <= lastId
      BY <2>2, AskedShrinks DEF Fresh
    <3>2. ASSUME NEW m \in Back' PROVE m.id <= lastId
      <4>1. m \in Back \/ m.id = Head(toObs).id
        BY <2>2, <3>2, BackGrows
      <4> QED
        BY <3>1, <4>1 DEF Fresh
    <3>3. lastId' = lastId
      BY <2>2 DEF Serve, calls
    <3> QED
      BY <1>3, <3>2, <3>3 DEF Fresh
  <2> QED
    BY <2>1, <2>2
<1>4. CASE Elems(toObs') \subseteq Elems(toObs)
  <2>1. ASSUME NEW r \in Elems(toObs) PROVE r.id \in Nat
    BY AskedOf
  <2> QED
    BY <1>2, <1>3, <1>4, <2>1 DEF Fresh
<1>5. ASSUME NEW r \in Asked, toObs' = Append(toObs, r), r.id <= lastId'
      PROVE  Fresh'
  <2>1. ASSUME NEW q \in Elems(toObs) PROVE q.id \in Nat /\ q.id <= lastId
    BY AskedOf DEF Fresh
  <2> QED
    BY <1>2, <1>3, <1>5, <2>1, AskedGrows
<1>6. ASSUME NEW t \in Threads, NEW request \in Requests, Send(t, request)
      PROVE  Fresh'
  <2>1. /\ Request(request, lastId + 1) \in Asked
        /\ Request(request, lastId + 1).id <= lastId + 1 /\ lastId' = lastId + 1
    BY <1>2, <1>6 DEF Request, Asked, Send
  <2>2. toObs' = Append(toObs, Request(request, lastId + 1)) \/ toObs' = toObs
    BY <1>6 DEF Send
  <2> QED
    BY <1>4, <1>5, <2>1, <2>2
<1>7. Request("Identify", ExitId) \in Asked /\ Request("StopRecord", ExitId) \in Asked
  BY DEF Request, ExitId, Asked, Requests
<1>8. Request("Identify", ExitId).id <= lastId' /\ Request("StopRecord", ExitId).id <= lastId'
  BY <1>2 DEF Request, ExitId
<1>9. CASE Handshake
  <2>1. toObs' = Append(toObs, Request("Identify", ExitId)) \/ toObs' = toObs
    BY <1>9 DEF Handshake
  <2> QED
    BY <1>4, <1>5, <1>7, <1>8, <2>1
<1>10. ASSUME NEW t \in Threads, TryLock(t) PROVE Fresh'
  <2>1. toObs' = Append(toObs, Request("StopRecord", ExitId)) \/ toObs' = toObs
    BY <1>10 DEF TryLock
  <2> QED
    BY <1>4, <1>5, <1>7, <1>8, <2>1
<1>11. CASE (\E b \in Builtins : Begin(b)) \/ Change
  <2>1. PICK request \in Requests : Send("main", request)
    BY <1>11 DEF Begin, Change, Requests
  <2> QED
    BY <1>6, <2>1 DEF Threads
<1>12. ASSUME NEW t \in Threads, RequestStop(t) PROVE Fresh'
  BY <1>6, <1>12 DEF RequestStop, Requests
<1>13. CASE Serve
  BY <1>4, <1>13, AskedShrinks
<1>14. CASE toObs' = toObs \/ toObs' = <<>>
  BY <1>4, <1>14, NoElements
<1> QED
  <2>1. ASSUME NEW t \in Threads, Request_(t) \/ Ending(t) PROVE Fresh'
    BY <1>10, <1>12, <1>14, <2>1 DEF Request_, Ending, Drop, TakeAnswer, GiveUp, Swap, Exit, wire
  <2>2. CASE \/ OBSConnect \/ HandshakeFails \/ Close \/ Store
             \/ \E how \in {"receive", "receiveTimeout"} : Receive(how)
             \/ EndReceive \/ ScriptEnds \/ Signal \/ HookWakes \/ ReadMessage \/ ReadError
             \/ SendEvent \/ ByHand \/ LoseConnection \/ UNCHANGED vars
    BY <1>14, <2>2 DEF OBSConnect, HandshakeFails, Close, Discard, Store, Receive, EndReceive, ScriptEnds,
         Signal, HookWakes, ReadMessage, ReadError, SendEvent, ByHand, LoseConnection, vars, wire
  <2> QED
    BY <1>9, <1>11, <1>13, <2>1, <2>2 DEF Next

--------------------------------------------------------------------------------
\* Whoever has begun to end the process goes on with it, and what was given up remains so.
LEMMA CalmBefore ==
  ASSUME Types, [Next]_vars, Calm'
  PROVE  Calm
<1>1. abandoned => abandoned'
  BY DEF Next, OBSConnect, Handshake, HandshakeFails, Close, Discard, Begin, Change, Send, Store, Receive,
         EndReceive, ScriptEnds, Signal, HookWakes, Request_, Drop, TakeAnswer, GiveUp, Ending, Swap, TryLock,
         RequestStop, Exit, ReadMessage, ReadError, Serve, SendEvent, ByHand, LoseConnection, vars
<1>2. ASSUME NEW t \in Threads, at[t] \in LeavingAt PROVE at'[t] \in LeavingAt
  <2>1. CASE UNCHANGED at
    BY <1>2, <2>1
  <2>2. ASSUME NEW u \in Threads, NEW p, Goes(u, p), u = t => p \in LeavingAt PROVE at'[t] \in LeavingAt
    BY <1>2, <2>2 DEF Goes, Types
  <2>3. at["main"] \in LeavingAt => at["main"] \notin {"idle", "hello", "identify", "ready", "store", "receive", "receiveTimeout"}
    BY DEF LeavingAt
  <2>4. at["hook"] \in LeavingAt => at["hook"] # "listening"
    BY DEF LeavingAt
  <2>5. CASE \/ OBSConnect \/ Handshake \/ HandshakeFails \/ Close \/ Change \/ Store \/ EndReceive \/ ScriptEnds
             \/ \E b \in Builtins : Begin(b)
             \/ \E how \in {"receive", "receiveTimeout"} : Receive(how)
    <3>1. at["main"] \notin LeavingAt
      BY <2>3, <2>5 DEF OBSConnect, Handshake, HandshakeFails, Close, Change, Store, EndReceive, ScriptEnds,
                        Begin, Receive, ScriptMoves
    <3>2. t # "main"
      BY <1>2, <3>1
    <3>3. PICK p : Goes("main", p)
      BY <2>5 DEF OBSConnect, Handshake, HandshakeFails, Close, Discard, Change, Store, EndReceive, ScriptEnds,
                  Shutdown, Begin, Receive
    <3> QED
      BY <2>2, <3>2, <3>3 DEF Threads
  <2>6. CASE HookWakes
    <3>1. t # "hook"
      BY <1>2, <2>4, <2>6 DEF HookWakes
    <3>2. PICK p : Goes("hook", p)
      BY <2>6 DEF HookWakes, Shutdown
    <3> QED
      BY <2>2, <3>1, <3>2 DEF Threads
  <2>7. ASSUME NEW u \in Threads, TakeAnswer(u) \/ GiveUp(u) PROVE at'[t] \in LeavingAt
    <3>1. u = t => at[u] = "stopping"
      BY <1>2, <2>7 DEF TakeAnswer, GiveUp, Awaiting, LeavingAt
    <3>2. PICK p : Goes(u, p) /\ (at[u] = "stopping" => p = "leaving")
      BY <2>7 DEF TakeAnswer, GiveUp
    <3> QED
      BY <2>2, <3>1, <3>2 DEF LeavingAt
  <2>8. ASSUME NEW u \in Threads, Ending(u) PROVE at'[t] \in LeavingAt
    <3>1. UNCHANGED at \/ \E p \in LeavingAt : Goes(u, p)
      BY <2>8 DEF Ending, Swap, TryLock, RequestStop, Exit, LeavingAt, calls
    <3> QED
      BY <2>1, <2>2, <3>1
  <2>9. CASE \/ Signal \/ ReadMessage \/ ReadError \/ Serve \/ SendEvent \/ ByHand \/ LoseConnection
             \/ (\E u \in Threads : Drop(u)) \/ UNCHANGED vars
    BY <2>1, <2>9 DEF Signal, ReadMessage, ReadError, Serve, SendEvent, ByHand, LoseConnection, Drop, vars, calls
  <2> QED
    BY <2>5, <2>6, <2>7, <2>8, <2>9 DEF Next, Request_
<1> QED
  BY <1>1, <1>2 DEF Calm

--------------------------------------------------------------------------------
(* The facts, by the kinds of steps.  While the process is not being ended, *)
(* main is the only one to ask anything.                                    *)

Away == at["main"] \notin {"change", "store"}

\* Away from StartRecord and StopRecord, the facts are these two.
LEMMA FactsAway ==
  Away => (Facts <=> Starts = {} /\ (ours => flag))
  BY DEF Away, Facts, StartIsAwaited, NumberIsOwn, StartIsHeard, StopIsHeard, Starting

\* Steps that neither move main nor ask or execute anything.
Rest ==
  /\ UNCHANGED <<toObs, call, flag, ours>> /\ Back' \subseteq Back
  /\ at'["main"] = at["main"] /\ id'["main"] = id["main"]

LEMMA RestKeeps ==
  ASSUME Facts, Rest
  PROVE  Facts'
<1>1. Starts' = Starts /\ Mine' \subseteq Mine /\ Starting' = Starting /\ Elems(toObs') = Elems(toObs)
  BY DEF Rest, Starts, Mine, Starting, Elems
<1>2. StartIsAwaited'
  BY <1>1 DEF Facts, StartIsAwaited, Rest
<1>3. NumberIsOwn'
  BY <1>1 DEF Facts, NumberIsOwn, Rest
<1>4. StartIsHeard'
  BY <1>1 DEF Facts, StartIsHeard, Rest
<1>5. StopIsHeard'
  BY <1>1 DEF Facts, StopIsHeard, Rest
<1> QED
  BY <1>2, <1>3, <1>4, <1>5 DEF Facts

\* main moves, and changes nothing of OBS; what it asks is not to start or stop.
LEMMA MovesKeep ==
  ASSUME Types, Types', Facts, Away, Away', UNCHANGED <<flag, ours>>,
         \/ toObs' = toObs
         \/ \E r \in Asked : r.op # "StartRecord" /\ toObs' = Append(toObs, r)
  PROVE  Facts'
<1>1. Starts' = Starts
  <2>1. CASE toObs' = toObs
    BY <2>1 DEF Starts
  <2>2. CASE \E r \in Asked : r.op # "StartRecord" /\ toObs' = Append(toObs, r)
    BY <2>2, AskedGrows
  <2> QED
    BY <2>1, <2>2
<1>2. Starts' = {} /\ (ours' => flag')
  BY <1>1, FactsAway
<1> QED
  BY <1>2 DEF Away, Facts, StartIsAwaited, NumberIsOwn, StartIsHeard, StopIsHeard, Starting

\* main asks to start or stop under a new number.
LEMMA ChangeKeeps ==
  ASSUME Types, Types', Fresh, Facts, Change
  PROVE  Facts'
<1> DEFINE op == IF call = "OBSStartRecord" THEN "StartRecord" ELSE "StopRecord"
           r  == Request(op, lastId + 1)
<1>1. /\ at'["main"] = "change" /\ id'["main"] = lastId + 1 /\ UNCHANGED <<call, flag, ours>>
      /\ toObs' = toObs \/ toObs' = Append(toObs, r)
  BY DEF Change, Send, Goes, Types, Threads, obs
<1>2. Starts = {} /\ (ours => flag)
  BY FactsAway DEF Away, Change
<1>3. lastId \in Nat /\ r \in Asked /\ r.op = op /\ r.id = lastId + 1
  BY DEF Types, Request, Asked, Requests
<1>4. Mine' = {}
  <2>1. \A m \in Back : m.id \in Nat /\ m.id <= lastId
    BY BackOf DEF Fresh
  <2>2. Back' \subseteq Back
    <3>1. UNCHANGED <<queue, fromObs>>
      BY DEF Change, Send
    <3> QED
      BY <3>1 DEF Back, Elems
  <2> QED
    BY <1>1, <1>3, <2>1, <2>2 DEF Mine
<1>5. \A q \in Elems(toObs) : q.id \in Nat /\ q.id <= lastId
  BY AskedOf DEF Fresh
<1>6. \A q \in Elems(toObs') : q.id = id'["main"] => q.op = op
  <2>1. CASE toObs' = toObs
    BY <1>1, <1>3, <1>5, <2>1
  <2>2. CASE toObs' = Append(toObs, r)
    <3>1. Elems(toObs') = Elems(toObs) \cup {r}
      BY <1>3, <2>2, AskedGrows
    <3> HIDE DEF r
    <3> QED
      BY <1>1, <1>3, <1>5, <3>1
  <2> QED
    BY <1>1, <2>1, <2>2
<1>7. Starts' \subseteq {Len(toObs) + 1} /\ \A i \in Starts' : toObs'[i] = r
  <2>1. CASE toObs' = toObs
    BY <1>2, <2>1 DEF Starts
  <2>2. CASE toObs' = Append(toObs, r)
    BY <1>2, <1>3, <2>2, AskedGrows
  <2> QED
    BY <1>1, <2>1, <2>2
<1>8. \A i \in Starts' : toObs'[i].op = "StartRecord"
  BY DEF Starts
<1> HIDE DEF r
<1>9. \A i \in Starts' : call = "OBSStartRecord" /\ toObs'[i].id = lastId + 1
  BY <1>3, <1>7, <1>8
<1>10. StartIsAwaited'
  BY <1>1, <1>4, <1>7, <1>9 DEF StartIsAwaited, Starting
<1>11. NumberIsOwn'
  BY <1>1, <1>3, <1>6 DEF NumberIsOwn
<1>12. StartIsHeard'
  BY <1>1, <1>2 DEF StartIsHeard
<1>13. StopIsHeard'
  BY <1>1, <1>4 DEF StopIsHeard
<1> QED
  BY <1>10, <1>11, <1>12, <1>13 DEF Facts

\* main has its answer.
LEMMA TakeAnswerKeeps ==
  ASSUME Types, Types', Facts, TakeAnswer("main")
  PROVE  Facts'
<1> DEFINE m == Head(queue)
<1>1. /\ m.op = "Response" /\ m.id = id["main"] /\ UNCHANGED <<toObs, call, flag, ours>>
      /\ at'["main"] = IF at["main"] = "stopping" THEN "leaving" ELSE AfterAnswer(m)
  BY DEF TakeAnswer, Answers, Goes, Types, Threads, wire, obs
<1>2. CASE at["main"] # "change"
  <2>1. Away /\ Away'
    BY <1>1, <1>2 DEF Away, AfterAnswer, TakeAnswer, Awaiting
  <2> QED
    BY <1>1, <2>1, MovesKeep
<1>3. CASE at["main"] = "change"
  <2>1. m \in Mine
    <3>1. m \in Elems(queue)
      BY ElementsOfTail DEF TakeAnswer, Types
    <3> QED
      BY <1>1, <3>1 DEF Mine, Back
  <2>2. Starts = {}
    BY <2>1 DEF Facts, StartIsAwaited
  <2>3. Starts' = {}
    BY <1>1, <2>2 DEF Starts
  <2>4. at'["main"] = IF m.ok THEN "store" ELSE "idle"
    BY <1>1, <1>3 DEF AfterAnswer
  <2>5. call # "OBSStartRecord" => ~ours
    BY <1>3, <2>1 DEF Facts, StopIsHeard
  <2>6. ours => flag \/ (call = "OBSStartRecord" /\ m.ok)
    BY <1>3, <2>1, <2>5 DEF Facts, StartIsHeard, Starting
  <2> HIDE DEF m
  <2>7. StartIsAwaited' /\ NumberIsOwn'
    BY <2>3, <2>4 DEF StartIsAwaited, NumberIsOwn
  <2>8. StartIsHeard'
    BY <1>1, <2>4, <2>6 DEF StartIsHeard
  <2>9. StopIsHeard'
    BY <1>1, <2>4, <2>5 DEF StopIsHeard
  <2> QED
    BY <2>7, <2>8, <2>9 DEF Facts
<1> QED
  BY <1>2, <1>3

\* main gives up, but not a start.
LEMMA GiveUpKeeps ==
  ASSUME Types, Types', Facts, GiveUp("main"), ~abandoned'
  PROVE  Facts'
<1>1. /\ UNCHANGED <<toObs, flag, ours>> /\ at'["main"] \in {"idle", "leaving"}
      /\ at["main"] \in {"status", "change", "stopping"} /\ ~Starting
  BY DEF GiveUp, Awaiting, Goes, Types, Threads, wire, obs, Starting
<1>2. Starts = {} /\ (ours => flag)
  BY <1>1 DEF Facts, StartIsAwaited, StartIsHeard
<1>3. Starts' = {}
  BY <1>1, <1>2 DEF Starts
<1> QED
  BY <1>1, <1>2, <1>3 DEF Facts, StartIsAwaited, NumberIsOwn, StartIsHeard, StopIsHeard

\* main notes that the recording is its own, or that there is none.
LEMMA StoreKeeps ==
  ASSUME Types, Types', Facts, Store
  PROVE  Facts'
<1>1. /\ UNCHANGED <<toObs, ours>> /\ at["main"] = "store" /\ at'["main"] = "idle"
      /\ flag' = (call = "OBSStartRecord")
  BY DEF Store, Goes, Types, Threads, wire, obs
<1>2. Starts = {} /\ (ours => call = "OBSStartRecord")
  BY <1>1 DEF Facts, StartIsAwaited, StopIsHeard, Starting
<1>3. Starts' = {} /\ (ours' => flag')
  BY <1>1, <1>2 DEF Starts
<1> QED
  BY <1>1, <1>3 DEF Facts, StartIsAwaited, NumberIsOwn, StartIsHeard, StopIsHeard

\* OBS executes the request at the front.
LEMMA ServeKeeps ==
  ASSUME Types, Types', Facts, Serve
  PROVE  Facts'
<1> DEFINE r == Head(toObs)
<1>1. /\ UNCHANGED <<at, call, id, lastId, flag>> /\ toObs' = Tail(toObs)
      /\ r \in Elems(toObs) /\ Elems(toObs') \subseteq Elems(toObs)
  BY AskedShrinks DEF Serve, calls, client
<1>2. \A i \in Starts' : i + 1 \in Starts /\ toObs'[i] = toObs[i + 1]
  BY AskedShrinks
<1>3. r.op = "StartRecord" => 1 \in Starts /\ toObs[1] = r
  BY AskedShrinks
<1>4. \A m \in Back' : \/ m \in Back
                       \/ /\ m.id = r.id /\ r.op # "Identify"
                          /\ r.op = "StartRecord" => m.ok = ~recording
  BY BackGrows
<1>5. /\ r.op = "StartRecord" => ours' = (ours \/ ~recording)
      /\ r.op = "StopRecord" => ours' = FALSE
      /\ r.op \notin {"StartRecord", "StopRecord"} => ours' = ours
  BY DEF Serve
<1>6. \A i \in Starts' : i \in Nat /\ i >= 1
  BY DEF Starts, Types
<1>7. r.op \in Requests \cup {"Identify"}
  BY <1>1, AskedOf DEF Asked
<1> HIDE DEF r
<1>8. NumberIsOwn'
  BY <1>1 DEF Facts, NumberIsOwn
<1>9. CASE r.op = "StartRecord"
  <2>1. Starting /\ r.id = id["main"] /\ Mine = {} /\ \A i \in Starts : i = 1
    BY <1>3, <1>9 DEF Facts, StartIsAwaited
  <2>2. Starts' = {}
    BY <1>2, <1>6, <2>1
  <2>3. \A m \in Mine' : m.ok = ~recording
    BY <1>1, <1>4, <1>9, <2>1 DEF Mine
  <2>4. ours => flag
    BY <1>3, <1>9, <2>1 DEF Facts, StartIsHeard, Starting
  <2>5. ours' => flag' \/ \A m \in Mine' : m.ok
    BY <1>1, <1>5, <1>9, <2>3, <2>4
  <2>6. Starting'
    BY <1>1, <2>1 DEF Starting
  <2>7. StartIsAwaited'
    BY <2>2 DEF StartIsAwaited
  <2>8. StartIsHeard'
    BY <2>2, <2>5, <2>6 DEF StartIsHeard
  <2>9. StopIsHeard'
    BY <2>6 DEF StopIsHeard, Starting
  <2> QED
    BY <1>8, <2>7, <2>8, <2>9 DEF Facts
<1>10. CASE r.op # "StartRecord"
  <2>1. Starting => Mine' \subseteq Mine
    <3>1. Starting => r.id # id["main"]
      BY <1>1, <1>10 DEF Facts, NumberIsOwn, Starting
    <3> QED
      BY <1>1, <1>4, <3>1 DEF Mine
  <2>2. r.op # "StopRecord" /\ at["main"] = "change" => Mine' \subseteq Mine
    <3>1. r.op # "StopRecord" /\ at["main"] = "change" => r.id # id["main"]
      BY <1>1, <1>10 DEF Facts, NumberIsOwn
    <3> QED
      BY <1>1, <1>4, <3>1 DEF Mine
  <2>3. Starting' = Starting
    BY <1>1 DEF Starting
  <2>4. ours' => ours
    BY <1>5, <1>10
  <2>5. StartIsAwaited'
    <3>1. \A i \in Starts' : Starting /\ toObs'[i].id = id["main"] /\ Mine = {}
      BY <1>2 DEF Facts, StartIsAwaited
    <3>2. \A i, j \in Starts' : i = j
      BY <1>2, <1>6 DEF Facts, StartIsAwaited
    <3> QED
      BY <1>1, <2>1, <2>3, <3>1, <3>2 DEF StartIsAwaited
  <2>6. StartIsHeard'
    <3>1. Starts = {} => Starts' = {}
      BY <1>2
    <3> QED
      BY <1>1, <2>1, <2>3, <2>4, <3>1 DEF Facts, StartIsHeard
  <2>7. StopIsHeard'
    <3>1. CASE r.op = "StopRecord"
      BY <1>5, <3>1 DEF StopIsHeard
    <3>2. CASE r.op # "StopRecord"
      BY <1>1, <2>2, <2>4, <3>2 DEF Facts, StopIsHeard
    <3> QED
      BY <3>1, <3>2
  <2> QED
    BY <1>8, <2>5, <2>6, <2>7 DEF Facts
<1> QED
  BY <1>9, <1>10

\* A connection that breaks takes requests and answers with it, and somebody who operates OBS
\* ends what VBX has started.
LEMMA OutsideKeeps ==
  ASSUME Types, Types', Facts, ByHand \/ LoseConnection, Back' \subseteq Back
  PROVE  Facts'
<1>1. /\ UNCHANGED <<at, call, id, flag>> /\ (ours' => ours)
      /\ toObs' = toObs \/ toObs' = <<>>
  BY DEF ByHand, LoseConnection, calls, client, wire, obs
<1>2. Elems(toObs') \subseteq Elems(toObs) /\ Starts' \subseteq Starts /\ \A i \in Starts' : toObs'[i] = toObs[i]
  BY <1>1 DEF Elems, Starts
<1>3. Mine' \subseteq Mine /\ Starting' = Starting
  BY <1>1 DEF Mine, Starting
<1>4. StartIsAwaited'
  BY <1>1, <1>2, <1>3 DEF Facts, StartIsAwaited
<1>5. NumberIsOwn'
  BY <1>1, <1>2 DEF Facts, NumberIsOwn
<1>6. StartIsHeard'
  BY <1>1, <1>2, <1>3 DEF Facts, StartIsHeard
<1>7. StopIsHeard'
  BY <1>1, <1>3 DEF Facts, StopIsHeard
<1> QED
  BY <1>4, <1>5, <1>6, <1>7 DEF Facts

LEMMA FactsStep ==
  ASSUME Types, Types', Fresh, Facts, Calm, Calm', [Next]_vars
  PROVE  Facts'
<1>1. at["main"] \notin LeavingAt /\ at["hook"] \in {"listening", "gone"} /\ at'["main"] \notin LeavingAt
  BY DEF Calm, Types, Threads
<1>2. /\ at["main"] \notin {"swap", "try", "lock", "stopping", "leaving"}
      /\ at'["main"] \notin {"swap", "try", "lock", "stopping", "leaving"}
  BY <1>1 DEF LeavingAt
<1>3. ~Serve => Back' \subseteq Back
  BY BackShrinks
<1>4. CASE OBSConnect \/ Handshake \/ HandshakeFails \/ Close \/ EndReceive
           \/ (\E b \in Builtins : Begin(b)) \/ \E how \in {"receive", "receiveTimeout"} : Receive(how)
  <2>1. Away /\ Away' /\ UNCHANGED <<flag, ours>>
    BY <1>4 DEF Away, OBSConnect, Handshake, HandshakeFails, Close, Discard, EndReceive, Begin, Receive, Send,
                ScriptMoves, Goes, Types, Threads, obs
  <2>2. \/ toObs' = toObs
        \/ \E r \in Asked : r.op # "StartRecord" /\ toObs' = Append(toObs, r)
    <3>1. Request("Identify", ExitId) \in Asked /\ Request("Identify", ExitId).op = "Identify"
      BY DEF Request, ExitId, Asked
    <3>2. /\ Request("GetRecordStatus", lastId + 1) \in Asked
          /\ Request("GetRecordStatus", lastId + 1).op = "GetRecordStatus"
      BY DEF Request, Asked, Requests, Types
    <3>3. \/ toObs' = toObs \/ toObs' = Append(toObs, Request("Identify", ExitId))
          \/ toObs' = Append(toObs, Request("GetRecordStatus", lastId + 1))
      BY <1>4 DEF OBSConnect, Handshake, HandshakeFails, Close, Discard, EndReceive, Begin, Receive, Send, wire
    <3> QED
      BY <3>1, <3>2, <3>3
  <2> QED
    BY <2>1, <2>2, MovesKeep
<1>5. CASE Change
  BY <1>5, ChangeKeeps
<1>6. CASE Store
  BY <1>6, StoreKeeps
<1>7. ~ScriptEnds
  BY <1>2 DEF ScriptEnds, Shutdown, Goes, Types, Threads
<1>8. CASE HookWakes \/ Signal \/ ReadError \/ ReadMessage \/ SendEvent \/ UNCHANGED vars
           \/ \E t \in Threads : Drop(t)
  <2>1. UNCHANGED <<toObs, call, id, flag, ours>> /\ at'["main"] = at["main"]
    BY <1>8 DEF HookWakes, Shutdown, Goes, Types, Threads, Signal, ReadError, ReadMessage, SendEvent, Drop,
                vars, calls, client, wire, obs
  <2>2. ASSUME Serve PROVE FALSE
    <3>1. toObs' = Tail(toObs) /\ toObs # <<>> /\ toObs \in Seq(Asked)
      BY <2>2 DEF Serve, Types
    <3>2. Len(Tail(toObs)) = Len(toObs) - 1 /\ Len(toObs) \in Nat
      BY <3>1, ElementsOfTail
    <3> QED
      BY <2>1, <3>1, <3>2
  <2> QED
    BY <1>3, <2>1, <2>2, RestKeeps DEF Rest
<1>9. ASSUME NEW t \in Threads, TakeAnswer(t) \/ GiveUp(t) PROVE Facts'
  <2>1. t = "main"
    BY <1>1, <1>9 DEF TakeAnswer, GiveUp, Awaiting, Threads
  <2>2. ~abandoned'
    BY DEF Calm
  <2> QED
    BY <1>9, <2>1, <2>2, TakeAnswerKeeps, GiveUpKeeps
<1>10. ASSUME NEW t \in Threads PROVE ~Ending(t)
  BY <1>1, <1>2 DEF Ending, Swap, TryLock, RequestStop, Exit, Threads
<1>11. CASE Serve
  BY <1>11, ServeKeeps
<1>12. CASE ByHand \/ LoseConnection
  <2>1. UNCHANGED <<queue, fromObs>> \/ (queue' = queue /\ fromObs' = <<>>)
    BY <1>12 DEF ByHand, LoseConnection, client, wire
  <2>2. Back' \subseteq Back
    BY <2>1 DEF Back, Elems
  <2> QED
    BY <1>12, <2>2, OutsideKeeps
<1> QED
  BY <1>4, <1>5, <1>6, <1>7, <1>8, <1>9, <1>10, <1>11, <1>12 DEF Next, Request_

--------------------------------------------------------------------------------
\* The invariant holds in all reachable states.
LEMMA Invariance == Spec => []IInv
<1>1. IInv /\ [Next]_vars => IInv'
  <2> SUFFICES ASSUME IInv, [Next]_vars PROVE IInv'
    OBVIOUS
  <2>1. Types'
    BY TypesStep DEF IInv
  <2>2. Fresh'
    BY <2>1, FreshStep DEF IInv
  <2>3. Calm' => Facts'
    BY <2>1, CalmBefore, FactsStep DEF IInv
  <2> QED
    BY <2>1, <2>2, <2>3 DEF IInv
<1> QED
  BY <1>1, InitInv, PTL DEF Spec

\* For any number of requests and events, any capacity of the channel and whatever of Features
\* happens: while no start was given up and the process is not being ended, obsRecording is on when
\* a recording of VBX runs, or OBSStartRecord is about to set it (stdlib_websocket.go:102).
THEOREM OwnRecordingIsKnown == Spec => []OwnRecordingIsFlagged
<1>1. IInv => OwnRecordingIsFlagged
  <2> SUFFICES ASSUME IInv, ours, ~abandoned, ~flag, \A t \in Threads : at[t] \notin LeavingAt
               PROVE  call = "OBSStartRecord" /\ at["main"] \in {"change", "store"}
    BY DEF OwnRecordingIsFlagged
  <2>1. StartIsHeard
    BY DEF IInv, Calm, Facts
  <2> QED
    BY <2>1 DEF StartIsHeard, Starting
<1> QED
  BY <1>1, Invariance, PTL

--------------------------------------------------------------------------------
(* Uptime Kuma.                                                             *)

Under == {"call", "writing", "waiting", "timeout"}

KumaReplies == [id : Nat, says : {"ping", "ok", "refused"}]
KumaCalls   == [id : Nat, call : UNION {Elems(Calls[b]) : b \in DOMAIN Calls}]
Maintenances == SUBSET {"old", "new"}

KumaTypes ==
  /\ caller \in [at : Under \cup DOMAIN After \cup {"idle", "returned", "panic"},
                 builtin : DOMAIN Calls \cup {"none"},
                 step : 0 .. 3, result : {"none", "error", "OK", "id"}]
  /\ channel \in Seq(Seq({"ping", "ok", "refused"})) /\ mu \in {"free", "reader"}
  /\ loop \in [at : {"none", "reading", "locking", "handing", "ended"}, answer : KumaReplies]
  /\ toKuma \in Seq(KumaCalls) /\ fromKuma \in Seq(KumaReplies)
  /\ kuma \in [open : Maintenances, active : Maintenances, assigned : Maintenances,
               paused : BOOLEAN, user : BOOLEAN, pings : Nat]

Making == Calls[caller.builtin]

\* The numbers that were given are those of the calls main has come to.
Numbered ==
  /\ Number <= caller.step
  /\ caller.step > 0 => caller.builtin \in DOMAIN Calls /\ caller.step <= Len(Making)
  /\ caller.at = "idle" \/ Dialing => caller.step = 0
  /\ Dialing => caller.builtin \in DOMAIN Calls
  /\ caller.at \in Under \cup {"panic"} => caller.step > 0
  /\ caller.at = "call" => Number = caller.step - 1
  /\ caller.at \in {"writing", "waiting", "timeout", "panic"} => Number = caller.step
  /\ caller.at = "returned" <=> caller.result # "none"
  /\ caller.result \in {"OK", "id"} =>
       caller.step > 0 /\ (caller.result = "id" <=> caller.builtin = "SetMaintenance")

\* An answer is expected for the latest call at most, and until it is in the channel.
Expected ==
  /\ \A n \in pending : n \in 1 .. Number /\ channel[n] = <<>>
  /\ caller.at \in Under \cup {"panic"} => pending \subseteq {Number}
  /\ caller.at = "call" => pending = {}
  /\ caller.result \in {"OK", "id"} => pending = {}
  /\ caller.at \in {"writing", "waiting"} => Number \in pending \/ channel[Number] # <<>>
  /\ mu = "reader" <=> loop.at = "handing"
  /\ loop.at = "handing" => loop.answer.id \in pending

\* What a call changes at Kuma, and what of it can be seen afterwards.
Happened(c) ==
  /\ c = "login" => kuma.user
  /\ c = "addMaintenance" => "new" \in kuma.active
  /\ c = "addMonitorMaintenance" => "new" \in kuma.assigned
  /\ c = "editMaintenance" => "old" \notin kuma.active
  /\ c = "deleteMaintenance" => "old" \notin kuma.open
  /\ c = "pauseMonitor" => kuma.paused
  /\ c = "resumeMonitor" => ~kuma.paused

\* An answer is ok because the call was executed, or is one that is looked at.
Right(n, says) ==
  \/ (says = "ok" /\ Happened(Making[n]))
  \/ (says = "refused" /\ Making[n] \in {"login", "addMaintenance"})

InHand == IF loop.at \in {"locking", "handing"} THEN {loop.answer} ELSE {}

AskedRight ==
  \A m \in Elems(toKuma) : m.id \in 1 .. Number /\ m.call = Making[m.id] /\ (m.id > 1 => kuma.user)

AnsweredRight ==
  /\ \A r \in Elems(fromKuma) : r = Ping \/ (r.id \in 1 .. Number /\ Right(r.id, r.says))
  /\ \A r \in InHand : r.id \in 1 .. Number /\ Right(r.id, r.says)
  /\ \A n \in 1 .. Number : \A says \in Elems(channel[n]) : Right(n, says)

\* main goes on when a call was executed.
Progress ==
  /\ caller.step > 0 => \A n \in 1 .. caller.step - 1 : Happened(Making[n])
  /\ caller.result \in {"OK", "id"} => \A n \in 1 .. Len(Making) : Happened(Making[n])
  /\ caller.step < 2 => kuma.open = {"old"} /\ kuma.active = {"old"}

KInv == KumaTypes /\ Numbered /\ Expected /\ AskedRight /\ AnsweredRight /\ Progress

\* The calls of each builtin.
LEMMA CallsAre ==
  /\ DOMAIN Calls = {"SetMaintenance", "StopMaintenance", "DeleteMaintenance",
                     "PauseMonitor", "ResumeMonitor"}
  /\ \A b \in DOMAIN Calls :
       /\ Len(Calls[b]) = IF b = "SetMaintenance" THEN 3 ELSE 2
       /\ Calls[b][1] = "login"
       /\ b = "SetMaintenance" =>
            Calls[b][2] = "addMaintenance" /\ Calls[b][3] = "addMonitorMaintenance"
       /\ b = "StopMaintenance" => Calls[b][2] = "editMaintenance"
       /\ b = "DeleteMaintenance" => Calls[b][2] = "deleteMaintenance"
       /\ b = "PauseMonitor" => Calls[b][2] = "pauseMonitor"
       /\ b = "ResumeMonitor" => Calls[b][2] = "resumeMonitor"
<1>1. DOMAIN Calls = {"SetMaintenance", "StopMaintenance", "DeleteMaintenance",
                      "PauseMonitor", "ResumeMonitor"}
  BY DEF Calls
<1>2. /\ Calls["SetMaintenance"] = <<"login", "addMaintenance", "addMonitorMaintenance">>
      /\ Calls["StopMaintenance"] = <<"login", "editMaintenance">>
      /\ Calls["DeleteMaintenance"] = <<"login", "deleteMaintenance">>
      /\ Calls["PauseMonitor"] = <<"login", "pauseMonitor">>
      /\ Calls["ResumeMonitor"] = <<"login", "resumeMonitor">>
  BY DEF Calls
<1>3. ASSUME NEW b \in DOMAIN Calls  PROVE Calls[b][1] = "login"
  BY <1>1, <1>2
<1>4. ASSUME NEW b \in DOMAIN Calls  PROVE Len(Calls[b]) = IF b = "SetMaintenance" THEN 3 ELSE 2
  BY <1>1, <1>2
<1> QED
  BY <1>1, <1>2, <1>3, <1>4

\* What Kuma does stays done while the calls of the same builtin are executed.
LEMMA HappenedStays ==
  ASSUME KumaTypes, caller.builtin \in DOMAIN Calls, NEW m \in 1 .. Len(Making), UNCHANGED caller,
         kuma' = Executed(Making[m]), NEW n \in 1 .. Len(Making)
  PROVE  /\ Happened(Making[m])'
         /\ Happened(Making[n]) => Happened(Making[n])'
<1>1. kuma \in [open : Maintenances, active : Maintenances, assigned : Maintenances,
                paused : BOOLEAN, user : BOOLEAN, pings : Nat]
  BY DEF KumaTypes
<1>2. Making' = Making
  BY DEF Making
<1>3. ASSUME NEW c, NEW d, kuma' = Executed(c),
             {c, d} \subseteq {"login", "addMaintenance", "addMonitorMaintenance"}
               \/ {c, d} \subseteq {"login", "editMaintenance"}
               \/ {c, d} \subseteq {"login", "deleteMaintenance"}
               \/ {c, d} \subseteq {"login", "pauseMonitor"}
               \/ {c, d} \subseteq {"login", "resumeMonitor"}
      PROVE  Happened(c)' /\ (Happened(d) => Happened(d)')
  <2> USE <1>1
  <2>1. CASE c = "login"
    <3>1. kuma' = [kuma EXCEPT !.user = TRUE]
      BY <1>3, <2>1 DEF Executed
    <3> QED
      BY <2>1, <3>1 DEF Happened
  <2>2. CASE c = "addMaintenance"
    <3>1. kuma' = [kuma EXCEPT !.open = @ \cup {"new"}, !.active = @ \cup {"new"}]
      BY <1>3, <2>2 DEF Executed
    <3> QED
      BY <1>3, <2>2, <3>1 DEF Happened
  <2>3. CASE c = "addMonitorMaintenance"
    <3>1. kuma' = [kuma EXCEPT !.assigned = @ \cup {"new"}]
      BY <1>3, <2>3 DEF Executed
    <3> QED
      BY <1>3, <2>3, <3>1 DEF Happened
  <2>4. CASE c = "editMaintenance"
    <3>1. kuma' = [kuma EXCEPT !.active = @ \ {"old"}]
      BY <1>3, <2>4 DEF Executed
    <3> QED
      BY <1>3, <2>4, <3>1 DEF Happened
  <2>5. CASE c = "deleteMaintenance"
    <3>1. kuma' = [kuma EXCEPT !.open = @ \ {"old"}, !.active = @ \ {"old"}]
      BY <1>3, <2>5 DEF Executed
    <3> QED
      BY <1>3, <2>5, <3>1 DEF Happened
  <2>6. CASE c = "pauseMonitor"
    <3>1. kuma' = [kuma EXCEPT !.paused = TRUE]
      BY <1>3, <2>6 DEF Executed
    <3> QED
      BY <1>3, <2>6, <3>1 DEF Happened
  <2>7. CASE c = "resumeMonitor"
    <3>1. kuma' = [kuma EXCEPT !.paused = FALSE]
      BY <1>3, <2>7 DEF Executed
    <3> QED
      BY <1>3, <2>7, <3>1 DEF Happened
  <2>8. c \in {"login", "addMaintenance", "addMonitorMaintenance", "editMaintenance",
               "deleteMaintenance", "pauseMonitor", "resumeMonitor"}
    BY <1>3
  <2> QED
    BY <2>1, <2>2, <2>3, <2>4, <2>5, <2>6, <2>7, <2>8
<1>4. \/ {Making[m], Making[n]} \subseteq {"login", "addMaintenance", "addMonitorMaintenance"}
      \/ {Making[m], Making[n]} \subseteq {"login", "editMaintenance"}
      \/ {Making[m], Making[n]} \subseteq {"login", "deleteMaintenance"}
      \/ {Making[m], Making[n]} \subseteq {"login", "pauseMonitor"}
      \/ {Making[m], Making[n]} \subseteq {"login", "resumeMonitor"}
  <2>1. m \in 1 .. 3 /\ n \in 1 .. 3 /\ (caller.builtin # "SetMaintenance" => m \in 1 .. 2 /\ n \in 1 .. 2)
    <3>1. Len(Making) = IF caller.builtin = "SetMaintenance" THEN 3 ELSE 2
      BY CallsAre DEF Making
    <3> QED
      BY <3>1
  <2>2. CASE caller.builtin = "SetMaintenance"
    BY <2>1, <2>2, CallsAre DEF Making
  <2>3. CASE caller.builtin \in {"StopMaintenance", "DeleteMaintenance"}
    BY <2>1, <2>3, CallsAre DEF Making
  <2>4. CASE caller.builtin \in {"PauseMonitor", "ResumeMonitor"}
    BY <2>1, <2>4, CallsAre DEF Making
  <2> QED
    BY <2>2, <2>3, <2>4, CallsAre
<1>5. PICK c, d : c = Making[m] /\ d = Making[n]
  OBVIOUS
<1>6. Happened(c)' /\ (Happened(d) => Happened(d)')
  BY <1>3, <1>4, <1>5
<1>7. (Happened(Making[m])' <=> Happened(c)') /\ (Happened(Making[n])' <=> Happened(d)')
  BY <1>2, <1>5 DEF Happened
<1> QED
  BY <1>5, <1>6, <1>7

\* Init establishes the invariant: nothing has been sent.
LEMMA KumaInitHolds == KumaInit => KInv
<1> SUFFICES ASSUME KumaInit PROVE KInv
  OBVIOUS
<1>1. KumaTypes
  <2>1. Ping \in KumaReplies
    BY DEF Ping, KumaReplies
  <2>2. kuma \in [open : Maintenances, active : Maintenances, assigned : Maintenances,
                  paused : BOOLEAN, user : BOOLEAN, pings : Nat]
    <3>1. {"old"} \in Maintenances
      BY DEF Maintenances
    <3>2. PICK p \in BOOLEAN : kuma = [open |-> {"old"}, active |-> {"old"}, assigned |-> {"old"},
                                     paused |-> p, user |-> FALSE, pings |-> 0]
      BY DEF KumaInit
    <3>3. 0 \in Nat /\ FALSE \in BOOLEAN
      OBVIOUS
    <3> QED
      BY <3>1, <3>2, <3>3
  <2> QED
    BY <2>1, <2>2 DEF KumaInit, KumaTypes
<1>2. Elems(toKuma) = {} /\ Elems(fromKuma) = {} /\ InHand = {} /\ Number = 0
  BY DEF KumaInit, Elems, InHand, Number
<1>3. Numbered /\ Expected
  BY <1>2 DEF KumaInit, Numbered, Expected, Under, Dialing, After
<1>4. AskedRight /\ AnsweredRight
  BY <1>2 DEF AskedRight, AnsweredRight
<1>5. Progress
  BY DEF KumaInit, Progress
<1> QED
  BY <1>1, <1>3, <1>4, <1>5 DEF KInv

\* The numbers that were given are those of the channels.
LEMMA NumberIs ==
  ASSUME KumaTypes
  PROVE  Number \in Nat /\ \A n \in 1 .. Number : channel[n] \in Seq({"ping", "ok", "refused"})
<1>1. channel \in Seq(Seq({"ping", "ok", "refused"}))
  BY DEF KumaTypes
<1> QED
  BY <1>1 DEF Number

LEMMA ChannelChanges ==
  ASSUME KumaTypes, NEW n \in 1 .. Number, NEW e \in Seq({"ping", "ok", "refused"}),
         channel' = [channel EXCEPT ![n] = e]
  PROVE  /\ channel' \in Seq(Seq({"ping", "ok", "refused"})) /\ Number' = Number
         /\ channel'[n] = e /\ \A i \in 1 .. Number : i # n => channel'[i] = channel[i]
<1> DEFINE T == Seq({"ping", "ok", "refused"})
<1>1. channel \in Seq(T) /\ e \in T /\ n \in 1 .. Len(channel)
  BY DEF KumaTypes, Number
<1> HIDE DEF T
<1>2. channel' \in Seq(T) /\ Len(channel') = Len(channel)
  BY <1>1, ExceptSeq
<1>3. DOMAIN channel = 1 .. Len(channel)
  BY <1>1
<1> QED
  BY <1>1, <1>2, <1>3 DEF Number, T

\* What is asked of Kuma.
LEMMA CallNames ==
  ASSUME KumaTypes, toKuma # <<>>
  PROVE  Head(toKuma).call \in {"login", "addMaintenance", "addMonitorMaintenance", "editMaintenance",
                                "deleteMaintenance", "pauseMonitor", "resumeMonitor"}
<1>1. Head(toKuma) \in KumaCalls
  BY ElementsOfTail DEF KumaTypes
<1>2. PICK b \in DOMAIN Calls : \E n \in 1 .. Len(Calls[b]) : Head(toKuma).call = Calls[b][n]
  BY <1>1 DEF KumaCalls, Elems
<1>3. PICK n \in 1 .. 3 : Head(toKuma).call = Calls[b][n] /\ n <= Len(Calls[b])
  BY <1>2, CallsAre
<1> QED
  BY <1>3, CallsAre

\* The parts of a dial.
LEMMA DialGoesThrough ==
  /\ DOMAIN After = {"session", "upgrade", "probe", "connect"}
  /\ After["session"] = "upgrade" /\ After["upgrade"] = "probe" /\ After["probe"] = "connect"
  /\ After["connect"] = "call"
BY DEF After

\* A dial that goes on has not called anything yet, and goes on to the next part or to the first call.
LEMMA DialGoesOnDoes ==
  ASSUME KumaTypes, Numbered, DialGoesOn
  PROVE  /\ Number = 0 /\ Number' = 0 /\ caller.step = 0 /\ caller.builtin \in DOMAIN Calls
         /\ caller'.builtin = caller.builtin /\ caller'.result = "none"
         /\ \/ caller'.at \in DOMAIN After /\ caller'.step = 0 /\ loop' = loop
            \/ /\ caller'.at = "call" /\ caller'.step = 1
               /\ loop'.at = "reading" /\ loop'.answer = loop.answer
         /\ UNCHANGED <<pending, channel, mu, toKuma, fromKuma, kuma>>
<1>1. /\ UNCHANGED <<pending, channel, mu, toKuma, fromKuma, kuma>> /\ caller.at \in DOMAIN After
      /\ caller' = [caller EXCEPT !.at = After[@], !.step = IF caller.at = "connect" THEN 1 ELSE 0]
      /\ loop' = IF caller.at = "connect" THEN [loop EXCEPT !.at = "reading"] ELSE loop
  BY DEF DialGoesOn, Dialing
<1>2. caller.step = 0 /\ caller.builtin \in DOMAIN Calls /\ caller.result = "none" /\ Number <= 0
  BY <1>1, DialGoesThrough DEF Numbered, Dialing
<1>3. Number = 0 /\ Number' = Number
  BY <1>1, <1>2, NumberIs DEF Number
<1>4. /\ caller'.at = After[caller.at] /\ caller'.builtin = caller.builtin /\ caller'.result = caller.result
      /\ caller'.step = IF caller.at = "connect" THEN 1 ELSE 0
  BY <1>1 DEF KumaTypes
<1>5. CASE caller.at = "connect"
  <2>1. loop'.at = "reading" /\ loop'.answer = loop.answer
    BY <1>1, <1>5 DEF KumaTypes
  <2> QED
    BY <1>1, <1>2, <1>3, <1>4, <1>5, <2>1, DialGoesThrough
<1>6. CASE caller.at # "connect"
  BY <1>1, <1>2, <1>3, <1>4, <1>6, DialGoesThrough
<1> QED
  BY <1>5, <1>6

LEMMA KumaTypesStep == KumaTypes /\ Numbered /\ Expected /\ [KumaNext]_kumaVars => KumaTypes'
<1> SUFFICES ASSUME KumaTypes, Numbered, Expected, [KumaNext]_kumaVars PROVE KumaTypes'
  OBVIOUS
<1> DEFINE Callers == [at : Under \cup DOMAIN After \cup {"idle", "returned", "panic"}, builtin : DOMAIN Calls \cup {"none"},
                       step : 0 .. 3, result : {"none", "error", "OK", "id"}]
           Texts == {"ping", "ok", "refused"}
           Loops == [at : {"none", "reading", "locking", "handing", "ended"}, answer : KumaReplies]
           Kumas == [open : Maintenances, active : Maintenances, assigned : Maintenances,
                     paused : BOOLEAN, user : BOOLEAN, pings : Nat]
<1>1. /\ caller \in Callers /\ channel \in Seq(Seq(Texts)) /\ mu \in {"free", "reader"}
      /\ loop \in Loops /\ kuma \in Kumas
      /\ toKuma \in Seq(KumaCalls) /\ fromKuma \in Seq(KumaReplies)
  BY DEF KumaTypes
<1> SUFFICES /\ caller' \in Callers /\ channel' \in Seq(Seq(Texts)) /\ mu' \in {"free", "reader"}
             /\ loop' \in Loops /\ kuma' \in Kumas
             /\ toKuma' \in Seq(KumaCalls) /\ fromKuma' \in Seq(KumaReplies)
  BY DEF KumaTypes
<1>2. ASSUME NEW where \in Under \cup {"panic"}, At(where)  PROVE caller' \in Callers
  BY <1>1, <1>2 DEF At
<1>3. ASSUME NEW r \in {"error", "OK", "id"}, Finish(r)  PROVE caller' \in Callers
  BY <1>1, <1>3 DEF Finish
<1>4. <<>> \in Seq(Texts)
  OBVIOUS
<1>5. CASE Dial
  <2>1. caller' \in Callers
    BY <1>5 DEF Dial, After
  <2> QED
    BY <1>1, <1>5, <2>1 DEF Dial
<1>19. CASE DialGoesOn
  <2>1. caller' \in Callers
    <3>1. caller.at \in DOMAIN After /\ After[caller.at] \in Under \cup DOMAIN After
      BY <1>19, DialGoesThrough DEF DialGoesOn, Dialing, Under
    <3>2. (IF caller.at = "connect" THEN 1 ELSE 0) \in 0 .. 3
      OBVIOUS
    <3> QED
      BY <1>1, <1>19, <3>1, <3>2 DEF DialGoesOn
  <2> QED
    BY <1>1, <1>19, <2>1 DEF DialGoesOn
<1>20. CASE DialFails
  BY <1>1, <1>3, <1>20 DEF DialFails
<1>6. CASE Prepare
  <2>1. channel' \in Seq(Seq(Texts))
    <3> DEFINE T == Seq(Texts)
    <3>1. channel \in Seq(T) /\ <<>> \in T /\ channel' = Append(channel, <<>>)
      BY <1>1, <1>6 DEF Prepare
    <3> HIDE DEF T
    <3>2. channel' \in Seq(T)
      BY <3>1, AppendProperties
    <3> QED
      BY <3>2 DEF T
  <2>2. caller' \in Callers
    BY <1>2, <1>6 DEF Prepare, Under
  <2> QED
    BY <1>1, <1>6, <2>1, <2>2 DEF Prepare
<1>7. CASE Write
  <2>1. caller' \in Callers
    BY <1>2, <1>3, <1>7 DEF Write, Under
  <2>2. toKuma' \in Seq(KumaCalls)
    <3>1. Number = caller.step /\ caller.step \in 1 .. Len(Making) /\ caller.builtin \in DOMAIN Calls
      BY <1>1, <1>7 DEF Write, Numbered, Under
    <3>2. Number \in Nat /\ CallOf \in Elems(Calls[caller.builtin])
      BY <3>1, NumberIs DEF CallOf, Elems, Making
    <3>3. [id |-> Number, call |-> CallOf] \in KumaCalls
      BY <3>1, <3>2 DEF KumaCalls
    <3>4. toKuma' = toKuma \/ toKuma' = Append(toKuma, [id |-> Number, call |-> CallOf])
      BY <1>7 DEF Write
    <3>5. toKuma \in Seq(KumaCalls)
      BY <1>1
    <3> QED
      BY <3>3, <3>4, <3>5, AppendProperties
  <2> QED
    BY <1>1, <1>7, <2>1, <2>2 DEF Write
<1>8. CASE TakeReply
  <2>1. Number \in 1 .. Number /\ caller.step \in 1 .. Len(Making) /\ Len(Making) \in 0 .. 3
    BY <1>1, <1>8, CallsAre, NumberIs DEF TakeReply, Numbered, Under, Making
  <2>2. channel' \in Seq(Seq(Texts))
    BY <1>4, <1>8, <2>1, ChannelChanges DEF TakeReply
  <2>3. caller' \in Callers
    <3>1. CASE \E r \in {"error", "OK", "id"} : Finish(r)
      BY <1>3, <3>1
    <3>2. CASE caller.step < Len(Making) /\ caller' = [caller EXCEPT !.at = "call", !.step = @ + 1]
      <4>1. caller.step < Len(Making)
        BY <3>2
      <4>2. PICK l \in 0 .. 3 : caller.step \in 1 .. l /\ caller.step < l
        BY <2>1, <4>1
      <4>3. PICK s \in 0 .. 3 : s = caller.step + 1
        BY <4>2
      <4>4. caller' = [caller EXCEPT !.at = "call", !.step = s]
        BY <3>2, <4>3
      <4> QED
        BY <1>1, <4>4 DEF Under
    <3> QED
      BY <1>8, <3>1, <3>2 DEF TakeReply, Making
  <2> QED
    BY <1>1, <1>8, <2>2, <2>3 DEF TakeReply
<1>9. CASE CallTimesOut
  BY <1>1, <1>2, <1>9 DEF CallTimesOut, Under
<1>10. CASE Forget \/ SeesClosed
  BY <1>1, <1>3, <1>10 DEF Forget, SeesClosed
<1>11. CASE ReadAnswer
  BY <1>1, <1>11, ElementsOfTail DEF ReadAnswer
<1>12. CASE Pong
  <2>1. fromKuma' \in Seq(KumaReplies) /\ (At("panic") \/ caller' = caller)
    BY <1>1, <1>12, ElementsOfTail DEF Pong
  <2> QED
    BY <1>1, <1>2, <1>12, <2>1 DEF Pong
<1>13. CASE LockPending \/ ReadEnds
  BY <1>1, <1>13 DEF LockPending, ReadEnds
<1>14. CASE HandOver
  <2> DEFINE i == loop.answer.id
             e == Append(channel[i], loop.answer.says)
  <2>1. i \in 1 .. Number
    BY <1>14 DEF HandOver, Expected
  <2>2. channel[i] \in Seq(Texts) /\ loop.answer.says \in Texts
    BY <1>1, <2>1, NumberIs DEF KumaReplies
  <2>3. e \in Seq(Texts)
    BY <2>2, AppendProperties
  <2>4. channel' = [channel EXCEPT ![i] = e]
    BY <1>14 DEF HandOver
  <2>5. channel' \in Seq(Seq(Texts))
    <3> HIDE DEF i, e
    <3> QED
      BY <2>1, <2>3, <2>4, ChannelChanges
  <2> QED
    BY <1>1, <1>14, <2>5 DEF HandOver
<1>15. CASE ServeCall
  <2>1. Head(toKuma) \in KumaCalls /\ toKuma' \in Seq(KumaCalls)
    BY <1>1, <1>15, ElementsOfTail DEF ServeCall
  <2>2. fromKuma' \in Seq(KumaReplies)
    <3>1. ASSUME NEW says \in {"ok", "refused"}, Answer(says)  PROVE fromKuma' \in Seq(KumaReplies)
      <4>1. [id |-> Head(toKuma).id, says |-> says] \in KumaReplies
        BY <2>1 DEF KumaCalls, KumaReplies
      <4> QED
        BY <1>1, <3>1, <4>1, AppendProperties DEF Answer
    <3> QED
      BY <1>1, <1>15, <3>1 DEF ServeCall
  <2>3. kuma' \in Kumas
    <3>1. ASSUME NEW c, kuma' = Executed(c),
                 c \in {"login", "addMaintenance", "addMonitorMaintenance", "editMaintenance",
                        "deleteMaintenance", "pauseMonitor", "resumeMonitor"}
          PROVE  kuma' \in Kumas
      BY <1>1, <3>1 DEF Executed, Maintenances
    <3>2. Head(toKuma).call \in {"login", "addMaintenance", "addMonitorMaintenance", "editMaintenance",
                                 "deleteMaintenance", "pauseMonitor", "resumeMonitor"}
      BY <1>15, CallNames DEF ServeCall
    <3> QED
      BY <1>1, <1>15, <3>1, <3>2 DEF ServeCall
  <2> QED
    BY <1>1, <1>15, <2>1, <2>2, <2>3 DEF ServeCall, clientVars
<1>16. CASE SendPing
  <2>1. Ping \in KumaReplies
    BY DEF Ping, KumaReplies
  <2>2. fromKuma' \in Seq(KumaReplies)
    BY <1>1, <1>16, <2>1, AppendProperties DEF SendPing
  <2>3. kuma' \in Kumas
    <3>1. PICK n \in Nat : n = kuma.pings + 1
      BY <1>1
    <3>2. kuma' = [kuma EXCEPT !.pings = n]
      BY <1>16, <3>1 DEF SendPing
    <3> QED
      BY <1>1, <3>2
  <2> QED
    BY <1>1, <1>16, <2>2, <2>3 DEF SendPing, clientVars
<1>17. CASE GoesAway
  BY <1>1, <1>17 DEF GoesAway
<1>18. CASE UNCHANGED kumaVars
  BY <1>1, <1>18 DEF kumaVars, clientVars
<1> QED
  BY <1>5, <1>6, <1>7, <1>8, <1>9, <1>10, <1>11, <1>12, <1>13, <1>14, <1>15, <1>16, <1>17, <1>18,
     <1>19, <1>20 DEF KumaNext, HandshakeStep, Main, Reader

\* main goes on, or returns.
LEMMA AtDoes ==
  ASSUME KumaTypes, NEW where, At(where)
  PROVE  /\ caller'.at = where /\ caller'.builtin = caller.builtin /\ caller'.step = caller.step
         /\ caller'.result = caller.result
BY DEF At, KumaTypes

LEMMA FinishDoes ==
  ASSUME KumaTypes, NEW r, Finish(r)
  PROVE  /\ caller'.at = "returned" /\ caller'.builtin = caller.builtin /\ caller'.step = caller.step
         /\ caller'.result = r
BY DEF Finish, KumaTypes

LEMMA TakeReplyDoes ==
  ASSUME KumaTypes, Numbered, TakeReply
  PROVE  /\ Number = caller.step /\ caller.step \in 1 .. Len(Making) /\ caller.builtin \in DOMAIN Calls
         /\ caller'.builtin = caller.builtin /\ Number' = Number
         /\ channel[Number] # <<>> /\ channel'[Number] = <<>>
         /\ \A n \in 1 .. Number : n # Number => channel'[n] = channel[n]
         /\ \/ caller'.at = "returned" /\ caller'.result = "error" /\ caller'.step = caller.step
            \/ /\ Accepted(Head(channel[Number])) /\ caller.step < Len(Making)
               /\ caller'.at = "call" /\ caller'.result = "none" /\ caller'.step = caller.step + 1
            \/ /\ Accepted(Head(channel[Number])) /\ caller.step = Len(Making)
               /\ caller'.at = "returned" /\ caller'.step = caller.step
               /\ caller'.result = IF caller.builtin = "SetMaintenance" THEN "id" ELSE "OK"
<1>1. Number = caller.step /\ caller.step \in 1 .. Len(Making) /\ caller.builtin \in DOMAIN Calls
  BY DEF TakeReply, Numbered, Under, KumaTypes
<1>2. /\ Number' = Number /\ channel[Number] # <<>> /\ channel'[Number] = <<>>
      /\ \A n \in 1 .. Number : n # Number => channel'[n] = channel[n]
  <2>1. Number \in 1 .. Number /\ <<>> \in Seq({"ping", "ok", "refused"})
    BY <1>1, NumberIs
  <2>2. channel' = [channel EXCEPT ![Number] = <<>>] /\ channel[Number] # <<>>
    BY DEF TakeReply
  <2> DEFINE i == Number
             e == <<>>
  <2>3. i \in 1 .. Number /\ e \in Seq({"ping", "ok", "refused"}) /\ channel' = [channel EXCEPT ![i] = e]
    BY <2>1, <2>2
  <2>4. Number' = Number /\ channel'[i] = e /\ \A n \in 1 .. Number : n # i => channel'[n] = channel[n]
    <3> HIDE DEF i, e
    <3> QED
      BY <2>3, ChannelChanges
  <2> QED
    BY <2>2, <2>4
<1>3. Len(Making) \in Nat
  BY <1>1, CallsAre DEF Making
<1> DEFINE last == IF caller.builtin = "SetMaintenance" THEN "id" ELSE "OK"
           answer == Head(channel[Number])
<1>4. \/ ~Accepted(answer) /\ Finish("error")
      \/ /\ Accepted(answer) /\ caller.step < Len(Making)
         /\ caller' = [caller EXCEPT !.at = "call", !.step = @ + 1]
      \/ Accepted(answer) /\ ~(caller.step < Len(Making)) /\ Finish(last)
  BY DEF TakeReply, Making
<1>5. caller.result = "none"
  BY DEF TakeReply, Numbered
<1> HIDE DEF answer, last
<1>6. CASE Finish("error")
  BY <1>1, <1>2, <1>6, FinishDoes
<1>7. CASE /\ Accepted(answer) /\ caller.step < Len(Making)
           /\ caller' = [caller EXCEPT !.at = "call", !.step = @ + 1]
  <2>1. caller'.at = "call" /\ caller'.step = caller.step + 1 /\ caller'.builtin = caller.builtin
        /\ caller'.result = caller.result
    BY <1>7 DEF KumaTypes
  <2> QED
    BY <1>1, <1>2, <1>5, <1>7, <2>1 DEF answer
<1>8. CASE Accepted(answer) /\ ~(caller.step < Len(Making)) /\ Finish(last)
  <2>1. caller.step = Len(Making)
    BY <1>1, <1>3, <1>8
  <2> QED
    BY <1>1, <1>2, <1>8, <2>1, FinishDoes DEF answer, last
<1> QED
  BY <1>4, <1>6, <1>7, <1>8

\* An answer is handed over to the channel of a number that was given.
LEMMA HandOverDoes ==
  ASSUME KumaTypes, Expected, HandOver
  PROVE  LET i == loop.answer.id IN
         /\ i \in pending /\ i \in 1 .. Number /\ Number' = Number /\ caller' = caller
         /\ channel[i] = <<>> /\ channel'[i] = <<loop.answer.says>>
         /\ pending' = pending \ {i}
         /\ \A n \in 1 .. Number : n # i => channel'[n] = channel[n]
<1> DEFINE i == loop.answer.id
           e == Append(channel[i], loop.answer.says)
<1>1. i \in pending /\ i \in 1 .. Number /\ channel[i] = <<>> /\ caller' = caller /\ pending' = pending \ {i}
  BY DEF HandOver, Expected
<1>2. e = <<loop.answer.says>> /\ loop.answer.says \in {"ping", "ok", "refused"}
  BY <1>1 DEF KumaTypes, KumaReplies
<1>3. e \in Seq({"ping", "ok", "refused"}) /\ channel' = [channel EXCEPT ![i] = e]
  BY <1>2 DEF HandOver
<1>4. Number' = Number /\ channel'[i] = e /\ \A n \in 1 .. Number : n # i => channel'[n] = channel[n]
  <2> HIDE DEF i, e
  <2> QED
    BY <1>1, <1>3, ChannelChanges
<1> QED
  BY <1>1, <1>2, <1>4

\* A new number.
LEMMA PrepareDoes ==
  ASSUME KumaTypes, Prepare
  PROVE  /\ Number' = Number + 1 /\ channel'[Number + 1] = <<>>
         /\ \A n \in 1 .. Number : channel'[n] = channel[n]
<1> DEFINE T == Seq({"ping", "ok", "refused"})
<1>1. channel \in Seq(T) /\ <<>> \in T /\ channel' = Append(channel, <<>>)
  BY DEF KumaTypes, Prepare
<1> HIDE DEF T
<1> QED
  BY <1>1, AppendProperties DEF Number

\* The numbers.
LEMMA NumberedStep == KumaTypes /\ Numbered /\ Expected /\ [KumaNext]_kumaVars => Numbered'
<1> SUFFICES ASSUME KumaTypes, Numbered, Expected, [KumaNext]_kumaVars PROVE Numbered'
  OBVIOUS
<1>1. ASSUME UNCHANGED <<caller, channel>>  PROVE Numbered'
  BY <1>1 DEF Numbered, Number, Making, Dialing
<1>2. ASSUME Finish("error"), UNCHANGED channel  PROVE Numbered'
  BY <1>2, FinishDoes, DialGoesThrough DEF Numbered, Number, Making, Under, Dialing
<1>3. CASE Dial
  <2>1. caller.at = "idle" /\ UNCHANGED channel
    BY <1>3 DEF Dial
  <2>2. Number = 0 /\ Number' = Number
    BY <2>1, NumberIs DEF Numbered, Number
  <2>3. PICK b \in DOMAIN Calls :
          caller' = [at |-> "session", builtin |-> b, step |-> 0, result |-> "none"]
    BY <1>3 DEF Dial
  <2> QED
    BY <2>2, <2>3 DEF Numbered, Making, Under
<1>12. CASE DialGoesOn
  <2>1. Len(Calls[caller.builtin]) >= 1
    BY <1>12, DialGoesOnDoes, CallsAre
  <2> QED
    BY <1>12, <2>1, DialGoesOnDoes, DialGoesThrough DEF Numbered, Making, Under, Dialing
<1>13. CASE DialFails
  BY <1>2, <1>13 DEF DialFails
<1>4. CASE Prepare
  <2>1. At("writing") /\ caller.at = "call" /\ Number = caller.step - 1 /\ caller.step \in Nat
    BY <1>4 DEF Prepare, Numbered, KumaTypes
  <2> QED
    BY <1>4, <2>1, AtDoes, PrepareDoes, NumberIs, DialGoesThrough DEF Numbered, Making, Under, Dialing
<1>5. CASE Write
  <2>1. caller.at = "writing" /\ channel' = channel /\ (At("waiting") \/ Finish("error"))
    BY <1>5 DEF Write
  <2> QED
    BY <1>2, <2>1, AtDoes, DialGoesThrough DEF Numbered, Number, Making, Under, Dialing
<1>6. CASE TakeReply
  <2>1. /\ Number = caller.step /\ Number' = Number /\ caller.step \in 1 .. Len(Making)
        /\ caller.builtin \in DOMAIN Calls /\ caller'.builtin = caller.builtin /\ Making' = Making
    BY <1>6, TakeReplyDoes DEF Making
  <2>2. Len(Making) \in Nat
    BY <2>1, CallsAre DEF Making
  <2>3. CASE caller'.at = "returned" /\ caller'.result = "error" /\ caller'.step = caller.step
    BY <2>1, <2>2, <2>3, DialGoesThrough DEF Numbered, Under, Dialing
  <2>4. CASE /\ caller.step < Len(Making)
             /\ caller'.at = "call" /\ caller'.result = "none" /\ caller'.step = caller.step + 1
    BY <2>1, <2>2, <2>4, DialGoesThrough DEF Numbered, Under, Dialing
  <2>5. CASE /\ caller'.at = "returned" /\ caller'.step = caller.step
             /\ caller'.result = IF caller.builtin = "SetMaintenance" THEN "id" ELSE "OK"
    BY <2>1, <2>2, <2>5, DialGoesThrough DEF Numbered, Under, Dialing
  <2> QED
    BY <1>6, <2>3, <2>4, <2>5, TakeReplyDoes
<1>7. CASE CallTimesOut
  BY <1>7, AtDoes, DialGoesThrough DEF CallTimesOut, Numbered, Number, Making, Under, Dialing
<1>8. CASE Forget \/ SeesClosed
  BY <1>2, <1>8 DEF Forget, SeesClosed
<1>9. CASE Pong
  <2>1. channel' = channel /\ ((At("panic") /\ caller.at = "writing") \/ caller' = caller)
    BY <1>9 DEF Pong
  <2> QED
    BY <1>1, <2>1, AtDoes, DialGoesThrough DEF Numbered, Number, Making, Under, Dialing
<1>10. CASE ReadAnswer \/ LockPending \/ ReadEnds \/ ServeCall \/ SendPing \/ GoesAway \/ UNCHANGED kumaVars
  BY <1>1, <1>10 DEF ReadAnswer, LockPending, ReadEnds, ServeCall, SendPing, GoesAway, kumaVars, clientVars
<1>11. CASE HandOver
  BY <1>11, HandOverDoes DEF Numbered, Making, Dialing
<1> QED
  BY <1>3, <1>4, <1>5, <1>6, <1>7, <1>8, <1>9, <1>10, <1>11, <1>12, <1>13
     DEF KumaNext, HandshakeStep, Main, Reader

\* No answer is expected twice, and none is forgotten that main waits for.
LEMMA ExpectedStep ==
  KumaTypes /\ Numbered /\ Expected /\ [KumaNext]_kumaVars => Expected'
<1> SUFFICES ASSUME KumaTypes, Numbered, Expected, [KumaNext]_kumaVars PROVE Expected'
  OBVIOUS
<1>0. Number \in Nat
  BY NumberIs
<1>1. ASSUME UNCHANGED <<caller, channel, pending, mu>>, loop' = loop \/ "handing" \notin {loop.at, loop'.at}
      PROVE  Expected'
  BY <1>1 DEF Expected, Number
<1>2. ASSUME Finish("error"), UNCHANGED <<channel, mu, loop>>,
             pending' = pending \/ (mu = "free" /\ pending' \subseteq pending)
      PROVE  Expected'
  <2>1. caller'.at = "returned" /\ caller'.result = "error"
    BY <1>2, FinishDoes
  <2> QED
    BY <1>2, <2>1 DEF Expected, Number, Under
<1>3. CASE Dial
  <2>1. Number = 0 /\ Number' = Number /\ pending = {}
    BY <1>0, <1>3 DEF Dial, Numbered, Number, Expected
  <2>2. UNCHANGED <<mu, pending, loop>> /\ caller'.at = "session" /\ caller'.result = "none"
    BY <1>3 DEF Dial
  <2> QED
    BY <2>1, <2>2 DEF Expected, Under
<1>14. CASE DialGoesOn
  <2>1. Number = 0 /\ Number' = Number /\ UNCHANGED <<mu, pending>> /\ pending = {}
    BY <1>0, <1>14, DialGoesOnDoes DEF Expected
  <2>2. loop.at # "handing" /\ loop'.at # "handing"
    BY <1>14, <2>1, DialGoesOnDoes DEF Expected
  <2>3. caller'.at \notin {"writing", "waiting"} /\ caller'.result = "none"
    BY <1>14, DialGoesOnDoes, DialGoesThrough
  <2> QED
    BY <2>1, <2>2, <2>3 DEF Expected
<1>15. CASE DialFails
  BY <1>2, <1>15 DEF DialFails
<1>4. CASE Prepare
  <2>1. /\ pending = {} /\ pending' = {Number + 1} /\ mu' = mu /\ loop' = loop /\ mu = "free"
        /\ caller'.at = "writing" /\ caller'.result = "none"
    BY <1>4, AtDoes DEF Prepare, Expected, Numbered
  <2> QED
    BY <1>0, <1>4, <2>1, PrepareDoes DEF Expected
<1>5. CASE Write
  <2>1. caller.at = "writing" /\ UNCHANGED <<channel, pending, mu, loop>>
    BY <1>5 DEF Write
  <2>2. CASE At("waiting")
    BY <2>1, <2>2, AtDoes DEF Expected, Number, Under
  <2>3. CASE Finish("error")
    BY <1>2, <2>1, <2>3
  <2> QED
    BY <1>5, <2>2, <2>3 DEF Write
<1>6. CASE TakeReply
  <2>1. /\ Number \in 1 .. Number /\ Number' = Number /\ channel[Number] # <<>> /\ channel'[Number] = <<>>
        /\ \A n \in 1 .. Number : n # Number => channel'[n] = channel[n]
    BY <1>0, <1>6, TakeReplyDoes
  <2>2. UNCHANGED <<pending, mu, loop>> /\ pending = {}
    <3>1. pending \subseteq {Number} /\ Number \notin pending
      BY <1>6, <2>1 DEF TakeReply, Expected, Under
    <3> QED
      BY <1>6, <3>1 DEF TakeReply
  <2>3. caller'.at \in {"returned", "call"}
    BY <1>6, TakeReplyDoes
  <2> QED
    BY <2>1, <2>2, <2>3 DEF Expected
<1>7. CASE CallTimesOut
  BY <1>7, AtDoes DEF CallTimesOut, Expected, Number, Under
<1>8. CASE Forget \/ SeesClosed
  BY <1>2, <1>8 DEF Forget, SeesClosed
<1>9. CASE Pong
  <2>1. UNCHANGED <<channel, pending, mu, loop>>
    BY <1>9 DEF Pong
  <2>2. CASE At("panic") /\ caller.at = "writing"
    BY <2>1, <2>2, AtDoes DEF Expected, Number, Under
  <2>3. CASE caller' = caller
    BY <1>1, <2>1, <2>3
  <2> QED
    BY <1>9, <2>2, <2>3 DEF Pong
<1>10. CASE ReadAnswer \/ ReadEnds
  BY <1>1, <1>10 DEF ReadAnswer, ReadEnds, KumaTypes
<1>11. CASE LockPending
  <2>1. UNCHANGED <<caller, channel, pending>> /\ loop.at = "locking" /\ loop'.answer = loop.answer
    BY <1>11 DEF LockPending, KumaTypes
  <2>2. CASE loop.answer.id \in pending /\ mu' = "reader" /\ loop'.at = "handing"
    BY <2>1, <2>2 DEF Expected, Number
  <2>3. CASE mu' = mu /\ loop'.at = "reading"
    BY <1>1, <2>1, <2>3
  <2> QED
    BY <1>11, <2>2, <2>3 DEF LockPending, KumaTypes
<1>12. CASE HandOver
  <2> DEFINE i == loop.answer.id
  <2>1. /\ i \in pending /\ i \in 1 .. Number /\ Number' = Number /\ caller' = caller
        /\ channel'[i] = <<loop.answer.says>> /\ pending' = pending \ {i}
        /\ \A n \in 1 .. Number : n # i => channel'[n] = channel[n]
    BY <1>12, HandOverDoes
  <2>2. channel'[i] # <<>>
    BY <2>1
  <2>3. mu' = "free" /\ loop'.at = "reading"
    BY <1>12 DEF HandOver, KumaTypes
  <2> HIDE DEF i
  <2>4. \A n \in pending' : n \in 1 .. Number' /\ channel'[n] = <<>>
    BY <2>1 DEF Expected
  <2>5. caller.at \in {"writing", "waiting"} => Number \in pending' \/ channel'[Number] # <<>>
    <3>1. CASE Number = i
      BY <2>2, <3>1
    <3>2. CASE Number # i /\ caller.at \in {"writing", "waiting"}
      BY <2>1, <3>2 DEF Expected, Under
    <3> QED
      BY <3>1, <3>2
  <2> QED
    BY <2>1, <2>3, <2>4, <2>5 DEF Expected
<1>13. CASE ServeCall \/ SendPing \/ GoesAway \/ UNCHANGED kumaVars
  BY <1>1, <1>13 DEF ServeCall, SendPing, GoesAway, kumaVars, clientVars
<1> QED
  BY <1>3, <1>4, <1>5, <1>6, <1>7, <1>8, <1>9, <1>10, <1>11, <1>12, <1>13, <1>14, <1>15
     DEF KumaNext, HandshakeStep, Main, Reader

\* The messages on the way to Kuma.
LEMMA AskedStep ==
  KumaTypes /\ Numbered /\ AskedRight /\ Progress /\ Expected /\ [KumaNext]_kumaVars => AskedRight'
<1> SUFFICES ASSUME KumaTypes, Numbered, AskedRight, Progress, Expected, [KumaNext]_kumaVars
             PROVE  AskedRight'
  OBVIOUS
<1>0. Number \in Nat /\ toKuma \in Seq(KumaCalls)
  BY NumberIs DEF KumaTypes
<1>1. ASSUME Elems(toKuma') \subseteq Elems(toKuma), Number' \in Nat, Number <= Number',
             caller'.builtin = caller.builtin, kuma.user => kuma'.user
      PROVE  AskedRight'
  BY <1>0, <1>1 DEF AskedRight, Making
<1>2. CASE Dial
  <2>1. Number = 0 /\ toKuma' = toKuma
    BY <1>0, <1>2 DEF Dial, Numbered
  <2>2. Elems(toKuma) = {}
    BY <2>1 DEF AskedRight
  <2> QED
    BY <2>1, <2>2 DEF AskedRight, Elems
<1>3. CASE Write
  <2>1. Number' = Number /\ kuma' = kuma /\ caller'.builtin = caller.builtin
    BY <1>3, AtDoes, FinishDoes DEF Write, Number
  <2>2. CASE toKuma' = toKuma
    BY <1>0, <1>1, <2>1, <2>2
  <2>3. CASE toKuma' = Append(toKuma, [id |-> Number, call |-> CallOf])
    <3> DEFINE m == [id |-> Number, call |-> CallOf]
    <3>1. Number = caller.step /\ caller.step \in 1 .. Len(Making) /\ caller.builtin \in DOMAIN Calls
      BY <1>3 DEF Write, Numbered, Under, KumaTypes
    <3>2. m \in KumaCalls
      <4>1. CallOf \in Elems(Calls[caller.builtin])
        BY <3>1 DEF CallOf, Elems, Making
      <4> QED
        BY <1>0, <3>1, <4>1 DEF KumaCalls
    <3>3. Elems(toKuma') = Elems(toKuma) \cup {m}
      BY <1>0, <2>3, <3>2, ElementsOfAppend
    <3>4. m.id \in 1 .. Number /\ m.call = Making[m.id] /\ (m.id > 1 => kuma.user)
      <4>1. m.id = Number /\ m.call = Making[Number]
        BY <3>1 DEF CallOf, Making
      <4>2. ASSUME Number > 1  PROVE kuma.user
        <5>1. 1 \in 1 .. caller.step - 1 /\ caller.step > 0
          BY <1>0, <3>1, <4>2
        <5>2. Happened(Making[1]) /\ Making[1] = "login"
          BY <3>1, <5>1, CallsAre DEF Progress, Making
        <5> QED
          BY <5>2 DEF Happened
      <4> QED
        BY <1>0, <3>1, <4>1, <4>2
    <3> HIDE DEF m
    <3> QED
      BY <2>1, <3>3, <3>4 DEF AskedRight, Making
  <2> QED
    BY <1>3, <2>2, <2>3 DEF Write
<1>4. CASE ServeCall
  <2>1. Elems(toKuma') \subseteq Elems(toKuma)
    BY <1>0, <1>4, ElementsOfTail DEF ServeCall
  <2>2. kuma.user => kuma'.user
    <3>1. ASSUME NEW c, kuma' = Executed(c),
                 c \in {"login", "addMaintenance", "addMonitorMaintenance", "editMaintenance",
                        "deleteMaintenance", "pauseMonitor", "resumeMonitor"}
          PROVE  kuma.user => kuma'.user
      BY <3>1 DEF Executed, KumaTypes
    <3>2. Head(toKuma).call \in {"login", "addMaintenance", "addMonitorMaintenance", "editMaintenance",
                                 "deleteMaintenance", "pauseMonitor", "resumeMonitor"}
      BY <1>4, CallNames DEF ServeCall
    <3> QED
      BY <1>4, <3>1, <3>2 DEF ServeCall
  <2> QED
    BY <1>0, <1>1, <1>4, <2>1, <2>2 DEF ServeCall, clientVars, Number
<1>5. CASE Prepare
  BY <1>0, <1>1, <1>5, AtDoes, PrepareDoes DEF Prepare
<1>6. CASE TakeReply
  BY <1>0, <1>1, <1>6, TakeReplyDoes DEF TakeReply
<1>7. CASE HandOver
  BY <1>0, <1>1, <1>7, HandOverDoes DEF HandOver
<1>8. CASE DialFails \/ CallTimesOut \/ Forget \/ SeesClosed \/ Pong
  BY <1>0, <1>1, <1>8, AtDoes, FinishDoes DEF DialFails, CallTimesOut, Forget, SeesClosed, Pong,
     Number
<1>9. CASE ReadAnswer \/ LockPending \/ ReadEnds \/ GoesAway \/ UNCHANGED kumaVars
  BY <1>0, <1>1, <1>9 DEF ReadAnswer, LockPending, ReadEnds, GoesAway, kumaVars, clientVars, Number
<1>10. CASE SendPing
  BY <1>0, <1>1, <1>10 DEF SendPing, clientVars, Number, KumaTypes
<1>11. CASE DialGoesOn
  BY <1>0, <1>1, <1>11, DialGoesOnDoes
<1> QED
  BY <1>2, <1>3, <1>4, <1>5, <1>6, <1>7, <1>8, <1>9, <1>10, <1>11 DEF KumaNext, HandshakeStep, Main, Reader

\* An answer tells what Kuma did, and stays true.
LEMMA AnsweredStep ==
  /\ KumaTypes /\ Numbered /\ Expected /\ AskedRight /\ AnsweredRight
  /\ "refused" \notin KumaFeatures /\ [KumaNext]_kumaVars
  => AnsweredRight'
<1> SUFFICES ASSUME KumaTypes, Numbered, Expected, AskedRight, AnsweredRight,
                    "refused" \notin KumaFeatures, [KumaNext]_kumaVars
             PROVE  AnsweredRight'
  OBVIOUS
<1>0. /\ Number \in Nat /\ fromKuma \in Seq(KumaReplies) /\ toKuma \in Seq(KumaCalls)
      /\ loop.answer \in KumaReplies
  BY NumberIs DEF KumaTypes
<1>1. ASSUME NEW n \in 1 .. Number, NEW says, Right(n, says), kuma' = kuma,
             caller'.builtin = caller.builtin
      PROVE  Right(n, says)'
  BY <1>1 DEF Right, Making, Happened
<1>2. ASSUME caller'.builtin = caller.builtin, kuma' = kuma,
             Elems(fromKuma') \subseteq Elems(fromKuma) \cup {Ping},
             InHand' \subseteq InHand \cup (Elems(fromKuma) \ {Ping}),
             Number' \in Nat, Number <= Number',
             \A n \in 1 .. Number' : Elems(channel'[n]) = {} \/ (n <= Number /\ channel'[n] = channel[n])
      PROVE  AnsweredRight'
  <2>1. ASSUME NEW n \in 1 .. Number, NEW says, Right(n, says)
        PROVE  n \in 1 .. Number' /\ Right(n, says)'
    BY <1>0, <1>1, <1>2, <2>1
  <2>2. ASSUME NEW r \in Elems(fromKuma')  PROVE r = Ping \/ (r.id \in 1 .. Number' /\ Right(r.id, r.says)')
    BY <1>2, <2>1 DEF AnsweredRight
  <2>3. ASSUME NEW r \in InHand'  PROVE r.id \in 1 .. Number' /\ Right(r.id, r.says)'
    BY <1>2, <2>1 DEF AnsweredRight
  <2>4. ASSUME NEW n \in 1 .. Number', NEW says \in Elems(channel'[n])  PROVE Right(n, says)'
    <3>1. Elems(channel'[n]) = {} \/ (n <= Number /\ channel'[n] = channel[n])
      BY <1>2
    <3>2. n <= Number /\ says \in Elems(channel[n])
      BY <3>1
    <3>3. n \in 1 .. Number
      BY <1>0, <1>2, <3>2
    <3> QED
      BY <2>1, <3>2, <3>3 DEF AnsweredRight
  <2> QED
    BY <2>2, <2>3, <2>4 DEF AnsweredRight, Right, Making, Happened
<1>3. CASE Dial \/ DialGoesOn
  <2>1. Number = 0 /\ Number' = 0 /\ fromKuma' = fromKuma /\ loop'.at \in {loop.at, "reading"}
        /\ loop'.answer = loop.answer
    <3>1. CASE Dial
      BY <1>0, <3>1 DEF Dial, Numbered, Number
    <3>2. CASE DialGoesOn
      BY <3>2, DialGoesOnDoes
    <3> QED
      BY <1>3, <3>1, <3>2
  <2>2. InHand' \subseteq InHand
    BY <2>1 DEF InHand
  <2>3. \A r \in Elems(fromKuma) : r = Ping
    BY <2>1 DEF AnsweredRight
  <2>4. InHand = {}
    BY <2>1 DEF AnsweredRight
  <2> QED
    BY <2>1, <2>2, <2>3, <2>4 DEF AnsweredRight, Elems
<1>4. CASE Prepare
  <2>1. Elems(<<>>) = {}
    BY NoElements
  <2>2. \A n \in 1 .. Number' : Elems(channel'[n]) = {} \/ (n <= Number /\ channel'[n] = channel[n])
    BY <1>0, <1>4, <2>1, PrepareDoes
  <2>3. caller'.builtin = caller.builtin /\ UNCHANGED <<kuma, fromKuma, loop>> /\ Number' = Number + 1
    BY <1>4, AtDoes, PrepareDoes DEF Prepare
  <2>4. InHand' = InHand
    BY <2>3 DEF InHand
  <2>5. Number' \in Nat /\ Number <= Number' /\ Elems(fromKuma') \subseteq Elems(fromKuma) \cup {Ping}
        /\ InHand' \subseteq InHand \cup (Elems(fromKuma) \ {Ping})
    BY <1>0, <2>3, <2>4
  <2> QED
    BY <1>2, <2>2, <2>3, <2>5
<1>5. CASE TakeReply
  <2>1. Elems(<<>>) = {}
    BY NoElements
  <2>2. /\ Number' = Number /\ channel'[Number] = <<>> /\ caller'.builtin = caller.builtin
        /\ \A n \in 1 .. Number : n # Number => channel'[n] = channel[n]
    BY <1>5, TakeReplyDoes
  <2>3. \A n \in 1 .. Number' : Elems(channel'[n]) = {} \/ (n <= Number /\ channel'[n] = channel[n])
    BY <1>0, <2>1, <2>2
  <2>4. UNCHANGED <<kuma, fromKuma, loop>>
    BY <1>5 DEF TakeReply
  <2>5. InHand' = InHand
    BY <2>4 DEF InHand
  <2>6. Number' \in Nat /\ Number <= Number' /\ Elems(fromKuma') \subseteq Elems(fromKuma) \cup {Ping}
        /\ InHand' \subseteq InHand \cup (Elems(fromKuma) \ {Ping})
    BY <1>0, <2>2, <2>4, <2>5
  <2> QED
    BY <1>2, <2>2, <2>3, <2>4, <2>6
<1>6. CASE DialFails \/ Write \/ CallTimesOut \/ Forget \/ SeesClosed \/ Pong
  <2>1. caller'.builtin = caller.builtin
    BY <1>6, AtDoes, FinishDoes DEF DialFails, Write, CallTimesOut, Forget, SeesClosed, Pong
  <2>2. UNCHANGED <<kuma, loop, channel>>
    BY <1>6 DEF DialFails, Write, CallTimesOut, Forget, SeesClosed, Pong
  <2>3. Elems(fromKuma') \subseteq Elems(fromKuma)
    <3>1. fromKuma' = fromKuma \/ (fromKuma # <<>> /\ fromKuma' = Tail(fromKuma))
      BY <1>6 DEF DialFails, Write, CallTimesOut, Forget, SeesClosed, Pong
    <3> QED
      BY <1>0, <3>1, ElementsOfTail
  <2>4. InHand' = InHand /\ Number' = Number
    BY <2>2 DEF InHand, Number
  <2> QED
    BY <1>0, <1>2, <2>1, <2>2, <2>3, <2>4
<1>7. CASE ReadAnswer
  <2>1. Elems(fromKuma') \subseteq Elems(fromKuma) /\ Head(fromKuma) \in Elems(fromKuma) \ {Ping}
    BY <1>0, <1>7, ElementsOfTail DEF ReadAnswer
  <2>2. InHand' = {Head(fromKuma)}
    BY <1>7 DEF ReadAnswer, InHand
  <2>3. UNCHANGED <<caller, kuma, channel>> /\ Number' = Number
    BY <1>7 DEF ReadAnswer, Number
  <2> QED
    BY <1>0, <1>2, <2>1, <2>2, <2>3
<1>8. CASE LockPending \/ ReadEnds \/ GoesAway \/ UNCHANGED kumaVars
  <2>1. UNCHANGED <<caller, kuma, channel, fromKuma>>
    BY <1>8 DEF LockPending, ReadEnds, GoesAway, kumaVars, clientVars
  <2>2. loop' = loop \/ (loop.at = "locking" /\ loop'.answer = loop.answer) \/ loop'.at = "ended"
    BY <1>8 DEF LockPending, ReadEnds, GoesAway, kumaVars, clientVars, KumaTypes
  <2>3. InHand' \subseteq InHand /\ Number' = Number
    BY <2>1, <2>2 DEF InHand, Number
  <2> QED
    BY <1>0, <1>2, <2>1, <2>3
<1>9. CASE HandOver
  <2> DEFINE i == loop.answer.id
  <2>1. /\ i \in 1 .. Number /\ Number' = Number /\ caller' = caller
        /\ channel'[i] = <<loop.answer.says>>
        /\ \A n \in 1 .. Number : n # i => channel'[n] = channel[n]
    BY <1>9, HandOverDoes
  <2>2. Elems(<<loop.answer.says>>) = {loop.answer.says}
    BY DEF Elems
  <2>3. UNCHANGED <<kuma, fromKuma>> /\ loop.at = "handing" /\ loop'.at = "reading"
    BY <1>9 DEF HandOver, KumaTypes
  <2>4. Right(i, loop.answer.says) /\ InHand' = {}
    BY <2>3 DEF AnsweredRight, InHand
  <2>5. ASSUME NEW n \in 1 .. Number, NEW says \in Elems(channel'[n])  PROVE Right(n, says)
    <3>1. CASE n = i
      BY <2>1, <2>2, <2>4, <3>1
    <3>2. CASE n # i
      BY <2>1, <3>2 DEF AnsweredRight
    <3> QED
      BY <3>1, <3>2
  <2> HIDE DEF i
  <2>6. \A n \in 1 .. Number, says \in {"ping", "ok", "refused"} : Right(n, says)' <=> Right(n, says)
    BY <2>1, <2>3 DEF Right, Happened, Making
  <2>7. ASSUME NEW n \in 1 .. Number, NEW says \in Elems(channel'[n])  PROVE Right(n, says)'
    BY <2>1, <2>3, <2>5, <1>1
  <2>8. ASSUME NEW r \in Elems(fromKuma), r # Ping  PROVE r.id \in 1 .. Number /\ Right(r.id, r.says)'
    BY <2>1, <2>3, <2>8, <1>1 DEF AnsweredRight
  <2> QED
    BY <2>1, <2>3, <2>4, <2>7, <2>8 DEF AnsweredRight, Right, Happened, Making
<1>10. CASE ServeCall
  <2>1. UNCHANGED <<caller, channel, loop>> /\ toKuma # <<>>
    BY <1>10 DEF ServeCall, clientVars
  <2>2. Number' = Number /\ InHand' = InHand
    BY <2>1 DEF Number, InHand
  <2> DEFINE m == Head(toKuma)
  <2>3. m \in Elems(toKuma)
    BY <1>0, <2>1, ElementsOfTail
  <2>4. PICK j \in 1 .. Number : m.id = j /\ m.call = Making[j] /\ (j > 1 => kuma.user)
    BY <2>3 DEF AskedRight
  <2>5. caller.builtin \in DOMAIN Calls /\ Number <= Len(Making) /\ Len(Making) \in Nat
    <3>1. caller.step > 0 /\ Number <= caller.step /\ caller.step \in Nat
      BY <1>0, <2>4 DEF Numbered, KumaTypes
    <3>2. caller.builtin \in DOMAIN Calls /\ caller.step <= Len(Making)
      BY <3>1 DEF Numbered
    <3>3. Len(Making) \in Nat
      BY <3>2, CallsAre DEF Making
    <3> QED
      BY <1>0, <3>1, <3>2, <3>3
  <2>6. ASSUME NEW n \in 1 .. Number, NEW says, Right(n, says)  PROVE Right(n, says)'
    <3>1. CASE kuma' = kuma
      BY <1>1, <2>1, <2>6, <3>1
    <3>2. CASE kuma' = Executed(Making[j])
      <4>1. n \in 1 .. Len(Making) /\ j \in 1 .. Len(Making)
        BY <1>0, <2>4, <2>5
      <4>2. Happened(Making[n]) => Happened(Making[n])'
        <5> HIDE DEF m
        <5> QED
          BY <2>1, <2>5, <3>2, <4>1, HappenedStays
      <4>3. Making' = Making
        BY <2>1 DEF Making
      <4> QED
        BY <2>6, <4>2, <4>3 DEF Right
    <3> QED
      BY <1>10, <2>4, <3>1, <3>2 DEF ServeCall
  <2>7. ASSUME NEW says \in {"ok", "refused"}, Answer(says)
        PROVE  Elems(fromKuma') \subseteq Elems(fromKuma) \cup {[id |-> j, says |-> says]}
    <3>1. [id |-> j, says |-> says] \in KumaReplies
      BY <1>0, <2>4 DEF KumaReplies
    <3>2. fromKuma' = fromKuma \/ fromKuma' = Append(fromKuma, [id |-> j, says |-> says])
      BY <2>4, <2>7 DEF Answer
    <3> QED
      BY <1>0, <3>1, <3>2, ElementsOfAppend
  <2>8. ASSUME NEW r \in Elems(fromKuma')
        PROVE  r \in Elems(fromKuma) \/ (r.id = j /\ Right(j, r.says)')
    <3>1. CASE fromKuma' = fromKuma
      BY <2>8, <3>1
    <3>2. CASE Answer("ok") /\ kuma' = Executed(m.call)
      <4>1. kuma' = Executed(Making[j]) /\ j \in 1 .. Len(Making)
        BY <1>0, <2>4, <2>5, <3>2
      <4>2. Happened(Making[j])'
        BY <2>1, <2>5, <4>1, HappenedStays
      <4>3. Right(j, "ok")'
        BY <4>2 DEF Right
      <4> QED
        BY <2>7, <2>8, <3>2, <4>3
    <3>3. CASE Answer("refused") /\ (~kuma.user \/ m.call = "addMaintenance")
      <4>1. Making[j] \in {"login", "addMaintenance"}
        <5>1. CASE ~kuma.user
          <6>1. j = 1
            BY <1>0, <2>4, <5>1
          <6> QED
            BY <2>4, <2>5, <6>1, CallsAre DEF Making
        <5> QED
          BY <2>4, <3>3, <5>1
      <4>2. Right(j, "refused")'
        BY <2>1, <4>1 DEF Right, Making
      <4> QED
        BY <2>7, <2>8, <3>3, <4>2
    <3> QED
      BY <1>10, <3>1, <3>2, <3>3 DEF ServeCall
  <2>9. ASSUME NEW r \in Elems(fromKuma'), r # Ping  PROVE r.id \in 1 .. Number /\ Right(r.id, r.says)'
    BY <2>4, <2>6, <2>8, <2>9 DEF AnsweredRight
  <2>10. ASSUME NEW r \in InHand  PROVE r.id \in 1 .. Number /\ Right(r.id, r.says)'
    BY <2>6, <2>10 DEF AnsweredRight
  <2>11. ASSUME NEW n \in 1 .. Number, NEW says \in Elems(channel[n])  PROVE Right(n, says)'
    BY <2>6, <2>11 DEF AnsweredRight
  <2> HIDE DEF m
  <2> QED
    BY <2>1, <2>2, <2>9, <2>10, <2>11 DEF AnsweredRight, Right, Happened, Making
<1>11. CASE SendPing
  <2>1. Ping \in KumaReplies
    BY DEF Ping, KumaReplies
  <2>2. Elems(fromKuma') = Elems(fromKuma) \cup {Ping}
    BY <1>0, <1>11, <2>1, ElementsOfAppend DEF SendPing
  <2>3. UNCHANGED <<caller, channel, loop>> /\ \E n : kuma' = [kuma EXCEPT !.pings = n]
    BY <1>11 DEF SendPing, clientVars
  <2>4. ASSUME NEW n \in 1 .. Number, NEW says, Right(n, says)  PROVE Right(n, says)'
    BY <2>3, <2>4 DEF Right, Happened, Making, KumaTypes
  <2>5. Number' = Number /\ InHand' = InHand
    BY <2>3 DEF Number, InHand
  <2>6. ASSUME NEW r \in Elems(fromKuma'), r # Ping  PROVE r.id \in 1 .. Number /\ Right(r.id, r.says)'
    BY <2>2, <2>4, <2>6 DEF AnsweredRight
  <2>7. ASSUME NEW r \in InHand  PROVE r.id \in 1 .. Number /\ Right(r.id, r.says)'
    BY <2>4, <2>7 DEF AnsweredRight
  <2>8. ASSUME NEW n \in 1 .. Number, NEW says \in Elems(channel[n])  PROVE Right(n, says)'
    BY <2>4, <2>8 DEF AnsweredRight
  <2> QED
    BY <2>3, <2>5, <2>6, <2>7, <2>8 DEF AnsweredRight, Right, Happened, Making
<1> QED
  BY <1>3, <1>4, <1>5, <1>6, <1>7, <1>8, <1>9, <1>10, <1>11
     DEF KumaNext, HandshakeStep, Main, Reader

\* main goes on to the next call, and returns a success, when Kuma has said so.
LEMMA ProgressStep ==
  KumaTypes /\ Numbered /\ AskedRight /\ AnsweredRight /\ Progress /\ [KumaNext]_kumaVars => Progress'
<1> SUFFICES ASSUME KumaTypes, Numbered, AskedRight, AnsweredRight, Progress, [KumaNext]_kumaVars
             PROVE  Progress'
  OBVIOUS
<1>0. Number \in Nat /\ toKuma \in Seq(KumaCalls) /\ caller.step \in 0 .. 3
  BY NumberIs DEF KumaTypes
<1>1. ASSUME UNCHANGED <<kuma, caller>>  PROVE Progress'
  BY <1>1 DEF Progress, Making, Happened
<1>2. ASSUME kuma' = kuma, At("writing") \/ At("waiting") \/ At("timeout") \/ At("panic") \/ Finish("error")
      PROVE  Progress'
  <2>1. caller'.builtin = caller.builtin /\ caller'.step = caller.step
        /\ caller'.result \in {caller.result, "error"}
    BY <1>2, AtDoes, FinishDoes
  <2> QED
    BY <1>2, <2>1 DEF Progress, Making, Happened
<1>3. CASE Dial \/ DialGoesOn
  <2>1. kuma' = kuma /\ caller.step = 0 /\ caller'.step \in {0, 1} /\ caller'.result = "none"
    <3>1. CASE Dial
      BY <3>1 DEF Dial, Numbered
    <3>2. CASE DialGoesOn
      BY <3>2, DialGoesOnDoes
    <3> QED
      BY <1>3, <3>1, <3>2
  <2> QED
    BY <2>1 DEF Progress
<1>4. CASE DialFails \/ Prepare \/ Write \/ CallTimesOut \/ Forget \/ SeesClosed \/ Pong
  BY <1>1, <1>2, <1>4 DEF DialFails, Prepare, Write, CallTimesOut, Forget, SeesClosed, Pong
<1>5. CASE TakeReply
  <2> DEFINE s == caller.step
             answer == Head(channel[Number])
  <2>1. /\ Number = s /\ s \in 1 .. Len(Making) /\ caller.builtin \in DOMAIN Calls
        /\ caller'.builtin = caller.builtin /\ channel[Number] # <<>> /\ kuma' = kuma
        /\ \/ caller'.at = "returned" /\ caller'.result = "error" /\ caller'.step = s
           \/ Accepted(answer) /\ caller'.result = "none" /\ caller'.step = s + 1
           \/ Accepted(answer) /\ s = Len(Making) /\ caller'.step = s
    BY <1>5, TakeReplyDoes DEF TakeReply
  <2>2. Making' = Making /\ Len(Making) \in Nat
    BY <2>1, CallsAre DEF Making
  <2>3. \A c : Happened(c)' <=> Happened(c)
    BY <2>1 DEF Happened
  <2>4. \A n \in 1 .. s - 1 : Happened(Making[n])
    BY <2>1 DEF Progress
  <2>5. ASSUME Accepted(answer)  PROVE Happened(Making[s])
    <3>1. answer \in Elems(channel[Number])
      <4>1. channel[Number] \in Seq({"ping", "ok", "refused"})
        BY <1>0, <2>1, NumberIs
      <4> QED
        BY <2>1, <4>1, ElementsOfTail
    <3>2. Right(Number, answer)
      BY <1>0, <2>1, <3>1 DEF AnsweredRight
    <3>3. answer # "refused" \/ Making[Number] \notin {"login", "addMaintenance"}
      BY <2>1, <2>5 DEF Accepted, CallOf, Making
    <3> QED
      BY <2>1, <3>2, <3>3 DEF Right
  <2>6. ASSUME Accepted(answer)  PROVE \A n \in 1 .. s : Happened(Making[n])
    BY <2>1, <2>4, <2>5, <2>6
  <2>7. s < 2 => kuma.open = {"old"} /\ kuma.active = {"old"}
    BY DEF Progress
  <2> HIDE DEF answer
  <2>8. CASE caller'.at = "returned" /\ caller'.result = "error" /\ caller'.step = s
    BY <2>1, <2>2, <2>3, <2>4, <2>7, <2>8 DEF Progress
  <2>9. CASE Accepted(answer) /\ caller'.result = "none" /\ caller'.step = s + 1
    BY <2>1, <2>2, <2>3, <2>6, <2>7, <2>9 DEF Progress
  <2>10. CASE Accepted(answer) /\ s = Len(Making) /\ caller'.step = s
    BY <2>1, <2>2, <2>3, <2>4, <2>6, <2>7, <2>10 DEF Progress
  <2> QED
    BY <2>1, <2>8, <2>9, <2>10
<1>6. CASE ServeCall
  <2>1. UNCHANGED caller /\ Making' = Making /\ toKuma # <<>>
    BY <1>6 DEF ServeCall, clientVars, Making
  <2>2. Head(toKuma) \in Elems(toKuma)
    BY <1>0, <2>1, ElementsOfTail
  <2>3. PICK j \in 1 .. Number : Head(toKuma).call = Making[j]
    BY <2>2 DEF AskedRight
  <2>4. caller.step > 0 /\ caller.builtin \in DOMAIN Calls /\ caller.step <= Len(Making)
    BY <1>0, <2>3 DEF Numbered
  <2>5. Len(Making) \in Nat /\ j \in 1 .. Len(Making) /\ j <= caller.step /\ Making[1] = "login"
    <3>1. Len(Making) \in Nat /\ Making[1] = "login"
      BY <2>4, CallsAre DEF Making
    <3> QED
      BY <1>0, <2>3, <2>4, <3>1 DEF Numbered
  <2>6. CASE kuma' = kuma
    BY <1>1, <2>1, <2>6
  <2>7. CASE kuma' = Executed(Making[j])
    <3>1. ASSUME NEW n \in 1 .. Len(Making), Happened(Making[n])  PROVE Happened(Making[n])'
      BY <2>1, <2>4, <2>5, <2>7, <3>1, HappenedStays
    <3>2. ASSUME caller.step < 2  PROVE kuma'.open = kuma.open /\ kuma'.active = kuma.active
      <4>1. Making[j] = "login"
        BY <1>0, <2>5, <3>2
      <4> QED
        BY <2>7, <4>1 DEF Executed, KumaTypes
    <3>3. ASSUME NEW n \in 1 .. caller.step - 1  PROVE Happened(Making[n])'
      <4>1. n \in 1 .. Len(Making) /\ Happened(Making[n])
        BY <1>0, <2>4, <2>5 DEF Progress
      <4> QED
        BY <3>1, <4>1
    <3>4. ASSUME caller.result \in {"OK", "id"}, NEW n \in 1 .. Len(Making)  PROVE Happened(Making[n])'
      BY <3>1, <3>4 DEF Progress
    <3> QED
      BY <2>1, <3>2, <3>3, <3>4 DEF Progress
  <2> QED
    BY <1>6, <2>3, <2>6, <2>7 DEF ServeCall
<1>7. CASE SendPing
  <2>1. caller' = caller /\ \E n : kuma' = [kuma EXCEPT !.pings = n]
    BY <1>7 DEF SendPing, clientVars
  <2>2. \A c : Happened(c)' <=> Happened(c)
    BY <2>1 DEF Happened, KumaTypes
  <2>3. kuma'.open = kuma.open /\ kuma'.active = kuma.active
    BY <2>1 DEF KumaTypes
  <2> QED
    BY <2>1, <2>2, <2>3 DEF Progress, Making
<1>8. CASE ReadAnswer \/ LockPending \/ HandOver \/ ReadEnds \/ GoesAway \/ UNCHANGED kumaVars
  BY <1>1, <1>8 DEF ReadAnswer, LockPending, HandOver, ReadEnds, GoesAway, kumaVars, clientVars
<1> QED
  BY <1>3, <1>4, <1>5, <1>6, <1>7, <1>8 DEF KumaNext, HandshakeStep, Main, Reader

\* What the script is told follows.
LEMMA KumaMeans == KInv => KumaResultsMean
<1> SUFFICES ASSUME KInv PROVE KumaResultsMean
  OBVIOUS
<1>1. KumaTypes /\ Numbered /\ Expected /\ Progress
  BY DEF KInv
<1>2. ASSUME caller.result \in {"OK", "id"}
      PROVE  /\ caller.builtin \in DOMAIN Calls /\ (caller.result = "id" <=> caller.builtin = "SetMaintenance")
             /\ Happened(Making[2]) /\ (caller.result = "id" => Happened(Making[3]))
  <2>1. /\ caller.builtin \in DOMAIN Calls /\ (caller.result = "id" <=> caller.builtin = "SetMaintenance")
        /\ \A n \in 1 .. Len(Making) : Happened(Making[n])
    BY <1>1, <1>2 DEF Numbered, Progress
  <2>2. Len(Making) = IF caller.builtin = "SetMaintenance" THEN 3 ELSE 2
    BY <2>1, CallsAre DEF Making
  <2> QED
    BY <2>1, <2>2
<1>3. caller.result = "id" => "new" \in kuma.active /\ "new" \in kuma.assigned
  BY <1>2, CallsAre DEF Happened, Making
<1>4. ASSUME caller.result = "OK"
      PROVE  CASE caller.builtin = "StopMaintenance"   -> "old" \notin kuma.active
               [] caller.builtin = "DeleteMaintenance" -> "old" \notin kuma.open
               [] caller.builtin = "PauseMonitor"      -> kuma.paused
               [] caller.builtin = "ResumeMonitor"     -> ~kuma.paused
  <2>1. caller.builtin \in {"StopMaintenance", "DeleteMaintenance", "PauseMonitor", "ResumeMonitor"}
        /\ Happened(Making[2])
    BY <1>2, <1>4, CallsAre
  <2>2. CASE caller.builtin = "StopMaintenance"
    BY <2>1, <2>2, CallsAre DEF Happened, Making
  <2>3. CASE caller.builtin = "DeleteMaintenance"
    BY <2>1, <2>3, CallsAre DEF Happened, Making
  <2>4. CASE caller.builtin = "PauseMonitor"
    BY <2>1, <2>4, CallsAre DEF Happened, Making
  <2>5. CASE caller.builtin = "ResumeMonitor"
    BY <2>1, <2>5, CallsAre DEF Happened, Making
  <2> QED
    BY <2>1, <2>2, <2>3, <2>4, <2>5
<1>5. caller.at = "returned" /\ caller.step < 2 => kuma.open = {"old"} /\ kuma.active = {"old"}
  BY <1>1 DEF Progress
<1>6. caller.at = "returned" /\ caller.result # "error" => pending = {}
  BY <1>1 DEF Numbered, Expected, KumaTypes
<1>7. caller.at = "waiting" => Number \in pending \/ channel[Number] # <<>>
  BY <1>1 DEF Expected
<1> QED
  BY <1>3, <1>4, <1>5, <1>6, <1>7 DEF KumaResultsMean

\* What a builtin of Uptime Kuma tells a script is so, for any number of pings,
\* wherever answers are late or lost, time runs out or the connection ends, when
\* Kuma refuses nothing else than a login and a new maintenance (the answers that
\* are looked at, stdlib_kuma.go:266 and :368).
THEOREM KumaTellsTheTruth ==
  ASSUME "refused" \notin KumaFeatures
  PROVE  KumaSpec => []KumaResultsMean
<1>1. KumaInit => KInv
  BY KumaInitHolds
<1>2. KInv /\ [KumaNext]_kumaVars => KInv'
  BY KumaTypesStep, NumberedStep, ExpectedStep, AskedStep, AnsweredStep, ProgressStep DEF KInv
<1>3. KInv => KumaResultsMean
  BY KumaMeans
<1> QED
  BY <1>1, <1>2, <1>3, PTL DEF KumaSpec
================================================================================
