-------------------------- MODULE ClientConnection --------------------------
(***************************************************************************)
(* A terminal's WebSocket, both ends: ReconnectingWebSocket with its input  *)
(* queue (src/web/app.js, input-queue.js) and the socket handlers with the  *)
(* reconnect replay (src/backend/server.ts).  Transports are lost, replaced *)
(* and closed from either side; what a transport had in flight when the     *)
(* client gave it up is lost.                                               *)
(***************************************************************************)
EXTENDS Naturals, Sequences, FiniteSets, SequencesExt

CONSTANTS Sockets,       \* a pool of transports, numbered from 1
          MaxRetries,    \* maxRetries
          ClassifyFrom,  \* the attempt from which a failure is classified
          QueueLimit,    \* the input queue's limit, in keys
          MaxKeys, MaxOutput, MaxClientEvents  \* bounds

ASSUME ConnectionAssumption ==
  /\ 1 \in Sockets /\ 0 \notin Sockets
  /\ {MaxRetries, MaxKeys, MaxOutput, MaxClientEvents} \subseteq Nat

VARIABLES
  transport,   \* readyState of a transport; "accepted" by the server, but not
               \* yet open here
  link,        \* does the network still carry the transport?
  frames,      \* server to client, in flight
  upstream,    \* client to server, in flight: keys, 0 for resume-ready
  sockets,     \* terminalSockets of the terminal
  closing,     \* ... that are closed 25 ms after a session_handoff
  replay,      \* socketReconnectState of a socket
  alive, hadSocketConnection,
  ws,          \* this.ws, 0 for null
  clientStatus, \* what the overlay shows
  behavior, retryCount, openedOnce, awaitingReconnectReady,
  intentionallyClosed,
  reconnect,   \* what reconnects next: a timer, a classification, or nothing
  inputQueue, typed, received,
  void,        \* history: what was queued when the terminal was closed or over
  output, clientEvents

server == <<sockets, closing, replay, alive, hadSocketConnection, output>>
wire == <<transport, link, frames, upstream>>
client == <<ws, clientStatus, behavior, retryCount, openedOnce,
            awaitingReconnectReady, intentionallyClosed, reconnect>>
input == <<inputQueue, typed, received, void>>
connectionVars == <<server, wire, client, input, clientEvents>>

ClientStatuses == {"connecting", "connected", "reconnecting", "manual", "failed",
             "dead", "setup_required", "exited", "taken_over", "closed"}

Frames == {"replay-start", "screen", "replay-complete", "ready", "output",
           "exit", "session_handoff", "close"}

ConnectionTypeOK ==
  /\ transport \in [Sockets -> {"closed", "connecting", "accepted", "open"}]
  /\ link \in [Sockets -> BOOLEAN]
  /\ frames \in [Sockets -> Seq(Frames)]
  /\ upstream \in [Sockets -> Seq(0..MaxKeys)]
  /\ sockets \subseteq Sockets /\ closing \subseteq sockets
  /\ replay \in [Sockets -> {"none", "pending", "replaying", "emitting"}]
  /\ alive \in BOOLEAN /\ hadSocketConnection \in BOOLEAN
  /\ ws \in Sockets \cup {0} /\ clientStatus \in ClientStatuses
  /\ behavior \in {"auto", "manual"} /\ retryCount \in 0..MaxRetries
  /\ openedOnce \in BOOLEAN /\ awaitingReconnectReady \in BOOLEAN
  /\ intentionallyClosed \in BOOLEAN
  /\ reconnect \in {"none", "timer", "classify"}
  /\ inputQueue \in Seq(1..MaxKeys) /\ typed \in 0..MaxKeys
  /\ received \in Seq(1..MaxKeys) /\ void \subseteq 1..MaxKeys
  /\ output \in 0..MaxOutput /\ clientEvents \in 0..MaxClientEvents

\* The page has made its first transport; the terminal is new, or was open in
\* a browser before.
ConnectionFrom(first) ==
  /\ ws = 1
  /\ transport = [s \in Sockets |-> IF s = 1 THEN "connecting" ELSE "closed"]
  /\ link = [s \in Sockets |-> TRUE]
  /\ frames = [s \in Sockets |-> <<>>] /\ upstream = [s \in Sockets |-> <<>>]
  /\ sockets = {} /\ closing = {} /\ replay = [s \in Sockets |-> "none"]
  /\ alive = TRUE /\ hadSocketConnection \in BOOLEAN
  /\ clientStatus = first /\ behavior \in {"auto", "manual"}
  /\ retryCount = 0 /\ openedOnce = FALSE /\ awaitingReconnectReady = FALSE
  /\ intentionallyClosed = FALSE /\ reconnect = "none"
  /\ inputQueue = <<>> /\ typed = 0 /\ received = <<>> /\ void = {}
  /\ output = 0 /\ clientEvents = 0

ConnectionInit == ConnectionFrom("connecting")

-----------------------------------------------------------------------------
\* The client.

IsCurrentSocket(s) == s = ws /\ ~intentionallyClosed

\* The browser's handle of a transport may be used again once the server has
\* forgotten its socket.
Unused == {s \in Sockets : /\ transport[s] = "closed" /\ s \notin sockets
                            /\ s # ws}

\* connect(): a new transport replaces the one there is.
Connects(s) ==
  /\ s \in Unused
  /\ ws' = s /\ reconnect' = "none"
  /\ transport' = [t \in Sockets |->
       IF t = s THEN "connecting" ELSE IF t = ws THEN "closed" ELSE transport[t]]
  /\ link' = [link EXCEPT ![s] = TRUE]
  /\ frames' = [t \in Sockets |-> IF t \in {s, ws} THEN <<>> ELSE frames[t]]
  /\ upstream' = [upstream EXCEPT ![s] = <<>>]

\* Mutant: the queue outlives the end.
KeepsQueue == UNCHANGED inputQueue

\* discardQueuedInput()
Discards == inputQueue' = <<>>

\* The terminal is closed or over for this client: what is queued is void.
Over == Discards /\ void' = void \cup ToSet(inputQueue)

StopsFor(why) ==
  /\ intentionallyClosed' = TRUE /\ awaitingReconnectReady' = FALSE
  /\ clientStatus' = why /\ Over

\* scheduleReconnect()
ScheduleReconnect ==
  \/ /\ behavior # "auto"
     /\ clientStatus' = "manual" /\ reconnect' = "none"
     /\ UNCHANGED <<retryCount, inputQueue, void>>
  \/ /\ behavior = "auto" /\ retryCount >= MaxRetries
     /\ clientStatus' = "failed" /\ reconnect' = "none" /\ Over
     /\ UNCHANGED retryCount
  \/ /\ behavior = "auto" /\ retryCount < MaxRetries
     /\ retryCount' = retryCount + 1
     /\ IF retryCount' >= ClassifyFrom
        THEN reconnect' = "classify" /\ UNCHANGED clientStatus
        ELSE reconnect' = "timer" /\ clientStatus' = "reconnecting"
     /\ UNCHANGED <<inputQueue, void>>

\* onclose: the network gave the transport up (a failed connect, a reset, a
\* missing pong), or the server closed it.
SocketCloses(s) ==
  /\ transport' = [transport EXCEPT ![s] = "closed"]
  /\ frames' = [frames EXCEPT ![s] = <<>>]
  /\ upstream' = [upstream EXCEPT ![s] = <<>>]
  /\ IF s = ws
     THEN /\ awaitingReconnectReady' = FALSE
          /\ IF intentionallyClosed
             THEN UNCHANGED <<retryCount, reconnect, clientStatus, inputQueue, void>>
             ELSE ScheduleReconnect
     ELSE UNCHANGED <<awaitingReconnectReady, retryCount, reconnect, clientStatus,
                      inputQueue, void>>
  /\ UNCHANGED <<link, ws, behavior, openedOnce, intentionallyClosed, typed,
                 received, server, clientEvents>>

TransportLost(s) == transport[s] # "closed" /\ ~link[s] /\ SocketCloses(s)

\* onopen, with flushQueuedInput() at its end
TransportOpens(s) ==
  /\ transport[s] = "accepted" /\ link[s] /\ IsCurrentSocket(s)
  /\ transport' = [transport EXCEPT ![s] = "open"]
  /\ openedOnce' = TRUE
  /\ IF openedOnce \/ retryCount > 0
     THEN awaitingReconnectReady' = TRUE /\ UNCHANGED <<clientStatus, retryCount>>
     ELSE /\ awaitingReconnectReady' = FALSE
          /\ clientStatus' = "connected" /\ retryCount' = 0
  /\ upstream' = [upstream EXCEPT ![s] = @ \o inputQueue]
  /\ inputQueue' = <<>>
  /\ UNCHANGED <<link, frames, ws, behavior, intentionallyClosed, reconnect,
                 typed, received, void, server, clientEvents>>

\* onmessage; the last frame of a socket that the server closed is its close.
FrameArrives(s) ==
  /\ transport[s] = "open" /\ link[s] /\ frames[s] # <<>>
  /\ LET frame == Head(frames[s]) IN
     \/ frame = "close" /\ SocketCloses(s)
     \/ /\ frame # "close"
        /\ IF frame = "session_handoff" /\ IsCurrentSocket(s)
           THEN /\ transport' = [transport EXCEPT ![s] = "closed"]
                /\ frames' = [frames EXCEPT ![s] = <<>>]
           ELSE /\ frames' = [frames EXCEPT ![s] = Tail(@)]
                /\ UNCHANGED transport
        /\ \/ ~IsCurrentSocket(s) /\ UNCHANGED <<client, input, upstream>>
           \/ /\ IsCurrentSocket(s)
              /\ \/ /\ frame = "replay-start"
                    /\ awaitingReconnectReady' = TRUE
                    /\ clientStatus' = "reconnecting"
                    /\ UNCHANGED <<retryCount, intentionallyClosed, inputQueue,
                                   void, upstream>>
                 \/ /\ frame = "replay-complete"
                    /\ upstream' = [upstream EXCEPT ![s] = Append(@, 0)]
                    /\ UNCHANGED <<awaitingReconnectReady, clientStatus, retryCount,
                                   intentionallyClosed, inputQueue, void>>
                 \/ /\ frame = "ready"
                    /\ IF awaitingReconnectReady
                       THEN /\ awaitingReconnectReady' = FALSE
                            /\ clientStatus' = "connected" /\ retryCount' = 0
                       ELSE UNCHANGED <<awaitingReconnectReady, clientStatus,
                                        retryCount>>
                    /\ UNCHANGED <<intentionallyClosed, inputQueue, void,
                                   upstream>>
                 \/ /\ frame \in {"screen", "output"}
                    /\ UNCHANGED <<awaitingReconnectReady, clientStatus, retryCount,
                                   intentionallyClosed, inputQueue, void,
                                   upstream>>
                 \/ /\ frame = "exit" /\ StopsFor("exited")
                    /\ UNCHANGED <<retryCount, upstream>>
                 \/ /\ frame = "session_handoff" /\ StopsFor("taken_over")
                    /\ UNCHANGED <<retryCount, upstream>>
              /\ UNCHANGED <<ws, behavior, openedOnce, reconnect, typed,
                             received>>
        /\ UNCHANGED <<link, server, clientEvents>>

\* classifyReconnect() answers; any of its probes may fail, which is "retry".
Classified(outcome) ==
  /\ reconnect = "classify"
  /\ outcome \in {"retry"} \cup (IF alive THEN {"blocked"} ELSE {"gone"})
  /\ \/ /\ outcome = "retry" /\ clientStatus' = "reconnecting"
        /\ reconnect' = "timer"
        /\ UNCHANGED <<intentionallyClosed, awaitingReconnectReady, inputQueue,
                       void>>
     \/ /\ outcome = "gone" /\ StopsFor("dead") /\ reconnect' = "none"
     \/ /\ outcome = "blocked" /\ StopsFor("setup_required")
        /\ reconnect' = "none"
  /\ UNCHANGED <<ws, behavior, retryCount, openedOnce, typed, received, wire,
                 server, clientEvents>>

ReconnectTimer(s) ==
  /\ reconnect = "timer" /\ ~intentionallyClosed /\ Connects(s)
  /\ UNCHANGED <<clientStatus, behavior, retryCount, openedOnce,
                 awaitingReconnectReady, intentionallyClosed, input, server,
                 clientEvents>>

\* What people and networks do, bounded.
ClientEvent == clientEvents < MaxClientEvents /\ clientEvents' = clientEvents + 1

\* retry(), by the overlay's button
RetryConnection(s) ==
  /\ clientStatus \in {"manual", "failed", "setup_required", "taken_over"}
  /\ ClientEvent /\ Connects(s)
  /\ retryCount' = 0 /\ intentionallyClosed' = FALSE
  /\ awaitingReconnectReady' = FALSE
  /\ UNCHANGED <<clientStatus, behavior, openedOnce, input, server>>

\* applyReconnectBehavior(): a pending timer or classification is dropped.
ApplyReconnectBehavior(s) ==
  /\ clientStatus # "closed" /\ ClientEvent
  /\ behavior' = IF behavior = "auto" THEN "manual" ELSE "auto"
  /\ LET disconnected == transport[ws] = "closed" IN
     \/ /\ ~intentionallyClosed /\ disconnected /\ behavior' = "auto"
        /\ Connects(s)
        /\ retryCount' = 0 /\ awaitingReconnectReady' = FALSE
        /\ UNCHANGED <<clientStatus, intentionallyClosed>>
     \/ /\ intentionallyClosed \/ ~disconnected \/ behavior' # "auto"
        /\ reconnect' = "none"
        /\ clientStatus' = IF ~intentionallyClosed /\ disconnected THEN "manual"
                     ELSE clientStatus
        /\ UNCHANGED <<ws, retryCount, awaitingReconnectReady,
                       intentionallyClosed, wire>>
  /\ UNCHANGED <<openedOnce, input, server>>

\* close(): the user closes the terminal's view.
UserDisconnects ==
  /\ clientStatus # "closed" /\ ClientEvent
  /\ StopsFor("closed") /\ reconnect' = "none" /\ ws' = 0
  /\ transport' = [transport EXCEPT ![ws] = "closed"]
  /\ frames' = [frames EXCEPT ![ws] = <<>>]
  /\ UNCHANGED <<behavior, retryCount, openedOnce, typed, received, link,
                 upstream, server>>

\* sendInput(): straight out, behind what is queued, or refused
SendInput ==
  /\ ws # 0 /\ typed < MaxKeys
  /\ typed' = typed + 1
  /\ \/ /\ transport[ws] = "open" /\ inputQueue = <<>>
        /\ upstream' = [upstream EXCEPT ![ws] = Append(@, typed')]
        /\ UNCHANGED inputQueue
     \/ /\ transport[ws] # "open" \/ inputQueue # <<>>
        /\ IF intentionallyClosed THEN UNCHANGED inputQueue
           ELSE LET longer == Append(inputQueue, typed') IN
                inputQueue' = IF Len(longer) > QueueLimit THEN Tail(longer)
                              ELSE longer
        /\ UNCHANGED upstream
  /\ UNCHANGED <<received, void, transport, link, frames, client, server, clientEvents>>

\* prune(), by the timer or before a push or a flush: 15 s are over
InputExpires ==
  /\ inputQueue # <<>> /\ inputQueue' = Tail(inputQueue)
  /\ UNCHANGED <<typed, received, void, wire, client, server, clientEvents>>

-----------------------------------------------------------------------------
\* The server.

\* The upgrade and open(); a terminal that is gone has no upgrade.  What the
\* client had sent on a transport that it replaced is read before.
SocketOpen(s) ==
  /\ transport[s] = "connecting" /\ link[s]
  /\ \A t \in sockets : transport[t] = "closed" /\ link[t] => upstream[t] = <<>>
  /\ \/ /\ alive
        /\ transport' = [transport EXCEPT ![s] = "accepted"]
        /\ sockets' = sockets \cup {s} /\ hadSocketConnection' = TRUE
        /\ replay' = [replay EXCEPT ![s] =
             IF hadSocketConnection THEN "pending" ELSE "none"]
        /\ frames' = [frames EXCEPT ![s] =
             IF hadSocketConnection THEN <<"replay-start">> ELSE <<>>]
        /\ UNCHANGED link
     \/ /\ ~alive /\ link' = [link EXCEPT ![s] = FALSE]
        /\ UNCHANGED <<transport, sockets, hadSocketConnection, replay, frames>>
  /\ UNCHANGED <<upstream, closing, alive, output, client, input, clientEvents>>

\* completeTmuxReconnectReplay() begins, by resume-ready or after 750 ms.
BeginsReplay(s) == replay[s] = "pending" /\ replay' = [replay EXCEPT ![s] = "replaying"]

\* Mutant: only the client's resume-ready begins the replay.
NoReplayTimeout(s) == FALSE /\ UNCHANGED connectionVars

ReplayTimeout(s) ==
  /\ s \in sockets /\ BeginsReplay(s)
  /\ UNCHANGED <<sockets, closing, alive, hadSocketConnection, output, wire,
                 client, input, clientEvents>>

\* message()
SocketMessage(s) ==
  /\ s \in sockets /\ link[s] /\ upstream[s] # <<>>
  /\ upstream' = [upstream EXCEPT ![s] = Tail(@)]
  /\ LET message == Head(upstream[s]) IN
     IF message = 0
     THEN /\ IF replay[s] = "pending" THEN BeginsReplay(s)
                                       ELSE UNCHANGED replay
          /\ UNCHANGED received
     ELSE received' = Append(received, message) /\ UNCHANGED replay
  /\ UNCHANGED <<sockets, closing, alive, hadSocketConnection, output, transport, link,
                 frames, client, inputQueue, typed, void, clientEvents>>

SendsTo(s, what) ==
  frames' = [frames EXCEPT ![s] = IF link[s] THEN @ \o what ELSE @]

\* The capture is sent, or a fallback, or there is nothing to send; from here
\* on the socket gets live output again.
ReplayCompletes(s) ==
  /\ s \in sockets /\ replay[s] = "replaying"
  /\ \E rest \in {<<"screen", "replay-complete">>, <<"replay-complete">>} :
       SendsTo(s, rest)
  /\ replay' = [replay EXCEPT ![s] = "emitting"]
  /\ UNCHANGED <<sockets, closing, alive, hadSocketConnection, output, transport, link,
                 upstream, client, input, clientEvents>>

\* ... after the scroll position that a touch page asked for
ReplayReady(s) ==
  /\ s \in sockets /\ replay[s] = "emitting" /\ SendsTo(s, <<"ready">>)
  /\ replay' = [replay EXCEPT ![s] = "none"]
  /\ UNCHANGED <<sockets, closing, alive, hadSocketConnection, output, transport, link,
                 upstream, client, input, clientEvents>>

\* Mutant: a socket whose replay has not begun yet gets output.
GetsOutputBefore(s) == s \in sockets /\ replay[s] # "replaying"

GetsOutput(s) == s \in sockets /\ replay[s] \notin {"pending", "replaying"}

BroadcastTerminalOutput ==
  /\ alive /\ output < MaxOutput /\ output' = output + 1
  /\ frames' = [s \in Sockets |->
       IF GetsOutput(s) /\ link[s] THEN Append(frames[s], "output") ELSE frames[s]]
  /\ UNCHANGED <<sockets, closing, replay, alive, hadSocketConnection, transport, link,
                 upstream, client, input, clientEvents>>

\* close(): the client closed the transport, after what it had sent, or the
\* transport is lost.
SocketClose(s) ==
  /\ s \in sockets
  /\ ~link[s] \/ (transport[s] = "closed" /\ upstream[s] = <<>>)
  /\ sockets' = sockets \ {s} /\ closing' = closing \ {s}
  /\ replay' = [replay EXCEPT ![s] = "none"]
  /\ upstream' = [upstream EXCEPT ![s] = <<>>]
  /\ UNCHANGED <<alive, hadSocketConnection, output, transport, link, frames,
                 client, input, clientEvents>>

\* Another browser opens the session: handoffTmuxSession() tells the sockets,
\* and closes them 25 ms later; until then their input still counts.
SessionHandoff ==
  /\ sockets # {} /\ ClientEvent
  /\ frames' = [s \in Sockets |-> IF s \in sockets \ closing /\ link[s]
                                  THEN Append(frames[s], "session_handoff")
                                  ELSE frames[s]]
  /\ closing' = sockets
  /\ UNCHANGED <<sockets, replay, alive, hadSocketConnection, output, transport,
                 link, upstream, client, input>>

HandoffCloses(s) ==
  /\ s \in closing /\ SendsTo(s, <<"close">>)
  /\ sockets' = sockets \ {s} /\ closing' = closing \ {s}
  /\ replay' = [replay EXCEPT ![s] = "none"]
  /\ UNCHANGED <<alive, hadSocketConnection, output, transport, link, upstream,
                 client, input, clientEvents>>

\* The shell exits: closeTerminalSockets() with the exit frame
TerminalExits ==
  /\ alive /\ ClientEvent /\ alive' = FALSE
  /\ frames' = [s \in Sockets |-> IF s \in sockets /\ link[s]
                                  THEN frames[s] \o <<"exit", "close">>
                                  ELSE frames[s]]
  /\ sockets' = {} /\ closing' = {} /\ replay' = [s \in Sockets |-> "none"]
  /\ UNCHANGED <<hadSocketConnection, output, transport, link, upstream, client,
                 input>>

-----------------------------------------------------------------------------
\* Trouble: a transport is cut off or refused, or the service restarts, which
\* cuts all of them off and restores the terminal as one that had a socket.

LinkDies(s) ==
  /\ transport[s] # "closed" /\ link[s] /\ ClientEvent
  /\ link' = [link EXCEPT ![s] = FALSE]
  /\ UNCHANGED <<transport, frames, upstream, server, client, input>>

Restarts ==
  /\ alive /\ ClientEvent
  /\ link' = [s \in Sockets |-> FALSE]
  /\ sockets' = {} /\ closing' = {} /\ replay' = [s \in Sockets |-> "none"]
  /\ hadSocketConnection' = TRUE
  /\ UNCHANGED <<alive, output, transport, frames, upstream, client, input>>

-----------------------------------------------------------------------------

ConnectionWork ==
  \/ \E s \in Sockets : TransportLost(s) \/ TransportOpens(s) \/ FrameArrives(s)
  \/ \E s \in Sockets : ReconnectTimer(s) \/ SocketOpen(s) \/ SocketMessage(s)
  \/ \E s \in Sockets : ReplayTimeout(s) \/ ReplayCompletes(s) \/ ReplayReady(s)
  \/ \E s \in Sockets : SocketClose(s) \/ HandoffCloses(s)
  \/ \E outcome \in {"retry", "gone", "blocked"} : Classified(outcome)

ConnectionRequests ==
  \/ SendInput \/ InputExpires \/ UserDisconnects
  \/ \E s \in Sockets : RetryConnection(s) \/ ApplyReconnectBehavior(s)
  \/ BroadcastTerminalOutput \/ SessionHandoff \/ TerminalExits
  \/ Restarts \/ \E s \in Sockets : LinkDies(s)

ConnectionNext == ConnectionWork \/ ConnectionRequests

ConnectionSpec ==
  /\ ConnectionInit /\ [][ConnectionNext]_connectionVars
  /\ WF_connectionVars(ConnectionWork)

-----------------------------------------------------------------------------

\* Input reaches the terminal in the order typed and once, whatever happened
\* to the transports, and nothing that was still queued when the terminal was
\* closed, taken over or over is typed into it later (InputQueue, discardQueuedInput).
InputSafe ==
  /\ \A i, j \in DOMAIN received : i < j => received[i] < received[j]
  /\ ToSet(received) \cap void = {}

\* On a socket that replays, live output comes after the replay, never before
\* or inside it (socketReconnectState, broadcastTerminalOutput).
ReplayFirst ==
  \A s \in Sockets : \A i \in DOMAIN frames[s] : frames[s][i] = "output" =>
    /\ replay[s] \notin {"pending", "replaying"}
    /\ \A j \in DOMAIN frames[s] : i < j =>
         frames[s][j] \notin {"replay-start", "screen", "replay-complete"}

\* The client reconnects, but the terminal never had a socket before (its
\* first connection failed): the server sends no replay and so no "ready".
LeftWaiting ==
  /\ ws # 0 /\ transport[ws] = "open" /\ awaitingReconnectReady
  /\ replay[ws] = "none" /\ frames[ws] = <<>>

\* A client that is connecting is at some time connected, or says why it is
\* not and offers what to do; it does not wait for the server while the
\* server waits for it (resume-ready, the 750 ms timer, the retry limit).
ConnectionSettles ==
  (clientStatus \in {"connecting", "reconnecting"}) ~>
    (clientStatus \notin {"connecting", "reconnecting"} \/ LeftWaiting)
=============================================================================
