------------------------------ MODULE WebProofs ------------------------------
(***************************************************************************)
(* Proofs about the parts of the web client and what they talk to:         *)
(* ClientConnection, for any number of transports, keys and faults,        *)
(* EditorSave, for any number of tabs and saves, and EditorTabs, for any   *)
(* files and any stored layout.                                            *)
(***************************************************************************)
EXTENDS ClientConnection, EditorSave, EditorTabs, FiniteSetTheorems, SequenceTheorems,
        TLAPS

-----------------------------------------------------------------------------
(* A reconnecting terminal: the replay and the live output.                *)

ReplayFrames == {"replay-start", "screen", "replay-complete"}

\* What a socket's frames are, given the phase of its replay.
OutputLast(f, phase) ==
  \A i \in DOMAIN f : f[i] = "output" =>
    /\ phase \notin {"pending", "replaying"}
    /\ \A j \in DOMAIN f : i < j => f[j] \notin ReplayFrames

Phases == {"none", "pending", "replaying", "emitting"}
FramesTyped == frames \in [Sockets -> Seq(Frames)] /\ replay \in [Sockets -> Phases]

ReplayInv == FramesTyped /\ \A s \in Sockets : OutputLast(frames[s], replay[s])

\* Fewer frames, the phase as it was or the replay over.
LEMMA OutputLastTail ==
  ASSUME NEW f \in Seq(Frames), NEW phase, f # <<>>, OutputLast(f, phase)
  PROVE  OutputLast(Tail(f), phase)
<1>1. /\ \A i \in DOMAIN Tail(f) : i + 1 \in DOMAIN f /\ Tail(f)[i] = f[i + 1]
      /\ DOMAIN Tail(f) \subseteq Nat
  OBVIOUS
<1> QED BY <1>1 DEF OutputLast

\* A frame that is not part of a replay may come at any time.
LEMMA OutputLastAppend ==
  ASSUME NEW f \in Seq(Frames), NEW phase, NEW x \in Frames \ ReplayFrames,
         OutputLast(f, phase), x = "output" => phase \notin {"pending", "replaying"}
  PROVE  OutputLast(Append(f, x), phase)
<1>1. /\ DOMAIN Append(f, x) = 1..(Len(f) + 1) /\ DOMAIN f = 1..Len(f)
      /\ Len(f) \in Nat /\ Append(f, x)[Len(f) + 1] = x
      /\ \A i \in DOMAIN f : Append(f, x)[i] = f[i]
  OBVIOUS
<1> QED BY <1>1 DEF OutputLast

\* Where no output has been sent yet, a replay may be.
LEMMA OutputLastReplay ==
  ASSUME NEW f \in Seq(Frames), NEW phase \in {"pending", "replaying"}, NEW x,
         NEW new, OutputLast(f, phase), x # "output"
  PROVE  /\ OutputLast(Append(f, x), phase)
         /\ OutputLast(f, new) /\ OutputLast(Append(f, x), new)
<1>1. \A i \in DOMAIN f : f[i] # "output"
  BY DEF OutputLast
<1>2. \A i \in DOMAIN Append(f, x) : Append(f, x)[i] # "output"
  BY <1>1
<1> QED BY <1>1, <1>2 DEF OutputLast

\* Live output that comes last still does when no replay is to come.
LEMMA OutputLastNone ==
  ASSUME NEW f, NEW phase, OutputLast(f, phase) PROVE OutputLast(f, "none")
  BY DEF OutputLast

\* No frames are in order.
LEMMA OutputLastEmpty == ASSUME NEW phase PROVE OutputLast(<<>>, phase)
  BY DEF OutputLast

\* A frame put behind the others keeps live output last.
LEMMA OutputLastSends ==
  ASSUME NEW f \in Seq(Frames), NEW x \in Frames, NEW phase, OutputLast(f, phase),
         x \notin ReplayFrames, x = "output" => phase \notin {"pending", "replaying"}
  PROVE  /\ OutputLast(f \o <<x>>, phase) /\ f \o <<x>> \in Seq(Frames)
         /\ OutputLast(f \o <<x>>, "none")
<1>1. f \o <<x>> = Append(f, x)
  OBVIOUS
<1>2. OutputLast(f \o <<x>>, phase)
  BY <1>1, OutputLastAppend
<1> QED BY <1>1, <1>2, OutputLastNone

\* At the start no frame is under way.
LEMMA InitReplay == ConnectionInit => ReplayInv
<1> SUFFICES ASSUME ConnectionInit PROVE ReplayInv
  OBVIOUS
<1>1. /\ frames = [s \in Sockets |-> <<>>] /\ replay = [s \in Sockets |-> "none"]
  BY DEF ConnectionInit, ConnectionFrom
<1>2. <<>> \in Seq(Frames)
  OBVIOUS
<1>3. frames \in [Sockets -> Seq(Frames)] /\ replay \in [Sockets -> Phases]
  BY <1>1, <1>2, Zenon DEF Phases
<1> QED BY <1>1, <1>3, OutputLastEmpty DEF ReplayInv, FramesTyped

\* What a client does empties the frames of transports, or leaves them alone.
LEMMA Emptied ==
  ASSUME ReplayInv, UNCHANGED replay, NEW gone \in SUBSET Sockets,
         frames' = [s \in Sockets |-> IF s \in gone THEN <<>> ELSE frames[s]]
  PROVE  ReplayInv'
<1>1. <<>> \in Seq(Frames)
  OBVIOUS
<1>2. FramesTyped'
  BY <1>1 DEF ReplayInv, FramesTyped
<1>3. \A s \in Sockets : OutputLast(frames'[s], replay'[s])
  BY OutputLastEmpty DEF ReplayInv, FramesTyped
<1> QED BY <1>2, <1>3 DEF ReplayInv

\* Of the browser's steps, none sends it a frame.
LEMMA ClientKeepsReplay ==
  ASSUME ReplayInv,
         \/ \E s \in Sockets : \/ TransportLost(s) \/ TransportOpens(s)
                              \/ ReconnectTimer(s) \/ RetryConnection(s)
                              \/ ApplyReconnectBehavior(s) \/ LinkDies(s)
         \/ SendInput \/ InputExpires \/ UserDisconnects
         \/ \E outcome \in {"retry", "gone", "blocked"} : Classified(outcome)
         \/ UNCHANGED connectionVars
  PROVE  ReplayInv'
<1> USE DEF ReplayInv, FramesTyped
<1>1. ASSUME NEW s \in Sockets, TransportLost(s) PROVE ReplayInv'
  <2>1. frames' = [frames EXCEPT ![s] = <<>>] /\ UNCHANGED replay
    BY <1>1 DEF TransportLost, SocketCloses, server
  <2>2. frames' = [t \in Sockets |-> IF t \in {s} THEN <<>> ELSE frames[t]]
    BY <2>1
  <2> HIDE DEF ReplayInv, FramesTyped
  <2> QED BY <2>1, <2>2, Emptied, Zenon
<1>2. ASSUME NEW s \in Sockets, ReconnectTimer(s) \/ RetryConnection(s) PROVE ReplayInv'
  <2>1. /\ frames' = [t \in Sockets |-> IF t \in {s, ws} THEN <<>> ELSE frames[t]]
        /\ UNCHANGED replay
    BY <1>2 DEF ReconnectTimer, RetryConnection, Connects, server
  <2>2. frames' = [t \in Sockets |-> IF t \in {s, ws} \cap Sockets THEN <<>> ELSE frames[t]]
    BY <2>1
  <2> HIDE DEF ReplayInv, FramesTyped
  <2>3. {s, ws} \cap Sockets \in SUBSET Sockets
    OBVIOUS
  <2> QED BY <2>1, <2>2, <2>3, Emptied, Zenon
<1>3. ASSUME NEW s \in Sockets, ApplyReconnectBehavior(s) PROVE ReplayInv'
  <2>1. CASE UNCHANGED wire
    BY <1>3, <2>1 DEF ApplyReconnectBehavior, wire, server
  <2>2. CASE Connects(s)
    <3>1. /\ frames' = [t \in Sockets |-> IF t \in {s, ws} THEN <<>> ELSE frames[t]]
          /\ UNCHANGED replay
      BY <1>3, <2>2 DEF ApplyReconnectBehavior, Connects, server
    <3>2. frames' = [t \in Sockets |-> IF t \in {s, ws} \cap Sockets THEN <<>> ELSE frames[t]]
      BY <3>1
    <3> HIDE DEF ReplayInv, FramesTyped
    <3>3. {s, ws} \cap Sockets \in SUBSET Sockets
      OBVIOUS
    <3> QED BY <3>1, <3>2, <3>3, Emptied, Zenon
  <2> QED BY <1>3, <2>1, <2>2 DEF ApplyReconnectBehavior
<1>4. CASE UserDisconnects
  <2>1. frames' = [frames EXCEPT ![ws] = <<>>] /\ UNCHANGED replay
    BY <1>4 DEF UserDisconnects, server
  <2>2. frames' = [t \in Sockets |-> IF t \in {ws} \cap Sockets THEN <<>> ELSE frames[t]]
    BY <2>1
  <2> HIDE DEF ReplayInv, FramesTyped
  <2>3. {ws} \cap Sockets \in SUBSET Sockets
    OBVIOUS
  <2> QED BY <2>1, <2>2, <2>3, Emptied, Zenon
<1>5. ASSUME NEW s \in Sockets, TransportOpens(s) \/ LinkDies(s) PROVE ReplayInv'
  BY <1>5 DEF TransportOpens, LinkDies, server
<1>6. CASE SendInput \/ InputExpires
  BY <1>6 DEF SendInput, InputExpires, wire, server
<1>7. ASSUME NEW outcome, Classified(outcome) PROVE ReplayInv'
  BY <1>7 DEF Classified, wire, server
<1>8. CASE UNCHANGED connectionVars
  BY <1>8 DEF connectionVars, wire, server
<1> QED BY <1>1, <1>2, <1>3, <1>4, <1>5, <1>6, <1>7, <1>8

\* Taking the first frame leaves the order of the rest.
LEMMA FrameKeepsReplay ==
  ASSUME ReplayInv, NEW s \in Sockets, FrameArrives(s)
  PROVE  ReplayInv'
<1>1. UNCHANGED replay
  BY DEF FrameArrives, SocketCloses, server
<1>2. \/ frames' = [frames EXCEPT ![s] = <<>>]
      \/ frames[s] # <<>> /\ frames' = [frames EXCEPT ![s] = Tail(@)]
  BY DEF FrameArrives, SocketCloses
<1>3. CASE frames' = [frames EXCEPT ![s] = <<>>]
  <2>1. frames' = [t \in Sockets |-> IF t \in {s} THEN <<>> ELSE frames[t]]
    BY <1>3 DEF ReplayInv, FramesTyped
  <2> QED BY <1>1, <2>1, Emptied, Zenon
<1>4. CASE frames[s] # <<>> /\ frames' = [frames EXCEPT ![s] = Tail(@)]
  <2>1. /\ frames[s] \in Seq(Frames) /\ Tail(frames[s]) \in Seq(Frames)
        /\ OutputLast(Tail(frames[s]), replay[s])
    BY <1>4, OutputLastTail DEF ReplayInv, FramesTyped
  <2> QED BY <1>1, <1>4, <2>1 DEF ReplayInv, FramesTyped
<1> QED BY <1>2, <1>3, <1>4

\* The server sends a replay only before any output.
LEMMA ServerKeepsReplay ==
  ASSUME ReplayInv,
         \/ \E s \in Sockets : \/ SocketOpen(s) \/ SocketMessage(s) \/ ReplayTimeout(s)
                              \/ ReplayCompletes(s) \/ ReplayReady(s)
                              \/ SocketClose(s) \/ HandoffCloses(s)
         \/ BroadcastTerminalOutput \/ SessionHandoff \/ TerminalExits \/ Restarts
  PROVE  ReplayInv'
<1>1. ASSUME NEW s \in Sockets, SocketOpen(s) PROVE ReplayInv'
  <2>1. \A phase : OutputLast(<<"replay-start">>, phase) /\ OutputLast(<<>>, phase)
    BY DEF OutputLast
  <2>2. <<"replay-start">> \in Seq(Frames) /\ <<>> \in Seq(Frames)
    BY DEF Frames
  <2> QED BY ZenonT(60), <1>1, <2>1, <2>2 DEF SocketOpen, ReplayInv, FramesTyped, Phases
<1>2. ASSUME NEW s \in Sockets, SocketMessage(s) \/ ReplayTimeout(s) PROVE ReplayInv'
  <2>1. /\ UNCHANGED frames
        /\ \/ UNCHANGED replay
           \/ replay[s] = "pending" /\ replay' = [replay EXCEPT ![s] = "replaying"]
    BY <1>2 DEF SocketMessage, ReplayTimeout, BeginsReplay, wire
  <2>2. replay[s] = "pending" => OutputLast(frames[s], "replaying")
    BY DEF ReplayInv, OutputLast
  <2> QED BY <2>1, <2>2 DEF ReplayInv, FramesTyped, Phases
<1>3. ASSUME NEW s \in Sockets, ReplayCompletes(s) PROVE ReplayInv'
  <2>1. PICK rest \in {<<"screen", "replay-complete">>, <<"replay-complete">>} :
          SendsTo(s, rest)
    BY <1>3 DEF ReplayCompletes
  <2>2. \A i \in DOMAIN frames[s] : frames[s][i] # "output"
    BY <1>3 DEF ReplayCompletes, ReplayInv, OutputLast
  <2> DEFINE sent == frames[s] \o rest
  <2>3. /\ sent \in Seq(Frames)
        /\ \A i \in DOMAIN sent : sent[i] # "output"
    <3>1. /\ frames[s] \in Seq(Frames) /\ OutputLast(frames[s], "replaying")
      BY <1>3 DEF ReplayCompletes, ReplayInv, FramesTyped
    <3>2. CASE rest = <<"replay-complete">>
      <4>1. sent = Append(frames[s], "replay-complete")
        BY <3>1, <3>2
      <4> QED BY <3>1, <4>1, <2>2 DEF Frames
    <3>3. CASE rest = <<"screen", "replay-complete">>
      <4>1. sent = Append(Append(frames[s], "screen"), "replay-complete")
        BY <3>1, <3>3
      <4>2. /\ Append(frames[s], "screen") \in Seq(Frames)
            /\ \A i \in DOMAIN Append(frames[s], "screen") :
                 Append(frames[s], "screen")[i] # "output"
        BY <3>1, <2>2 DEF Frames
      <4> QED BY <4>1, <4>2 DEF Frames
    <3> QED BY <3>2, <3>3
  <2>4. /\ frames' = [frames EXCEPT ![s] = IF link[s] THEN sent ELSE frames[s]]
        /\ replay' = [replay EXCEPT ![s] = "emitting"]
    BY <1>3, <2>1 DEF ReplayCompletes, SendsTo
  <2>5. OutputLast(sent, "emitting") /\ OutputLast(frames[s], "emitting")
    BY <2>2, <2>3 DEF OutputLast
  <2> QED BY <2>3, <2>4, <2>5 DEF ReplayInv, FramesTyped, Phases
<1>4. ASSUME NEW s \in Sockets, ReplayReady(s) \/ HandoffCloses(s) PROVE ReplayInv'
  <2>1. PICK x \in {"ready", "close"} :
          frames' = [frames EXCEPT ![s] = IF link[s] THEN @ \o <<x>> ELSE @]
    BY <1>4 DEF ReplayReady, HandoffCloses, SendsTo
  <2>2. replay' = [replay EXCEPT ![s] = "none"]
    BY <1>4 DEF ReplayReady, HandoffCloses
  <2>3. /\ OutputLast(frames[s] \o <<x>>, "none") /\ frames[s] \o <<x>> \in Seq(Frames)
        /\ OutputLast(frames[s], "none")
    BY OutputLastSends, OutputLastNone DEF ReplayInv, FramesTyped, Frames, ReplayFrames
  <2> QED BY <2>1, <2>2, <2>3 DEF ReplayInv, FramesTyped, Phases
<1>5. ASSUME NEW s \in Sockets, SocketClose(s) PROVE ReplayInv'
  <2>1. UNCHANGED frames /\ replay' = [replay EXCEPT ![s] = "none"]
    BY <1>5 DEF SocketClose
  <2> QED BY <2>1, OutputLastNone DEF ReplayInv, FramesTyped, Phases
<1>6. CASE BroadcastTerminalOutput
  <2>1. \A s \in Sockets : replay[s] \notin {"pending", "replaying"} =>
          /\ OutputLast(Append(frames[s], "output"), replay[s])
          /\ Append(frames[s], "output") \in Seq(Frames)
    BY OutputLastAppend DEF ReplayInv, FramesTyped, Frames, ReplayFrames
  <2> QED BY <1>6, <2>1 DEF BroadcastTerminalOutput, GetsOutput, ReplayInv, FramesTyped
<1>7. CASE SessionHandoff
  <2>1. \A s \in Sockets : /\ OutputLast(Append(frames[s], "session_handoff"), replay[s])
                          /\ Append(frames[s], "session_handoff") \in Seq(Frames)
    BY OutputLastAppend DEF ReplayInv, FramesTyped, Frames, ReplayFrames
  <2> QED BY <1>7, <2>1 DEF SessionHandoff, ReplayInv, FramesTyped
<1>8. CASE TerminalExits
  <2>1. \A s \in Sockets :
          /\ frames[s] \o <<"exit", "close">> = Append(Append(frames[s], "exit"), "close")
          /\ frames[s] \o <<"exit", "close">> \in Seq(Frames)
    BY DEF ReplayInv, FramesTyped, Frames
  <2>2. \A s \in Sockets : /\ OutputLast(Append(frames[s], "exit"), "none")
                          /\ Append(frames[s], "exit") \in Seq(Frames)
    BY OutputLastAppend, OutputLastNone DEF ReplayInv, FramesTyped, Frames, ReplayFrames
  <2>3. \A s \in Sockets : OutputLast(Append(Append(frames[s], "exit"), "close"), "none")
    BY <2>2, OutputLastAppend DEF Frames, ReplayFrames
  <2> QED BY <1>8, <2>1, <2>3, OutputLastNone
          DEF TerminalExits, ReplayInv, FramesTyped, Phases
<1>9. CASE Restarts
  BY <1>9, OutputLastNone DEF Restarts, ReplayInv, FramesTyped, Phases
<1> QED BY <1>1, <1>2, <1>3, <1>4, <1>5, <1>6, <1>7, <1>8, <1>9

\* Every step keeps the order of replay and output.
LEMMA NextReplay == ASSUME ReplayInv, [ConnectionNext]_connectionVars PROVE ReplayInv'
  BY ClientKeepsReplay, FrameKeepsReplay, ServerKeepsReplay
  DEF ConnectionNext, ConnectionWork, ConnectionRequests

\* No live output reaches a client before or inside the replay of its screen,
\* for any pool of transports and any number of faults.
THEOREM ConnectionReplayFirst == ConnectionSpec => []ReplayFirst
<1>1. ReplayInv /\ [ConnectionNext]_connectionVars => ReplayInv'
  BY NextReplay
<1>2. ReplayInv => ReplayFirst
  BY DEF ReplayInv, ReplayFirst, OutputLast, ReplayFrames
<1> QED BY <1>1, <1>2, InitReplay, PTL DEF ConnectionSpec

-----------------------------------------------------------------------------
(* A reconnecting terminal: the keys.                                      *)

\* A message is a key, or 0.
KeysOf(f) == ToSet(f) \ {0}
Rising(f) == \A i, j \in DOMAIN f : i < j /\ f[i] # 0 /\ f[j] # 0 => f[i] < f[j]
AllBelow(S, T) == \A a \in S, b \in T : a < b

\* The server reads what this transport brings.
Readable(s) == s \in sockets /\ link[s]

KeysTyped ==
  /\ transport \in [Sockets -> {"closed", "connecting", "accepted", "open"}]
  /\ link \in [Sockets -> BOOLEAN] /\ upstream \in [Sockets -> Seq(Nat)]
  /\ inputQueue \in Seq(Nat) /\ received \in Seq(Nat) /\ typed \in Nat

\* One transport at a time is in use, and nothing was sent before it opened.
OneWire ==
  \A s \in Sockets : /\ transport[s] # "closed" => s = ws
                     /\ transport[s] = "connecting" => upstream[s] = <<>>

\* The server reads from one transport at a time: what an earlier one brought
\* was read before the next one was accepted.
OneSource ==
  \A s, t \in Sockets : s # t /\ Readable(t) =>
    /\ transport[s] \in {"accepted", "open"} => upstream[t] = <<>>
    /\ Readable(s) => upstream[s] = <<>> \/ upstream[t] = <<>>

\* Received, under way, queued: in this order the keys were typed.
InOrder ==
  /\ Rising(received) /\ Rising(inputQueue)
  /\ AllBelow(KeysOf(received), KeysOf(inputQueue))
  /\ \A s \in Sockets :
       /\ Rising(upstream[s]) /\ AllBelow(KeysOf(upstream[s]), KeysOf(inputQueue))
       /\ Readable(s) => AllBelow(KeysOf(received), KeysOf(upstream[s]))

\* What is void was typed, and is nowhere any more.
VoidIsGone ==
  /\ ToSet(received) \cup ToSet(inputQueue) \cup void \subseteq 1..typed
  /\ void \cap (ToSet(received) \cup ToSet(inputQueue)) = {}
  /\ \A s \in Sockets : KeysOf(upstream[s]) \subseteq (1..typed) \ void

KeysInv == KeysTyped /\ OneWire /\ OneSource /\ InOrder /\ VoidIsGone

\* No keys are in order.
LEMMA EmptyKeys == KeysOf(<<>>) = {} /\ ToSet(<<>>) = {} /\ Rising(<<>>) /\ <<>> \in Seq(Nat)
  BY EmptySeq DEF KeysOf, ToSet, Rising

\* The keys behind the first are fewer and in order.
LEMMA TailKeys ==
  ASSUME NEW f \in Seq(Nat), f # <<>>, Rising(f)
  PROVE  /\ Tail(f) \in Seq(Nat) /\ Rising(Tail(f)) /\ Head(f) \in ToSet(f)
         /\ KeysOf(Tail(f)) \subseteq KeysOf(f) /\ ToSet(Tail(f)) \subseteq ToSet(f)
         /\ Head(f) # 0 => \A a \in KeysOf(Tail(f)) : Head(f) < a
<1>1. /\ Len(f) \in Nat /\ Len(f) >= 1 /\ Tail(f) \in Seq(Nat) /\ Len(Tail(f)) = Len(f) - 1
      /\ Head(f) = f[1] /\ DOMAIN f = 1..Len(f) /\ DOMAIN Tail(f) = 1..Len(Tail(f))
      /\ \A i \in 1..Len(f) - 1 : Tail(f)[i] = f[i + 1]
  BY EmptySeq, HeadTailProperties
<1>2. \A i \in DOMAIN Tail(f) : i + 1 \in DOMAIN f /\ Tail(f)[i] = f[i + 1] /\ i \in Nat /\ i >= 1
  BY <1>1
<1>3. Rising(Tail(f))
  BY <1>2 DEF Rising
<1>4. ToSet(Tail(f)) \subseteq ToSet(f) /\ Head(f) \in ToSet(f)
  BY <1>1, <1>2 DEF ToSet
<1>5. ASSUME Head(f) # 0, NEW a \in KeysOf(Tail(f)) PROVE Head(f) < a
  <2>1. PICK i \in DOMAIN Tail(f) : a = Tail(f)[i] /\ a # 0
    BY <1>5 DEF KeysOf, ToSet
  <2> QED BY <1>1, <1>2, <1>5, <2>1 DEF Rising
<1> QED BY <1>1, <1>3, <1>4, <1>5 DEF KeysOf

\* Keys in order behind keys in order, all later, are in order.
LEMMA ConcatKeys ==
  ASSUME NEW f \in Seq(Nat), NEW g \in Seq(Nat), Rising(f), Rising(g),
         AllBelow(KeysOf(f), KeysOf(g))
  PROVE  /\ f \o g \in Seq(Nat) /\ Rising(f \o g)
         /\ ToSet(f \o g) = ToSet(f) \cup ToSet(g)
         /\ KeysOf(f \o g) = KeysOf(f) \cup KeysOf(g)
<1> DEFINE m == Len(f)
           n == Len(g)
           h == f \o g
<1>1. /\ m \in Nat /\ n \in Nat /\ DOMAIN f = 1..m /\ DOMAIN g = 1..n
      /\ h \in Seq(Nat) /\ DOMAIN h = 1..m + n
      /\ \A i \in 1..m : h[i] = f[i]
      /\ \A i \in 1..n : h[m + i] = g[i]
  BY ConcatProperties
<1>2. \A i \in DOMAIN f : f[i] \in Nat /\ f[i] \in ToSet(f) /\ (f[i] # 0 => f[i] \in KeysOf(f))
  BY <1>1 DEF ToSet, KeysOf
<1>3. \A i \in DOMAIN g : g[i] \in Nat /\ g[i] \in ToSet(g) /\ (g[i] # 0 => g[i] \in KeysOf(g))
  BY <1>1 DEF ToSet, KeysOf
<1> HIDE DEF h
<1>4. \A i \in DOMAIN h : \/ i \in DOMAIN f /\ h[i] = f[i]
                          \/ i - m \in DOMAIN g /\ h[i] = g[i - m]
  <2> SUFFICES ASSUME NEW i \in 1..m + n, i \notin 1..m
               PROVE i - m \in 1..n /\ h[i] = g[i - m]
    BY <1>1
  <2>1. i - m \in 1..n /\ m + (i - m) = i
    BY <1>1
  <2> QED BY <1>1, <2>1
<1> HIDE DEF m, n
<1>5. ToSet(h) = ToSet(f) \cup ToSet(g)
  <2>1. ToSet(h) \subseteq ToSet(f) \cup ToSet(g)
    BY <1>4 DEF ToSet
  <2>2. ToSet(f) \subseteq ToSet(h)
    BY <1>1 DEF ToSet
  <2>3. \A i \in 1..n : m + i \in 1..m + n
    BY <1>1
  <2>4. ToSet(g) \subseteq ToSet(h)
    BY <1>1, <2>3 DEF ToSet
  <2> QED BY <2>1, <2>2, <2>4
<1>6. Rising(h)
  <2> SUFFICES ASSUME NEW i \in DOMAIN h, NEW j \in DOMAIN h, i < j, h[i] # 0, h[j] # 0
               PROVE  h[i] < h[j]
    BY DEF Rising
  <2>0. i \in Int /\ j \in Int
    BY <1>1
  <2>1. CASE i \in DOMAIN f /\ h[i] = f[i]
    <3>1. CASE j \in DOMAIN f /\ h[j] = f[j]
      BY <2>1, <3>1 DEF Rising
    <3>2. CASE j - m \in DOMAIN g /\ h[j] = g[j - m]
      BY <1>2, <1>3, <2>1, <3>2 DEF AllBelow
    <3> QED BY <1>4, <3>1, <3>2
  <2>2. CASE i - m \in DOMAIN g /\ h[i] = g[i - m]
    <3>1. j \notin DOMAIN f
      BY <1>1, <2>0, <2>2
    <3>2. j - m \in DOMAIN g /\ h[j] = g[j - m] /\ i - m < j - m
      BY <1>1, <1>4, <2>0, <3>1
    <3> QED BY <2>2, <3>2 DEF Rising
  <2> QED BY <1>4, <2>1, <2>2
<1> QED BY <1>1, <1>5, <1>6 DEF KeysOf, h

\* One key is in order.
LEMMA OneKey ==
  ASSUME NEW k \in Nat
  PROVE  <<k>> \in Seq(Nat) /\ Rising(<<k>>) /\ ToSet(<<k>>) = {k} /\ KeysOf(<<k>>) = {k} \ {0}
<1>1. DOMAIN <<k>> = {1} /\ <<k>>[1] = k /\ <<k>> \in Seq(Nat)
  OBVIOUS
<1>2. Rising(<<k>>)
  BY <1>1 DEF Rising
<1> QED BY <1>1, <1>2 DEF ToSet, KeysOf

\* One message more.
LEMMA AppendKeys ==
  ASSUME NEW f \in Seq(Nat), NEW k \in Nat, Rising(f), AllBelow(KeysOf(f), {k} \ {0})
  PROVE  /\ Append(f, k) \in Seq(Nat) /\ Rising(Append(f, k))
         /\ ToSet(Append(f, k)) = ToSet(f) \cup {k}
         /\ KeysOf(Append(f, k)) = KeysOf(f) \cup ({k} \ {0})
<1>1. Append(f, k) = f \o <<k>>
  OBVIOUS
<1>2. /\ f \o <<k>> \in Seq(Nat) /\ Rising(f \o <<k>>)
      /\ ToSet(f \o <<k>>) = ToSet(f) \cup {k}
      /\ KeysOf(f \o <<k>>) = KeysOf(f) \cup ({k} \ {0})
  <2>1. /\ <<k>> \in Seq(Nat) /\ Rising(<<k>>) /\ ToSet(<<k>>) = {k}
        /\ KeysOf(<<k>>) = {k} \ {0}
    BY OneKey
  <2>2. AllBelow(KeysOf(f), KeysOf(<<k>>))
    BY <2>1, Zenon
  <2> DEFINE g == <<k>>
  <2>3. g \in Seq(Nat) /\ Rising(g) /\ AllBelow(KeysOf(f), KeysOf(g))
    BY <2>1, <2>2
  <2> HIDE DEF g
  <2>4. /\ f \o g \in Seq(Nat) /\ Rising(f \o g) /\ ToSet(f \o g) = ToSet(f) \cup ToSet(g)
        /\ KeysOf(f \o g) = KeysOf(f) \cup KeysOf(g)
    BY <2>3, ConcatKeys
  <2> QED BY <2>1, <2>4, Zenon DEF g
<1> QED BY <1>1, <1>2, Zenon

\* At the start nothing was typed.
LEMMA InitKeys == ConnectionInit => KeysInv
<1> SUFFICES ASSUME ConnectionInit PROVE KeysInv
  OBVIOUS
<1>1. /\ transport = [s \in Sockets |-> IF s = 1 THEN "connecting" ELSE "closed"]
      /\ link = [s \in Sockets |-> TRUE] /\ upstream = [s \in Sockets |-> <<>>]
      /\ ws = 1 /\ sockets = {} /\ inputQueue = <<>> /\ received = <<>> /\ void = {}
      /\ typed = 0
  BY DEF ConnectionInit, ConnectionFrom
<1>2. KeysTyped
  BY <1>1, EmptyKeys DEF KeysTyped
<1>3. OneWire /\ OneSource
  BY <1>1 DEF OneWire, OneSource, Readable
<1>4. \A s \in Sockets : upstream[s] = <<>>
  BY <1>1
<1>5. InOrder /\ VoidIsGone
  BY <1>1, <1>4, EmptyKeys DEF InOrder, VoidIsGone, AllBelow, Readable
<1> QED BY <1>2, <1>3, <1>5 DEF KeysInv

\* Transports and queued keys go, and none comes.
QueueShrinks ==
  \/ inputQueue' = inputQueue /\ void' = void
  \/ inputQueue' = <<>> /\ (void' = void \/ void' = void \cup ToSet(inputQueue))
  \/ inputQueue # <<>> /\ inputQueue' = Tail(inputQueue) /\ void' = void

\* A step after which transports, their messages or queued keys are gone, and
\* nothing else is new, keeps the order of the keys.
LEMMA Shrinks ==
  ASSUME KeysInv, QueueShrinks, typed' = typed, received' = received,
         transport' \in [Sockets -> {"closed", "connecting", "accepted", "open"}],
         link' \in [Sockets -> BOOLEAN], upstream' \in [Sockets -> Seq(Nat)],
         \A t \in Sockets :
           /\ upstream'[t] = upstream[t] \/ upstream'[t] = <<>>
           /\ Readable(t)' => Readable(t) \/ upstream'[t] = <<>>
           /\ transport'[t] # "closed" => t = ws'
           /\ transport'[t] = "connecting" => upstream'[t] = <<>>
           /\ transport'[t] \in {"accepted", "open"} => transport[t] \in {"accepted", "open"}
  PROVE  KeysInv'
<1>1. /\ inputQueue' \in Seq(Nat) /\ Rising(inputQueue')
      /\ KeysOf(inputQueue') \subseteq KeysOf(inputQueue)
      /\ ToSet(inputQueue') \subseteq ToSet(inputQueue)
  BY ZenonT(60), EmptyKeys, TailKeys DEF QueueShrinks, KeysInv, KeysTyped, InOrder
<1>2. KeysTyped'
  BY <1>1 DEF KeysInv, KeysTyped
<1>3. OneWire' /\ OneSource'
  BY DEF OneWire, OneSource, KeysInv
<1>4. \A t \in Sockets : /\ Rising(upstream'[t]) /\ KeysOf(upstream'[t]) \subseteq KeysOf(upstream[t])
                         /\ Readable(t)' => Readable(t) \/ KeysOf(upstream'[t]) = {}
  BY EmptyKeys DEF KeysInv, InOrder
<1>5. InOrder'
  BY <1>1, <1>4 DEF InOrder, AllBelow, KeysInv
<1>6. VoidIsGone'
  <2>1. void' \subseteq void \cup ToSet(inputQueue)
        /\ void' \cap ToSet(inputQueue') = {}
    BY <1>1, EmptyKeys DEF QueueShrinks, KeysInv, VoidIsGone
  <2>2. ToSet(inputQueue) = KeysOf(inputQueue) /\ ToSet(received) = KeysOf(received)
    BY DEF KeysInv, VoidIsGone, KeysOf
  <2>3. ToSet(received) \cap ToSet(inputQueue) = {}
    <3> SUFFICES ASSUME NEW k \in KeysOf(received), k \in KeysOf(inputQueue) PROVE FALSE
      BY <2>2
    <3>1. k < k /\ k \in 1..typed
      BY DEF KeysInv, InOrder, AllBelow, VoidIsGone, KeysOf
    <3> QED BY <3>1 DEF KeysInv, KeysTyped
  <2>4. \A t \in Sockets : KeysOf(upstream[t]) \cap ToSet(inputQueue) = {}
    <3> SUFFICES ASSUME NEW t \in Sockets, NEW k \in KeysOf(upstream[t]),
                        k \in KeysOf(inputQueue)
                 PROVE FALSE
      BY <2>2
    <3>1. k < k /\ k \in 1..typed
      BY DEF KeysInv, InOrder, AllBelow, VoidIsGone, KeysOf
    <3> QED BY <3>1 DEF KeysInv, KeysTyped
  <2> QED BY <1>1, <1>4, <2>1, <2>3, <2>4 DEF KeysInv, VoidIsGone
<1> QED BY <1>2, <1>3, <1>5, <1>6 DEF KeysInv

\* A transport that closes takes its messages along, and at most the queue.
LEMMA CloseKeys ==
  ASSUME KeysInv, NEW s \in Sockets, SocketCloses(s)
  PROVE  KeysInv'
<1> USE EmptyKeys DEF KeysInv, KeysTyped, OneWire, Readable
  <1>1. /\ transport' = [transport EXCEPT ![s] = "closed"]
        /\ upstream' = [upstream EXCEPT ![s] = <<>>]
        /\ UNCHANGED <<link, sockets, ws, typed, received>>
    BY DEF SocketCloses, server
  <1>2. QueueShrinks
    BY DEF SocketCloses, ScheduleReconnect, Over, Discards, QueueShrinks
  <1>3. \A t \in Sockets : /\ transport'[t] = IF t = s THEN "closed" ELSE transport[t]
                           /\ upstream'[t] = IF t = s THEN <<>> ELSE upstream[t]
    BY <1>1
  <1> QED BY <1>1, <1>2, <1>3, Shrinks

\* What the client does without sending anything, and what a network does.
LEMMA ClientShrinks ==
  ASSUME KeysInv,
         \/ \E s \in Sockets : \/ TransportLost(s) \/ LinkDies(s)
                               \/ ReconnectTimer(s) \/ RetryConnection(s)
                               \/ ApplyReconnectBehavior(s)
         \/ InputExpires \/ UserDisconnects
         \/ \E outcome \in {"retry", "gone", "blocked"} : Classified(outcome)
         \/ UNCHANGED connectionVars
  PROVE  KeysInv'
<1> USE EmptyKeys DEF KeysInv, KeysTyped, OneWire, Readable
<1>1. ASSUME NEW s \in Sockets, Connects(s), UNCHANGED <<input, sockets>> PROVE KeysInv'
  <2>1. /\ ws' = s /\ link' = [link EXCEPT ![s] = TRUE]
        /\ transport' = [t \in Sockets |->
             IF t = s THEN "connecting" ELSE IF t = ws THEN "closed" ELSE transport[t]]
        /\ upstream' = [upstream EXCEPT ![s] = <<>>]
        /\ UNCHANGED <<sockets, inputQueue, typed, received, void>>
    BY <1>1 DEF Connects, input
  <2>2. \A t \in Sockets : /\ upstream'[t] = IF t = s THEN <<>> ELSE upstream[t]
                           /\ link'[t] = IF t = s THEN TRUE ELSE link[t]
    BY <2>1
  <2> QED BY <2>1, <2>2, Shrinks DEF QueueShrinks
<1>2. ASSUME NEW s \in Sockets, TransportLost(s) PROVE KeysInv'
  BY <1>2, CloseKeys DEF TransportLost
<1>3. ASSUME NEW s \in Sockets, ReconnectTimer(s) \/ RetryConnection(s) PROVE KeysInv'
  BY <1>1, <1>3 DEF ReconnectTimer, RetryConnection, server
<1>4. ASSUME NEW s \in Sockets, ApplyReconnectBehavior(s) PROVE KeysInv'
  <2>1. CASE Connects(s)
    BY <1>1, <1>4, <2>1 DEF ApplyReconnectBehavior, server
  <2>2. CASE UNCHANGED <<ws, wire>>
    BY <1>4, <2>2, Shrinks DEF ApplyReconnectBehavior, server, wire, input, QueueShrinks
  <2> QED BY <1>4, <2>1, <2>2 DEF ApplyReconnectBehavior
<1>5. ASSUME NEW s \in Sockets, LinkDies(s) PROVE KeysInv'
  <2>1. /\ link' = [link EXCEPT ![s] = FALSE]
        /\ UNCHANGED <<transport, upstream, sockets, ws, inputQueue, typed, received, void>>
    BY <1>5 DEF LinkDies, server, client, input
  <2>2. \A t \in Sockets : link'[t] => link[t]
    BY <2>1
  <2> QED BY <2>1, <2>2, Shrinks DEF QueueShrinks
<1>6. CASE InputExpires
  BY <1>6, Shrinks DEF InputExpires, QueueShrinks, wire, client, server
<1>7. CASE UserDisconnects
  <2>1. /\ transport' = [transport EXCEPT ![ws] = "closed"]
        /\ UNCHANGED <<link, upstream, sockets, typed, received>>
    BY <1>7 DEF UserDisconnects, server
  <2>2. QueueShrinks
    BY <1>7 DEF UserDisconnects, StopsFor, Over, Discards, QueueShrinks
  <2>3. \A t \in Sockets : transport'[t] = "closed"
    BY <2>1
  <2>4. transport' \in [Sockets -> {"closed", "connecting", "accepted", "open"}]
    BY <2>1
  <2> QED BY <2>1, <2>2, <2>3, <2>4, Shrinks
<1>8. ASSUME NEW outcome, Classified(outcome) PROVE KeysInv'
  <2>1. UNCHANGED <<transport, link, upstream, sockets, ws, typed, received>>
    BY <1>8 DEF Classified, wire, server
  <2>2. QueueShrinks
    BY <1>8 DEF Classified, StopsFor, Over, Discards, QueueShrinks
  <2> QED BY <2>1, <2>2, Shrinks
<1>9. CASE UNCHANGED connectionVars
  BY <1>9, Shrinks DEF connectionVars, wire, client, server, input, QueueShrinks
<1> QED BY <1>2, <1>3, <1>4, <1>5, <1>6, <1>7, <1>8, <1>9

\* The server's steps, but for what it accepts and reads.
LEMMA ServerShrinks ==
  ASSUME KeysInv,
         \/ \E s \in Sockets : \/ ReplayTimeout(s) \/ ReplayCompletes(s) \/ ReplayReady(s)
                               \/ SocketClose(s) \/ HandoffCloses(s)
         \/ BroadcastTerminalOutput \/ SessionHandoff \/ TerminalExits \/ Restarts
  PROVE  KeysInv'
<1> USE EmptyKeys DEF KeysInv, KeysTyped, OneWire, Readable
<1>1. ASSUME NEW s \in Sockets,
             ReplayTimeout(s) \/ ReplayCompletes(s) \/ ReplayReady(s) \/ HandoffCloses(s)
      PROVE  KeysInv'
  <2>1. /\ UNCHANGED <<transport, link, upstream, ws, inputQueue, typed, received, void>>
        /\ sockets' \subseteq sockets
    BY <1>1 DEF ReplayTimeout, ReplayCompletes, ReplayReady, HandoffCloses, wire, client, input
  <2> QED BY <2>1, Shrinks DEF QueueShrinks
<1>2. ASSUME NEW s \in Sockets, SocketClose(s) PROVE KeysInv'
  <2>1. /\ UNCHANGED <<transport, link, ws, inputQueue, typed, received, void>>
        /\ upstream' = [upstream EXCEPT ![s] = <<>>] /\ sockets' = sockets \ {s}
    BY <1>2 DEF SocketClose, client, input
  <2>2. \A t \in Sockets : upstream'[t] = IF t = s THEN <<>> ELSE upstream[t]
    BY <2>1
  <2> QED BY <2>1, <2>2, Shrinks DEF QueueShrinks
<1>3. CASE BroadcastTerminalOutput \/ SessionHandoff \/ TerminalExits
  <2>1. /\ UNCHANGED <<transport, link, upstream, ws, inputQueue, typed, received, void>>
        /\ sockets' \subseteq sockets
    BY <1>3 DEF BroadcastTerminalOutput, SessionHandoff, TerminalExits, client, input
  <2> QED BY <2>1, Shrinks DEF QueueShrinks
<1>4. CASE Restarts
  <2>1. /\ UNCHANGED <<transport, upstream, ws, inputQueue, typed, received, void>>
        /\ link' = [s \in Sockets |-> FALSE] /\ sockets' = {}
    BY <1>4 DEF Restarts, client, input
  <2> QED BY <2>1, Shrinks DEF QueueShrinks
<1> QED BY <1>1, <1>2, <1>3, <1>4

\* A message is appended to what an open transport brings: 0, or the next key.
LEMMA SendsOne ==
  ASSUME KeysInv, NEW s \in Sockets, NEW k \in Nat, transport[s] \in {"accepted", "open"},
         upstream' = [upstream EXCEPT ![s] = Append(@, k)],
         \/ k = 0 /\ typed' = typed
         \/ k = typed + 1 /\ typed' = k /\ inputQueue = <<>>,
         UNCHANGED <<transport, link, sockets, ws, inputQueue, received, void>>
  PROVE  KeysInv'
<1> USE DEF KeysInv
<1>1. upstream[s] \in Seq(Nat) /\ typed \in Nat
  BY DEF KeysTyped
<1>2. AllBelow(KeysOf(upstream[s]), {k} \ {0})
  <2> SUFFICES ASSUME NEW a \in KeysOf(upstream[s]), k = typed + 1 PROVE a < k
    BY DEF AllBelow
  <2>1. a \in 1..typed
    BY DEF VoidIsGone
  <2> QED BY <1>1, <2>1
<1>3. /\ Append(upstream[s], k) \in Seq(Nat) /\ Rising(Append(upstream[s], k))
      /\ KeysOf(Append(upstream[s], k)) = KeysOf(upstream[s]) \cup ({k} \ {0})
  BY <1>1, <1>2, AppendKeys DEF InOrder
<1>4. \A t \in Sockets : upstream'[t] = IF t = s THEN Append(upstream[s], k) ELSE upstream[t]
  BY DEF KeysTyped
<1>5. KeysTyped'
  BY <1>1, <1>3 DEF KeysTyped
<1>6. OneWire'
  BY <1>4 DEF OneWire
<1>7. OneSource'
  <2>1. \A t \in Sockets : Readable(t)' <=> Readable(t)
    BY DEF Readable
  <2> QED BY <1>4, <1>6, <2>1 DEF OneSource, OneWire
<1>8. InOrder'
  <2>1. KeysOf(inputQueue) = {} \/ k = 0
    BY EmptyKeys
  <2>2. KeysOf(received) \subseteq 1..typed
    BY DEF VoidIsGone, KeysOf
  <2>3. AllBelow(KeysOf(received), {k} \ {0}) /\ AllBelow({k} \ {0}, KeysOf(inputQueue))
    BY <1>1, <2>1, <2>2 DEF AllBelow
  <2>4. \A t \in Sockets : Readable(t)' <=> Readable(t)
    BY DEF Readable
  <2> QED BY <1>3, <1>4, <2>3, <2>4 DEF InOrder, AllBelow
<1>9. VoidIsGone'
  <2>1. 1..typed \subseteq 1..typed'
    BY <1>1
  <2>2. {k} \ {0} \subseteq (1..typed') \ void
    BY <1>1 DEF VoidIsGone
  <2> QED BY <1>3, <1>4, <2>1, <2>2 DEF VoidIsGone
<1> QED BY <1>5, <1>6, <1>7, <1>8, <1>9

\* A frame from the server may close the transport or have the replay
\* acknowledged; it brings no key.
LEMMA FrameKeys ==
  ASSUME KeysInv, NEW s \in Sockets, FrameArrives(s)
  PROVE  KeysInv'
<1>1. transport[s] = "open"
  BY DEF FrameArrives
<1>2. CASE SocketCloses(s)
  BY <1>2, CloseKeys
<1>3. CASE Head(frames[s]) # "close" /\ upstream' = upstream
  <2>1. /\ transport' \in [Sockets -> {"closed", "connecting", "accepted", "open"}]
        /\ \A t \in Sockets : transport'[t] = transport[t] \/ transport'[t] = "closed"
        /\ UNCHANGED <<link, sockets, ws, typed, received>>
    BY <1>3 DEF FrameArrives, server, client, input, KeysInv, KeysTyped
  <2>2. QueueShrinks
    BY <1>3 DEF FrameArrives, client, input, StopsFor, Over, Discards, QueueShrinks
  <2> QED BY <1>3, <2>1, <2>2, Shrinks DEF KeysInv, KeysTyped, OneWire, Readable
<1>4. CASE /\ Head(frames[s]) = "replay-complete"
           /\ upstream' = [upstream EXCEPT ![s] = Append(@, 0)]
  <2>1. UNCHANGED <<transport, link, sockets, ws, inputQueue, typed, received, void>>
    BY <1>4 DEF FrameArrives, server, client, input
  <2> QED BY <1>1, <1>4, <2>1, SendsOne
<1> QED BY <1>2, <1>3, <1>4 DEF FrameArrives

\* A key is sent or queued; a queue that is too long loses its first key.
LEMMA SendKeys == ASSUME KeysInv, SendInput PROVE KeysInv'
<1> USE DEF KeysInv
<1>1. /\ ws # 0 /\ typed' = typed + 1 /\ typed \in Nat /\ inputQueue \in Seq(Nat)
      /\ UNCHANGED <<received, void, transport, link, sockets, ws>>
  BY DEF SendInput, client, server, KeysTyped
<1>2. CASE /\ transport[ws] = "open" /\ inputQueue = <<>> /\ ws \in Sockets
           /\ upstream' = [upstream EXCEPT ![ws] = Append(@, typed')]
           /\ inputQueue' = inputQueue
  <2> DEFINE k == typed'
  <2>1. /\ k \in Nat /\ k = typed + 1 /\ typed' = k /\ transport[ws] \in {"accepted", "open"}
        /\ upstream' = [upstream EXCEPT ![ws] = Append(@, k)]
    BY <1>1, <1>2
  <2> HIDE DEF k
  <2> QED BY <1>1, <1>2, <2>1, SendsOne
<1>3. CASE UNCHANGED <<upstream, inputQueue>>
  <2>1. 1..typed \subseteq 1..typed'
    BY <1>1
  <2>2. KeysTyped' /\ OneWire' /\ OneSource' /\ InOrder'
    BY <1>1, <1>3 DEF KeysTyped, OneWire, OneSource, InOrder, Readable
  <2>3. VoidIsGone'
    BY <1>1, <1>3, <2>1 DEF VoidIsGone
  <2> QED BY <2>2, <2>3
<1>4. CASE /\ upstream' = upstream
           /\ \/ inputQueue' = Append(inputQueue, typed')
              \/ inputQueue' = Tail(Append(inputQueue, typed'))
  <2> DEFINE longer == Append(inputQueue, typed')
  <2>1. AllBelow(KeysOf(inputQueue), {typed'} \ {0})
    <3> SUFFICES ASSUME NEW a \in KeysOf(inputQueue) PROVE a < typed'
      BY DEF AllBelow
    <3>1. a \in 1..typed
      BY DEF VoidIsGone, KeysOf
    <3> QED BY <1>1, <3>1
  <2>2. /\ longer \in Seq(Nat) /\ Rising(longer)
        /\ ToSet(longer) = ToSet(inputQueue) \cup {typed'}
        /\ KeysOf(longer) = KeysOf(inputQueue) \cup ({typed'} \ {0})
    BY <1>1, <2>1, AppendKeys DEF InOrder
  <2>3. longer # <<>>
    <3>1. typed' \in ToSet(longer)
      BY <2>2
    <3> QED BY <3>1, EmptyKeys
  <2> HIDE DEF longer
  <2>4. /\ inputQueue' \in Seq(Nat) /\ Rising(inputQueue')
        /\ ToSet(inputQueue') \subseteq ToSet(inputQueue) \cup {typed'}
        /\ KeysOf(inputQueue') \subseteq KeysOf(inputQueue) \cup {typed'}
    <3>1. inputQueue' = longer \/ inputQueue' = Tail(longer)
      BY <1>4 DEF longer
    <3>2. CASE inputQueue' = longer
      BY <2>2, <3>2
    <3>3. CASE inputQueue' = Tail(longer)
      BY <2>2, <2>3, <3>3, TailKeys
    <3> QED BY <3>1, <3>2, <3>3
  <2>5. KeysTyped' /\ OneWire' /\ OneSource'
    BY <1>1, <1>4, <2>4 DEF KeysTyped, OneWire, OneSource, Readable
  <2>6. /\ \A a \in KeysOf(received) : a < typed'
        /\ \A t \in Sockets : \A a \in KeysOf(upstream[t]) : a < typed'
    <3>1. \A a \in 1..typed : a < typed'
      BY <1>1
    <3> QED BY <3>1 DEF VoidIsGone, KeysOf
  <2>7. InOrder'
    BY <1>1, <1>4, <2>4, <2>6 DEF InOrder, AllBelow, Readable
  <2>8. VoidIsGone'
    <3>1. 1..typed \subseteq 1..typed' /\ typed' \in 1..typed' /\ typed' \notin 1..typed
      BY <1>1
    <3> QED BY <1>1, <1>4, <2>4, <3>1 DEF VoidIsGone
  <2> QED BY <2>5, <2>7, <2>8
<1>5. \/ /\ transport[ws] = "open" /\ inputQueue = <<>>
         /\ upstream' = [upstream EXCEPT ![ws] = Append(@, typed')]
         /\ inputQueue' = inputQueue
      \/ /\ upstream' = upstream
         /\ \/ inputQueue' = inputQueue \/ inputQueue' = Append(inputQueue, typed')
            \/ inputQueue' = Tail(Append(inputQueue, typed'))
  BY DEF SendInput
<1>6. CASE ws \notin Sockets /\ upstream' = [upstream EXCEPT ![ws] = Append(@, typed')]
           /\ inputQueue' = inputQueue
  <2>1. upstream' = upstream
    BY <1>6 DEF KeysTyped
  <2> QED BY <1>3, <1>6, <2>1
<1> QED BY <1>2, <1>3, <1>4, <1>5, <1>6

\* The queue is flushed into a transport that opens.
LEMMA FlushKeys ==
  ASSUME KeysInv, NEW s \in Sockets, TransportOpens(s)
  PROVE  KeysInv'
<1> USE DEF KeysInv
<1>1. /\ transport[s] = "accepted" /\ transport' = [transport EXCEPT ![s] = "open"]
      /\ upstream' = [upstream EXCEPT ![s] = @ \o inputQueue] /\ inputQueue' = <<>>
      /\ UNCHANGED <<link, sockets, ws, typed, received, void>>
  BY DEF TransportOpens, server
<1>2. /\ upstream[s] \in Seq(Nat) /\ inputQueue \in Seq(Nat) /\ Rising(upstream[s])
      /\ Rising(inputQueue) /\ AllBelow(KeysOf(upstream[s]), KeysOf(inputQueue))
  BY DEF KeysTyped, InOrder
<1> DEFINE all == upstream[s] \o inputQueue
<1>3. /\ all \in Seq(Nat) /\ Rising(all)
      /\ KeysOf(all) = KeysOf(upstream[s]) \cup KeysOf(inputQueue)
  BY <1>2, ConcatKeys
<1>4. \A t \in Sockets : /\ upstream'[t] = IF t = s THEN all ELSE upstream[t]
                         /\ transport'[t] = IF t = s THEN "open" ELSE transport[t]
  BY <1>1 DEF KeysTyped
<1>5. KeysTyped'
  <2>1. upstream' \in [Sockets -> Seq(Nat)]
    BY <1>1, <1>3 DEF KeysTyped
  <2>2. transport' \in [Sockets -> {"closed", "connecting", "accepted", "open"}]
    BY <1>1 DEF KeysTyped
  <2> QED BY <1>1, <2>1, <2>2, EmptyKeys DEF KeysTyped
<1> HIDE DEF all
<1>6. OneWire'
  BY <1>1, <1>4 DEF OneWire
<1>7. OneSource'
  <2>1. \A t \in Sockets : Readable(t)' <=> Readable(t)
    BY <1>1 DEF Readable
  <2>2. \A t \in Sockets \ {s} : Readable(t) => upstream[t] = <<>>
    BY <1>1 DEF OneSource
  <2>3. \A t \in Sockets \ {s} : transport[t] = "closed"
    BY <1>1 DEF OneWire
  <2> QED BY <1>4, <2>1, <2>2, <2>3 DEF OneSource
<1>8. InOrder'
  <2>1. \A t \in Sockets : Readable(t)' <=> Readable(t)
    BY <1>1 DEF Readable
  <2>2. \A t \in Sockets : Rising(upstream'[t])
    BY <1>3, <1>4 DEF InOrder
  <2>3. KeysOf(inputQueue') = {} /\ Rising(inputQueue') /\ received' = received
    BY <1>1, EmptyKeys
  <2>4. ASSUME NEW t \in Sockets, Readable(t) PROVE AllBelow(KeysOf(received), KeysOf(upstream'[t]))
    BY <1>3, <1>4, <2>4 DEF InOrder, AllBelow
  <2> QED BY <2>1, <2>2, <2>3, <2>4 DEF InOrder, AllBelow
<1>9. VoidIsGone'
  <2>1. KeysOf(inputQueue) \subseteq (1..typed) \ void
    BY DEF VoidIsGone, KeysOf
  <2> QED BY <1>1, <1>3, <1>4, <2>1, EmptyKeys DEF VoidIsGone
<1> QED BY <1>5, <1>6, <1>7, <1>8, <1>9

\* A transport is accepted once the earlier ones were read.
LEMMA AcceptKeys ==
  ASSUME KeysInv, NEW s \in Sockets, SocketOpen(s)
  PROVE  KeysInv'
<1> USE DEF KeysInv
<1>1. /\ transport[s] = "connecting"
      /\ \A t \in sockets : transport[t] = "closed" /\ link[t] => upstream[t] = <<>>
      /\ UNCHANGED <<upstream, ws, inputQueue, typed, received, void>>
  BY DEF SocketOpen, client, input
<1>2. upstream[s] = <<>> /\ \A t \in Sockets \ {s} : transport[t] = "closed"
  BY <1>1 DEF OneWire
<1>3. CASE alive
  <2>1. /\ transport' = [transport EXCEPT ![s] = "accepted"] /\ sockets' = sockets \cup {s}
        /\ link' = link
    BY <1>3 DEF SocketOpen
  <2>2. \A t \in Sockets : transport'[t] = IF t = s THEN "accepted" ELSE transport[t]
    BY <2>1 DEF KeysTyped
  <2>3. \A t \in Sockets \ {s} : Readable(t)' <=> Readable(t)
    BY <2>1 DEF Readable
  <2>4. KeysTyped' /\ OneWire'
    BY <1>1, <2>1, <2>2 DEF KeysTyped, OneWire
  <2>5. \A t \in Sockets \ {s} : Readable(t) => upstream[t] = <<>>
    BY <1>1, <1>2 DEF Readable
  <2>6. OneSource'
    BY <1>1, <1>2, <2>2, <2>3, <2>5 DEF OneSource
  <2>7. InOrder'
    BY <1>1, <1>2, <2>3, EmptyKeys DEF InOrder, AllBelow
  <2>8. VoidIsGone'
    BY <1>1 DEF VoidIsGone
  <2> QED BY <2>4, <2>6, <2>7, <2>8
<1>4. CASE ~alive
  <2>1. UNCHANGED <<transport, sockets>> /\ link' = [link EXCEPT ![s] = FALSE]
    BY <1>4 DEF SocketOpen
  <2>2. \A t \in Sockets : link'[t] => link[t]
    BY <2>1 DEF KeysTyped
  <2>3. link' \in [Sockets -> BOOLEAN]
    BY <2>1 DEF KeysTyped
  <2> QED BY <1>1, <2>1, <2>2, <2>3, Shrinks DEF QueueShrinks, Readable, KeysTyped, OneWire
<1> QED BY <1>3, <1>4

\* A message is read.
LEMMA ReadKeys ==
  ASSUME KeysInv, NEW s \in Sockets, SocketMessage(s)
  PROVE  KeysInv'
<1> USE DEF KeysInv
<1> DEFINE k == Head(upstream[s])
           rest == Tail(upstream[s])
<1>1. /\ Readable(s) /\ upstream[s] # <<>> /\ upstream' = [upstream EXCEPT ![s] = rest]
      /\ received' = IF k = 0 THEN received ELSE Append(received, k)
      /\ UNCHANGED <<transport, link, sockets, ws, inputQueue, typed, void>>
  BY DEF SocketMessage, client, Readable
<1>2. /\ rest \in Seq(Nat) /\ Rising(rest) /\ k \in ToSet(upstream[s]) /\ k \in Nat
      /\ KeysOf(rest) \subseteq KeysOf(upstream[s])
      /\ k # 0 => \A a \in KeysOf(rest) : k < a
  BY <1>1, TailKeys DEF KeysTyped, InOrder
<1>3. \A t \in Sockets : /\ upstream'[t] = IF t = s THEN rest ELSE upstream[t]
                         /\ Readable(t)' <=> Readable(t)
  BY <1>1 DEF KeysTyped, Readable
<1>4. upstream' \in [Sockets -> Seq(Nat)]
  BY <1>1, <1>2 DEF KeysTyped
<1>5. CASE k = 0
  <2> HIDE DEF k, rest
  <2>1. \A t \in Sockets : KeysOf(upstream'[t]) \subseteq KeysOf(upstream[t]) /\ Rising(upstream'[t])
    BY <1>2, <1>3 DEF InOrder
  <2>2. \A t \in Sockets : upstream[t] = <<>> => upstream'[t] = <<>>
    BY <1>1, <1>3
  <2>3. received' = received
    BY <1>1, <1>5
  <2>4. KeysTyped'
    BY <1>1, <1>4, <2>3 DEF KeysTyped
  <2>5. OneWire' /\ OneSource'
    BY <1>1, <1>3, <2>2 DEF OneWire, OneSource
  <2>6. InOrder'
    BY <1>1, <1>3, <2>1, <2>3 DEF InOrder, AllBelow
  <2>7. VoidIsGone'
    BY <1>1, <2>1, <2>3 DEF VoidIsGone
  <2> QED BY <2>4, <2>5, <2>6, <2>7
<1>6. CASE k # 0
  <2> HIDE DEF k, rest
  <2>1. k \in KeysOf(upstream[s]) /\ k \in (1..typed) \ void
    BY <1>2, <1>6 DEF KeysOf, VoidIsGone
  <2>2. AllBelow(KeysOf(received), {k} \ {0})
    BY <1>1, <2>1 DEF InOrder, AllBelow
  <2>3. /\ received' \in Seq(Nat) /\ Rising(received')
        /\ ToSet(received') = ToSet(received) \cup {k}
        /\ KeysOf(received') = KeysOf(received) \cup ({k} \ {0})
    BY <1>1, <1>2, <1>6, <2>2, AppendKeys DEF KeysTyped, InOrder
  <2>4. KeysTyped' /\ OneWire'
    BY <1>1, <1>2, <1>3, <1>4, <2>3 DEF KeysTyped, OneWire
  <2>5. \A t \in Sockets \ {s} : Readable(t) => upstream[t] = <<>>
    BY <1>1 DEF OneSource
  <2>6. OneSource'
    BY <1>1, <1>3, <2>5 DEF OneSource
  <2>7. InOrder'
    <3>1. \A t \in Sockets \ {s} : Readable(t) => KeysOf(upstream[t]) = {}
      BY <2>5, EmptyKeys
    <3>2. AllBelow(KeysOf(received'), KeysOf(inputQueue))
      BY <2>1, <2>3 DEF InOrder, AllBelow
    <3>3. ASSUME NEW t \in Sockets, Readable(t)
          PROVE  AllBelow(KeysOf(received'), KeysOf(upstream'[t]))
      <4>1. CASE t = s
        BY <1>2, <1>3, <1>6, <2>3, <3>3, <4>1 DEF InOrder, AllBelow
      <4>2. CASE t # s
        BY <1>3, <3>1, <3>3, <4>2 DEF AllBelow
      <4> QED BY <4>1, <4>2
    <3>4. \A t \in Sockets : /\ Rising(upstream'[t])
                             /\ AllBelow(KeysOf(upstream'[t]), KeysOf(inputQueue))
      BY <1>2, <1>3 DEF InOrder, AllBelow
    <3> QED BY <1>1, <1>3, <2>3, <3>2, <3>3, <3>4 DEF InOrder
  <2>8. VoidIsGone'
    <3>1. k \notin ToSet(inputQueue)
      BY <1>2, <1>6, <2>1 DEF InOrder, AllBelow, KeysOf
    <3> QED BY <1>1, <1>2, <1>3, <2>1, <2>3, <3>1 DEF VoidIsGone
  <2> QED BY <2>4, <2>6, <2>7, <2>8
<1> QED BY <1>5, <1>6

\* Every step keeps the order of the keys.
LEMMA NextKeys == ASSUME KeysInv, [ConnectionNext]_connectionVars PROVE KeysInv'
  BY ClientShrinks, ServerShrinks, FrameKeys, SendKeys, FlushKeys, AcceptKeys, ReadKeys
  DEF ConnectionNext, ConnectionWork, ConnectionRequests

\* Keys are received once and in the order they were typed, whatever happens to
\* the transports, and none that was void when the terminal was closed or over.
THEOREM ConnectionInputSafe == ConnectionSpec => []InputSafe
<1>1. KeysInv /\ [ConnectionNext]_connectionVars => KeysInv'
  BY NextKeys
<1>2. KeysInv => InputSafe
  <2> SUFFICES ASSUME KeysInv PROVE InputSafe
    OBVIOUS
  <2>1. \A i \in DOMAIN received : received[i] # 0
    BY DEF KeysInv, VoidIsGone, ToSet
  <2> QED BY <2>1 DEF KeysInv, InOrder, VoidIsGone, Rising, InputSafe
<1> QED BY <1>1, <1>2, InitKeys, PTL DEF ConnectionSpec

-----------------------------------------------------------------------------
(* A reconnecting terminal: the types of what both ends hold.               *)

ServerTyped ==
  /\ sockets \subseteq Sockets /\ closing \subseteq sockets
  /\ alive \in BOOLEAN /\ hadSocketConnection \in BOOLEAN /\ output \in 0..MaxOutput

ClientTyped ==
  /\ ws \in Sockets \cup {0} /\ clientStatus \in ClientStatuses
  /\ behavior \in {"auto", "manual"} /\ retryCount \in 0..MaxRetries
  /\ openedOnce \in BOOLEAN /\ awaitingReconnectReady \in BOOLEAN
  /\ intentionallyClosed \in BOOLEAN
  /\ reconnect \in {"none", "timer", "classify"}

Counted == typed \in 0..MaxKeys /\ clientEvents \in 0..MaxClientEvents

ConnectionTyped == ServerTyped /\ ClientTyped /\ Counted

\* The bounds are natural numbers (ConnectionAssumption).
LEMMA CountersAreNat ==
  /\ MaxRetries \in Nat /\ MaxKeys \in Nat /\ MaxOutput \in Nat /\ MaxClientEvents \in Nat
  BY ConnectionAssumption

\* Zero retries are within the bound.
LEMMA ZeroFits == 0 \in 0..MaxRetries
  BY CountersAreNat

\* The first page has its types.
LEMMA InitConnectionTyped == ConnectionInit => ConnectionTyped
<1> SUFFICES ASSUME ConnectionInit PROVE ConnectionTyped
  OBVIOUS
<1>1. ServerTyped /\ Counted
  BY CountersAreNat DEF ConnectionInit, ConnectionFrom, ServerTyped, Counted
<1>2. ClientTyped
  BY ZeroFits, ConnectionAssumption
     DEF ConnectionInit, ConnectionFrom, ClientTyped, ClientStatuses
<1> QED BY <1>1, <1>2 DEF ConnectionTyped

\* A transport that closes keeps the types.
LEMMA ClosesTyped ==
  ASSUME ConnectionTyped, NEW s \in Sockets, SocketCloses(s)
  PROVE  ConnectionTyped'
<1> USE DEF ConnectionTyped
<1>1. ServerTyped' /\ Counted'
  BY DEF SocketCloses, server, ServerTyped, Counted
<1>2. ScheduleReconnect => retryCount' \in 0..MaxRetries
  BY CountersAreNat DEF ScheduleReconnect, ClientTyped
<1>3. ScheduleReconnect => clientStatus' \in ClientStatuses /\ reconnect' \in {"none", "timer", "classify"}
  BY DEF ScheduleReconnect, ClientTyped, ClientStatuses
<1>4. ClientTyped'
  BY <1>2, <1>3 DEF SocketCloses, ClientTyped
<1> QED BY <1>1, <1>4

\* A frame from the server keeps the types.
LEMMA FrameTyped ==
  ASSUME ConnectionTyped, NEW s \in Sockets, FrameArrives(s)
  PROVE  ConnectionTyped'
<1>1. CASE SocketCloses(s)
  BY <1>1, ClosesTyped
<1>2. CASE UNCHANGED <<client, input, server, clientEvents>>
  BY <1>2 DEF client, input, server, ConnectionTyped, ServerTyped, ClientTyped, Counted
<1>3. CASE /\ UNCHANGED <<ws, behavior, openedOnce, reconnect, typed, received, server, clientEvents>>
           /\ awaitingReconnectReady' \in BOOLEAN /\ clientStatus' \in ClientStatuses
           /\ retryCount' \in {0, retryCount} /\ intentionallyClosed' \in BOOLEAN
  BY <1>3, CountersAreNat DEF server, ConnectionTyped, ServerTyped, ClientTyped, Counted
<1>4. ASSUME StopsFor("exited") \/ StopsFor("taken_over"), UNCHANGED retryCount
      PROVE  /\ awaitingReconnectReady' \in BOOLEAN /\ clientStatus' \in ClientStatuses
             /\ retryCount' \in {0, retryCount} /\ intentionallyClosed' \in BOOLEAN
  BY <1>4 DEF StopsFor, ClientStatuses
<1>5. CASE ~SocketCloses(s) /\ ~UNCHANGED <<client, input, server, clientEvents>>
  <2>1. UNCHANGED <<ws, behavior, openedOnce, reconnect, typed, received, server, clientEvents>>
    BY <1>5 DEF FrameArrives
  <2>2. /\ awaitingReconnectReady' \in BOOLEAN /\ clientStatus' \in ClientStatuses
        /\ retryCount' \in {0, retryCount} /\ intentionallyClosed' \in BOOLEAN
    BY <1>4, <1>5 DEF FrameArrives, ConnectionTyped, ClientTyped, ClientStatuses
  <2> QED BY <1>3, <2>1, <2>2
<1> QED BY <1>1, <1>2, <1>5

\* The browser's own steps keep the types.
LEMMA ClientStepsTyped ==
  ASSUME ConnectionTyped, NEW s \in Sockets,
         \/ TransportOpens(s) \/ TransportLost(s) \/ ReconnectTimer(s)
         \/ \E outcome \in {"retry", "gone", "blocked"} : Classified(outcome)
  PROVE  ConnectionTyped'
<1> USE DEF ConnectionTyped
<1>1. CASE TransportOpens(s)
  BY ZenonT(60), <1>1, ZeroFits DEF TransportOpens, server, ServerTyped, ClientTyped, Counted, ClientStatuses
<1>2. CASE TransportLost(s)
  BY <1>2, ClosesTyped DEF TransportLost
<1>3. CASE ReconnectTimer(s)
  BY <1>3 DEF ReconnectTimer, Connects, server, input, ServerTyped, ClientTyped, Counted
<1>4. ASSUME NEW outcome \in {"retry", "gone", "blocked"}, Classified(outcome)
      PROVE  ConnectionTyped'
  BY <1>4 DEF Classified, StopsFor, server, ServerTyped, ClientTyped, Counted, ClientStatuses
<1> QED BY <1>1, <1>2, <1>3, <1>4

\* The user, the network, the pane and the service keep the types.
LEMMA RequestsTyped ==
  ASSUME ConnectionTyped, ConnectionRequests
  PROVE  ConnectionTyped'
<1> USE DEF ConnectionTyped
<1>1. ClientEvent => clientEvents' \in 0..MaxClientEvents
  BY CountersAreNat DEF ClientEvent, Counted
<1>2. CASE SendInput
  <2>1. typed' \in 0..MaxKeys
    BY <1>2, CountersAreNat DEF SendInput, Counted
  <2> QED BY <1>2, <2>1 DEF SendInput, server, client, ServerTyped, ClientTyped, Counted
<1>3. CASE InputExpires
  BY <1>3 DEF InputExpires, server, client, ServerTyped, ClientTyped, Counted
<1>4. CASE UserDisconnects
  BY <1>1, <1>4 DEF UserDisconnects, StopsFor, server, ServerTyped, ClientTyped, Counted, ClientStatuses
<1>5. ASSUME NEW s \in Sockets, RetryConnection(s) PROVE ConnectionTyped'
  BY <1>1, <1>5, ZeroFits
     DEF RetryConnection, Connects, server, input, ServerTyped, ClientTyped, Counted
<1>6. ASSUME NEW s \in Sockets, ApplyReconnectBehavior(s) PROVE ConnectionTyped'
  BY ZenonT(60), <1>1, <1>6, ZeroFits
     DEF ApplyReconnectBehavior, Connects, server, input, ServerTyped, ClientTyped, Counted, ClientStatuses
<1>7. CASE BroadcastTerminalOutput
  <2>1. output' \in 0..MaxOutput
    BY <1>7, CountersAreNat DEF BroadcastTerminalOutput, ServerTyped
  <2> QED BY <1>7, <2>1 DEF BroadcastTerminalOutput, client, input, ServerTyped, ClientTyped, Counted
<1>8. CASE SessionHandoff
  BY <1>1, <1>8 DEF SessionHandoff, client, input, ServerTyped, ClientTyped, Counted
<1>9. CASE TerminalExits
  BY <1>1, <1>9 DEF TerminalExits, client, input, ServerTyped, ClientTyped, Counted
<1>10. CASE Restarts
  BY <1>1, <1>10 DEF Restarts, client, input, ServerTyped, ClientTyped, Counted
<1>11. ASSUME NEW s \in Sockets, LinkDies(s) PROVE ConnectionTyped'
  BY <1>1, <1>11 DEF LinkDies, server, client, input, ServerTyped, ClientTyped, Counted
<1> QED BY <1>2, <1>3, <1>4, <1>5, <1>6, <1>7, <1>8, <1>9, <1>10, <1>11 DEF ConnectionRequests

\* What the server does for a socket keeps the types.
LEMMA ServerStepsTyped ==
  ASSUME ConnectionTyped, NEW s \in Sockets,
         \/ SocketOpen(s) \/ SocketMessage(s) \/ ReplayTimeout(s) \/ ReplayCompletes(s)
         \/ ReplayReady(s) \/ SocketClose(s) \/ HandoffCloses(s)
  PROVE  ConnectionTyped'
<1>1. ClientTyped' /\ Counted'
  BY DEF SocketOpen, SocketMessage, ReplayTimeout, ReplayCompletes, ReplayReady, SocketClose,
         HandoffCloses, client, input, ConnectionTyped, ClientTyped, Counted
<1>2. ServerTyped'
  BY DEF SocketOpen, SocketMessage, ReplayTimeout, ReplayCompletes, ReplayReady, SocketClose,
         HandoffCloses, ConnectionTyped, ServerTyped
<1> QED BY <1>1, <1>2 DEF ConnectionTyped

\* Every step keeps the types.
LEMMA NextConnectionTyped ==
  ASSUME ConnectionTyped, [ConnectionNext]_connectionVars PROVE ConnectionTyped'
<1>1. Sockets # {}
  BY ConnectionAssumption
<1>2. CASE ConnectionNext
  BY <1>1, <1>2, FrameTyped, ClientStepsTyped, ServerStepsTyped, RequestsTyped
     DEF ConnectionNext, ConnectionWork
<1>3. CASE UNCHANGED connectionVars
  BY <1>3 DEF connectionVars, server, client, input, ConnectionTyped, ServerTyped, ClientTyped, Counted
<1> QED BY <1>2, <1>3

\* A sequence whose elements are in a set is a sequence over that set.
LEMMA SeqOver ==
  ASSUME NEW f \in Seq(Nat), NEW S, \A i \in DOMAIN f : f[i] \in S
  PROVE  f \in Seq(S)
<1>1. Len(f) \in Nat /\ DOMAIN f = 1..Len(f) /\ f = [i \in 1..Len(f) |-> f[i]]
  BY LenProperties
<1> QED BY <1>1, IsASeq

\* With the order of the keys, the lengths of queues and frames fit.
LEMMA ConnectionTypes ==
  ASSUME ConnectionTyped, KeysInv, ReplayInv PROVE ConnectionTypeOK
<1>1. 1..typed \subseteq 1..MaxKeys /\ 1..typed \subseteq 0..MaxKeys /\ 0 \in 0..MaxKeys
  BY CountersAreNat DEF ConnectionTyped, Counted
<1>2. inputQueue \in Seq(1..MaxKeys) /\ received \in Seq(1..MaxKeys) /\ void \subseteq 1..MaxKeys
  <2>1. /\ \A i \in DOMAIN inputQueue : inputQueue[i] \in 1..MaxKeys
        /\ \A i \in DOMAIN received : received[i] \in 1..MaxKeys
    BY <1>1 DEF KeysInv, VoidIsGone, ToSet
  <2> QED BY <1>1, <2>1, SeqOver DEF KeysInv, KeysTyped, VoidIsGone
<1>3. ASSUME NEW s \in Sockets PROVE upstream[s] \in Seq(0..MaxKeys)
  <2>1. \A i \in DOMAIN upstream[s] : upstream[s][i] \in 0..MaxKeys
    BY <1>1 DEF KeysInv, VoidIsGone, KeysOf, ToSet
  <2> QED BY <2>1, SeqOver DEF KeysInv, KeysTyped
<1>4. upstream \in [Sockets -> Seq(0..MaxKeys)]
  BY <1>3 DEF KeysInv, KeysTyped
<1> QED BY <1>2, <1>4 DEF ConnectionTypeOK, ConnectionTyped, ServerTyped, ClientTyped,
           Counted, KeysInv, KeysTyped, ReplayInv, FramesTyped, Phases

\* What both ends of a connection hold keeps its type; a key that is queued,
\* under way or received is one that was typed.
THEOREM ConnectionTypeCorrect == ConnectionSpec => []ConnectionTypeOK
<1>1. ConnectionTyped /\ KeysInv /\ ReplayInv /\ [ConnectionNext]_connectionVars
        => (ConnectionTyped /\ KeysInv /\ ReplayInv)'
  BY NextConnectionTyped, NextKeys, NextReplay
<1>2. ConnectionTyped /\ KeysInv /\ ReplayInv => ConnectionTypeOK
  BY ConnectionTypes
<1> QED BY <1>1, <1>2, InitConnectionTyped, InitKeys, InitReplay, PTL
        DEF ConnectionSpec

-----------------------------------------------------------------------------
(* Saving: the mtime that a tab or a PUT holds tells which text it knows.  *)

EditorRecords ==
  [load : {"closed", "loading", "open"}, text : Nat, base : Nat, mtime : Nat,
   edited : BOOLEAN, failed : BOOLEAN, timer : BOOLEAN]
PutRecords ==
  [by : Editors \cup {NoTab}, text : Nat, base : Nat, mtime : Nat,
   step : {"none", "sent", "checked", "written", "stored", "refused"}]

SaveTyped ==
  /\ disk \in [text : Nat, mtime : Nat] /\ edits \in Nat
  /\ editors \in [Editors -> EditorRecords]
  /\ puts \in [1..MaxPuts -> PutRecords]

TabKnows ==
  \A t \in Editors :
    /\ editors[t].load # "closed" => editors[t].mtime <= disk.mtime
    /\ editors[t].timer => editors[t].load = "open"
    /\ editors[t].load = "open" /\ editors[t].mtime = disk.mtime =>
         editors[t].base = disk.text

PutKnows ==
  \A n \in 1..MaxPuts :
    /\ puts[n].step # "none" => puts[n].mtime <= disk.mtime
    /\ puts[n].step \in {"sent", "checked"} /\ puts[n].mtime = disk.mtime =>
         puts[n].base = disk.text
    /\ puts[n].step = "stored" /\ puts[n].mtime = disk.mtime =>
         puts[n].text = disk.text
    /\ puts[n].step = "checked" => puts[n].mtime = disk.mtime
    /\ puts[n].step = "written" => puts[n].text = disk.text

OneWriter ==
  \A n, m \in 1..MaxPuts :
    puts[n].step \in {"checked", "written"} /\ puts[m].step \in {"checked", "written"} =>
      n = m

SaveInv == SaveTyped /\ TabKnows /\ PutKnows /\ OneWriter

\* At the start no file is open and no PUT is made.
LEMMA InitSave == SaveInit => SaveInv
<1> SUFFICES ASSUME SaveInit PROVE SaveInv
  OBVIOUS
<1>1. Closed \in EditorRecords /\ NoPut \in PutRecords
  BY DEF Closed, NoPut, EditorRecords, PutRecords, NoTab
<1>2. SaveTyped
  BY <1>1 DEF SaveInit, SaveTyped
<1>3. TabKnows /\ PutKnows /\ OneWriter
  BY DEF SaveInit, TabKnows, PutKnows, OneWriter, Closed, NoPut
<1> QED BY <1>2, <1>3 DEF SaveInv

\* A slot that is free is filled with a PUT that carries what its tab knows.
LEMMA SendsKnown ==
  ASSUME SaveInv, NEW t \in Editors, editors[t].load = "open", FreeSlots # {},
         SendsPut(t), NEW e \in [Editors -> EditorRecords], editors' = e,
         \A u \in Editors : /\ e[u].load = editors[u].load /\ e[u].base = editors[u].base
                            /\ e[u].mtime = editors[u].mtime
                            /\ e[u].timer => editors[u].timer,
         UNCHANGED disk, edits' \in Nat
  PROVE  SaveInv'
<1> DEFINE put == [by |-> t, text |-> editors[t].text, base |-> editors[t].base,
                   mtime |-> editors[t].mtime, step |-> "sent"]
<1>1. FirstFree \in 1..MaxPuts /\ puts[FirstFree].step = "none"
  BY DEF FirstFree, FreeSlots, SaveInv, SaveTyped
<1>2. put \in PutRecords
  BY DEF SaveInv, SaveTyped, EditorRecords, PutRecords
<1>3. puts' = [puts EXCEPT ![FirstFree] = put]
  BY DEF SendsPut
<1>4. SaveTyped'
  BY <1>1, <1>2, <1>3 DEF SaveInv, SaveTyped
<1>5. TabKnows'
  BY DEF SaveInv, TabKnows
<1>6. PutKnows'
  BY <1>1, <1>3 DEF SaveInv, SaveTyped, TabKnows, PutKnows
<1>7. OneWriter'
  BY <1>1, <1>3 DEF SaveInv, SaveTyped, OneWriter
<1> QED BY <1>4, <1>5, <1>6, <1>7 DEF SaveInv

\* The steps of a tab, a PUT that it sends included, keep what it knows.
LEMMA TabSteps ==
  ASSUME SaveInv, NEW t \in Editors,
         \/ Stats(t) \/ Reads(t) \/ Type(t) \/ SaveManual(t) \/ AutosaveFires(t)
         \/ CloseEditor(t)
  PROVE  SaveInv'
<1>1. CASE Stats(t)
  <2>1. editors[t] \in EditorRecords /\ disk \in [text : Nat, mtime : Nat] /\ edits \in Nat
    BY DEF SaveInv, SaveTyped
  <2>2. SaveTyped'
    <3>1. editors' \in [Editors -> EditorRecords]
      BY <1>1, <2>1 DEF Stats, SaveInv, SaveTyped, EditorRecords
    <3>2. edits' \in Nat
      BY <1>1, <2>1 DEF Stats, Counts
    <3> QED BY <1>1, <3>1, <3>2 DEF Stats, SaveInv, SaveTyped
  <2>3. TabKnows'
    BY <1>1, <2>1 DEF Stats, Counts, SaveInv, SaveTyped, EditorRecords, TabKnows
  <2>4. PutKnows' /\ OneWriter'
    BY <1>1 DEF Stats, Counts, SaveInv, PutKnows, OneWriter
  <2> QED BY <2>2, <2>3, <2>4 DEF SaveInv
<1>2. CASE Reads(t)
  <2>1. editors[t] \in EditorRecords /\ disk \in [text : Nat, mtime : Nat] /\ edits \in Nat
    BY DEF SaveInv, SaveTyped
  <2>2. SaveTyped'
    BY <1>2, <2>1 DEF Reads, SaveInv, SaveTyped, EditorRecords
  <2>3. TabKnows'
    BY <1>2, <2>1 DEF Reads, SaveInv, SaveTyped, EditorRecords, TabKnows
  <2>4. PutKnows' /\ OneWriter'
    BY <1>2 DEF Reads, SaveInv, PutKnows, OneWriter
  <2> QED BY <2>2, <2>3, <2>4 DEF SaveInv
<1>3. CASE Type(t)
  <2>1. editors[t] \in EditorRecords /\ disk \in [text : Nat, mtime : Nat] /\ edits \in Nat
    BY DEF SaveInv, SaveTyped
  <2>2. SaveTyped'
    <3>1. editors' \in [Editors -> EditorRecords]
      <4> DEFINE runs == t \in Autosaving /\ ~editors[t].failed
      <4>1. runs \in BOOLEAN
        OBVIOUS
      <4>2. editors' = [editors EXCEPT ![t].text = edits + 1, ![t].edited = TRUE,
                                       ![t].timer = runs]
        BY <1>3 DEF Type
      <4>3. edits + 1 \in Nat
        BY <2>1
      <4> HIDE DEF runs
      <4> QED BY <2>1, <4>1, <4>2, <4>3 DEF SaveInv, SaveTyped, EditorRecords
    <3>2. edits' \in Nat
      BY <1>3, <2>1 DEF Type, Counts
    <3> QED BY <1>3, <3>1, <3>2 DEF Type, SaveInv, SaveTyped
  <2>3. TabKnows'
    BY <1>3, <2>1 DEF Type, Counts, SaveInv, SaveTyped, EditorRecords, TabKnows
  <2>4. PutKnows' /\ OneWriter'
    BY <1>3 DEF Type, Counts, SaveInv, PutKnows, OneWriter
  <2> QED BY <2>2, <2>3, <2>4 DEF SaveInv
<1>4. CASE SaveManual(t)
  <2>1. editors \in [Editors -> EditorRecords] /\ edits' \in Nat
    BY <1>4 DEF SaveManual, Counts, SaveInv, SaveTyped
  <2> QED BY <1>4, <2>1, SendsKnown DEF SaveManual
<1>5. CASE AutosaveFires(t)
  <2> DEFINE e == [editors EXCEPT ![t].timer = FALSE]
  <2>0. editors[t].load = "open"
    BY <1>5 DEF AutosaveFires, SaveInv, TabKnows
  <2>1. e \in [Editors -> EditorRecords]
    BY DEF SaveInv, SaveTyped, EditorRecords
  <2>2. \A u \in Editors : /\ e[u].load = editors[u].load /\ e[u].base = editors[u].base
                           /\ e[u].mtime = editors[u].mtime
                           /\ e[u].timer => editors[u].timer
    BY DEF SaveInv, SaveTyped, EditorRecords
  <2>3. editors' = e /\ UNCHANGED <<disk, edits>>
    BY <1>5 DEF AutosaveFires
  <2>4. CASE SendsPut(t)
    BY <1>5, <2>0, <2>1, <2>2, <2>3, <2>4, SendsKnown DEF AutosaveFires, SaveInv, SaveTyped
  <2>5. CASE UNCHANGED puts
    <3>1. SaveTyped'
      BY <2>1, <2>3, <2>5 DEF SaveInv, SaveTyped
    <3>2. TabKnows' /\ PutKnows' /\ OneWriter'
      BY <2>2, <2>3, <2>5 DEF SaveInv, TabKnows, PutKnows, OneWriter
    <3> QED BY <3>1, <3>2 DEF SaveInv
  <2> QED BY <1>5, <2>4, <2>5 DEF AutosaveFires
<1>6. CASE CloseEditor(t)
  <2>1. Closed \in EditorRecords
    BY DEF Closed, EditorRecords
  <2>2. \A n \in 1..MaxPuts : [puts[n] EXCEPT !.by = NoTab] \in PutRecords
    BY DEF SaveInv, SaveTyped, PutRecords
  <2>3. \A n \in 1..MaxPuts : /\ puts'[n].step = puts[n].step /\ puts'[n].mtime = puts[n].mtime
                              /\ puts'[n].base = puts[n].base /\ puts'[n].text = puts[n].text
    BY <1>6 DEF CloseEditor, SaveInv, SaveTyped, PutRecords
  <2>4. SaveTyped'
    BY <1>6, <2>1, <2>2 DEF CloseEditor, SaveInv, SaveTyped
  <2>5. TabKnows'
    BY <1>6 DEF CloseEditor, SaveInv, SaveTyped, TabKnows, Closed
  <2>6. PutKnows' /\ OneWriter'
    BY <1>6, <2>3 DEF CloseEditor, SaveInv, PutKnows, OneWriter
  <2> QED BY <2>4, <2>5, <2>6 DEF SaveInv
<1> QED BY <1>1, <1>2, <1>3, <1>4, <1>5, <1>6

\* The steps of a PUT at the server, with no other writer in between.
LEMMA PutSteps ==
  ASSUME SaveInv, "writer" \notin SaveOverlaps, NEW n \in 1..MaxPuts,
         PutChecks(n) \/ PutWrites(n) \/ PutStats(n) \/ PutFails(n)
  PROVE  SaveInv'
<1> USE DEF SaveInv
<1>0. puts[n] \in PutRecords /\ disk \in [text : Nat, mtime : Nat]
  BY DEF SaveTyped
<1>1. CASE PutChecks(n)
  <2>1. \A m \in 1..MaxPuts : puts[m].step \notin {"checked", "written"}
    BY <1>1 DEF PutChecks, Undisturbed, SaveTyped
  <2>2. SaveTyped'
    BY <1>0, <1>1 DEF PutChecks, SaveTyped, PutRecords
  <2>3. TabKnows'
    BY <1>1 DEF PutChecks, TabKnows
  <2>4. PutKnows' /\ OneWriter'
    BY <1>0, <1>1, <2>1 DEF PutChecks, SaveTyped, PutRecords, PutKnows, OneWriter
  <2> QED BY <2>2, <2>3, <2>4
<1>2. CASE PutWrites(n)
  <2>1. \A m \in 1..MaxPuts : m # n => puts[m].step \notin {"checked", "written"}
    BY <1>2 DEF PutWrites, OneWriter
  <2>2. disk'.mtime = disk.mtime + 1 /\ disk'.text = puts[n].text /\ disk' \in [text : Nat, mtime : Nat]
    BY <1>0, <1>2 DEF PutWrites, PutRecords
  <2>3. SaveTyped'
    BY <1>0, <1>2, <2>2 DEF PutWrites, SaveTyped, PutRecords
  <2>4. TabKnows'
    BY <1>0, <1>2, <2>2 DEF PutWrites, SaveTyped, EditorRecords, TabKnows
  <2>5. PutKnows' /\ OneWriter'
    BY SMTT(30), <1>0, <1>2, <2>1, <2>2 DEF PutWrites, SaveTyped, PutRecords, PutKnows, OneWriter
  <2> QED BY <2>3, <2>4, <2>5
<1>3. CASE PutStats(n)
  <2>1. SaveTyped'
    BY <1>0, <1>3 DEF PutStats, SaveTyped, PutRecords
  <2>2. TabKnows'
    BY <1>3 DEF PutStats, TabKnows
  <2>3. PutKnows' /\ OneWriter'
    BY <1>0, <1>3 DEF PutStats, SaveTyped, PutRecords, PutKnows, OneWriter
  <2> QED BY <2>1, <2>2, <2>3
<1>4. CASE PutFails(n)
  <2>1. SaveTyped'
    BY <1>0, <1>4 DEF PutFails, SaveTyped, PutRecords
  <2>2. TabKnows'
    BY <1>4 DEF PutFails, TabKnows
  <2>3. PutKnows' /\ OneWriter'
    BY <1>0, <1>4 DEF PutFails, SaveTyped, PutRecords, PutKnows, OneWriter
  <2> QED BY <2>1, <2>2, <2>3
<1> QED BY <1>1, <1>2, <1>3, <1>4

\* What an answer tells its tab of the disk is so if the mtime still is.
LEMMA AnswerStep ==
  ASSUME SaveInv, NEW n \in 1..MaxPuts, Answer(n)
  PROVE  SaveInv'
<1> USE DEF SaveInv
<1>0. /\ puts[n] \in PutRecords /\ disk \in [text : Nat, mtime : Nat]
      /\ NoPut \in PutRecords /\ NoPut.step = "none"
  BY DEF SaveTyped, NoPut, PutRecords
<1>1. puts' = [puts EXCEPT ![n] = NoPut] /\ UNCHANGED <<disk, edits>>
  BY DEF Answer
<1>2. PutKnows' /\ OneWriter'
  BY <1>0, <1>1 DEF SaveTyped, PutKnows, OneWriter
<1>3. editors' \in [Editors -> EditorRecords] /\ TabKnows'
  <2>1. CASE UNCHANGED editors
    BY <1>1, <2>1 DEF SaveTyped, TabKnows
  <2>2. CASE puts[n].by # NoTab /\ puts[n].step = "stored"
             /\ editors' = SavedAs(puts[n].by, puts[n].mtime, puts[n].text)
    <3>1. PICK t \in Editors : t = puts[n].by
      BY <1>0, <2>2 DEF PutRecords
    <3>2. /\ editors[t] \in EditorRecords /\ puts[n].mtime \in Nat /\ puts[n].text \in Nat
          /\ puts[n].mtime <= disk.mtime
          /\ puts[n].mtime = disk.mtime => puts[n].text = disk.text
      BY <1>0, <2>2 DEF SaveTyped, PutRecords, PutKnows
    <3>3. editors' = [editors EXCEPT ![t].mtime = puts[n].mtime, ![t].base = puts[n].text,
                        ![t].edited = FALSE, ![t].failed = FALSE, ![t].timer = FALSE]
      BY <2>2, <3>1 DEF SavedAs
    <3> QED BY <1>1, <3>2, <3>3 DEF SaveTyped, EditorRecords, TabKnows
  <2>3. CASE puts[n].by # NoTab /\ editors' = FailedSave(n)
    <3>1. PICK t \in Editors : t = puts[n].by
      BY <1>0, <2>3 DEF PutRecords
    <3>2. editors' = [editors EXCEPT ![t].failed = TRUE]
      BY <2>3, <3>1 DEF FailedSave
    <3> QED BY ZenonT(60), <1>1, <3>2 DEF SaveTyped, EditorRecords, TabKnows
  <2> QED BY <2>1, <2>2, <2>3 DEF Answer
<1>4. SaveTyped'
  BY <1>0, <1>1, <1>3 DEF SaveTyped
<1> QED BY <1>2, <1>3, <1>4

\* After another program's write no tab and no PUT has the disk's mtime.
LEMMA WriterStep ==
  ASSUME SaveInv, "writer" \notin SaveOverlaps, ExternalWrite
  PROVE  SaveInv'
<1> USE DEF SaveInv
<1>1. \A m \in 1..MaxPuts : puts[m].step \notin {"checked", "written"}
  BY DEF ExternalWrite, Undisturbed, SaveTyped
<1>2. /\ disk \in [text : Nat, mtime : Nat] /\ disk' \in [text : Nat, mtime : Nat]
      /\ disk'.mtime = disk.mtime + 1 /\ edits' \in Nat /\ UNCHANGED <<editors, puts>>
  BY DEF ExternalWrite, Counts, SaveTyped
<1>3. SaveTyped'
  BY <1>2 DEF SaveTyped
<1>4. TabKnows'
  BY <1>2 DEF SaveTyped, EditorRecords, TabKnows
<1>5. PutKnows' /\ OneWriter'
  BY <1>1, <1>2 DEF SaveTyped, PutRecords, PutKnows, OneWriter
<1> QED BY <1>3, <1>4, <1>5

\* Every step keeps what tabs and PUTs know.
LEMMA NextSave ==
  ASSUME SaveInv, "writer" \notin SaveOverlaps, [SaveNext]_saveVars
  PROVE  SaveInv'
<1>1. CASE SaveNext
  <2>1. DOMAIN puts = 1..MaxPuts
    BY DEF SaveInv, SaveTyped
  <2> QED BY <1>1, <2>1, TabSteps, PutSteps, AnswerStep, WriterStep DEF SaveNext, SaveWork
<1>2. CASE UNCHANGED saveVars
  BY <1>2 DEF saveVars, SaveInv, SaveTyped, TabKnows, PutKnows, OneWriter
<1> QED BY <1>1, <1>2

\* Where no other writer comes between a PUT's check and its answer, a save
\* replaces only the version its tab knew, for any tabs, saves and outside edits.
THEOREM SaveNoSilentOverwrite ==
  ASSUME "writer" \notin SaveOverlaps PROVE SaveSpec => NoSilentOverwrite
<1>1. SaveInv /\ [SaveNext]_saveVars => SaveInv'
  BY NextSave
<1>2. SaveInv => (\A n \in DOMAIN puts : puts[n].step = "checked" => puts[n].base = disk.text)
  BY DEF SaveInv, SaveTyped, PutKnows
<1>3. SaveInv => [\A n \in DOMAIN puts :
                    puts[n].step = "checked" /\ puts'[n].step = "written" =>
                      puts[n].base = disk.text]_saveVars
  BY <1>2
<1> QED BY <1>1, <1>3, InitSave, PTL DEF SaveSpec, NoSilentOverwrite

-----------------------------------------------------------------------------
(* Saving: types, and what a tab or a PUT knows of the disk was there.      *)

Texts == 0..MaxEdits

\* What a tab has read or stored was on disk; a timer runs in an edited tab only.
EditorFits(e, t) ==
  /\ e \in EditorRecords /\ e.text \in Texts
  /\ e.load = "open" => e.base \in written
  /\ e.timer => e.load = "open" /\ e.edited /\ t \in Autosaving

\* What a PUT has written was on disk, and its tab is open, if it has one.
PutFits(p) ==
  /\ p \in PutRecords /\ p.text \in Texts
  /\ p.step \in {"written", "stored"} => p.text \in written
  /\ p.by # NoTab => p.step # "none" /\ editors[p.by].load = "open"

SaveTypesInv ==
  /\ edits \in Texts /\ disk \in [text : written, mtime : Nat]
  /\ written \subseteq Texts
  /\ DOMAIN editors = Editors /\ DOMAIN puts = 1..MaxPuts
  /\ editors = [t \in Editors |-> editors[t]] /\ puts = [n \in 1..MaxPuts |-> puts[n]]
  /\ \A t \in Editors : EditorFits(editors[t], t)
  /\ \A n \in 1..MaxPuts : PutFits(puts[n])

\* A text is the number of the edit that made it.
LEMMA TextsAreNat == Texts \subseteq Nat /\ 0 \in Texts
  BY SaveAssumption DEF Texts

\* Nothing is open, nothing is sent.
LEMMA InitSaveTypes == SaveInit => SaveTypesInv
  BY TextsAreNat DEF SaveInit, SaveTypesInv, EditorFits, PutFits, EditorRecords,
     PutRecords, Closed, NoPut, NoTab

\* One tab changes.
LEMMA TabChanges ==
  ASSUME SaveTypesInv, NEW t \in Editors, NEW e, editors' = [editors EXCEPT ![t] = e],
         EditorFits(e, t), editors[t].load = "open" => e.load = "open",
         UNCHANGED <<disk, written, puts>>, edits' \in Texts
  PROVE  SaveTypesInv'
<1>1. \A u \in Editors : EditorFits(editors[u], u)'
  BY DEF SaveTypesInv, EditorFits
<1>2. \A n \in 1..MaxPuts : PutFits(puts[n])'
  BY DEF SaveTypesInv, PutFits, PutRecords
<1> QED BY <1>1, <1>2 DEF SaveTypesInv

\* One PUT changes.
LEMMA PutChanges ==
  ASSUME SaveTypesInv, NEW n \in 1..MaxPuts, NEW p, puts' = [puts EXCEPT ![n] = p],
         PutFits(p), UNCHANGED <<disk, written, editors>>, edits' \in Texts
  PROVE  SaveTypesInv'
<1>1. \A u \in Editors : EditorFits(editors[u], u)'
  BY DEF SaveTypesInv, EditorFits
<1>2. \A m \in 1..MaxPuts : PutFits(puts[m])'
  BY DEF SaveTypesInv, PutFits
<1> QED BY <1>1, <1>2 DEF SaveTypesInv

\* The next edit's number is a text.
LEMMA CountsFits == ASSUME edits \in Texts, Counts PROVE edits' \in Texts /\ edits + 1 \in Texts
  BY SaveAssumption DEF Counts, Texts

\* A tab that loads or is typed into keeps its types.
LEMMA TabTypes ==
  ASSUME SaveTypesInv, NEW t \in Editors, Stats(t) \/ Reads(t) \/ Type(t)
  PROVE  SaveTypesInv'
<1>1. /\ EditorFits(editors[t], t) /\ edits \in Texts
      /\ disk \in [text : written, mtime : Nat] /\ written \subseteq Texts
  BY DEF SaveTypesInv
<1>2. CASE Stats(t)
  <2>1. EditorFits([editors[t] EXCEPT !.load = "loading", !.mtime = disk.mtime], t)
    BY <1>1, <1>2 DEF Stats, EditorFits, EditorRecords
  <2>2. editors' = [editors EXCEPT ![t] = [editors[t] EXCEPT !.load = "loading", !.mtime = disk.mtime]]
    BY <1>2 DEF Stats, SaveTypesInv
  <2> QED BY <1>1, <1>2, <2>1, <2>2, CountsFits, TabChanges DEF Stats
<1>3. CASE Reads(t)
  <2>1. EditorFits([editors[t] EXCEPT !.load = "open", !.text = disk.text, !.base = disk.text], t)
    BY <1>1, <1>3, TextsAreNat DEF Reads, EditorFits, EditorRecords
  <2>2. editors' = [editors EXCEPT ![t] =
          [editors[t] EXCEPT !.load = "open", !.text = disk.text, !.base = disk.text]]
    BY <1>3 DEF Reads, SaveTypesInv
  <2> QED BY <1>1, <1>3, <2>1, <2>2, TabChanges DEF Reads
<1>4. CASE Type(t)
  <2> DEFINE e == [editors[t] EXCEPT !.text = edits + 1, !.edited = TRUE,
                                     !.timer = t \in Autosaving /\ ~editors[t].failed]
  <2>1. EditorFits(e, t) /\ e.load = editors[t].load
    BY <1>1, <1>4, CountsFits, TextsAreNat DEF Type, EditorFits, EditorRecords
  <2>2. editors' = [editors EXCEPT ![t] = e]
    BY <1>4 DEF Type, SaveTypesInv
  <2>3. edits' \in Texts /\ UNCHANGED <<disk, written, puts>>
    BY <1>1, <1>4, CountsFits DEF Type
  <2> HIDE DEF e
  <2> QED BY <2>1, <2>2, <2>3, TabChanges
<1> QED BY <1>2, <1>3, <1>4

\* A PUT that is sent names an open tab and its text.
LEMMA SendTypes ==
  ASSUME SaveTypesInv, NEW t \in Editors, editors[t].load = "open", FreeSlots # {}, SendsPut(t)
  PROVE  \E n \in 1..MaxPuts, p \in PutRecords :
            puts' = [puts EXCEPT ![n] = p] /\ PutFits(p)
<1> DEFINE p == [by |-> t, text |-> editors[t].text, base |-> editors[t].base,
                 mtime |-> editors[t].mtime, step |-> "sent"]
<1>1. FirstFree \in 1..MaxPuts
  BY DEF FirstFree, FreeSlots, SaveTypesInv
<1>2. EditorFits(editors[t], t)
  BY DEF SaveTypesInv
<1>3. PutFits(p)
  BY <1>2 DEF PutFits, EditorFits, EditorRecords, PutRecords
<1> QED BY <1>1, <1>3 DEF SendsPut, PutFits

\* Saving by hand or by the timer keeps the types.
LEMMA SendingTypes ==
  ASSUME SaveTypesInv, NEW t \in Editors, SaveManual(t) \/ AutosaveFires(t)
  PROVE  SaveTypesInv'
<1>1. EditorFits(editors[t], t) /\ edits \in Texts
  BY DEF SaveTypesInv
<1>2. CASE SaveManual(t)
  <2>1. PICK n \in 1..MaxPuts, p \in PutRecords :
                  puts' = [puts EXCEPT ![n] = p] /\ PutFits(p)
    BY <1>2, SendTypes DEF SaveManual
  <2> QED BY <1>1, <1>2, <2>1, CountsFits, PutChanges DEF SaveManual
<1>3. CASE AutosaveFires(t)
  <2> DEFINE e == [editors[t] EXCEPT !.timer = FALSE]
  <2>1. EditorFits(e, t) /\ e.load = editors[t].load /\ editors[t].load = "open"
    BY <1>1, <1>3 DEF AutosaveFires, EditorFits, EditorRecords
  <2>2. editors' = [editors EXCEPT ![t] = e] /\ UNCHANGED <<disk, written, edits>>
    BY <1>3 DEF AutosaveFires, SaveTypesInv
  <2>3. \A u \in Editors : EditorFits(editors[u], u)' /\ editors'[u].load = editors[u].load
    <3> HIDE DEF e
    <3> QED BY <2>1, <2>2 DEF SaveTypesInv, EditorFits
  <2>4. \A q : PutFits(q) => PutFits(q)'
    BY <2>2, <2>3 DEF PutFits, PutRecords
  <2>5. CASE editors[t].failed
    <3>1. puts' = puts
      BY <1>3, <2>5 DEF AutosaveFires
    <3> HIDE DEF e
    <3> QED BY <2>2, <2>3, <2>4, <3>1 DEF SaveTypesInv
  <2>6. CASE ~editors[t].failed
    <3>1. PICK n \in 1..MaxPuts, p \in PutRecords :
                  puts' = [puts EXCEPT ![n] = p] /\ PutFits(p)
      BY <1>3, <2>1, <2>6, SendTypes DEF AutosaveFires
    <3>2. \A m \in 1..MaxPuts : PutFits(puts[m])'
      BY <2>4, <3>1 DEF SaveTypesInv, PutFits
    <3> HIDE DEF e
    <3> QED BY <2>2, <2>3, <3>1, <3>2 DEF SaveTypesInv
  <2> QED BY <2>5, <2>6
<1> QED BY <1>2, <1>3

\* A PUT at the server keeps the types.
LEMMA PutTypes ==
  ASSUME SaveTypesInv, NEW n \in 1..MaxPuts, PutChecks(n) \/ PutStats(n) \/ PutFails(n)
  PROVE  SaveTypesInv'
<1>1. PutFits(puts[n]) /\ edits \in Texts /\ disk.mtime \in Nat /\ DOMAIN puts = 1..MaxPuts
  BY DEF SaveTypesInv
<1>2. CASE PutChecks(n)
  <2> DEFINE p == [puts[n] EXCEPT !.step = IF disk.mtime = puts[n].mtime THEN "checked" ELSE "refused"]
  <2>1. PutFits(p) /\ puts' = [puts EXCEPT ![n] = p] /\ UNCHANGED <<disk, written, editors, edits>>
    BY <1>1, <1>2 DEF PutChecks, PutFits, PutRecords
  <2> HIDE DEF p
  <2> QED BY <1>1, <2>1, PutChanges
<1>3. CASE PutStats(n)
  <2> DEFINE p == [puts[n] EXCEPT !.step = "stored", !.mtime = disk.mtime]
  <2>1. PutFits(p) /\ puts' = [puts EXCEPT ![n] = p] /\ UNCHANGED <<disk, written, editors, edits>>
    BY <1>1, <1>3 DEF PutStats, PutFits, PutRecords
  <2> HIDE DEF p
  <2> QED BY <1>1, <2>1, PutChanges
<1>4. CASE PutFails(n)
  <2> DEFINE p == [puts[n] EXCEPT !.step = "refused"]
  <2>1. PutFits(p) /\ puts' = [puts EXCEPT ![n] = p] /\ UNCHANGED <<disk, written, editors, edits>>
    BY <1>1, <1>4 DEF PutFails, PutFits, PutRecords
  <2> HIDE DEF p
  <2> QED BY <1>1, <2>1, PutChanges
<1> QED BY <1>2, <1>3, <1>4

\* The disk gets a text, of a PUT or of another program.
LEMMA WriteTypes ==
  ASSUME SaveTypesInv, ExternalWrite \/ \E n \in 1..MaxPuts : PutWrites(n)
  PROVE  SaveTypesInv'
<1>0. edits \in Texts /\ disk.mtime \in Nat /\ written \subseteq Texts /\ DOMAIN puts = 1..MaxPuts
  BY DEF SaveTypesInv
<1>1. ASSUME NEW x \in Texts, written' = written \cup {x},
             disk' = [text |-> x, mtime |-> disk.mtime + 1], UNCHANGED editors
      PROVE  /\ \A t \in Editors : EditorFits(editors[t], t)'
             /\ \A q : PutFits(q) => PutFits(q)'
             /\ written' \subseteq Texts /\ disk' \in [text : written', mtime : Nat]
  BY <1>0, <1>1 DEF SaveTypesInv, EditorFits, PutFits
<1>2. CASE ExternalWrite
  <2>1. edits + 1 \in Texts /\ edits' \in Texts
    BY <1>0, <1>2, CountsFits DEF ExternalWrite
  <2> QED BY <1>1, <1>2, <2>1 DEF ExternalWrite, SaveTypesInv
<1>3. ASSUME NEW n \in 1..MaxPuts, PutWrites(n) PROVE SaveTypesInv'
  <2> DEFINE p == [puts[n] EXCEPT !.step = "written"]
  <2>1. PutFits(puts[n]) /\ puts[n].text \in Texts
    BY DEF SaveTypesInv, PutFits
  <2>2. puts' = [puts EXCEPT ![n] = p] /\ UNCHANGED <<editors, edits>>
    BY <1>3 DEF PutWrites
  <2>3. /\ \A t \in Editors : EditorFits(editors[t], t)'
        /\ \A q : PutFits(q) => PutFits(q)'
        /\ written' \subseteq Texts /\ disk' \in [text : written', mtime : Nat]
    BY <1>1, <1>3, <2>1 DEF PutWrites
  <2>4. PutFits(p)'
    BY <1>3, <2>1 DEF PutWrites, PutFits, PutRecords
  <2>5. p' = p 
    BY <2>2 
  <2> HIDE DEF p
  <2>6. \A m \in 1..MaxPuts : PutFits(puts[m])'
    BY <2>2, <2>3, <2>4, <2>5 DEF SaveTypesInv, PutFits
  <2> QED BY <1>0, <2>2, <2>3, <2>6 DEF SaveTypesInv
<1> QED BY <1>2, <1>3

\* The answer of a PUT keeps the types of its tab.
LEMMA AnswerTypes ==
  ASSUME SaveTypesInv, NEW n \in 1..MaxPuts, Answer(n)
  PROVE  SaveTypesInv'
<1> DEFINE t == puts[n].by
<1>0. PutFits(puts[n]) /\ DOMAIN puts = 1..MaxPuts /\ edits \in Texts
  BY DEF SaveTypesInv
<1>1. PutFits(NoPut) /\ NoPut.by = NoTab
  BY TextsAreNat DEF NoPut, PutFits, PutRecords
<1>2. puts' = [puts EXCEPT ![n] = NoPut] /\ UNCHANGED <<disk, written, edits>>
  BY DEF Answer
<1>3. CASE UNCHANGED editors
  BY <1>0, <1>1, <1>2, <1>3, PutChanges
<1>4. ASSUME NEW e, t # NoTab, editors' = [editors EXCEPT ![t] = e],
             t \in Editors => EditorFits(e, t) /\ e.load = editors[t].load
      PROVE  SaveTypesInv'
  <2>1. t \in Editors
    BY <1>0, <1>4 DEF PutFits, PutRecords
  <2>2. \A u \in Editors : EditorFits(editors[u], u)' /\ editors'[u].load = editors[u].load
    BY <1>2, <1>4, <2>1 DEF SaveTypesInv, EditorFits
  <2>3. \A q : PutFits(q) => PutFits(q)'
    BY <1>2, <2>2 DEF PutFits, PutRecords
  <2>4. \A m \in 1..MaxPuts : PutFits(puts[m])'
    BY <1>1, <1>2, <2>3 DEF SaveTypesInv
  <2> QED BY ZenonT(60), <1>2, <1>4, <2>2, <2>4 DEF SaveTypesInv
<1>5. t \in Editors => EditorFits(editors[t], t)
  BY DEF SaveTypesInv
<1>6. CASE t # NoTab /\ puts[n].step = "stored" /\ editors' = SavedAs(t, puts[n].mtime, puts[n].text)
  <2> DEFINE e == [editors[t] EXCEPT !.mtime = puts[n].mtime, !.base = puts[n].text,
                     !.edited = FALSE, !.failed = FALSE, !.timer = FALSE]
  <2>1. t \in Editors => EditorFits(e, t) /\ e.load = editors[t].load
    BY <1>0, <1>5, <1>6 DEF PutFits, PutRecords, EditorFits, EditorRecords
  <2>2. editors' = [editors EXCEPT ![t] = e]
    BY <1>6 DEF SavedAs, SaveTypesInv
  <2> HIDE DEF e, t
  <2> QED BY <1>4, <1>6, <2>1, <2>2
<1>7. CASE t # NoTab /\ editors' = FailedSave(n)
  <2> DEFINE e == [editors[t] EXCEPT !.failed = TRUE]
  <2>1. t \in Editors => EditorFits(e, t) /\ e.load = editors[t].load
    BY <1>5 DEF EditorFits, EditorRecords
  <2>2. editors' = [editors EXCEPT ![t] = e]
    BY <1>7 DEF FailedSave, SaveTypesInv
  <2> HIDE DEF e, t
  <2> QED BY <1>4, <1>7, <2>1, <2>2
<1> QED BY <1>3, <1>6, <1>7 DEF Answer

\* A tab that closes leaves its PUTs without a tab.
LEMMA CloseTypes ==
  ASSUME SaveTypesInv, NEW t \in Editors, CloseEditor(t)
  PROVE  SaveTypesInv'
<1>0. DOMAIN puts = 1..MaxPuts /\ DOMAIN editors = Editors /\ edits \in Texts
  BY DEF SaveTypesInv
<1>1. EditorFits(Closed, t) /\ Closed.load = "closed"
  BY TextsAreNat DEF Closed, EditorFits, EditorRecords
<1>2. editors' = [editors EXCEPT ![t] = Closed] /\ UNCHANGED <<disk, written, edits>>
  BY DEF CloseEditor
<1>3. \A u \in Editors : EditorFits(editors[u], u)' /\ (u # t => editors'[u] = editors[u])
  BY <1>0, <1>1, <1>2 DEF SaveTypesInv, EditorFits
<1>4. ASSUME NEW n \in 1..MaxPuts PROVE PutFits(puts[n])'
  <2>1. PutFits(puts[n])
    BY DEF SaveTypesInv
  <2>2. CASE n \in InFlight(t)
    <3>1. puts'[n] = [puts[n] EXCEPT !.by = NoTab]
      BY <1>0, <2>2 DEF CloseEditor
    <3> QED BY <1>2, <2>1, <3>1 DEF PutFits, PutRecords
  <2>3. CASE n \notin InFlight(t)
    <3>1. puts'[n] = puts[n]
      BY <1>0, <2>3 DEF CloseEditor
    <3>2. puts[n].by # t
      BY <1>0, <2>1, <2>3, SaveAssumption DEF InFlight, PutFits
    <3> QED BY <1>2, <1>3, <2>1, <3>1, <3>2 DEF PutFits, PutRecords
  <2> QED BY <2>2, <2>3
<1>5. DOMAIN puts' = 1..MaxPuts /\ puts' = [n \in 1..MaxPuts |-> puts'[n]]
  BY <1>0 DEF CloseEditor
<1> QED BY <1>0, <1>2, <1>3, <1>4, <1>5 DEF SaveTypesInv

\* Every step keeps it.
LEMMA NextSaveTypes == ASSUME SaveTypesInv, [SaveNext]_saveVars PROVE SaveTypesInv'
<1>1. DOMAIN puts = 1..MaxPuts
  BY DEF SaveTypesInv
<1>2. CASE SaveNext
  BY <1>1, <1>2, TabTypes, SendingTypes, PutTypes, WriteTypes, AnswerTypes, CloseTypes
     DEF SaveNext, SaveWork
<1>3. CASE UNCHANGED saveVars
  BY <1>3 DEF saveVars, SaveTypesInv, EditorFits, PutFits
<1> QED BY <1>2, <1>3

\* The strengthening states the types.
LEMMA SaveTypes == ASSUME SaveTypesInv PROVE SaveTypeOK
  BY DEF SaveTypesInv, SaveTypeOK, EditorFits, PutFits, EditorRecords, PutRecords, Texts

\* Whoever types, saves or writes: what an open tab knows of the disk was on it,
\* and autosave's timer runs in edited tabs only.
THEOREM SaveTypeCorrect == SaveSpec => []SaveTypeOK
<1>1. SaveTypesInv /\ [SaveNext]_saveVars => SaveTypesInv'
  BY NextSaveTypes
<1>2. SaveTypesInv => SaveTypeOK
  BY SaveTypes
<1> QED BY <1>1, <1>2, InitSaveTypes, PTL DEF SaveSpec

-----------------------------------------------------------------------------
(* The editor's tabs.                                                      *)

\* Types of the tabs and of the controller's page.
TabRecords == [key : Keys, preview : BOOLEAN]
PageRecords == [bodies : SUBSET Keys, mounting : [Keys -> {"none", "attached", "detached"}],
                mounted : Keys \cup {NoKey}, shown : Keys \cup {NoKey}]

\* A list of tabs has each file once and one preview.
TabsFit(ts) ==
  /\ ts \in Seq(TabRecords)
  /\ \A i, j \in DOMAIN ts :
       ts[i].key = ts[j].key \/ (ts[i].preview /\ ts[j].preview) => i = j

\* A body that fills is cached and a mount whose body was dropped has none; the
\* body that is shown is cached, and is filling or the mounted one.
PageFits(p) ==
  /\ p \in PageRecords
  /\ \A k \in Keys : /\ p.mounting[k] = "detached" => k \notin p.bodies
                     /\ p.mounting[k] = "attached" => k \in p.bodies
  /\ p.shown # NoKey =>
       p.shown \in p.bodies /\ (p.mounting[p.shown] = "attached" \/ p.mounted = p.shown)

ShownFits(p, a) == p.shown \notin {NoKey, a} => p.mounting[p.shown] = "attached"

ActiveFits(ts, a) == a \in OpenKeys(ts) \cup {NoKey} /\ (a = NoKey => ts = <<>>)

TabsInv == /\ TabsFit(tabs) /\ ActiveFits(tabs, active)
           /\ PageFits(page) /\ ShownFits(page, active) /\ page.bodies \subseteq OpenKeys(tabs)

\* Every tab of a list is a tab.
LEMMA TabIsRecord ==
  ASSUME NEW ts, TabsFit(ts), NEW i \in DOMAIN ts
  PROVE  ts[i] \in TabRecords /\ ts[i].key \in Keys /\ ts[i].preview \in BOOLEAN
<1>1. ts[i] \in TabRecords
  BY LenProperties, ElementOfSeq DEF TabsFit
<1> QED BY <1>1 DEF TabRecords

\* The tabs in the list are files of the model.
LEMMA OpenAreKeys == ASSUME NEW ts, TabsFit(ts) PROVE OpenKeys(ts) \subseteq Keys
  BY TabIsRecord DEF OpenKeys

\* A function on 1..n is a sequence.
LEMMA FunSeq == ASSUME NEW S, NEW n \in Nat, NEW f \in [1..n -> S] PROVE f \in Seq(S)
  OBVIOUS

\* The empty list fits.
LEMMA NoTabs == TabsFit(<<>>) /\ OpenKeys(<<>>) = {}
  BY EmptySeq DEF TabsFit, OpenKeys

\* The reducers keep a list of tabs one.
LEMMA PromoteFits ==
  ASSUME NEW ts, TabsFit(ts), NEW k \in Keys
  PROVE  TabsFit(Promote(ts, k)) /\ OpenKeys(Promote(ts, k)) = OpenKeys(ts)
<1> DEFINE new == Promote(ts, k)
<1>1. /\ DOMAIN new = DOMAIN ts
      /\ \A i \in DOMAIN ts : /\ new[i] \in TabRecords /\ new[i].key = ts[i].key
                              /\ new[i].preview => ts[i].preview
  <2> SUFFICES ASSUME NEW i \in DOMAIN ts
               PROVE  /\ new[i] \in TabRecords /\ new[i].key = ts[i].key
                      /\ new[i].preview => ts[i].preview
    BY DEF Promote
  <2>1. new[i] = IF ts[i].key = k THEN Tab(k, FALSE) ELSE ts[i]
    BY DEF Promote
  <2>2. ts[i] \in TabRecords
    BY TabIsRecord
  <2>3. Tab(k, FALSE) \in TabRecords /\ Tab(k, FALSE).key = k /\ ~Tab(k, FALSE).preview
    BY DEF Tab, TabRecords
  <2> HIDE DEF new
  <2> QED BY <2>1, <2>2, <2>3
<1>2. new \in Seq(TabRecords)
  <2>1. Len(ts) \in Nat /\ DOMAIN ts = 1..Len(ts)
    BY DEF TabsFit
  <2>2. new \in [1..Len(ts) -> TabRecords]
    BY <1>1, <2>1 DEF Promote
  <2> HIDE DEF new
  <2> QED BY <2>1, <2>2, FunSeq
<1> HIDE DEF new
<1>3. TabsFit(new)
  BY <1>1, <1>2 DEF TabsFit
<1>4. OpenKeys(new) = OpenKeys(ts)
  BY <1>1 DEF OpenKeys
<1> QED BY <1>3, <1>4 DEF new

\* OpenTab keeps each file once and one preview at most.
LEMMA OpenFits ==
  ASSUME NEW ts, TabsFit(ts), NEW k \in Keys, NEW preview \in BOOLEAN
  PROVE  TabsFit(OpenTab(ts, k, preview)) /\ k \in OpenKeys(OpenTab(ts, k, preview))
<1>1. Tab(k, TRUE) \in TabRecords /\ Tab(k, preview) \in TabRecords
  BY DEF Tab, TabRecords
<1>2. CASE k \in OpenKeys(ts)
  BY <1>2, PromoteFits DEF OpenTab
<1>3. CASE k \notin OpenKeys(ts) /\ preview /\ HasPreview(ts)
  <2> DEFINE i0 == CHOOSE i \in DOMAIN ts : ts[i].preview
             new == [ts EXCEPT ![i0] = Tab(k, TRUE)]
  <2>1. i0 \in DOMAIN ts /\ ts[i0].preview
    BY <1>3 DEF HasPreview
  <2>2. OpenTab(ts, k, preview) = new
    BY <1>3 DEF OpenTab
  <2> HIDE DEF i0
  <2>3. DOMAIN new = DOMAIN ts /\ new \in Seq(TabRecords)
    <3>1. ts \in Seq(TabRecords) /\ i0 \in 1..Len(ts)
      BY <2>1, LenProperties DEF TabsFit
    <3> QED BY <1>1, <3>1, ExceptSeq
  <2>4. \A i \in DOMAIN ts : new[i] = IF i = i0 THEN Tab(k, TRUE) ELSE ts[i]
    BY DEF TabsFit
  <2>5. \A i \in DOMAIN ts : ts[i].key # k
    BY <1>3 DEF OpenKeys
  <2> HIDE DEF new
  <2>6. \A i \in DOMAIN ts : /\ i # i0 => new[i] = ts[i] /\ ~ts[i].preview
                             /\ i = i0 => new[i].key = k
    BY <2>1, <2>4 DEF Tab, TabsFit
  <2>7. TabsFit(new)
    BY <2>3, <2>5, <2>6 DEF TabsFit
  <2>8. k \in OpenKeys(new)
    BY <2>1, <2>3, <2>6 DEF OpenKeys
  <2> QED BY <2>2, <2>7, <2>8
<1>4. CASE k \notin OpenKeys(ts) /\ ~(preview /\ HasPreview(ts))
  <2> DEFINE new == Append(ts, Tab(k, preview))
  <2>1. OpenTab(ts, k, preview) = new
    BY <1>4 DEF OpenTab
  <2>2. /\ Len(ts) \in Nat /\ DOMAIN ts = 1..Len(ts) /\ new \in Seq(TabRecords)
        /\ DOMAIN new = 1..Len(ts) + 1 /\ new[Len(ts) + 1] = Tab(k, preview)
        /\ \A i \in 1..Len(ts) : new[i] = ts[i]
    BY <1>1, AppendProperties DEF TabsFit
  <2>3. \A i \in DOMAIN ts : ts[i].key # k /\ ~(preview /\ ts[i].preview)
    BY <1>4 DEF OpenKeys, HasPreview
  <2>4. Tab(k, preview).key = k /\ Tab(k, preview).preview = preview
    BY DEF Tab
  <2> HIDE DEF new
  <2>5. \A i \in DOMAIN new : i \in DOMAIN ts \/ i = Len(ts) + 1
    BY <2>2
  <2>6. TabsFit(new)
    BY <2>2, <2>3, <2>4, <2>5 DEF TabsFit
  <2>7. k \in OpenKeys(new)
    <3>1. Len(ts) + 1 \in DOMAIN new
      BY <2>2
    <3> QED BY <2>2, <2>4, <3>1 DEF OpenKeys
  <2> QED BY <2>1, <2>6, <2>7
<1> QED BY <1>2, <1>3, <1>4

\* CloseTab takes its file from the list and no other.
LEMMA CloseFits ==
  ASSUME NEW ts, TabsFit(ts), NEW k \in Keys
  PROVE  /\ TabsFit(CloseTab(ts, k)) /\ OpenKeys(CloseTab(ts, k)) = OpenKeys(ts) \ {k}
<1>1. CASE k \notin OpenKeys(ts)
  BY <1>1 DEF CloseTab
<1>2. CASE k \in OpenKeys(ts)
  <2> DEFINE c == IndexOfTab(ts, k)
             n == Len(ts)
             new == CloseTab(ts, k)
  <2>1. c \in DOMAIN ts /\ ts[c].key = k
    BY <1>2 DEF IndexOfTab, OpenKeys
  <2>2. ts \in Seq(TabRecords) /\ n \in Nat /\ DOMAIN ts = 1..n
    BY DEF TabsFit
  <2>3. new = SubSeq(ts, 1, c - 1) \o SubSeq(ts, c + 1, n)
    BY <1>2 DEF CloseTab, RemoveAt
  <2> HIDE DEF c, n
  <2>4. c \in 1..n
    BY <2>1, <2>2
  <2>5. /\ SubSeq(ts, 1, c - 1) \in Seq(TabRecords) /\ Len(SubSeq(ts, 1, c - 1)) = c - 1
        /\ \A i \in 1..c - 1 : SubSeq(ts, 1, c - 1)[i] = ts[i]
    BY <2>2, <2>4 DEF n
  <2>6. /\ SubSeq(ts, c + 1, n) \in Seq(TabRecords) /\ Len(SubSeq(ts, c + 1, n)) = n - c
        /\ \A i \in 1..n - c : SubSeq(ts, c + 1, n)[i] = ts[c + i]
    <3>1. \A i \in c + 1..n : ts[i] \in TabRecords
      BY <2>2, <2>4, TabIsRecord
    <3>2. n \in Int /\ c + 1 \in Int /\ n - (c + 1) + 1 = n - c
      BY <2>2, <2>4
    <3>3. /\ SubSeq(ts, c + 1, n) \in Seq(TabRecords)
          /\ Len(SubSeq(ts, c + 1, n)) = IF c + 1 <= n THEN n - (c + 1) + 1 ELSE 0
          /\ \A i \in 1..n - (c + 1) + 1 : SubSeq(ts, c + 1, n)[i] = ts[(c + 1) + i - 1]
      BY <3>1, <3>2, SubSeqProperties
    <3>4. \A i \in 1..n - c : (c + 1) + i - 1 = c + i
      BY <2>2, <2>4
    <3> QED BY <2>2, <2>4, <3>2, <3>3, <3>4
  <2> HIDE DEF new
  <2>7. /\ new \in Seq(TabRecords) /\ Len(new) = n - 1 /\ DOMAIN new = 1..n - 1
        /\ \A i \in 1..c - 1 : new[i] = ts[i]
        /\ \A i \in 1..n - c : new[(c - 1) + i] = ts[c + i]
    <3> DEFINE l == SubSeq(ts, 1, c - 1)
               m == SubSeq(ts, c + 1, n)
    <3> HIDE DEF l, m
    <3>1. /\ l \in Seq(TabRecords) /\ Len(l) = c - 1 /\ m \in Seq(TabRecords) /\ Len(m) = n - c
          /\ \A i \in 1..c - 1 : l[i] = ts[i]
          /\ \A i \in 1..n - c : m[i] = ts[c + i]
      BY <2>5, <2>6 DEF l, m
    <3>2. new = l \o m
      BY <2>3 DEF l, m
    <3>3. /\ new \in Seq(TabRecords) /\ Len(new) = n - 1
          /\ \A i \in 1..n - 1 : new[i] = IF i <= c - 1 THEN l[i] ELSE m[i - (c - 1)]
      <4>1. /\ l \o m \in Seq(TabRecords) /\ Len(l \o m) = Len(l) + Len(m)
            /\ \A i \in 1..Len(l) + Len(m) :
                 (l \o m)[i] = IF i <= Len(l) THEN l[i] ELSE m[i - Len(l)]
        BY <3>1, ConcatProperties
      <4>2. Len(l) = c - 1 /\ Len(l) + Len(m) = n - 1
        BY <2>2, <2>4, <3>1
      <4> QED BY <3>2, <4>1, <4>2
    <3>4. DOMAIN new = 1..n - 1
      BY <3>3, LenProperties
    <3>5. \A i \in 1..c - 1 : new[i] = ts[i]
      BY <2>2, <2>4, <3>1, <3>3
    <3>6. ASSUME NEW i \in 1..n - c PROVE new[(c - 1) + i] = ts[c + i]
      <4>1. /\ (c - 1) + i \in 1..n - 1 /\ ~((c - 1) + i <= c - 1)
            /\ ((c - 1) + i) - (c - 1) = i
        BY <2>2, <2>4
      <4> QED BY <3>1, <3>3, <4>1
    <3> QED BY <3>3, <3>4, <3>5, <3>6
  <2>8. \A i \in 1..n - 1 : \/ i < c /\ new[i] = ts[i]
                            \/ i >= c /\ new[i] = ts[i + 1]
    <3> SUFFICES ASSUME NEW i \in 1..n - 1, i >= c PROVE new[i] = ts[i + 1]
      BY <2>4, <2>7
    <3>1. i - (c - 1) \in 1..n - c /\ (c - 1) + (i - (c - 1)) = i /\ c + (i - (c - 1)) = i + 1
      BY <2>2, <2>4
    <3>2. new[(c - 1) + (i - (c - 1))] = ts[c + (i - (c - 1))]
      BY <2>7, <3>1
    <3> QED BY <3>1, <3>2
  <2> DEFINE old(i) == IF i < c THEN i ELSE i + 1
  <2>9. \A i \in DOMAIN new : old(i) \in DOMAIN ts /\ old(i) # c /\ new[i] = ts[old(i)]
    BY <2>2, <2>4, <2>7, <2>8
  <2>10. \A i, j \in DOMAIN new : old(i) = old(j) => i = j
    BY <2>2, <2>4, <2>7
  <2>11. \A j \in DOMAIN ts : j # c => \E i \in DOMAIN new : old(i) = j
    <3> SUFFICES ASSUME NEW j \in 1..n, j # c PROVE \E i \in 1..n - 1 : old(i) = j
      BY <2>2, <2>7
    <3>1. CASE j < c
      BY <2>2, <2>4, <3>1
    <3>2. CASE j > c
      <4>1. j - 1 \in 1..n - 1 /\ old(j - 1) = j
        BY <2>2, <2>4, <3>2
      <4> QED BY <4>1
    <3> QED BY <2>2, <2>4, <3>1, <3>2
  <2> HIDE DEF old
  <2>12. TabsFit(new)
    BY <2>7, <2>9, <2>10 DEF TabsFit
  <2>13. OpenKeys(new) = OpenKeys(ts) \ {k}
    <3>1. \A i \in DOMAIN ts : i # c => ts[i].key # k
      BY <2>1 DEF TabsFit
    <3> QED BY <2>1, <2>9, <2>11, <3>1 DEF OpenKeys
  <2> QED BY <2>12, <2>13 DEF new
<1> QED BY <1>1, <1>2

\* The tab that is active after a close.
LEMMA AfterFits ==
  ASSUME TabsFit(tabs), ActiveFits(tabs, active), NEW k \in Keys
  PROVE  ActiveFits(CloseTab(tabs, k), ActiveAfter(tabs, k))
<1> DEFINE left == CloseTab(tabs, k)
           i == IndexOfTab(tabs, k)
<1>1. TabsFit(left) /\ OpenKeys(left) = OpenKeys(tabs) \ {k}
  BY CloseFits
<1>2. CASE active # k \/ k \notin OpenKeys(tabs)
  <2>1. ActiveAfter(tabs, k) = active
    BY <1>2 DEF ActiveAfter
  <2>2. active = NoKey => CloseTab(tabs, k) = <<>>
    BY NoTabs DEF ActiveFits, CloseTab
  <2> QED BY <1>1, <1>2, <2>1, <2>2, TabsAssumption DEF ActiveFits
<1>3. CASE active = k /\ k \in OpenKeys(tabs) /\ left = <<>>
  BY <1>3 DEF ActiveAfter, ActiveFits
<1>4. CASE active = k /\ k \in OpenKeys(tabs) /\ left # <<>>
  <2>1. i \in DOMAIN tabs
    BY <1>4 DEF IndexOfTab, OpenKeys
  <2>2. i \in Nat /\ i >= 1 /\ Len(left) \in Nat /\ Len(left) >= 1 /\ DOMAIN left = 1..Len(left)
    BY <1>1, <1>4, <2>1, EmptySeq DEF TabsFit
  <2> DEFINE j == IF i <= Len(left) THEN i ELSE Len(left)
  <2>3. j \in DOMAIN left
    BY <2>2
  <2>4. ActiveAfter(tabs, k) = left[j].key
    BY <1>4 DEF ActiveAfter
  <2> HIDE DEF j, left
  <2>5. left[j].key \in OpenKeys(left) /\ OpenKeys(left) \subseteq Keys
    BY <1>1, <2>3, OpenAreKeys DEF OpenKeys
  <2> QED BY <2>4, <2>5, TabsAssumption DEF ActiveFits, left
<1> QED BY <1>2, <1>3, <1>4

\* The controller.
LEMMA DropFits ==
  ASSUME NEW p, PageFits(p), NEW ks
  PROVE  PageFits(DropBodies(p, ks)) /\ DropBodies(p, ks).bodies = p.bodies \ ks
<1> DEFINE d == DropBodies(p, ks)
<1>1. /\ d \in PageRecords /\ d.bodies = p.bodies \ ks
      /\ d.mounted = IF p.mounted \in ks THEN NoKey ELSE p.mounted
      /\ d.shown = IF p.shown \in ks THEN NoKey ELSE p.shown
      /\ \A k \in Keys : d.mounting[k] = IF k \in ks /\ p.mounting[k] = "attached"
                                         THEN "detached" ELSE p.mounting[k]
  BY DEF DropBodies, PageFits, PageRecords
<1> HIDE DEF d
<1>2. PageFits(d)
  BY <1>1 DEF PageFits, PageRecords
<1> QED BY <1>1, <1>2 DEF d

\* RenderActiveBody shows the active tab's body or none.
LEMMA BodyFits ==
  ASSUME NEW p, PageFits(p), NEW a \in Keys \cup {NoKey}, a = NoKey => p.shown = NoKey
  PROVE  LET r == RenderActiveBody(p, a) IN
         PageFits(r) /\ ShownFits(r, a) /\ r.bodies \subseteq p.bodies \cup ({a} \ {NoKey})
<1> DEFINE r == RenderActiveBody(p, a)
<1> USE TabsAssumption
<1>1. CASE a = NoKey \/ p.mounted = a
  <2>1. r = p
    BY <1>1 DEF RenderActiveBody
  <2> HIDE DEF r
  <2>2. p.shown \notin {NoKey, a} => p.mounting[p.shown] = "attached"
    BY <1>1 DEF PageFits
  <2>3. PageFits(r) /\ ShownFits(r, a) /\ r.bodies \subseteq p.bodies
    BY <2>1, <2>2 DEF ShownFits
  <2> QED BY <2>3 DEF r
<1>2. CASE a # NoKey /\ p.mounted # a /\ a \in p.bodies
  <2>1. r = [p EXCEPT !.mounted = a, !.shown = a]
    BY <1>2 DEF RenderActiveBody
  <2>2. /\ r \in PageRecords /\ r.mounted = a /\ r.shown = a
        /\ r.bodies = p.bodies /\ r.mounting = p.mounting
    BY <2>1 DEF PageFits, PageRecords
  <2> QED BY <1>2, <2>2 DEF PageFits, ShownFits
<1>3. CASE a # NoKey /\ p.mounted # a /\ a \notin p.bodies /\ p.mounting[a] # "none"
  <2>1. r = [p EXCEPT !.shown = NoKey]
    BY <1>3 DEF RenderActiveBody
  <2>2. /\ r \in PageRecords /\ r.shown = NoKey
        /\ r.bodies = p.bodies /\ r.mounting = p.mounting
    BY <2>1 DEF PageFits, PageRecords
  <2> QED BY <1>3, <2>2 DEF PageFits, ShownFits
<1>4. CASE a # NoKey /\ p.mounted # a /\ a \notin p.bodies /\ p.mounting[a] = "none"
  <2>1. r = [p EXCEPT !.bodies = @ \cup {a}, !.mounting[a] = "attached", !.shown = a]
    BY <1>4 DEF RenderActiveBody
  <2>2. /\ r \in PageRecords /\ r.shown = a /\ r.bodies = p.bodies \cup {a}
        /\ \A k \in Keys : r.mounting[k] = IF k = a THEN "attached" ELSE p.mounting[k]
    <3>1. /\ p \in PageRecords /\ a \in Keys
          /\ p.mounting \in [Keys -> {"none", "attached", "detached"}]
      BY <1>4 DEF PageFits, PageRecords
    <3>2. r.mounting = [p.mounting EXCEPT ![a] = "attached"]
      BY <2>1, <3>1 DEF PageRecords
    <3>3. r.bodies = p.bodies \cup {a} /\ r.shown = a /\ r.mounted = p.mounted
      BY <2>1, <3>1 DEF PageRecords
    <3>4. r.mounting \in [Keys -> {"none", "attached", "detached"}]
      BY <3>1, <3>2
    <3>5. r = [bodies |-> r.bodies, mounting |-> r.mounting,
               mounted |-> r.mounted, shown |-> r.shown]
      BY <2>1, <3>1 DEF PageRecords
    <3> HIDE DEF r
    <3>6. r \in PageRecords
      BY <3>1, <3>3, <3>4, <3>5 DEF PageRecords
    <3> QED BY <3>1, <3>2, <3>3, <3>6
  <2> QED BY <1>4, <2>2 DEF PageFits, ShownFits
<1> QED BY <1>1, <1>2, <1>3, <1>4

\* Render leaves bodies for open tabs only.
LEMMA RenderFits ==
  ASSUME NEW p, PageFits(p), NEW ts, TabsFit(ts), NEW a, ActiveFits(ts, a)
  PROVE  LET r == Render(p, ts, a) IN
         /\ PageFits(r) /\ ShownFits(r, a) /\ r.bodies \subseteq OpenKeys(ts)
         /\ ts = <<>> => r.shown = NoKey
<1> DEFINE r == Render(p, ts, a)
<1>1. CASE ts = <<>>
  <2> DEFINE d == DropBodies(p, p.bodies)
  <2>1. PageFits(d) /\ d.bodies = {}
    BY DropFits
  <2>2. r = [d EXCEPT !.mounted = NoKey]
    BY <1>1 DEF Render
  <2> HIDE DEF d
  <2>3. /\ r \in PageRecords /\ r.bodies = {} /\ r.shown = d.shown /\ r.mounting = d.mounting
    BY <2>1, <2>2 DEF PageFits, PageRecords
  <2>4. d.shown = NoKey
    BY <2>1 DEF PageFits
  <2> HIDE DEF r
  <2>5. PageFits(r) /\ ShownFits(r, a) /\ r.bodies \subseteq OpenKeys(ts)
    BY <2>1, <2>3, <2>4 DEF PageFits, ShownFits
  <2> QED BY <2>3, <2>4, <2>5 DEF r
<1>2. CASE ts # <<>>
  <2> DEFINE d == DropBodies(p, p.bodies \ OpenKeys(ts))
  <2>1. PageFits(d) /\ d.bodies \subseteq OpenKeys(ts)
    BY DropFits
  <2>2. r = RenderActiveBody(d, a)
    BY <1>2 DEF Render
  <2>3. a \in OpenKeys(ts) /\ a \in Keys /\ a # NoKey
    BY <1>2, OpenAreKeys, TabsAssumption DEF ActiveFits
  <2> HIDE DEF d
  <2>4. LET x == RenderActiveBody(d, a) IN
        PageFits(x) /\ ShownFits(x, a) /\ x.bodies \subseteq d.bodies \cup ({a} \ {NoKey})
    BY <2>1, <2>3, BodyFits
  <2> QED BY <1>2, <2>1, <2>2, <2>3, <2>4
<1> QED BY <1>1, <1>2

\* A new list and active tab are rendered at once.
LEMMA StateFits ==
  ASSUME TabsInv, NEW ts, NEW a, TabsFit(ts), ActiveFits(ts, a), SetState(ts, a)
  PROVE  TabsInv'
<1>1. /\ PageFits(page') /\ ShownFits(page', a) /\ page'.bodies \subseteq OpenKeys(ts)
      /\ tabs' = ts /\ active' = a
  BY RenderFits DEF SetState, TabsInv
<1> QED BY <1>1 DEF TabsInv, ShownFits, PageFits, TabsFit, ActiveFits, OpenKeys

\* Opening, activating and pinning a file keep the page in step.
LEMMA OpenSteps ==
  ASSUME TabsInv, NEW k \in Keys
  PROVE  /\ \A preview \in BOOLEAN : OpenFile(k, preview) => TabsInv'
         /\ Activate(k) => TabsInv'
         /\ Pin(k) => TabsInv'
<1> USE TabsAssumption
<1>0. TabsFit(tabs) /\ ActiveFits(tabs, active)
  BY DEF TabsInv
<1>1. ASSUME NEW preview \in BOOLEAN, OpenFile(k, preview) PROVE TabsInv'
  <2>1. TabsFit(OpenTab(tabs, k, preview)) /\ k \in OpenKeys(OpenTab(tabs, k, preview))
    BY <1>0, OpenFits
  <2>2. ActiveFits(OpenTab(tabs, k, preview), k)
    BY <2>1 DEF ActiveFits
  <2> QED BY <1>1, <2>1, <2>2, StateFits DEF OpenFile
<1>2. ASSUME Activate(k) PROVE TabsInv'
  <2>1. ActiveFits(tabs, k)
    BY <1>2 DEF ActiveFits, Activate
  <2> QED BY <1>0, <1>2, <2>1, StateFits DEF Activate
<1>3. ASSUME Pin(k) PROVE TabsInv'
  <2>1. TabsFit(Promote(tabs, k)) /\ OpenKeys(Promote(tabs, k)) = OpenKeys(tabs)
    BY <1>0, PromoteFits
  <2>2. active # NoKey
    BY <1>0, <1>3, NoTabs DEF ActiveFits, Pin
  <2>3. ActiveFits(Promote(tabs, k), active)
    BY <1>0, <2>1, <2>2 DEF ActiveFits
  <2> QED BY <1>3, <2>1, <2>3, StateFits DEF Pin
<1> QED BY <1>1, <1>2, <1>3

\* What the controller shows once the tab of k is closed.
LEMMA ClosePageFits ==
  ASSUME TabsInv, NEW k \in Keys
  PROVE  LET q == ClosePage(page, k)
             left == CloseTab(tabs, k)
             a == ActiveAfter(tabs, k) IN
         /\ TabsFit(left) /\ ActiveFits(left, a) /\ k \notin OpenKeys(left)
         /\ PageFits(q) /\ ShownFits(q, a) /\ q.bodies \subseteq OpenKeys(left)
         /\ left = <<>> => q.shown = NoKey
<1> DEFINE d == DropBodies(page, {k} \cap page.bodies)
           e == [d EXCEPT !.mounted = IF @ = k THEN NoKey ELSE @]
<1>1. /\ TabsFit(CloseTab(tabs, k)) /\ ActiveFits(CloseTab(tabs, k), ActiveAfter(tabs, k))
      /\ k \notin OpenKeys(CloseTab(tabs, k))
  BY CloseFits, AfterFits DEF TabsInv
<1>2. PageFits(d) /\ d.bodies = page.bodies \ ({k} \cap page.bodies)
  BY DropFits DEF TabsInv
<1>3. ClosePage(page, k) = Render(e, CloseTab(tabs, k), ActiveAfter(tabs, k))
  BY DEF ClosePage
<1> HIDE DEF d
<1>4. PageFits(e)
  <2>1. /\ e \in PageRecords /\ e.bodies = d.bodies /\ e.mounting = d.mounting
        /\ e.shown = d.shown /\ (d.mounted # k => e.mounted = d.mounted)
    BY <1>2 DEF PageFits, PageRecords
  <2>2. d.shown # k \/ d.shown = NoKey
    BY <1>2 DEF PageFits
  <2> HIDE DEF e
  <2>3. d.shown # NoKey => d.shown \in d.bodies /\ (d.mounting[d.shown] = "attached"
                                                   \/ d.mounted = d.shown)
    BY <1>2 DEF PageFits
  <2>4. e.shown # NoKey => e.shown \in e.bodies /\ (e.mounting[e.shown] = "attached"
                                                   \/ e.mounted = e.shown)
    BY <2>1, <2>2, <2>3
  <2> QED BY <1>2, <2>1, <2>4 DEF PageFits
<1> HIDE DEF e
<1> QED BY <1>1, <1>3, <1>4, RenderFits

\* So does closing it.
LEMMA CloseStep == ASSUME TabsInv, NEW k \in Keys, CloseFile(k) PROVE TabsInv'
<1>1. /\ TabsFit(tabs') /\ ActiveFits(tabs', active')
      /\ PageFits(page') /\ ShownFits(page', active') /\ page'.bodies \subseteq OpenKeys(tabs')
  BY ClosePageFits DEF CloseFile
<1> QED BY <1>1 DEF TabsInv, ShownFits, PageFits, TabsFit, ActiveFits, OpenKeys

\* The mount of k is over, and nothing of it is shown.
LEMMA EndFits ==
  ASSUME NEW p, PageFits(p), NEW k \in Keys, p.shown # k
  PROVE  LET q == [p EXCEPT !.mounting[k] = "none"] IN
         PageFits(q) /\ q.bodies = p.bodies /\ q.shown = p.shown
<1> DEFINE q == [p EXCEPT !.mounting[k] = "none"]
<1>1. /\ q \in PageRecords /\ q.bodies = p.bodies /\ q.shown = p.shown /\ q.mounted = p.mounted
      /\ \A j \in Keys : q.mounting[j] = IF j = k THEN "none" ELSE p.mounting[j]
  BY DEF PageFits, PageRecords
<1> HIDE DEF q
<1>2. p.shown \in Keys \cup {NoKey}
  BY DEF PageFits, PageRecords
<1>3. PageFits(q)
  BY <1>1, <1>2, TabsAssumption DEF PageFits, PageRecords
<1> QED BY <1>1, <1>3 DEF q

\* A mount that fails leaves no body behind.
LEMMA FailStep == ASSUME TabsInv, NEW k \in Keys, MountFails(k) PROVE TabsInv'
<1> DEFINE q == ClosePage(page, k)
           e == [q EXCEPT !.mounting[k] = "none"]
<1>1. /\ TabsFit(tabs') /\ ActiveFits(tabs', active') /\ k \notin OpenKeys(tabs')
      /\ PageFits(q) /\ q.bodies \subseteq OpenKeys(tabs')
      /\ tabs' = <<>> => q.shown = NoKey
  BY ClosePageFits DEF MountFails
<1>2. page' = RenderActiveBody(e, active')
  BY DEF MountFails
<1> HIDE DEF q
<1>3. q.shown # k
  BY <1>1, TabsAssumption DEF PageFits
<1>4. PageFits(e) /\ e.bodies = q.bodies /\ e.shown = q.shown
  BY <1>1, <1>3, EndFits
<1> HIDE DEF e
<1>5. active' \in Keys \cup {NoKey} /\ (active' = NoKey => tabs' = <<>>)
      /\ active' \in OpenKeys(tabs') \cup {NoKey}
  BY <1>1, OpenAreKeys DEF ActiveFits
<1>6. /\ PageFits(page') /\ ShownFits(page', active')
      /\ page'.bodies \subseteq e.bodies \cup ({active'} \ {NoKey})
  BY <1>1, <1>2, <1>4, <1>5, BodyFits
<1>7. page'.bodies \subseteq OpenKeys(tabs')
  BY <1>1, <1>4, <1>5, <1>6
<1> QED BY <1>1, <1>6, <1>7 DEF TabsInv, ShownFits, PageFits, TabsFit, ActiveFits, OpenKeys

\* A mount that ends shows its body only if its tab is active.
LEMMA MountedStep == ASSUME TabsInv, NEW k \in Keys, Mounted(k) PROVE TabsInv'
<1> USE TabsAssumption
<1>0. /\ TabsFit(tabs) /\ ActiveFits(tabs, active) /\ PageFits(page)
      /\ ShownFits(page, active) /\ page.bodies \subseteq OpenKeys(tabs)
      /\ tabs' = tabs /\ active' = active /\ page.mounting[k] # "none"
  BY DEF TabsInv, Mounted
<1>1. page \in PageRecords /\ active \in OpenKeys(tabs) \cup {NoKey}
  BY <1>0 DEF PageFits, ActiveFits
<1> DEFINE here == page.mounting[k] = "attached"
           p == [page EXCEPT !.mounting[k] = "none"]
<1>2. \/ here /\ k \in page.bodies
      \/ ~here /\ k \notin page.bodies /\ page.shown # k
  BY <1>0, <1>1 DEF PageFits, PageRecords
<1>3. /\ p \in PageRecords /\ p.bodies = page.bodies /\ p.shown = page.shown
      /\ p.mounted = page.mounted
      /\ \A j \in Keys : p.mounting[j] = IF j = k THEN "none" ELSE page.mounting[j]
  BY <1>1 DEF PageRecords
<1>4. ASSUME active = k
      PROVE  PageFits(page') /\ ShownFits(page', active) /\ page'.bodies \subseteq OpenKeys(tabs)
  <2> DEFINE r == [p EXCEPT !.mounted = k, !.shown = IF here THEN k ELSE @]
  <2>1. page' = r
    BY <1>4 DEF Mounted
  <2> HIDE DEF p
  <2>2. /\ r \in PageRecords /\ r.bodies = page.bodies /\ r.mounting = p.mounting
        /\ r.mounted = k /\ r.shown = IF here THEN k ELSE page.shown
    BY <1>3 DEF PageRecords
  <2> HIDE DEF r
  <2>3. CASE here
    BY <1>0, <1>1, <1>2, <1>3, <1>4, <2>1, <2>2, <2>3 DEF PageFits, ShownFits
  <2>4. CASE ~here
    <3>1. \/ page.shown = NoKey
          \/ page.shown \in Keys \ {k} /\ page.mounting[page.shown] = "attached"
      <4>1. page.shown \in Keys \cup {NoKey} /\ page.shown # k
        BY <1>1, <1>2, <2>4 DEF PageRecords
      <4>2. page.shown \notin {NoKey, active} => page.mounting[page.shown] = "attached"
        BY <1>0 DEF ShownFits
      <4> QED BY <1>4, <4>1, <4>2
    <3>2. PageFits(r) /\ ShownFits(r, active)
      BY <1>0, <1>3, <2>2, <2>4, <3>1 DEF PageFits, ShownFits
    <3> QED BY <1>0, <2>1, <2>2, <3>2
  <2> QED BY <2>3, <2>4
<1>5. ASSUME active # k
      PROVE  PageFits(page') /\ ShownFits(page', active) /\ page'.bodies \subseteq OpenKeys(tabs)
  <2> DEFINE q == [p EXCEPT !.bodies = IF here THEN @ \ {k} ELSE @,
                            !.shown = IF here /\ @ = k THEN NoKey ELSE @]
  <2>1. page' = RenderActiveBody(q, active)
    BY <1>5 DEF Mounted
  <2> HIDE DEF p
  <2>2. /\ q \in PageRecords /\ q.bodies = page.bodies \ {k} /\ q.mounting = p.mounting
        /\ q.mounted = page.mounted /\ q.shown = IF page.shown = k THEN NoKey ELSE page.shown
    BY <1>2, <1>3 DEF PageRecords
  <2> HIDE DEF q
  <2>3. page.shown \in Keys \cup {NoKey}
    BY <1>1 DEF PageRecords
  <2>4. PageFits(q)
    BY <1>0, <1>2, <1>3, <2>2, <2>3 DEF PageFits
  <2>5. active = NoKey => q.shown = NoKey
    BY <1>0, <2>2, NoTabs DEF ActiveFits, PageFits
  <2>6. active \in Keys \cup {NoKey}
    BY <1>0, <1>1, OpenAreKeys
  <2>7. /\ PageFits(page') /\ ShownFits(page', active)
        /\ page'.bodies \subseteq q.bodies \cup ({active} \ {NoKey})
    BY <2>1, <2>4, <2>5, <2>6, BodyFits
  <2> QED BY <1>0, <1>1, <2>2, <2>7
<1>6. PageFits(page') /\ ShownFits(page', active) /\ page'.bodies \subseteq OpenKeys(tabs)
  BY <1>4, <1>5
<1> QED BY <1>0, <1>6 DEF TabsInv, ShownFits, PageFits, TabsFit, ActiveFits, OpenKeys

\* The tabs of the stored layout that survive are a list of tabs.
LEMMA RestoreStep == ASSUME TabsInv, RestoreEnds PROVE TabsInv'
<1> USE TabsAssumption
<1>0. PICK n \in 0..Len(Saved) : \E at \in [1..n -> DOMAIN Saved] :
        /\ \A i, j \in 1..n : i < j => at[i] < at[j]
        /\ LET survivors == [i \in 1..n |-> Saved[at[i]]] IN
           \E a \in IF n = 0 THEN {NoKey} ELSE OpenKeys(survivors) : SetState(survivors, a)
  BY DEF RestoreEnds
<1>1. PICK at \in [1..n -> DOMAIN Saved] :
        /\ \A i, j \in 1..n : i < j => at[i] < at[j]
        /\ LET survivors == [i \in 1..n |-> Saved[at[i]]] IN
           \E a \in IF n = 0 THEN {NoKey} ELSE OpenKeys(survivors) : SetState(survivors, a)
  BY <1>0
<1> DEFINE survivors == [i \in 1..n |-> Saved[at[i]]]
<1>2. PICK a \in IF n = 0 THEN {NoKey} ELSE OpenKeys(survivors) : SetState(survivors, a)
  BY <1>1
<1>3. Len(Saved) \in Nat /\ DOMAIN Saved = 1..Len(Saved) /\ n \in Nat
  BY LenProperties
<1>4. \A i \in DOMAIN Saved : Saved[i] \in TabRecords
  BY <1>3, ElementOfSeq DEF TabRecords
<1>5. \A i, j \in 1..n : at[i] = at[j] => i = j
  <2> SUFFICES ASSUME NEW i \in 1..n, NEW j \in 1..n, at[i] = at[j], i # j PROVE FALSE
    OBVIOUS
  <2>1. at[i] \in Nat /\ at[j] \in Nat /\ (i < j \/ j < i)
    BY <1>3
  <2> QED BY <1>1, <2>1
<1>6. survivors \in [1..n -> TabRecords]
  BY <1>4
<1>7. survivors \in Seq(TabRecords) /\ DOMAIN survivors = 1..n
  BY <1>3, <1>6, FunSeq
<1>8. \A i \in 1..n : at[i] \in DOMAIN Saved /\ survivors[i] = Saved[at[i]]
  OBVIOUS
<1> HIDE DEF survivors
<1>9. TabsFit(survivors)
  BY <1>5, <1>7, <1>8 DEF TabsFit
<1>10. ActiveFits(survivors, a)
  <2>1. CASE n = 0
    <3>1. Len(survivors) = 0
      BY <1>7, <2>1, LenProperties
    <3>2. survivors = <<>>
      BY <1>7, <3>1, EmptySeq
    <3> QED BY <1>2, <2>1, <3>2 DEF ActiveFits
  <2>2. CASE n # 0
    BY <1>2, <1>9, <2>2, OpenAreKeys DEF ActiveFits
  <2> QED BY <2>1, <2>2
<1> QED BY <1>2, <1>9, <1>10, StateFits

\* At the start no tab is open.
LEMMA InitTabs == TabsInit => TabsInv
<1> SUFFICES ASSUME TabsInit PROVE TabsInv
  OBVIOUS
<1>1. /\ page \in PageRecords /\ page.bodies = {} /\ page.shown = NoKey
      /\ \A k \in Keys : page.mounting[k] = "none"
  BY DEF TabsInit, PageRecords
<1>2. PageFits(page) /\ ShownFits(page, active)
  BY <1>1 DEF PageFits, ShownFits
<1> QED BY <1>1, <1>2, NoTabs DEF TabsInit, TabsInv, ActiveFits

\* Every step keeps list, bodies and what is shown in step.
LEMMA NextTabs == TabsInv /\ [TabsNext]_tabVars => TabsInv'
<1> SUFFICES ASSUME TabsInv, [TabsNext]_tabVars PROVE TabsInv'
  OBVIOUS
<1>1. ASSUME NEW k \in Keys, NEW preview \in BOOLEAN, OpenFile(k, preview) PROVE TabsInv'
  BY <1>1, OpenSteps
<1>2. ASSUME NEW k \in Keys, Activate(k) \/ Pin(k) PROVE TabsInv'
  BY <1>2, OpenSteps
<1>3. ASSUME NEW k \in Keys, CloseFile(k) PROVE TabsInv'
  BY <1>3, CloseStep
<1>4. ASSUME NEW k \in Keys, Mounted(k) PROVE TabsInv'
  BY <1>4, MountedStep
<1>5. ASSUME NEW k \in Keys, MountFails(k) PROVE TabsInv'
  BY <1>5, FailStep
<1>6. CASE RestoreStarts \/ UNCHANGED tabVars
  BY <1>6 DEF RestoreStarts, tabVars, TabsInv, ShownFits, PageFits, TabsFit, ActiveFits, OpenKeys
<1>7. CASE RestoreEnds
  BY <1>7, RestoreStep
<1> QED BY <1>1, <1>2, <1>3, <1>4, <1>5, <1>6, <1>7 DEF TabsNext

\* The invariant gives what is promised: one preview tab at most, too.
LEMMA TabsShow == TabsInv => NoStaleBody /\ TabsTypeOK
<1> SUFFICES ASSUME TabsInv PROVE NoStaleBody /\ TabsTypeOK
  OBVIOUS
<1>1. /\ TabsFit(tabs) /\ ActiveFits(tabs, active) /\ PageFits(page)
      /\ ShownFits(page, active) /\ page.bodies \subseteq OpenKeys(tabs)
  BY DEF TabsInv
<1> DEFINE previews == {i \in DOMAIN tabs : tabs[i].preview}
<1>2. Cardinality(previews) <= 1
  <2>1. CASE previews = {}
    BY <2>1, FS_EmptySet
  <2>2. CASE previews # {}
    <3>1. PICK i : i \in previews
      BY <2>2
    <3>2. previews = {i}
      BY <1>1, <3>1 DEF TabsFit
    <3>3. Cardinality({i}) = 1
      BY FS_Singleton
    <3> QED BY <3>2, <3>3
  <2> QED BY <2>1, <2>2
<1>3. NoStaleBody
  BY <1>1, <1>2 DEF NoStaleBody, ShownFits, PageFits
<1>4. TabsTypeOK
  BY <1>1 DEF TabsTypeOK, ActiveFits, PageFits, PageRecords
<1> QED BY <1>3, <1>4

\* The user never sees the body of a file that is neither the active tab nor
\* still filling, no body outlives its tab, and one tab at most is the preview,
\* for any files and any stored layout, however the mounts answer.
THEOREM TabsNoStaleBody == TabsSpec => [](NoStaleBody /\ TabsTypeOK)
<1>1. TabsInit => TabsInv
  BY InitTabs
<1>2. TabsInv /\ [TabsNext]_tabVars => TabsInv'
  BY NextTabs
<1>3. TabsInv => NoStaleBody /\ TabsTypeOK
  BY TabsShow
<1> QED BY <1>1, <1>2, <1>3, PTL DEF TabsSpec
=============================================================================
