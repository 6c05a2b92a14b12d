-------------------------- MODULE SessionLifecycle --------------------------
(***************************************************************************)
(* The life of a tmux-backed terminal session in src/backend/server.ts:    *)
(* its catalog row, its tmux session, the in-memory handle, the            *)
(* `tmux attach` clients and their exits, lazy and server-side re-attach,  *)
(* close-later, the reapers, and stop and restart of the service.          *)
(*                                                                         *)
(* An attach client is a member of Attaches.  It is a free member again    *)
(* once its exit is handled and no teardown holds it: the code compares    *)
(* handles of the same time only.  A tmux liveness probe may always answer *)
(* "unknown"; this, a stray attach death, a failed attach, a failed kill   *)
(* and a stop of the service count as faults, at most MaxFaults of them.   *)
(***************************************************************************)
EXTENDS Naturals

CONSTANTS Terminals,     \* terminal ids
          Attaches,      \* attach clients that can exist at one time
          NoAttach,      \* no handle in the slot
          Backoffs,      \* length of TMUX_REATTACH_BACKOFF_MS
          MaxSockets,    \* bound on the sockets of a terminal
          MaxFaults,     \* bound on the faults of a behaviour
          Reapers        \* are the idle and detached reapers configured?

ASSUME LifecycleAssumption ==
  /\ NoAttach \notin Attaches
  /\ Backoffs \in Nat /\ MaxSockets \in Nat /\ MaxFaults \in Nat
  /\ Reapers \in BOOLEAN

VARIABLES
  serverState,   \* "down", "reconciling", "recovering" or "up"
  todo,          \* ids the startup loop has yet to look at
  row,           \* terminal_sessions.status, "none" before the row exists
  due,           \* is terminal_sessions.termination_scheduled_at set?
  session,       \* the tmux session: "none", "live" or "gone"
  terminals,     \* the terminals Map: the attach of the registered handle
  termDue,       \* is term.terminationScheduledAt of that handle set?
  sockets,       \* how many WebSockets are in terminalSockets
  upgrading,     \* upgraded WebSockets whose open() has not run
  stage,         \* of an attach: "free", "building", "registered", "failed"
  live,          \* does the attach client's process run?
  exit,          \* its exit: "none", "probing", or the probe's answer
  flight,        \* createManagedTerminal under way for an id, and who waits
  timer,         \* tmuxReattachTimers
  attempts,      \* tmuxReattachAttempts
  killing,       \* handles whose teardown awaits kill-session
  closed,        \* history: ids whose end a user or a reaper asked for
  faults         \* bound on the environment

catalog == <<row, due>>
handles == <<terminals, termDue, sockets, upgrading>>
clients == <<stage, live, exit>>
retries == <<timer, attempts>>
boot    == <<serverState, todo>>
vars == <<boot, catalog, session, handles, clients, flight, retries, killing,
          closed, faults>>

Liveness == {"alive", "missing", "unknown"}
Callers == {"poll", "ws", "timer"}
NoFlight == [phase |-> "none", by |-> NoAttach, due |-> FALSE, callers |-> {}]
Flights == [phase : {"none", "probe", "query", "attach", "create"},
            by : Attaches \cup {NoAttach}, due : BOOLEAN,
            callers : SUBSET Callers]

TypeCatalog == /\ row \in [Terminals -> {"none", "active", "ended"}]
               /\ due \in [Terminals -> BOOLEAN]

TypeHandles == /\ terminals \in [Terminals -> Attaches \cup {NoAttach}]
               /\ termDue \in [Terminals -> BOOLEAN]
               /\ sockets \in [Terminals -> 0..MaxSockets]
               /\ upgrading \in [Terminals -> 0..MaxSockets]

TypeClients ==
  /\ stage \in [Terminals ->
       [Attaches -> {"free", "building", "registered", "failed"}]]
  /\ live \in [Terminals -> [Attaches -> BOOLEAN]]
  /\ exit \in [Terminals ->
       [Attaches -> {"none", "probing", "handled"} \cup Liveness]]

TypeRetries == /\ timer \in [Terminals -> BOOLEAN]
               /\ attempts \in [Terminals -> 0..Backoffs]

TypeOK ==
  /\ serverState \in {"down", "reconciling", "recovering", "up"}
  /\ todo \in SUBSET Terminals
  /\ TypeCatalog
  /\ session \in [Terminals -> {"none", "live", "gone"}]
  /\ TypeHandles
  /\ TypeClients
  /\ flight \in [Terminals -> Flights]
  /\ TypeRetries
  /\ killing \in [Terminals -> SUBSET Attaches]
  /\ closed \in SUBSET Terminals
  /\ faults \in 0..MaxFaults

Init ==
  /\ serverState = "up" /\ todo = {}
  /\ row = [t \in Terminals |-> "none"]
  /\ due = [t \in Terminals |-> FALSE]
  /\ session = [t \in Terminals |-> "none"]
  /\ terminals = [t \in Terminals |-> NoAttach]
  /\ termDue = [t \in Terminals |-> FALSE]
  /\ sockets = [t \in Terminals |-> 0]
  /\ upgrading = [t \in Terminals |-> 0]
  /\ stage = [t \in Terminals |-> [k \in Attaches |-> "free"]]
  /\ live = [t \in Terminals |-> [k \in Attaches |-> FALSE]]
  /\ exit = [t \in Terminals |-> [k \in Attaches |-> "none"]]
  /\ flight = [t \in Terminals |-> NoFlight]
  /\ timer = [t \in Terminals |-> FALSE]
  /\ attempts = [t \in Terminals |-> 0]
  /\ killing = [t \in Terminals |-> {}]
  /\ closed = {}
  /\ faults = 0

-----------------------------------------------------------------------------
(* Helpers *)

Fault == faults < MaxFaults /\ faults' = faults + 1
NoFault == UNCHANGED faults

\* One answer of TmuxTerminalBackend.sessionLiveness.
Probe(t, answer) ==
  \/ answer = "unknown" /\ Fault
  \/ /\ answer = (IF session[t] = "live" THEN "alive" ELSE "missing")
     /\ NoFault

Attached(t) == terminals[t] # NoAttach

\* markTerminalSessionEnded: no effect while the row does not exist.
MarkEnded(t) ==
  /\ row' = [row EXCEPT ![t] = IF @ = "none" THEN "none" ELSE "ended"]
  /\ due' = [due EXCEPT ![t] = FALSE]

\* scheduleTerminalSessionTermination and cancelTerminalSessionTermination
\* write an active row only.
SetDue(t, b) == due' = [due EXCEPT ![t] = IF row[t] = "active" THEN b ELSE @]

\* removeTerminalState, after closeTerminalSockets where a socket is open.
RemoveTerminalState(t) ==
  /\ terminals' = [terminals EXCEPT ![t] = NoAttach]
  /\ termDue' = [termDue EXCEPT ![t] = FALSE]
  /\ sockets' = [sockets EXCEPT ![t] = 0]

ForgetTmuxReattach(t) ==
  /\ timer' = [timer EXCEPT ![t] = FALSE]
  /\ attempts' = [attempts EXCEPT ![t] = 0]

\* planTmuxReattach: an attach that lived long enough earns a new budget.
Used(t, stable) == IF stable THEN 0 ELSE attempts[t]

ScheduleTmuxReattach(t, stable) ==
  IF timer[t] \/ Used(t, stable) >= Backoffs
  THEN UNCHANGED retries
  ELSE /\ timer' = [timer EXCEPT ![t] = TRUE]
       /\ attempts' = [attempts EXCEPT ![t] = Used(t, stable) + 1]

\* An attach whose exit is handled is forgotten once no teardown holds it.
Forget(t, k) ==
  /\ stage' = [stage EXCEPT ![t][k] = "free"]
  /\ live' = [live EXCEPT ![t][k] = FALSE]
  /\ exit' = [exit EXCEPT ![t][k] = "none"]

SpawnAttach(t, k) ==
  /\ stage[t][k] = "free"
  /\ stage' = [stage EXCEPT ![t][k] = "building"]
  /\ live' = [live EXCEPT ![t][k] = TRUE]
  /\ UNCHANGED exit

-----------------------------------------------------------------------------
(* Creating a terminal *)

\* POST /api/terminals: new-session, then the attach client is spawned.
Create(t, k) ==
  /\ serverState = "up" /\ session[t] = "none"
  /\ session' = [session EXCEPT ![t] = "live"]
  /\ SpawnAttach(t, k)
  /\ flight' = [flight EXCEPT ![t] = [NoFlight EXCEPT !.phase = "create",
                                                      !.by = k]]
  /\ UNCHANGED <<boot, catalog, handles, retries, killing, closed, faults>>

\* The attach resolves: the handle is registered, the row recorded.
CreateDone(t) ==
  LET k == flight[t].by IN
  /\ flight[t].phase = "create"
  /\ terminals' = [terminals EXCEPT ![t] = k]
  /\ stage' = [stage EXCEPT ![t][k] = "registered"]
  /\ row' = [row EXCEPT ![t] = "active"]
  /\ flight' = [flight EXCEPT ![t] = NoFlight]
  /\ UNCHANGED <<boot, due, session, termDue, sockets, upgrading, live, exit,
                 retries, killing, closed, faults>>

\* The client died while the handle was being built and tmux already said
\* "missing": the exit is finalized between the registration and the INSERT,
\* so ending the row comes before the row and the INSERT leaves it active.
CreateDoneAfterExit(t) ==
  LET k == flight[t].by IN
  /\ flight[t].phase = "create" /\ exit[t][k] = "missing"
  /\ Forget(t, k)
  /\ row' = [row EXCEPT ![t] = "active"]
  /\ flight' = [flight EXCEPT ![t] = NoFlight]
  /\ UNCHANGED <<boot, due, session, handles, retries, killing, closed,
                 faults>>

\* backend.attach throws after the spawn: nothing is registered, no row is
\* written, and nobody kills the client.
CreateFails(t) ==
  LET k == flight[t].by IN
  /\ flight[t].phase = "create" /\ Fault
  /\ stage' = [stage EXCEPT ![t][k] = "failed"]
  /\ flight' = [flight EXCEPT ![t] = NoFlight]
  /\ UNCHANGED <<boot, catalog, session, handles, live, exit, retries,
                 killing, closed>>

-----------------------------------------------------------------------------
(* Restoring a recorded session: one flight per id *)

\* Mutant: every caller starts a restore of its own.
JoinNothing(t, caller) ==
  /\ caller \notin flight[t].callers
  /\ flight' = [flight EXCEPT ![t] =
       [phase |-> "probe", by |-> NoAttach, due |-> due[t],
        callers |-> {caller}]]

Join(t, caller) ==
  /\ caller \notin flight[t].callers
  /\ IF flight[t].phase = "none"
     THEN flight' = [flight EXCEPT ![t] =
            [phase |-> "probe", by |-> NoAttach, due |-> due[t],
             callers |-> {caller}]]
     ELSE flight' = [flight EXCEPT ![t].callers = @ \cup {caller}]

\* The flight's callers get a handle.  A WebSocket upgrade that waited for it
\* cancels the close deadline on the row and on the handle (d otherwise).
AnswerHandle(t, d) ==
  /\ flight' = [flight EXCEPT ![t] = NoFlight]
  /\ todo' = todo \ {t}
  /\ IF "ws" \in flight[t].callers
     THEN /\ SetDue(t, FALSE)
          /\ termDue' = [termDue EXCEPT ![t] = FALSE]
          /\ upgrading' = [upgrading EXCEPT
               ![t] = IF @ < MaxSockets THEN @ + 1 ELSE @]
     ELSE /\ termDue' = [termDue EXCEPT ![t] = d]
          /\ UNCHANGED <<due, upgrading>>

\* Mutant: runTmuxReattach tries once only.
AnswerNullGivesUp(t) ==
  /\ flight' = [flight EXCEPT ![t] = NoFlight]
  /\ todo' = todo \ {t}
  /\ UNCHANGED retries

\* The flight's callers get null.  runTmuxReattach plans the next try while
\* the row is active, and forgets the id otherwise.
AnswerNull(t) ==
  /\ flight' = [flight EXCEPT ![t] = NoFlight]
  /\ todo' = todo \ {t}
  /\ IF "timer" \notin flight[t].callers \/ Attached(t)
     THEN UNCHANGED retries
     ELSE IF row[t] = "active" THEN ScheduleTmuxReattach(t, FALSE)
                               ELSE ForgetTmuxReattach(t)

\* Mutant: a tab that waits for its close is not restored.
PollSparesDue(t) ==
  /\ serverState = "up" /\ row[t] = "active" /\ ~Attached(t) /\ ~due[t]
  /\ Join(t, "poll")
  /\ UNCHANGED <<boot, catalog, session, handles, clients, retries, killing,
                 closed, faults>>

\* GET /api/terminals restores every active row nothing is attached to.
Poll(t) ==
  /\ serverState = "up" /\ row[t] = "active" /\ ~Attached(t)
  /\ Join(t, "poll")
  /\ UNCHANGED <<boot, catalog, session, handles, clients, retries, killing,
                 closed, faults>>

\* Mutant: a missing session answers null but its row is left alone.
FlightProbedKeepsRow(t, answer) ==
  /\ flight[t].phase = "probe"
  /\ Probe(t, answer)
  /\ IF answer = "alive"
     THEN /\ flight' = [flight EXCEPT ![t].phase = "query"]
          /\ UNCHANGED <<todo, retries>>
     ELSE AnswerNull(t)
  /\ UNCHANGED <<serverState, catalog, session, handles, clients, killing,
                 closed>>

\* restoreRecordedTmuxSessionNow: the probe answers.
FlightProbed(t, answer) ==
  /\ flight[t].phase = "probe"
  /\ Probe(t, answer)
  /\ \/ /\ answer = "unknown"
        /\ AnswerNull(t)
        /\ UNCHANGED <<catalog, termDue, upgrading>>
     \/ /\ answer = "missing"
        /\ MarkEnded(t)
        /\ ForgetTmuxReattach(t)
        /\ flight' = [flight EXCEPT ![t] = NoFlight]
        /\ UNCHANGED <<todo, termDue, upgrading>>
     \/ /\ answer = "alive"
        /\ UNCHANGED row
        /\ IF Attached(t)
           THEN AnswerHandle(t, termDue[t]) /\ UNCHANGED retries
           ELSE /\ UNCHANGED <<due, termDue, upgrading>>
                /\ IF row[t] # "active"
                   THEN AnswerNull(t)
                   ELSE /\ flight' = [flight EXCEPT ![t].phase = "query"]
                        /\ UNCHANGED <<todo, retries>>
  /\ UNCHANGED <<serverState, session, terminals, sockets, clients, killing,
                 closed>>

\* attachRecordedTmuxSession: the pane was queried; unless somebody attached
\* the id meanwhile, the attach client is spawned.
FlightSpawns(t, k) ==
  /\ flight[t].phase = "query"
  /\ IF Attached(t)
     THEN AnswerHandle(t, termDue[t]) /\ UNCHANGED clients
     ELSE /\ SpawnAttach(t, k)
          /\ flight' = [flight EXCEPT ![t].phase = "attach", ![t].by = k]
          /\ UNCHANGED <<todo, due, termDue, upgrading>>
  /\ UNCHANGED <<serverState, row, session, terminals, sockets, retries,
                 killing, closed, faults>>

\* The attach throws before (first disjunct) or after its spawn.
FlightFails(t) ==
  /\ flight[t].phase \in {"query", "attach"} /\ Fault
  /\ AnswerNull(t)
  /\ \/ flight[t].phase = "query" /\ UNCHANGED stage
     \/ /\ flight[t].phase = "attach"
        /\ stage' = [stage EXCEPT ![t][flight[t].by] = "failed"]
  /\ UNCHANGED <<serverState, catalog, session, handles, live, exit, killing,
                 closed>>

\* Mutant: the restored handle starts without the row's deadline.
FlightRegistersNoDue(t) ==
  LET k == flight[t].by IN
  /\ flight[t].phase = "attach"
  /\ terminals' = [terminals EXCEPT ![t] = k]
  /\ stage' = [stage EXCEPT ![t][k] = "registered"]
  /\ AnswerHandle(t, FALSE)
  /\ UNCHANGED <<serverState, row, session, sockets, live, exit, retries,
                 killing, closed, faults>>

\* The handle is registered and its callers continue; its deadline is the one
\* the row had when the flight began.
FlightRegisters(t) ==
  LET k == flight[t].by IN
  /\ flight[t].phase = "attach"
  /\ terminals' = [terminals EXCEPT ![t] = k]
  /\ stage' = [stage EXCEPT ![t][k] = "registered"]
  /\ AnswerHandle(t, flight[t].due)
  /\ UNCHANGED <<serverState, row, session, sockets, live, exit, retries,
                 killing, closed, faults>>

-----------------------------------------------------------------------------
(* An attach client exits *)

\* It exits with its session, or alone (detach-client, a stray kill).  The
\* exit callback starts a liveness probe.
AttachExits(t, k) ==
  /\ live[t][k]
  /\ \/ session[t] # "live" /\ NoFault
     \/ session[t] = "live" /\ Fault
  /\ live' = [live EXCEPT ![t][k] = FALSE]
  /\ exit' = [exit EXCEPT ![t][k] = "probing"]
  /\ UNCHANGED <<boot, catalog, session, handles, stage, flight, retries,
                 killing, closed>>

ExitProbed(t, k) ==
  /\ exit[t][k] = "probing"
  /\ \E answer \in Liveness :
       Probe(t, answer) /\ exit' = [exit EXCEPT ![t][k] = answer]
  /\ UNCHANGED <<boot, catalog, session, handles, stage, live, flight,
                 retries, killing, closed>>

\* Mutant: the exit is judged without waiting for the handle to settle.
ExitJudgedEarly(t, k) == exit[t][k] \in Liveness

\* Mutant: an unreachable tmux server reads as a missing session.
IsExitUnlessAlive(t, k) ==
  exit[t][k] # "alive" \/ (stage[t][k] = "registered" /\ ~Attached(t))

\* Mutant: no identity guard.
OwnsAnySlot(t, k) == TRUE

\* The probe has answered and the handle is settled.
ExitJudged(t, k) == exit[t][k] \in Liveness /\ stage[t][k] # "building"

\* A registered handle that is gone now was torn down on purpose.
TornDown(t, k) == stage[t][k] = "registered" /\ ~Attached(t)

IsExit(t, k) == exit[t][k] = "missing" \/ TornDown(t, k)

OwnsTerminalSlot(t, k) == terminals[t] \in {k, NoAttach}

ExitHandled(t, k) ==
  IF k \in killing[t]
  THEN exit' = [exit EXCEPT ![t][k] = "handled"] /\ UNCHANGED <<stage, live>>
  ELSE Forget(t, k)

FinalizeTerminalExit(t, k) ==
  /\ ExitJudged(t, k) /\ IsExit(t, k)
  /\ ExitHandled(t, k)
  /\ IF OwnsTerminalSlot(t, k)
     THEN MarkEnded(t) /\ RemoveTerminalState(t) /\ ForgetTmuxReattach(t)
     ELSE UNCHANGED <<catalog, terminals, termDue, sockets, retries>>
  /\ UNCHANGED <<boot, session, upgrading, flight, killing, closed, faults>>

\* `stable`: the attach lived for TMUX_REATTACH_STABLE_MS.
DetachDeadAttach(t, k, stable) ==
  /\ ExitJudged(t, k) /\ ~IsExit(t, k)
  /\ ExitHandled(t, k)
  /\ IF terminals[t] = k
     THEN RemoveTerminalState(t) /\ ScheduleTmuxReattach(t, stable)
     ELSE UNCHANGED <<terminals, termDue, sockets, retries>>
  /\ UNCHANGED <<boot, catalog, session, upgrading, flight, killing, closed,
                 faults>>

\* runTmuxReattach
TimerFires(t) ==
  /\ timer[t]
  /\ \/ /\ Attached(t)
        /\ timer' = [timer EXCEPT ![t] = FALSE]
        /\ UNCHANGED <<attempts, flight>>
     \/ /\ ~Attached(t) /\ row[t] # "active"
        /\ ForgetTmuxReattach(t)
        /\ UNCHANGED flight
     \/ /\ ~Attached(t) /\ row[t] = "active"
        /\ timer' = [timer EXCEPT ![t] = FALSE]
        /\ Join(t, "timer")
        /\ UNCHANGED attempts
  /\ UNCHANGED <<boot, catalog, session, handles, clients, killing, closed,
                 faults>>

-----------------------------------------------------------------------------
(* Sockets and close-later *)

\* Upgrade of /ws/terminals/:id: a reconnect undoes a scheduled close.
Upgrade(t) ==
  /\ serverState = "up" /\ sockets[t] + upgrading[t] < MaxSockets
  /\ \/ /\ Attached(t)
        /\ SetDue(t, FALSE)
        /\ termDue' = [termDue EXCEPT ![t] = FALSE]
        /\ upgrading' = [upgrading EXCEPT ![t] = @ + 1]
        /\ UNCHANGED flight
     \/ /\ ~Attached(t) /\ row[t] = "active"
        /\ Join(t, "ws")
        /\ UNCHANGED <<due, termDue, upgrading>>
  /\ UNCHANGED <<boot, row, session, terminals, sockets, clients, retries,
                 killing, closed, faults>>

\* websocket.open: closed at once when the handle is gone.
SocketOpens(t) ==
  /\ upgrading[t] > 0
  /\ upgrading' = [upgrading EXCEPT ![t] = @ - 1]
  /\ sockets' = [sockets EXCEPT
       ![t] = IF Attached(t) /\ @ < MaxSockets THEN @ + 1 ELSE @]
  /\ UNCHANGED <<boot, catalog, session, terminals, termDue, clients, flight,
                 retries, killing, closed, faults>>

SocketCloses(t) ==
  /\ sockets[t] > 0
  /\ sockets' = [sockets EXCEPT ![t] = @ - 1]
  /\ UNCHANGED <<boot, catalog, session, terminals, termDue, upgrading,
                 clients, flight, retries, killing, closed, faults>>

\* POST /close-later; another client's open socket keeps the terminal.
CloseLater(t, foreign) ==
  /\ serverState = "up" /\ Attached(t)
  /\ foreign => sockets[t] > 0
  /\ SetDue(t, ~foreign)
  /\ termDue' = [termDue EXCEPT ![t] = ~foreign]
  /\ UNCHANGED <<boot, row, session, terminals, sockets, upgrading, clients,
                 flight, retries, killing, closed, faults>>

\* DELETE /close-later
CancelCloseLater(t) ==
  /\ serverState = "up" /\ Attached(t)
  /\ SetDue(t, FALSE)
  /\ termDue' = [termDue EXCEPT ![t] = FALSE]
  /\ UNCHANGED <<boot, row, session, terminals, sockets, upgrading, clients,
                 flight, retries, killing, closed, faults>>

-----------------------------------------------------------------------------
(* Teardown: the handle is removed, then kill-session is awaited *)

Teardown(t) ==
  /\ RemoveTerminalState(t)
  /\ killing' = [killing EXCEPT ![t] = @ \cup {terminals[t]}]
  /\ closed' = closed \cup {t}
  /\ UNCHANGED <<boot, session, upgrading, clients, flight, retries, faults>>

\* DELETE /api/terminals/:id
Delete(t) ==
  /\ serverState = "up" /\ Attached(t)
  /\ MarkEnded(t)
  /\ Teardown(t)

\* reapScheduledTerminalClosures: a restored tab wins over the timer.
SweepCancels(t) ==
  /\ serverState = "up" /\ Attached(t) /\ termDue[t] /\ sockets[t] > 0
  /\ SetDue(t, FALSE)
  /\ termDue' = [termDue EXCEPT ![t] = FALSE]
  /\ UNCHANGED <<boot, row, session, terminals, sockets, upgrading, clients,
                 flight, retries, killing, closed, faults>>

SweepEnds(t) ==
  /\ serverState = "up" /\ Attached(t) /\ termDue[t] /\ sockets[t] = 0
  /\ MarkEnded(t)
  /\ Teardown(t)

\* cleanupIdleTerminals ends the row only through the client's exit.
CleanupIdle(t) ==
  /\ Reapers /\ serverState = "up" /\ Attached(t) /\ sockets[t] > 0
  /\ Teardown(t)
  /\ UNCHANGED catalog

ReapDetached(t) ==
  /\ Reapers /\ serverState = "up" /\ Attached(t) /\ sockets[t] = 0
  /\ MarkEnded(t)
  /\ Teardown(t)

\* kill-session returns, with or without success; then proc.kill().
KillDone(t, k) ==
  /\ k \in killing[t]
  /\ killing' = [killing EXCEPT ![t] = @ \ {k}]
  /\ \/ session' = [session EXCEPT ![t] = "gone"] /\ NoFault
     \/ session[t] = "live" /\ UNCHANGED session /\ Fault
  /\ IF exit[t][k] = "handled"
     THEN Forget(t, k)
     ELSE /\ live' = [live EXCEPT ![t][k] = FALSE]
          /\ exit' = [exit EXCEPT
               ![t][k] = IF live[t][k] THEN "probing" ELSE @]
          /\ UNCHANGED stage
  /\ UNCHANGED <<boot, catalog, handles, flight, retries, closed>>

\* The shell ends, or the tmux server dies.
SessionExits(t) ==
  /\ session[t] = "live"
  /\ session' = [session EXCEPT ![t] = "gone"]
  /\ UNCHANGED <<boot, catalog, handles, clients, flight, retries, killing,
                 closed, faults>>

-----------------------------------------------------------------------------
(* Stop and start of the service *)

\* Mutant: the attach exits of a stop persist "ended" (release a006ae6).
StopEndsRows ==
  /\ serverState # "down" /\ Fault
  /\ serverState' = "down" /\ todo' = {}
  /\ row' = [t \in Terminals |-> IF Attached(t) THEN "ended" ELSE row[t]]
  /\ due' = [t \in Terminals |-> due[t] /\ ~Attached(t)]
  /\ terminals' = [t \in Terminals |-> NoAttach]
  /\ termDue' = [t \in Terminals |-> FALSE]
  /\ sockets' = [t \in Terminals |-> 0]
  /\ upgrading' = [t \in Terminals |-> 0]
  /\ stage' = [t \in Terminals |-> [k \in Attaches |-> "free"]]
  /\ live' = [t \in Terminals |-> [k \in Attaches |-> FALSE]]
  /\ exit' = [t \in Terminals |-> [k \in Attaches |-> "none"]]
  /\ flight' = [t \in Terminals |-> NoFlight]
  /\ timer' = [t \in Terminals |-> FALSE]
  /\ attempts' = [t \in Terminals |-> 0]
  /\ killing' = [t \in Terminals |-> {}]
  /\ UNCHANGED <<session, closed>>

\* shutdownGracefully, or a crash: the process and its attach clients are
\* gone, nothing is written, the tmux sessions stay (KillMode=process).
Stop ==
  /\ serverState # "down" /\ Fault
  /\ serverState' = "down" /\ todo' = {}
  /\ terminals' = [t \in Terminals |-> NoAttach]
  /\ termDue' = [t \in Terminals |-> FALSE]
  /\ sockets' = [t \in Terminals |-> 0]
  /\ upgrading' = [t \in Terminals |-> 0]
  /\ stage' = [t \in Terminals |-> [k \in Attaches |-> "free"]]
  /\ live' = [t \in Terminals |-> [k \in Attaches |-> FALSE]]
  /\ exit' = [t \in Terminals |-> [k \in Attaches |-> "none"]]
  /\ flight' = [t \in Terminals |-> NoFlight]
  /\ timer' = [t \in Terminals |-> FALSE]
  /\ attempts' = [t \in Terminals |-> 0]
  /\ killing' = [t \in Terminals |-> {}]
  /\ UNCHANGED <<catalog, session, closed>>

Start ==
  /\ serverState = "down"
  /\ serverState' = "reconciling"
  /\ todo' = {t \in Terminals : row[t] = "active"}
  /\ UNCHANGED <<catalog, session, handles, clients, flight, retries, killing,
                 closed, faults>>

\* reconcileSessionsOnStartup: only proof of absence ends a row.
Reconcile(t) ==
  /\ serverState = "reconciling" /\ t \in todo
  /\ \E answer \in Liveness :
       /\ Probe(t, answer)
       /\ IF answer = "missing" THEN MarkEnded(t) ELSE UNCHANGED catalog
  /\ todo' = todo \ {t}
  /\ UNCHANGED <<serverState, session, handles, clients, flight, retries,
                 killing, closed>>

\* recoverTmuxSessions lists the sessions; an unreachable server lists none.
ListSessions ==
  /\ serverState = "reconciling" /\ todo = {}
  /\ serverState' = "recovering"
  /\ \/ todo' = {t \in Terminals : session[t] = "live"} /\ NoFault
     \/ todo' = {} /\ Fault
  /\ UNCHANGED <<catalog, session, handles, clients, flight, retries, killing,
                 closed>>

\* recoverTmuxSession, one at a time.
Recover(t) ==
  /\ serverState = "recovering" /\ t \in todo
  /\ \A u \in todo : flight[u].phase = "none"
  /\ IF row[t] = "active" /\ ~Attached(t)
     THEN /\ flight' = [flight EXCEPT ![t] =
               [phase |-> "query", by |-> NoAttach, due |-> due[t],
                callers |-> {}]]
          /\ UNCHANGED todo
     ELSE todo' = todo \ {t} /\ UNCHANGED flight
  /\ UNCHANGED <<serverState, catalog, session, handles, clients, retries,
                 killing, closed, faults>>

Serve ==
  /\ serverState = "recovering" /\ todo = {}
  /\ serverState' = "up"
  /\ UNCHANGED <<todo, catalog, session, handles, clients, flight, retries,
                 killing, closed, faults>>

-----------------------------------------------------------------------------

\* What the program does by itself once it runs.
Work(t) ==
  \/ CreateDone(t) \/ CreateDoneAfterExit(t) \/ CreateFails(t)
  \/ \E answer \in Liveness : FlightProbed(t, answer)
  \/ \E k \in Attaches : FlightSpawns(t, k)
  \/ FlightFails(t) \/ FlightRegisters(t)
  \/ \E k \in Attaches : AttachExits(t, k)
  \/ \E k \in Attaches : ExitProbed(t, k)
  \/ \E k \in Attaches : FinalizeTerminalExit(t, k)
  \/ \E k \in Attaches, stable \in BOOLEAN : DetachDeadAttach(t, k, stable)
  \/ TimerFires(t)
  \/ SocketOpens(t)
  \/ SweepCancels(t) \/ SweepEnds(t)
  \/ CleanupIdle(t) \/ ReapDetached(t)
  \/ \E k \in Attaches : KillDone(t, k)

\* What clients ask for.
Request(t) ==
  \/ \E k \in Attaches : Create(t, k)
  \/ Poll(t)
  \/ Upgrade(t)
  \/ SocketCloses(t)
  \/ \E foreign \in BOOLEAN : CloseLater(t, foreign)
  \/ CancelCloseLater(t)
  \/ Delete(t)

Boot == \/ Start \/ ListSessions \/ Serve
        \/ \E t \in Terminals : Reconcile(t) \/ Recover(t)

Next == \/ \E t \in Terminals : Work(t) \/ Request(t) \/ SessionExits(t)
        \/ Stop
        \/ Boot

Spec == Init /\ [][Next]_vars

\* The service is restarted, and its callbacks and timers run; reapers and
\* requests are free not to happen.
Fairness ==
  /\ WF_vars(Boot)
  /\ \A t \in Terminals :
       /\ WF_vars(CreateDone(t))
       /\ WF_vars(\E answer \in Liveness : FlightProbed(t, answer))
       /\ WF_vars(\E k \in Attaches : FlightSpawns(t, k))
       /\ WF_vars(FlightRegisters(t))
       /\ WF_vars(TimerFires(t))
       /\ WF_vars(SweepCancels(t) \/ SweepEnds(t))
       /\ \A k \in Attaches :
            /\ WF_vars(AttachExits(t, k))
            /\ WF_vars(ExitProbed(t, k))
            /\ WF_vars(FinalizeTerminalExit(t, k)
                       \/ \E stable \in BOOLEAN : DetachDeadAttach(t, k, stable))
            /\ WF_vars(KillDone(t, k))

FairSpec == Spec /\ Fairness

\* A browser keeps asking for the list of terminals.
BrowserPolls == \A t \in Terminals : WF_vars(Poll(t))

-----------------------------------------------------------------------------
(* Safety *)

\* A row says "ended" only when the tmux session is gone or somebody closed
\* the terminal: no attach death, unreachable tmux, deploy or crash may end
\* the row of a live session (release a006ae6 did).
EndedIsJustified ==
  \A t \in Terminals :
    row[t] = "ended" => session[t] # "live" \/ t \in closed

\* Every running attach client is the registered one, is still being built,
\* awaits its teardown, or belongs to an attach that threw: concurrent polls,
\* upgrades and re-attach timers never leave a client nobody owns.
NoOrphanClient ==
  \A t \in Terminals, k \in Attaches :
    live[t][k] => \/ terminals[t] = k
                  \/ stage[t][k] = "building" /\ flight[t].by = k
                  \/ stage[t][k] = "failed"
                  \/ k \in killing[t]

\* The registered handle has a running client, or an exit that is still to be
\* judged: a death during the build (handleSettled) is not lost.
NoDeadHandle ==
  \A t \in Terminals :
    Attached(t) => LET k == terminals[t] IN
                     /\ stage[t][k] = "registered"
                     /\ live[t][k] \/ exit[t][k] \in {"probing"} \cup Liveness

\* The close deadline survives detach, re-attach and restart: the handle the
\* sweep looks at and the row agree on it.
DeadlinesAgree ==
  \A t \in Terminals :
    Attached(t) /\ row[t] = "active" => termDue[t] = due[t]

\* A handle leaves the map by its own exit, by a teardown of it, or with the
\* service, and no other handle takes its place before: the exit of an older
\* attach never removes the one that replaced it.
OnlyItsOwnExitDetaches ==
  [][\A t \in Terminals :
       Attached(t) /\ terminals'[t] # terminals[t] =>
         LET k == terminals[t] IN
         \/ serverState' = "down"
         \/ terminals'[t] = NoAttach /\ k \in killing'[t]
         \/ terminals'[t] = NoAttach /\ exit[t][k] \in Liveness
                                     /\ exit'[t][k] \notin Liveness]_vars

(* What the safety invariants rest on *)

\* Nothing exists of a terminal before its tmux session does.
Untouched(t) ==
  session[t] = "none" =>
    /\ row[t] = "none" /\ ~Attached(t) /\ flight[t].phase = "none"
    /\ \A k \in Attaches : exit[t][k] = "none" /\ ~live[t][k]

\* "missing" is proof: a session never comes back.
MissingIsGone(t) ==
  \A k \in Attaches : exit[t][k] = "missing" => session[t] = "gone"

\* A handle is built for an empty slot only, by the one flight of its id.
FlightFillsEmptySlot(t) ==
  /\ flight[t].phase # "none" => ~Attached(t)
  /\ flight[t].phase = "create" => row[t] = "none"
  /\ flight[t].phase \in {"attach", "create"} =>
       flight[t].by \in Attaches /\ stage[t][flight[t].by] = "building"
  /\ \A k \in Attaches : stage[t][k] = "building" =>
       /\ flight[t].phase \in {"attach", "create"} /\ flight[t].by = k
       /\ live[t][k] \/ exit[t][k] \in {"probing"} \cup Liveness

\* A registered handle that lost its slot was torn down on purpose; one whose
\* teardown is under way keeps its place until kill-session returns.
LostSlotIsClosed(t) ==
  \A k \in Attaches :
    /\ stage[t][k] = "registered" /\ terminals[t] # k => t \in closed
    /\ k \in killing[t] => stage[t][k] = "registered" /\ terminals[t] # k
    /\ live[t][k] => stage[t][k] # "free"

\* While nothing is attached, the flight under way carries the row's deadline.
DeadlineCarried(t) ==
  /\ row[t] # "active" => ~due[t]
  /\ ~Attached(t) => ~termDue[t]
  /\ flight[t].phase \in {"probe", "query", "attach"} /\ row[t] = "active" =>
       flight[t].due = due[t]

IInv == /\ TypeOK
        /\ \A t \in Terminals :
             /\ Untouched(t) /\ MissingIsGone(t) /\ FlightFillsEmptySlot(t)
             /\ LostSlotIsClosed(t) /\ DeadlineCarried(t)
        /\ EndedIsJustified /\ NoOrphanClient /\ NoDeadHandle
        /\ DeadlinesAgree

(* Liveness under FairSpec: finitely many faults *)

\* While a browser keeps polling, a row never stays active with nothing
\* attached: it is served again or ended.
ServedOrEnded ==
  BrowserPolls =>
    \A t \in Terminals :
      row[t] = "active" ~> (Attached(t) \/ row[t] = "ended")

\* While a browser keeps polling, the row of a shell that is gone does not stay
\* active for ever.
GoneIsEnded ==
  BrowserPolls =>
    \A t \in Terminals :
      session[t] = "gone" /\ row[t] = "active" ~> row[t] = "ended"

\* While a browser keeps polling, a scheduled close is carried out or
\* cancelled, whatever detaches, restores and restarts come in between.
ClosedTabEnds ==
  BrowserPolls => \A t \in Terminals : due[t] ~> ~due[t]

\* With no browser at all: a pending re-attach ends attached, with the row
\* ended, with the retry budget spent, or with the service down.
UnattendedReattach ==
  \A t \in Terminals :
    timer[t] ~> \/ Attached(t) \/ row[t] = "ended"
                \/ attempts[t] = Backoffs /\ ~timer[t]
                \/ serverState = "down"

(* Refinement *)

Contract == INSTANCE SessionContract
              WITH served <- {t \in Terminals : Attached(t)}

\* The mechanism keeps the contract of SessionContract.
KeepsContract == Contract!CSpec
=============================================================================
