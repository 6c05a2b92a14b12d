----------------------- MODULE SessionRefinementProofs -----------------------
(***************************************************************************)
(* SessionLifecycle implements SessionContract, and handles leave the Map  *)
(* by their own exit, a teardown or a stop only: for any set of terminals  *)
(* and attach clients, any retry budget and any number of faults.          *)
(***************************************************************************)
EXTENDS SessionLifecycleProofs

USE DEF boot, catalog, handles, clients, retries

\* What the contract needs beyond IInv: a restore is of a recorded terminal,
\* a teardown of one that had a session.
Recorded(t) ==
  /\ flight[t].phase \in {"probe", "query", "attach"} => row[t] # "none"
  /\ killing[t] # {} => session[t] # "none"

-----------------------------------------------------------------------------
(* Recorded is an invariant. *)

\* The service keeps a recorded row with its session.
LEMMA WorkRecorded ==
  ASSUME TypeOK, NEW t \in Terminals, Own(t), Recorded(t), Work(t)
  PROVE  Recorded(t)'
<1> USE DEF TypeOK, TypeCatalog, Recorded, NoFlight, Flights
<1>1. CASE CreateDone(t) \/ CreateDoneAfterExit(t) \/ CreateFails(t)
  BY <1>1 DEF CreateDone, CreateDoneAfterExit, CreateFails
<1>2. ASSUME NEW a \in Liveness, FlightProbed(t, a) PROVE Recorded(t)'
  BY <1>2 DEF FlightProbed, MarkEnded, AnswerNull, AnswerHandle
<1>3. ASSUME NEW k \in Attaches, FlightSpawns(t, k) PROVE Recorded(t)'
  BY <1>3 DEF FlightSpawns, AnswerHandle
<1>4. CASE FlightFails(t)
  BY <1>4 DEF FlightFails, AnswerNull
<1>5. CASE FlightRegisters(t)
  BY <1>5 DEF FlightRegisters, AnswerHandle
<1>6. ASSUME NEW k \in Attaches, AttachExits(t, k) \/ ExitProbed(t, k)
      PROVE  Recorded(t)'
  BY <1>6 DEF AttachExits, ExitProbed
<1>7. ASSUME NEW k \in Attaches, FinalizeTerminalExit(t, k)
      PROVE  Recorded(t)'
  BY <1>7 DEF FinalizeTerminalExit, MarkEnded
<1>8. ASSUME NEW k \in Attaches, NEW b \in BOOLEAN, DetachDeadAttach(t, k, b)
      PROVE  Recorded(t)'
  BY <1>8 DEF DetachDeadAttach
<1>9. CASE TimerFires(t)
  BY <1>9 DEF TimerFires, Join
<1>10. CASE SocketOpens(t) \/ SweepCancels(t)
  BY <1>10 DEF SocketOpens, SweepCancels
<1>11. CASE SweepEnds(t) \/ CleanupIdle(t) \/ ReapDetached(t)
  BY <1>11 DEF SweepEnds, CleanupIdle, ReapDetached, Teardown, MarkEnded,
     Own, Untouched
<1>12. ASSUME NEW k \in Attaches, KillDone(t, k) PROVE Recorded(t)'
  BY <1>12 DEF KillDone
<1> QED BY <1>1, <1>2, <1>3, <1>4, <1>5, <1>6, <1>7, <1>8, <1>9, <1>10,
           <1>11, <1>12 DEF Work

\* So do requests.
LEMMA RequestRecorded ==
  ASSUME TypeOK, NEW t \in Terminals, Own(t), Recorded(t),
         Request(t) \/ SessionExits(t) \/ Reconcile(t) \/ Recover(t)
  PROVE  Recorded(t)'
<1> USE DEF TypeOK, TypeCatalog, Recorded, NoFlight, Flights
<1>1. ASSUME NEW k \in Attaches, Create(t, k) PROVE Recorded(t)'
  BY <1>1 DEF Create
<1>2. CASE Poll(t) \/ Upgrade(t)
  BY <1>2 DEF Poll, Upgrade, Join
<1>3. CASE \/ SocketCloses(t) \/ CancelCloseLater(t)
           \/ \E f \in BOOLEAN : CloseLater(t, f)
  BY <1>3 DEF SocketCloses, CancelCloseLater, CloseLater
<1>4. CASE Delete(t)
  BY <1>4 DEF Delete, Teardown, MarkEnded, Own, Untouched
<1>5. CASE SessionExits(t) \/ Reconcile(t) \/ Recover(t)
  BY <1>5 DEF SessionExits, Reconcile, Recover, MarkEnded
<1> QED BY <1>1, <1>2, <1>3, <1>4, <1>5 DEF Request

\* So does what happens elsewhere.
LEMMA PartRecorded ==
  ASSUME NEW u \in Terminals, Recorded(u), UNCHANGED Part(u)
  PROVE  Recorded(u)'
  BY DEF Recorded, Part

\* So does every step.
LEMMA NextRecorded ==
  ASSUME TypeOK, NEW u \in Terminals, Own(u), Recorded(u), [Next]_vars
  PROVE  Recorded(u)'
<1>1. ASSUME NEW t \in Terminals, Work(t) PROVE Recorded(u)'
  BY <1>1, WorkRecorded, WorkElsewhere, PartRecorded
<1>2. ASSUME NEW t \in Terminals,
             Request(t) \/ SessionExits(t) \/ Reconcile(t) \/ Recover(t)
      PROVE  Recorded(u)'
  BY <1>2, RequestRecorded, RequestElsewhere, PartRecorded
<1>3. CASE Stop
  BY <1>3 DEF Stop, Recorded, NoFlight
<1>4. CASE Start \/ ListSessions \/ Serve \/ UNCHANGED vars
  BY <1>4, PartRecorded DEF Start, ListSessions, Serve, vars, Part
<1> QED BY <1>1, <1>2, <1>3, <1>4 DEF Next, Boot

\* A recorded row keeps its session.
LEMMA InvariantRecorded == Spec => [](\A t \in Terminals : Recorded(t))
<1>1. Init => \A t \in Terminals : Recorded(t)
  <2> SUFFICES ASSUME Init, NEW t \in Terminals PROVE Recorded(t)
    OBVIOUS
  <2>1. flight[t].phase = "none" /\ killing[t] = {}
    BY DEF Init, NoFlight
  <2> QED BY <2>1 DEF Recorded
<1>2. IInv /\ (\A t \in Terminals : Recorded(t)) /\ [Next]_vars
        => (\A t \in Terminals : Recorded(t))'
  BY NextRecorded, IInvIsOwn
<1> QED BY <1>1, <1>2, LifecycleInvariant, PTL DEF Spec

-----------------------------------------------------------------------------
(* Nothing is attached, restored or torn down before recovery begins. *)

Off == serverState \in {"down", "reconciling"}

Quiet(t) ==
  Off => /\ ~Attached(t) /\ flight[t].phase = "none" /\ ~timer[t]
         /\ killing[t] = {}
         /\ \A k \in Attaches : ~live[t][k] /\ exit[t][k] = "none"

\* What Quiet is about.
QuietPart(t) == <<terminals[t], flight[t], timer[t], killing[t], live[t],
                  exit[t]>>

\* Only an upgraded socket may still open.
LEMMA OffWork ==
  ASSUME TypeOK, NEW t \in Terminals, Quiet(t), Off, Work(t)
  PROVE  SocketOpens(t)
<1> USE DEF Quiet
<1>1. ~(CreateDone(t) \/ CreateDoneAfterExit(t) \/ CreateFails(t))
  BY DEF CreateDone, CreateDoneAfterExit, CreateFails
<1>2. ~ \/ \E a \in Liveness : FlightProbed(t, a)
        \/ \E k \in Attaches : FlightSpawns(t, k)
        \/ FlightFails(t) \/ FlightRegisters(t)
  BY DEF FlightProbed, FlightSpawns, FlightFails, FlightRegisters
<1>3. ~ \E k \in Attaches : \/ AttachExits(t, k) \/ ExitProbed(t, k)
                            \/ FinalizeTerminalExit(t, k) \/ KillDone(t, k)
  BY DEF AttachExits, ExitProbed, FinalizeTerminalExit, ExitJudged, KillDone,
     Liveness
<1>4. ~ \E k \in Attaches, b \in BOOLEAN : DetachDeadAttach(t, k, b)
  BY DEF DetachDeadAttach, ExitJudged, Liveness
<1>5. ~ \/ TimerFires(t) \/ SweepCancels(t) \/ SweepEnds(t)
        \/ CleanupIdle(t) \/ ReapDetached(t)
  BY DEF Off, TimerFires, SweepCancels, SweepEnds, CleanupIdle, ReapDetached
<1> QED BY <1>1, <1>2, <1>3, <1>4, <1>5 DEF Work

\* Only start-up and stop change serverState.
LEMMA WorkBoot ==
  ASSUME NEW t \in Terminals, Work(t) \/ Request(t) \/ SessionExits(t)
  PROVE  UNCHANGED serverState
<1>1. CASE Request(t) \/ SessionExits(t)
  BY <1>1 DEF Request, Create, Poll, Upgrade, SocketCloses, CloseLater,
     CancelCloseLater, Delete, Teardown, SessionExits
<1>2. CASE Work(t)
  BY <1>2 DEF Work, CreateDone, CreateDoneAfterExit, CreateFails,
     FlightProbed, FlightSpawns, FlightFails, FlightRegisters, AttachExits,
     ExitProbed, FinalizeTerminalExit, DetachDeadAttach, TimerFires,
     SocketOpens, SweepCancels, SweepEnds, CleanupIdle, ReapDetached,
     Teardown, KillDone
<1> QED BY <1>1, <1>2

\* Every step keeps a stopped service without handles.
LEMMA NextQuiet ==
  ASSUME TypeOK, \A t \in Terminals : Quiet(t), [Next]_vars,
         NEW u \in Terminals
  PROVE  Quiet(u)'
<1> SUFFICES ASSUME Off'
             PROVE  Stop \/ (Off /\ UNCHANGED QuietPart(u))
  BY DEF Quiet, QuietPart, Attached, Stop, NoFlight
<1>1. ASSUME NEW t \in Terminals, Work(t)
      PROVE  Off /\ UNCHANGED QuietPart(u)
  <2>1. Off
    BY <1>1, WorkBoot DEF Off
  <2> QED BY <1>1, <2>1, OffWork DEF SocketOpens, QuietPart
<1>2. ASSUME NEW t \in Terminals, Request(t) \/ SessionExits(t)
      PROVE  Off /\ UNCHANGED QuietPart(u)
  <2>1. Off
    BY <1>2, WorkBoot DEF Off
  <2> QED BY <1>2, <2>1 DEF Off, Request, Create, Poll, Upgrade,
          SocketCloses, CloseLater, CancelCloseLater, Delete, SessionExits,
          QuietPart
<1>3. CASE Start \/ ListSessions \/ Serve \/ UNCHANGED vars
  BY <1>3 DEF Start, ListSessions, Serve, vars, QuietPart, Off
<1>4. ASSUME NEW t \in Terminals, Reconcile(t) \/ Recover(t)
      PROVE  Off /\ UNCHANGED QuietPart(u)
  BY <1>4 DEF Reconcile, Recover, QuietPart, Off
<1> QED BY <1>1, <1>2, <1>3, <1>4 DEF Next, Boot

\* A stopped service has no handles.
LEMMA InvariantQuiet == Spec => [](\A t \in Terminals : Quiet(t))
<1>1. Init => \A t \in Terminals : Quiet(t)
  BY DEF Init, Quiet, Off
<1>2. TypeOK /\ (\A t \in Terminals : Quiet(t)) /\ [Next]_vars
        => (\A t \in Terminals : Quiet(t))'
  BY NextQuiet
<1> QED BY <1>1, <1>2, TypeCorrect, PTL DEF Spec

-----------------------------------------------------------------------------
(* Every step is a step of the contract, or changes nothing it shows. *)

Simulated == Contract!CNext \/ UNCHANGED Contract!cvars

\* What only touches clients, sockets, flights and deadlines is not shown.
LEMMA Hidden ==
  ASSUME UNCHANGED <<row, session, terminals, closed>>
  PROVE  Simulated
  BY DEF Simulated, Contract!cvars, Attached

\* A create that starts brings up the session (Open).
LEMMA CreateSimulated ==
  ASSUME TypeOK, NEW t \in Terminals, NEW k \in Attaches, Create(t, k)
  PROVE  Simulated
<1>1. Contract!Open(t)
  BY DEF Create, Contract!Open, Attached
<1> QED BY <1>1 DEF Simulated, Contract!CNext

\* A create that ends publishes its row (Publish).
LEMMA CreateDoneSimulated ==
  ASSUME TypeOK, NEW t \in Terminals, Own(t), CreateDone(t)
  PROVE  Simulated
<1>1. row[t] = "none" /\ session[t] # "none" /\ flight[t].by \in Attaches
  BY DEF CreateDone, Own, Untouched, FlightFillsEmptySlot
<1>2. {u \in Terminals : Attached(u)}' = {u \in Terminals : Attached(u)} \cup {t}
  BY <1>1, LifecycleAssumption
     DEF CreateDone, Attached, TypeOK, TypeHandles
<1>3. Contract!Publish(t)
  BY <1>1, <1>2 DEF CreateDone, Contract!Publish
<1> QED BY <1>3 DEF Simulated, Contract!CNext

\* Where its session has gone meanwhile, the row is published unserved.
LEMMA CreateDoneAfterExitSimulated ==
  ASSUME TypeOK, NEW t \in Terminals, Own(t), CreateDoneAfterExit(t)
  PROVE  Simulated
<1>1. row[t] = "none" /\ session[t] = "gone"
  BY DEF CreateDoneAfterExit, Own, MissingIsGone, FlightFillsEmptySlot
<1>2. Contract!Publish(t)
  BY <1>1 DEF CreateDoneAfterExit, Contract!Publish, Attached
<1> QED BY <1>2 DEF Simulated, Contract!CNext

\* Ending the row of a terminal that is then not served.
LEMMA EndSimulated ==
  ASSUME TypeOK, NEW t \in Terminals, MarkEnded(t),
         session[t] = "gone" \/ t \in closed, UNCHANGED <<session, closed>>,
         {u \in Terminals : Attached(u)}' = {u \in Terminals : Attached(u)} \ {t}
  PROVE  Simulated
<1>1. CASE row[t] = "active"
  <2>1. Contract!End(t)
    BY <1>1 DEF MarkEnded, Contract!End
  <2> QED BY <2>1 DEF Simulated, Contract!CNext
<1>2. CASE row[t] # "active"
  <2>1. UNCHANGED row
    BY <1>2 DEF MarkEnded, TypeOK, TypeCatalog
  <2>2. Contract!Drop(t)
    BY <2>1 DEF Contract!Drop
  <2> QED BY <2>2 DEF Simulated, Contract!CNext
<1> QED BY <1>1, <1>2

\* A restore's probe ends the row only where the answer is "missing".
LEMMA FlightProbedSimulated ==
  ASSUME TypeOK, NEW t \in Terminals, Own(t), NEW a \in Liveness,
         FlightProbed(t, a)
  PROVE  Simulated
<1>1. CASE a = "missing"
  <2>1. session[t] = "gone"
    <3>1. session[t] # "live" /\ session[t] # "none"
      BY <1>1 DEF FlightProbed, Probe, Own, Untouched
    <3> QED BY <3>1 DEF TypeOK
  <2>2. UNCHANGED <<terminals, session, closed>> /\ ~Attached(t)
    BY DEF FlightProbed, Own, FlightFillsEmptySlot
  <2>3. {u \in Terminals : Attached(u)}' = {u \in Terminals : Attached(u)} \ {t}
    BY <2>2 DEF Attached
  <2> QED BY <1>1, <2>1, <2>2, <2>3, EndSimulated DEF FlightProbed
<1>2. CASE a # "missing"
  BY <1>2, Hidden DEF FlightProbed
<1> QED BY <1>1, <1>2

\* A restore that registers is served again (Serve).
LEMMA FlightRegistersSimulated ==
  ASSUME TypeOK, NEW t \in Terminals, Own(t), Recorded(t), FlightRegisters(t)
  PROVE  Simulated
<1>1. row[t] # "none" /\ flight[t].by \in Attaches /\ session[t] # "none"
  BY DEF FlightRegisters, Recorded, Own, Untouched, FlightFillsEmptySlot
<1>2. row[t] = "active" \/ session[t] = "gone" \/ t \in closed
  BY <1>1 DEF Own, EndJustified, TypeOK, TypeCatalog
<1>3. {u \in Terminals : Attached(u)}' = {u \in Terminals : Attached(u)} \cup {t}
  BY <1>1, LifecycleAssumption
     DEF FlightRegisters, Attached, TypeOK, TypeHandles
<1>4. Contract!Serve(t)
  BY <1>1, <1>2, <1>3 DEF FlightRegisters, Contract!Serve
<1> QED BY <1>4 DEF Simulated, Contract!CNext

\* A terminal without a handle is not served.
LEMMA RemovedIsNotServed ==
  ASSUME TypeOK, NEW t \in Terminals, RemoveTerminalState(t)
  PROVE  {u \in Terminals : Attached(u)}' = {u \in Terminals : Attached(u)} \ {t}
  BY DEF RemoveTerminalState, Attached, TypeOK, TypeHandles

\* An exit ends the row only where the session is gone or was closed.
LEMMA FinalizeSimulated ==
  ASSUME TypeOK, NEW t \in Terminals, Own(t), NEW k \in Attaches,
         FinalizeTerminalExit(t, k)
  PROVE  Simulated
<1>1. session[t] = "gone" \/ t \in closed
  BY LifecycleAssumption
     DEF FinalizeTerminalExit, ExitJudged, IsExit, TornDown, Attached, Own,
         MissingIsGone, LostSlotIsClosed
<1>2. CASE OwnsTerminalSlot(t, k)
  BY <1>1, <1>2, RemovedIsNotServed, EndSimulated DEF FinalizeTerminalExit
<1>3. CASE ~OwnsTerminalSlot(t, k)
  BY <1>3, Hidden DEF FinalizeTerminalExit
<1> QED BY <1>2, <1>3

\* A dead attach that is detached is served no longer (Drop).
LEMMA DetachSimulated ==
  ASSUME TypeOK, NEW t \in Terminals, NEW k \in Attaches, NEW b \in BOOLEAN,
         DetachDeadAttach(t, k, b)
  PROVE  Simulated
<1>1. CASE terminals[t] = k
  <2>1. Contract!Drop(t)
    BY <1>1, RemovedIsNotServed DEF DetachDeadAttach, Contract!Drop
  <2> QED BY <2>1 DEF Simulated, Contract!CNext
<1>2. CASE terminals[t] # k
  BY <1>2, Hidden DEF DetachDeadAttach
<1> QED BY <1>1, <1>2

\* A teardown is a close (Close).
LEMMA CloseSimulated ==
  ASSUME TypeOK, NEW t \in Terminals, Own(t), Attached(t), Teardown(t),
         MarkEnded(t) \/ UNCHANGED row
  PROVE  Simulated
<1>1. row' \in {row, [row EXCEPT ![t] = "ended"]}
  BY DEF MarkEnded, TypeOK, TypeCatalog
<1>2. Contract!Close(t)
  BY <1>1, RemovedIsNotServed DEF Teardown, Contract!Close
<1> QED BY <1>2 DEF Simulated, Contract!CNext

\* The shell ends, by itself or killed.
LEMMA ExitSimulated ==
  ASSUME TypeOK, NEW t \in Terminals, session[t] # "none",
         session' = [session EXCEPT ![t] = "gone"],
         UNCHANGED <<row, terminals, closed>>
  PROVE  Simulated
<1>1. CASE session[t] = "live"
  <2>1. Contract!Exit(t)
    BY <1>1 DEF Contract!Exit, Attached
  <2> QED BY <2>1 DEF Simulated, Contract!CNext
<1>2. CASE session[t] # "live"
  <2>1. UNCHANGED session
    BY <1>2 DEF TypeOK
  <2> QED BY <2>1, Hidden
<1> QED BY <1>1, <1>2

\* A kill ends a session that was closed.
LEMMA KillDoneSimulated ==
  ASSUME TypeOK, NEW t \in Terminals, Recorded(t), NEW k \in Attaches,
         KillDone(t, k)
  PROVE  Simulated
<1>1. session[t] # "none" /\ UNCHANGED <<row, terminals, closed>>
  BY DEF KillDone, Recorded
<1>2. CASE session' = [session EXCEPT ![t] = "gone"]
  BY <1>1, <1>2, ExitSimulated
<1>3. CASE UNCHANGED session
  BY <1>1, <1>3, Hidden
<1> QED BY <1>2, <1>3 DEF KillDone

\* Start-up ends the rows of sessions that are gone.
LEMMA ReconcileSimulated ==
  ASSUME TypeOK, NEW t \in Terminals, Own(t), Quiet(t), Reconcile(t)
  PROVE  Simulated
<1>1. PICK a \in Liveness :
        /\ Probe(t, a)
        /\ IF a = "missing" THEN MarkEnded(t) ELSE UNCHANGED catalog
  BY DEF Reconcile
<1>2. UNCHANGED <<session, terminals, closed>> /\ ~Attached(t)
  BY DEF Reconcile, Quiet, Off
<1>3. CASE a = "missing" /\ session[t] # "none"
  <2>1. session[t] = "gone"
    BY <1>1, <1>3 DEF Probe, TypeOK
  <2>2. {u \in Terminals : Attached(u)}' = {u \in Terminals : Attached(u)} \ {t}
    BY <1>2 DEF Attached
  <2> QED BY <1>1, <1>2, <1>3, <2>1, <2>2, EndSimulated
<1>4. CASE ~(a = "missing" /\ session[t] # "none")
  <2>1. UNCHANGED row
    BY <1>1, <1>4 DEF MarkEnded, Own, Untouched, TypeOK, TypeCatalog
  <2> QED BY <1>2, <2>1, Hidden
<1> QED BY <1>3, <1>4

\* Every step of the service maps to the contract or a stutter.
LEMMA WorkSimulated ==
  ASSUME TypeOK, NEW t \in Terminals, Own(t), Recorded(t), Work(t)
  PROVE  Simulated
<1>1. CASE CreateDone(t) \/ CreateDoneAfterExit(t)
  BY <1>1, CreateDoneSimulated, CreateDoneAfterExitSimulated
<1>2. CASE CreateFails(t) \/ FlightFails(t)
  BY <1>2, Hidden DEF CreateFails, FlightFails
<1>3. CASE \E a \in Liveness : FlightProbed(t, a)
  BY <1>3, FlightProbedSimulated
<1>4. CASE FlightRegisters(t)
  BY <1>4, FlightRegistersSimulated
<1>5. CASE \E k \in Attaches :
             FlightSpawns(t, k) \/ AttachExits(t, k) \/ ExitProbed(t, k)
  BY <1>5, Hidden DEF FlightSpawns, AttachExits, ExitProbed
<1>6. CASE \E k \in Attaches : FinalizeTerminalExit(t, k) \/ KillDone(t, k)
  BY <1>6, FinalizeSimulated, KillDoneSimulated
<1>7. CASE \E k \in Attaches, b \in BOOLEAN : DetachDeadAttach(t, k, b)
  BY <1>7, DetachSimulated
<1>8. CASE TimerFires(t) \/ SocketOpens(t) \/ SweepCancels(t)
  BY <1>8, Hidden DEF TimerFires, SocketOpens, SweepCancels
<1>9. CASE SweepEnds(t) \/ CleanupIdle(t) \/ ReapDetached(t)
  BY <1>9, CloseSimulated DEF SweepEnds, CleanupIdle, ReapDetached
<1> QED BY <1>1, <1>2, <1>3, <1>4, <1>5, <1>6, <1>7, <1>8, <1>9 DEF Work

\* So does every request.
LEMMA RequestSimulated ==
  ASSUME TypeOK, NEW t \in Terminals, Own(t), Request(t)
  PROVE  Simulated
<1>1. CASE \E k \in Attaches : Create(t, k)
  BY <1>1, CreateSimulated
<1>2. CASE \/ Poll(t) \/ Upgrade(t) \/ SocketCloses(t) \/ CancelCloseLater(t)
           \/ \E f \in BOOLEAN : CloseLater(t, f)
  BY <1>2, Hidden DEF Poll, Upgrade, SocketCloses, CancelCloseLater,
     CloseLater
<1>3. CASE Delete(t)
  BY <1>3, CloseSimulated DEF Delete
<1> QED BY <1>1, <1>2, <1>3 DEF Request

\* So does every step.
LEMMA NextSimulated ==
  ASSUME IInv, \A t \in Terminals : Recorded(t) /\ Quiet(t), [Next]_vars
  PROVE  Simulated
<1> USE IInvIsOwn
<1>1. ASSUME NEW t \in Terminals, Work(t) PROVE Simulated
  BY <1>1, WorkSimulated
<1>2. ASSUME NEW t \in Terminals, Request(t) PROVE Simulated
  BY <1>2, RequestSimulated
<1>3. ASSUME NEW t \in Terminals, SessionExits(t) PROVE Simulated
  BY <1>3, ExitSimulated DEF SessionExits
<1>4. ASSUME NEW t \in Terminals, Reconcile(t) PROVE Simulated
  BY <1>4, ReconcileSimulated
<1>5. ASSUME NEW t \in Terminals, Recover(t) PROVE Simulated
  BY <1>5, Hidden DEF Recover
<1>6. CASE Stop
  <2>1. Contract!Stop
    BY <1>6 DEF Stop, Contract!Stop, Attached
  <2> QED BY <2>1 DEF Simulated, Contract!CNext
<1>7. CASE Start \/ ListSessions \/ Serve \/ UNCHANGED vars
  BY <1>7, Hidden DEF Start, ListSessions, Serve, vars
<1> QED BY <1>1, <1>2, <1>3, <1>4, <1>5, <1>6, <1>7 DEF Next, Boot

\* The session machinery keeps the contract: only an exit of the shell or a
\* close somebody asked for ends a terminal.
THEOREM LifecycleKeepsContract == Spec => KeepsContract
<1>1. Init => Contract!CInit
  BY DEF Init, Contract!CInit, Attached
<1>2. IInv /\ (\A t \in Terminals : Recorded(t))
      /\ (\A t \in Terminals : Quiet(t)) /\ [Next]_vars
        => [Contract!CNext]_(Contract!cvars)
  BY NextSimulated DEF Simulated
<1> QED BY <1>1, <1>2, LifecycleInvariant, InvariantRecorded, InvariantQuiet,
           PTL DEF Spec, KeepsContract, Contract!CSpec

-----------------------------------------------------------------------------
(* Who takes a handle out of the Map *)

Detaches(t) ==
  Attached(t) /\ terminals'[t] # terminals[t] =>
    LET k == terminals[t] IN
    \/ serverState' = "down"
    \/ terminals'[t] = NoAttach /\ k \in killing'[t]
    \/ terminals'[t] = NoAttach /\ exit[t][k] \in Liveness
                                /\ exit'[t][k] \notin Liveness

\* In the service's steps no exit removes another attach's handle.
LEMMA WorkDetaches ==
  ASSUME TypeOK, NEW t \in Terminals, Own(t), Work(t)
  PROVE  Detaches(t)
<1> USE DEF TypeOK, TypeHandles
<1>1. CASE CreateDone(t) \/ CreateDoneAfterExit(t) \/ CreateFails(t)
  BY <1>1 DEF CreateDone, CreateDoneAfterExit, CreateFails, Detaches, Own,
     FlightFillsEmptySlot
<1>2. CASE \/ \E a \in Liveness : FlightProbed(t, a)
           \/ \E k \in Attaches : FlightSpawns(t, k)
           \/ FlightFails(t)
  BY <1>2 DEF FlightProbed, FlightSpawns, FlightFails, Detaches
<1>3. CASE FlightRegisters(t)
  BY <1>3 DEF FlightRegisters, Detaches, Own, FlightFillsEmptySlot
<1>4. CASE \E k \in Attaches :
             AttachExits(t, k) \/ ExitProbed(t, k) \/ KillDone(t, k)
  BY <1>4 DEF AttachExits, ExitProbed, KillDone, Detaches
<1>5. ASSUME NEW k \in Attaches, exit[t][k] \in Liveness, ExitHandled(t, k),
             terminals[t] \in {k, NoAttach}, RemoveTerminalState(t)
      PROVE  Detaches(t)
  <2>1. terminals'[t] = NoAttach
    BY <1>5 DEF RemoveTerminalState
  <2>2. exit'[t][k] \notin Liveness
    BY <1>5 DEF ExitHandled, Forget, TypeClients, Liveness
  <2> QED BY <1>5, <2>1, <2>2 DEF Detaches, Attached
<1>6. ASSUME NEW k \in Attaches, FinalizeTerminalExit(t, k)
      PROVE  Detaches(t)
  <2>1. CASE OwnsTerminalSlot(t, k)
    BY <1>5, <1>6, <2>1 DEF FinalizeTerminalExit, ExitJudged,
       OwnsTerminalSlot
  <2>2. CASE ~OwnsTerminalSlot(t, k)
    BY <1>6, <2>2 DEF FinalizeTerminalExit, Detaches
  <2> QED BY <2>1, <2>2
<1>7. ASSUME NEW k \in Attaches, NEW b \in BOOLEAN, DetachDeadAttach(t, k, b)
      PROVE  Detaches(t)
  <2>1. CASE terminals[t] = k
    BY <1>5, <1>7, <2>1 DEF DetachDeadAttach, ExitJudged
  <2>2. CASE terminals[t] # k
    BY <1>7, <2>2 DEF DetachDeadAttach, Detaches
  <2> QED BY <2>1, <2>2
<1>8. CASE TimerFires(t) \/ SocketOpens(t) \/ SweepCancels(t)
  BY <1>8 DEF TimerFires, SocketOpens, SweepCancels, Detaches
<1>9. CASE SweepEnds(t) \/ CleanupIdle(t) \/ ReapDetached(t)
  BY <1>9 DEF SweepEnds, CleanupIdle, ReapDetached, Teardown,
     RemoveTerminalState, Detaches
<1> QED BY <1>1, <1>2, <1>3, <1>4, <1>6, <1>7, <1>8, <1>9 DEF Work

\* Nor in requests.
LEMMA RequestDetaches ==
  ASSUME TypeOK, NEW t \in Terminals,
         Request(t) \/ SessionExits(t) \/ Reconcile(t) \/ Recover(t)
  PROVE  Detaches(t)
<1>1. CASE Delete(t)
  BY <1>1 DEF Delete, Teardown, RemoveTerminalState, Detaches, TypeOK,
     TypeHandles
<1>2. CASE ~Delete(t)
  <2>1. UNCHANGED terminals
    BY <1>2 DEF Request, Create, Poll, Upgrade, SocketCloses, CloseLater,
       CancelCloseLater, SessionExits, Reconcile, Recover
  <2> QED BY <2>1 DEF Detaches
<1> QED BY <1>1, <1>2

\* So in every step.
LEMMA NextDetaches ==
  ASSUME IInv, [Next]_vars, NEW u \in Terminals
  PROVE  Detaches(u)
<1> USE IInvIsOwn
<1>1. ASSUME NEW t \in Terminals, t # u,
             \/ Work(t) \/ Request(t) \/ SessionExits(t) \/ Reconcile(t)
             \/ Recover(t)
      PROVE  Detaches(u)
  <2>1. terminals'[u] = terminals[u]
    BY <1>1, WorkElsewhere, RequestElsewhere DEF Part
  <2> QED BY <2>1 DEF Detaches
<1>2. CASE \/ Work(u) \/ Request(u) \/ SessionExits(u) \/ Reconcile(u)
           \/ Recover(u)
  BY <1>2, WorkDetaches, RequestDetaches
<1>3. CASE Stop
  BY <1>3 DEF Stop, Detaches
<1>4. CASE Start \/ ListSessions \/ Serve \/ UNCHANGED vars
  BY <1>4 DEF Start, ListSessions, Serve, vars, Detaches
<1> QED BY <1>1, <1>2, <1>3, <1>4 DEF Next, Boot

\* The exit of an older attach never removes the handle that replaced it.
THEOREM LifecycleOnlyItsOwnExit == Spec => OnlyItsOwnExitDetaches
<1>1. IInv /\ [Next]_vars => [\A t \in Terminals :
        Attached(t) /\ terminals'[t] # terminals[t] =>
          LET k == terminals[t] IN
          \/ serverState' = "down"
          \/ terminals'[t] = NoAttach /\ k \in killing'[t]
          \/ terminals'[t] = NoAttach /\ exit[t][k] \in Liveness
                                      /\ exit'[t][k] \notin Liveness]_vars
  BY NextDetaches DEF Detaches
<1> QED BY <1>1, LifecycleInvariant, PTL DEF Spec, OnlyItsOwnExitDetaches
=============================================================================
