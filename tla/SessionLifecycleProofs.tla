----------------------- MODULE SessionLifecycleProofs -----------------------
(***************************************************************************)
(* Proofs about SessionLifecycle, for any set of terminals and attach      *)
(* clients, any retry budget and any number of faults: types first, then   *)
(* the safety invariants.                                                  *)
(*                                                                         *)
(* Every action is about one terminal, so the inductive invariant is a     *)
(* conjunction Own(t) per terminal.  One lemma per action shows that it    *)
(* keeps Own of its terminal, OthersKeep that it keeps that of the others. *)
(***************************************************************************)
EXTENDS SessionLifecycle, TLAPS

USE DEF boot, catalog, handles, clients, retries

-----------------------------------------------------------------------------
(* The helpers of the actions keep the types of what they write. *)

\* Ending a row keeps the catalog's types.
LEMMA MarkEndedTyped ==
  ASSUME TypeCatalog, NEW t \in Terminals, MarkEnded(t)
  PROVE  TypeCatalog'
  BY DEF MarkEnded, TypeCatalog

\* So does setting its deadline.
LEMMA SetDueTyped ==
  ASSUME TypeCatalog, NEW t \in Terminals, NEW b \in BOOLEAN,
         SetDue(t, b), UNCHANGED row
  PROVE  TypeCatalog'
  BY DEF SetDue, TypeCatalog

\* removeTerminalState leaves an empty slot.
LEMMA RemoveTyped ==
  ASSUME TypeHandles, NEW t \in Terminals,
         RemoveTerminalState(t), UNCHANGED upgrading
  PROVE  TypeHandles'
  BY LifecycleAssumption DEF RemoveTerminalState, TypeHandles

\* Forgetting a retry keeps its types.
LEMMA ForgetRetriesTyped ==
  ASSUME TypeRetries, NEW t \in Terminals,
         ForgetTmuxReattach(t)
  PROVE  TypeRetries'
  BY LifecycleAssumption DEF ForgetTmuxReattach, TypeRetries

\* So does scheduling one.
LEMMA ScheduleTyped ==
  ASSUME TypeRetries, NEW t \in Terminals,
         NEW stable \in BOOLEAN, ScheduleTmuxReattach(t, stable)
  PROVE  TypeRetries'
<1>1. attempts[t] \in 0..Backoffs
  BY DEF TypeRetries
<1>2. Used(t, stable) \in 0..Backoffs
  BY <1>1, LifecycleAssumption DEF Used
<1>3. CASE timer[t] \/ Used(t, stable) >= Backoffs
  BY <1>3 DEF ScheduleTmuxReattach, TypeRetries
<1>4. CASE ~(timer[t] \/ Used(t, stable) >= Backoffs)
  <2>1. Used(t, stable) + 1 \in 0..Backoffs
    BY <1>2, <1>4, LifecycleAssumption
  <2> QED
    BY <1>4, <2>1 DEF ScheduleTmuxReattach, TypeRetries
<1> QED BY <1>3, <1>4

\* Forgetting a client keeps the types of clients.
LEMMA ForgetTyped ==
  ASSUME TypeClients, NEW t \in Terminals, NEW k, Forget(t, k)
  PROVE  TypeClients'
  BY DEF Forget, TypeClients

\* So does the end of an exit's judgement.
LEMMA ExitHandledTyped ==
  ASSUME TypeClients, NEW t \in Terminals, NEW k \in Attaches,
         ExitHandled(t, k)
  PROVE  TypeClients'
<1>1. CASE k \in killing[t]
  <2>1. exit' = [exit EXCEPT ![t][k] = "handled"] /\ UNCHANGED <<stage, live>>
    BY <1>1 DEF ExitHandled
  <2> QED BY <2>1 DEF TypeClients
<1>2. CASE k \notin killing[t]
  BY <1>2, ForgetTyped DEF ExitHandled
<1> QED BY <1>1, <1>2

\* So does a spawn.
LEMMA SpawnTyped ==
  ASSUME TypeClients, NEW t \in Terminals, NEW k \in Attaches,
         SpawnAttach(t, k)
  PROVE  TypeClients'
  BY DEF SpawnAttach, TypeClients

\* Joining a restore keeps the types of flights.
LEMMA JoinTyped ==
  ASSUME TypeCatalog, flight \in [Terminals -> Flights],
         NEW t \in Terminals, NEW c \in Callers, Join(t, c)
  PROVE  (flight \in [Terminals -> Flights])'
<1>1. due[t] \in BOOLEAN
  BY DEF TypeCatalog
<1>2. flight[t] \in Flights
  OBVIOUS
<1>3. [phase |-> "probe", by |-> NoAttach, due |-> due[t], callers |-> {c}]
        \in Flights
  BY <1>1 DEF Flights
<1>4. [flight[t] EXCEPT !.callers = @ \cup {c}] \in Flights
  BY <1>2 DEF Flights
<1>5. CASE flight[t].phase = "none"
  BY <1>3, <1>5 DEF Join
<1>6. CASE flight[t].phase # "none"
  BY <1>4, <1>6 DEF Join
<1> QED BY <1>5, <1>6

\* No flight is a flight's type.
LEMMA NoFlightTyped == NoFlight \in Flights
  BY DEF NoFlight, Flights

\* The end of a flight keeps the types.
LEMMA EndFlightTyped ==
  ASSUME flight \in [Terminals -> Flights], NEW t \in Terminals,
         flight' = [flight EXCEPT ![t] = NoFlight]
  PROVE  (flight \in [Terminals -> Flights])'
  BY NoFlightTyped

\* Faults stay within their bound.
LEMMA FaultTyped ==
  ASSUME faults \in 0..MaxFaults, Fault \/ NoFault
  PROVE  (faults \in 0..MaxFaults)'
  BY LifecycleAssumption DEF Fault, NoFault

\* Answering a restore with its handle keeps the types.
LEMMA AnswerHandleTyped ==
  ASSUME TypeOK, NEW t \in Terminals,
         NEW d \in BOOLEAN, AnswerHandle(t, d), UNCHANGED <<row, sockets>>
  PROVE  /\ TypeCatalog'
         /\ (flight \in [Terminals -> Flights])'
         /\ todo' \in SUBSET Terminals
         /\ termDue' \in [Terminals -> BOOLEAN]
         /\ upgrading' \in [Terminals -> 0..MaxSockets]
<1> USE DEF TypeOK
<1>1. (flight \in [Terminals -> Flights])'
  BY EndFlightTyped DEF AnswerHandle
<1>2. todo' \in SUBSET Terminals
  BY DEF AnswerHandle
<1>3. TypeCatalog'
  BY SetDueTyped DEF AnswerHandle, TypeCatalog
<1>4. termDue' \in [Terminals -> BOOLEAN]
  BY DEF AnswerHandle, TypeHandles
<1>5. upgrading' \in [Terminals -> 0..MaxSockets]
  <2>1. upgrading \in [Terminals -> 0..MaxSockets]
    BY DEF TypeHandles
  <2>2. upgrading[t] < MaxSockets => upgrading[t] + 1 \in 0..MaxSockets
    BY <2>1, LifecycleAssumption
  <2> QED BY <2>1, <2>2 DEF AnswerHandle
<1> QED BY <1>1, <1>2, <1>3, <1>4, <1>5

\* Answering a restore with null keeps the types.
LEMMA AnswerNullTyped ==
  ASSUME TypeOK, NEW t \in Terminals, AnswerNull(t)
  PROVE  /\ (flight \in [Terminals -> Flights])'
         /\ todo' \in SUBSET Terminals
         /\ TypeRetries'
<1> USE DEF TypeOK
<1>1. (flight \in [Terminals -> Flights])'
  BY EndFlightTyped DEF AnswerNull
<1>2. todo' \in SUBSET Terminals
  BY DEF AnswerNull
<1>3. TypeRetries'
  BY ScheduleTyped, ForgetRetriesTyped DEF AnswerNull, TypeRetries
<1> QED BY <1>1, <1>2, <1>3

-----------------------------------------------------------------------------
(* Type correctness *)

\* The initial state is typed.
LEMMA InitTyped == Init => TypeOK
  BY NoFlightTyped, LifecycleAssumption DEF Init, TypeOK, TypeCatalog,
     TypeHandles, TypeClients, TypeRetries

\* Every step of the program and of its environment keeps the types.
LEMMA NextTyped ==
  ASSUME TypeOK, [Next]_vars
  PROVE  TypeOK'
<1> USE DEF TypeOK
<1>1. ASSUME NEW t \in Terminals, CreateDone(t)
      PROVE  TypeOK'
  <2>1. TypeCatalog'
    BY <1>1 DEF CreateDone, TypeCatalog
  <2>2. TypeHandles'
    BY <1>1 DEF CreateDone, TypeHandles, Flights
  <2>3. TypeClients'
    BY <1>1 DEF CreateDone, TypeClients
  <2>4. (flight \in [Terminals -> Flights])'
    BY <1>1, EndFlightTyped DEF CreateDone
  <2> QED BY <1>1, <2>1, <2>2, <2>3, <2>4 DEF CreateDone, TypeCatalog,
         TypeHandles, TypeClients, TypeRetries
<1>2. ASSUME NEW t \in Terminals, CreateDoneAfterExit(t)
      PROVE  TypeOK'
  <2>1. TypeCatalog'
    BY <1>2 DEF CreateDoneAfterExit, TypeCatalog
  <2>2. TypeClients'
    BY <1>2, ForgetTyped DEF CreateDoneAfterExit
  <2>3. (flight \in [Terminals -> Flights])'
    BY <1>2, EndFlightTyped DEF CreateDoneAfterExit
  <2> QED BY <1>2, <2>1, <2>2, <2>3 DEF CreateDoneAfterExit, TypeCatalog,
         TypeHandles, TypeClients, TypeRetries
<1>3. ASSUME NEW t \in Terminals, CreateFails(t)
      PROVE  TypeOK'
  <2>1. TypeClients'
    BY <1>3 DEF CreateFails, TypeClients
  <2>2. (flight \in [Terminals -> Flights])'
    BY <1>3, EndFlightTyped DEF CreateFails
  <2>3. (faults \in 0..MaxFaults)'
    BY <1>3, FaultTyped DEF CreateFails
  <2> QED BY <1>3, <2>1, <2>2, <2>3 DEF CreateFails, TypeCatalog,
         TypeHandles, TypeClients, TypeRetries
<1>4. ASSUME NEW t \in Terminals, NEW a \in Liveness, FlightProbed(t, a)
      PROVE  TypeOK'
  <2>1. (faults \in 0..MaxFaults)'
    BY <1>4, FaultTyped DEF FlightProbed, Probe
  <2>2. /\ TypeCatalog' /\ TypeHandles' /\ TypeRetries'
                 /\ (flight \in [Terminals -> Flights])' /\ todo' \in SUBSET Terminals
    <3>1. CASE a = "unknown"
      BY <1>4, <3>1, AnswerNullTyped DEF FlightProbed, TypeHandles, TypeCatalog
    <3>2. CASE a = "missing"
      <4>1. MarkEnded(t) /\ ForgetTmuxReattach(t)
        BY <1>4, <3>2 DEF FlightProbed
      <4> QED BY <1>4, <3>2, <4>1, MarkEndedTyped, ForgetRetriesTyped,
                 EndFlightTyped DEF FlightProbed, TypeHandles
    <3>3. CASE a = "alive" /\ Attached(t)
      <4>1. AnswerHandle(t, termDue[t]) /\ UNCHANGED <<row, sockets, retries>>
        BY <1>4, <3>3 DEF FlightProbed
      <4>2. termDue[t] \in BOOLEAN
        BY DEF TypeHandles
      <4> QED BY <1>4, <4>1, <4>2, AnswerHandleTyped
              DEF FlightProbed, TypeHandles, TypeRetries
    <3>4. CASE a = "alive" /\ ~Attached(t) /\ row[t] # "active"
      <4>1. AnswerNull(t)
        BY <1>4, <3>4 DEF FlightProbed
      <4> QED BY <1>4, <3>4, <4>1, AnswerNullTyped
              DEF FlightProbed, TypeHandles, TypeCatalog
    <3>5. CASE a = "alive" /\ ~Attached(t) /\ row[t] = "active"
      <4>1. flight' = [flight EXCEPT ![t].phase = "query"]
        BY <1>4, <3>5 DEF FlightProbed
      <4>2. (flight \in [Terminals -> Flights])'
        BY <4>1 DEF Flights
      <4> QED BY <1>4, <3>5, <4>2
              DEF FlightProbed, TypeHandles, TypeCatalog, TypeRetries
    <3> QED BY <3>1, <3>2, <3>3, <3>4, <3>5 DEF Liveness
  <2> QED BY <1>4, <2>1, <2>2 DEF FlightProbed, TypeCatalog, TypeHandles,
         TypeClients, TypeRetries
<1>5. ASSUME NEW t \in Terminals, NEW k \in Attaches, FlightSpawns(t, k)
      PROVE  TypeOK'
  <2>1. /\ TypeCatalog' /\ TypeHandles' /\ TypeClients'
                 /\ (flight \in [Terminals -> Flights])' /\ todo' \in SUBSET Terminals
    <3>1. CASE Attached(t)
      <4>1. AnswerHandle(t, termDue[t]) /\ UNCHANGED <<row, sockets, clients>>
        BY <1>5, <3>1 DEF FlightSpawns
      <4>2. termDue[t] \in BOOLEAN
        BY DEF TypeHandles
      <4> QED BY <1>5, <4>1, <4>2, AnswerHandleTyped
              DEF FlightSpawns, TypeHandles, TypeClients
    <3>2. CASE ~Attached(t)
      <4>1. flight' = [flight EXCEPT ![t].phase = "attach", ![t].by = k]
        BY <1>5, <3>2 DEF FlightSpawns
      <4>2. (flight \in [Terminals -> Flights])'
        BY ZenonT(60), <4>1 DEF Flights
      <4> QED BY <1>5, <3>2, <4>2, SpawnTyped
              DEF FlightSpawns, TypeHandles, TypeCatalog
    <3> QED BY <3>1, <3>2
  <2> QED BY <1>5, <2>1 DEF FlightSpawns, TypeCatalog, TypeHandles,
         TypeClients, TypeRetries
<1>6. ASSUME NEW t \in Terminals, FlightFails(t)
      PROVE  TypeOK'
  <2>1. TypeClients'
    <3>1. CASE flight[t].phase = "query"
      BY <1>6, <3>1 DEF FlightFails, TypeClients
    <3>2. CASE flight[t].phase = "attach"
      <4>1. /\ stage' = [stage EXCEPT ![t][flight[t].by] = "failed"]
            /\ UNCHANGED <<live, exit>>
        BY <1>6, <3>2 DEF FlightFails
      <4> QED BY <4>1 DEF TypeClients
    <3> QED BY <1>6, <3>1, <3>2 DEF FlightFails
  <2>2. /\ (flight \in [Terminals -> Flights])' /\ TypeRetries'
                 /\ todo' \in SUBSET Terminals
    BY <1>6, AnswerNullTyped DEF FlightFails
  <2>3. (faults \in 0..MaxFaults)'
    BY <1>6, FaultTyped DEF FlightFails
  <2> QED BY <1>6, <2>1, <2>2, <2>3 DEF FlightFails, TypeCatalog,
         TypeHandles, TypeClients, TypeRetries
<1>7. ASSUME NEW t \in Terminals, FlightRegisters(t)
      PROVE  TypeOK'
  <2>1. TypeClients'
    BY <1>7 DEF FlightRegisters, TypeClients
  <2>2. /\ TypeCatalog' /\ (flight \in [Terminals -> Flights])'
                 /\ todo' \in SUBSET Terminals
                 /\ termDue' \in [Terminals -> BOOLEAN]
                 /\ upgrading' \in [Terminals -> 0..MaxSockets]
    BY <1>7, AnswerHandleTyped,
         flight[t].due \in BOOLEAN DEF FlightRegisters, Flights
  <2>3. TypeHandles'
    BY <1>7, <2>2 DEF FlightRegisters, TypeHandles, Flights
  <2> QED BY <1>7, <2>1, <2>2, <2>3 DEF FlightRegisters, TypeCatalog,
         TypeHandles, TypeClients, TypeRetries
<1>8. ASSUME NEW t \in Terminals, NEW k \in Attaches, AttachExits(t, k)
      PROVE  TypeOK'
  <2>1. TypeClients'
    BY <1>8 DEF AttachExits, TypeClients
  <2>2. (faults \in 0..MaxFaults)'
    BY <1>8, FaultTyped DEF AttachExits
  <2> QED BY <1>8, <2>1, <2>2 DEF AttachExits, TypeCatalog, TypeHandles,
         TypeClients, TypeRetries
<1>9. ASSUME NEW t \in Terminals, NEW k \in Attaches, ExitProbed(t, k)
      PROVE  TypeOK'
  <2>1. TypeClients'
    BY <1>9 DEF ExitProbed, TypeClients
  <2>2. (faults \in 0..MaxFaults)'
    BY <1>9, FaultTyped DEF ExitProbed, Probe
  <2> QED BY <1>9, <2>1, <2>2 DEF ExitProbed, TypeCatalog, TypeHandles,
         TypeClients, TypeRetries
<1>10. ASSUME NEW t \in Terminals, NEW k \in Attaches,
         FinalizeTerminalExit(t, k)
      PROVE  TypeOK'
  <2>1. TypeClients'
    BY <1>10, ExitHandledTyped DEF FinalizeTerminalExit
  <2>2. TypeCatalog'
    BY <1>10, MarkEndedTyped DEF FinalizeTerminalExit, TypeCatalog
  <2>3. TypeHandles'
    BY <1>10, RemoveTyped DEF FinalizeTerminalExit, TypeHandles
  <2>4. TypeRetries'
    BY <1>10, ForgetRetriesTyped DEF FinalizeTerminalExit, TypeRetries
  <2> QED BY <1>10, <2>1, <2>2, <2>3, <2>4 DEF FinalizeTerminalExit,
         TypeCatalog, TypeHandles, TypeClients, TypeRetries
<1>11. ASSUME NEW t \in Terminals, NEW k \in Attaches, NEW b \in BOOLEAN,
         DetachDeadAttach(t, k, b)
      PROVE  TypeOK'
  <2>1. TypeClients'
    BY <1>11, ExitHandledTyped DEF DetachDeadAttach
  <2>2. TypeHandles'
    BY <1>11, RemoveTyped DEF DetachDeadAttach, TypeHandles
  <2>3. TypeRetries'
    BY <1>11, ScheduleTyped DEF DetachDeadAttach, TypeRetries
  <2> QED BY <1>11, <2>1, <2>2, <2>3 DEF DetachDeadAttach, TypeCatalog,
         TypeHandles, TypeClients, TypeRetries
<1>12. ASSUME NEW t \in Terminals, TimerFires(t)
      PROVE  TypeOK'
  <2>1. (flight \in [Terminals -> Flights])'
    BY <1>12, JoinTyped, "timer" \in Callers DEF TimerFires, Callers
  <2>2. TypeRetries'
    BY <1>12, ForgetRetriesTyped DEF TimerFires, TypeRetries
  <2> QED BY <1>12, <2>1, <2>2 DEF TimerFires, TypeCatalog, TypeHandles,
         TypeClients, TypeRetries
<1>13. ASSUME NEW t \in Terminals, SocketOpens(t)
      PROVE  TypeOK'
  <2>1. TypeHandles'
    BY <1>13, LifecycleAssumption DEF SocketOpens, TypeHandles
  <2> QED BY <1>13, <2>1 DEF SocketOpens, TypeCatalog, TypeHandles,
         TypeClients, TypeRetries
<1>14. ASSUME NEW t \in Terminals, SweepCancels(t)
      PROVE  TypeOK'
  <2>1. TypeCatalog'
    BY <1>14, SetDueTyped DEF SweepCancels
  <2>2. TypeHandles'
    BY <1>14 DEF SweepCancels, TypeHandles
  <2> QED BY <1>14, <2>1, <2>2 DEF SweepCancels, TypeCatalog, TypeHandles,
         TypeClients, TypeRetries
<1>15. ASSUME NEW t \in Terminals, SweepEnds(t)
      PROVE  TypeOK'
  <2>1. TypeCatalog'
    BY <1>15, MarkEndedTyped DEF SweepEnds
  <2>2. TypeHandles'
    BY <1>15, RemoveTyped DEF SweepEnds, Teardown
  <2>3. (killing \in [Terminals -> SUBSET Attaches])'
    BY <1>15 DEF SweepEnds, Teardown, Attached, TypeHandles
  <2> QED BY <1>15, <2>1, <2>2, <2>3 DEF SweepEnds, Teardown, TypeCatalog, TypeHandles,
         TypeClients, TypeRetries
<1>16. ASSUME NEW t \in Terminals, CleanupIdle(t)
      PROVE  TypeOK'
  <2>1. TypeHandles'
    BY <1>16, RemoveTyped DEF CleanupIdle, Teardown
  <2>2. (killing \in [Terminals -> SUBSET Attaches])'
    BY <1>16 DEF CleanupIdle, Teardown, Attached, TypeHandles
  <2> QED BY <1>16, <2>1, <2>2 DEF CleanupIdle, Teardown, TypeCatalog, TypeHandles,
         TypeClients, TypeRetries
<1>17. ASSUME NEW t \in Terminals, ReapDetached(t)
      PROVE  TypeOK'
  <2>1. TypeCatalog'
    BY <1>17, MarkEndedTyped DEF ReapDetached
  <2>2. TypeHandles'
    BY <1>17, RemoveTyped DEF ReapDetached, Teardown
  <2>3. (killing \in [Terminals -> SUBSET Attaches])'
    BY <1>17 DEF ReapDetached, Teardown, Attached, TypeHandles
  <2> QED BY <1>17, <2>1, <2>2, <2>3 DEF ReapDetached, Teardown, TypeCatalog,
         TypeHandles, TypeClients, TypeRetries
<1>18. ASSUME NEW t \in Terminals, NEW k \in Attaches, KillDone(t, k)
      PROVE  TypeOK'
  <2>1. TypeClients'
    <3>1. CASE exit[t][k] = "handled"
      BY <1>18, <3>1, ForgetTyped DEF KillDone
    <3>2. CASE exit[t][k] # "handled"
      <4>1. /\ live' = [live EXCEPT ![t][k] = FALSE]
            /\ exit' = [exit EXCEPT
                 ![t][k] = IF live[t][k] THEN "probing" ELSE @]
            /\ UNCHANGED stage
        BY <1>18, <3>2 DEF KillDone
      <4>2. exit[t][k] \in {"none", "probing", "handled"} \cup Liveness
        BY DEF TypeClients
      <4>3. CASE live[t][k]
        BY <4>1, <4>3 DEF TypeClients
      <4>4. CASE ~live[t][k]
        BY <4>1, <4>2, <4>4 DEF TypeClients
      <4> QED BY <4>3, <4>4
    <3> QED BY <3>1, <3>2
  <2>2. (killing \in [Terminals -> SUBSET Attaches])'
    BY <1>18 DEF KillDone
  <2>3. (faults \in 0..MaxFaults)'
    BY <1>18, FaultTyped DEF KillDone
  <2> QED BY <1>18, <2>1, <2>2, <2>3 DEF KillDone, TypeCatalog, TypeHandles,
         TypeClients, TypeRetries
<1>19. ASSUME NEW t \in Terminals, NEW k \in Attaches, Create(t, k)
      PROVE  TypeOK'
  <2>1. TypeClients'
    BY <1>19, SpawnTyped DEF Create
  <2>2. (flight \in [Terminals -> Flights])'
    BY <1>19 DEF Create, Flights, NoFlight
  <2> QED BY <1>19, <2>1, <2>2 DEF Create, TypeCatalog, TypeHandles,
         TypeClients, TypeRetries
<1>20. ASSUME NEW t \in Terminals, Poll(t)
      PROVE  TypeOK'
  <2>1. (flight \in [Terminals -> Flights])'
    BY <1>20, JoinTyped, "poll" \in Callers DEF Poll, Callers
  <2> QED BY <1>20, <2>1 DEF Poll, TypeCatalog, TypeHandles, TypeClients,
         TypeRetries
<1>21. ASSUME NEW t \in Terminals, Upgrade(t)
      PROVE  TypeOK'
  <2>1. (flight \in [Terminals -> Flights])'
    BY <1>21, JoinTyped, "ws" \in Callers DEF Upgrade, Callers
  <2>2. TypeCatalog'
    BY <1>21, SetDueTyped DEF Upgrade, TypeCatalog
  <2>3. TypeHandles'
    <3>1. CASE Attached(t)
      <4>1. sockets[t] \in Nat /\ upgrading[t] \in Nat
        BY LifecycleAssumption DEF TypeHandles
      <4>2. upgrading[t] + 1 \in 0..MaxSockets
        BY <1>21, <4>1, LifecycleAssumption DEF Upgrade
      <4> QED BY ZenonT(60), <1>21, <3>1, <4>2 DEF Upgrade, TypeHandles
    <3>2. CASE ~Attached(t)
      BY <1>21, <3>2 DEF Upgrade, TypeHandles
    <3> QED BY <3>1, <3>2
  <2> QED BY <1>21, <2>1, <2>2, <2>3 DEF Upgrade, TypeCatalog, TypeHandles,
         TypeClients, TypeRetries
<1>22. ASSUME NEW t \in Terminals, SocketCloses(t)
      PROVE  TypeOK'
  <2>1. TypeHandles'
    BY <1>22, LifecycleAssumption DEF SocketCloses, TypeHandles
  <2> QED BY <1>22, <2>1 DEF SocketCloses, TypeCatalog, TypeHandles,
         TypeClients, TypeRetries
<1>23. ASSUME NEW t \in Terminals, NEW b \in BOOLEAN, CloseLater(t, b)
      PROVE  TypeOK'
  <2>1. TypeCatalog'
    BY <1>23, SetDueTyped DEF CloseLater
  <2>2. TypeHandles'
    BY <1>23 DEF CloseLater, TypeHandles
  <2> QED BY <1>23, <2>1, <2>2 DEF CloseLater, TypeCatalog, TypeHandles,
         TypeClients, TypeRetries
<1>24. ASSUME NEW t \in Terminals, CancelCloseLater(t)
      PROVE  TypeOK'
  <2>1. TypeCatalog'
    BY <1>24, SetDueTyped DEF CancelCloseLater
  <2>2. TypeHandles'
    BY <1>24 DEF CancelCloseLater, TypeHandles
  <2> QED BY <1>24, <2>1, <2>2 DEF CancelCloseLater, TypeCatalog,
         TypeHandles, TypeClients, TypeRetries
<1>25. ASSUME NEW t \in Terminals, Delete(t)
      PROVE  TypeOK'
  <2>1. TypeCatalog'
    BY <1>25, MarkEndedTyped DEF Delete
  <2>2. TypeHandles'
    BY <1>25, RemoveTyped DEF Delete, Teardown
  <2>3. (killing \in [Terminals -> SUBSET Attaches])'
    BY <1>25 DEF Delete, Teardown, Attached, TypeHandles
  <2> QED BY <1>25, <2>1, <2>2, <2>3 DEF Delete, Teardown, TypeCatalog, TypeHandles,
         TypeClients, TypeRetries
<1>26. ASSUME NEW t \in Terminals, SessionExits(t)
      PROVE  TypeOK'
  BY <1>26 DEF SessionExits, TypeCatalog, TypeHandles, TypeClients, TypeRetries
<1>27. ASSUME NEW t \in Terminals, Reconcile(t)
      PROVE  TypeOK'
  <2>1. TypeCatalog'
    BY <1>27, MarkEndedTyped DEF Reconcile, TypeCatalog
  <2>2. (faults \in 0..MaxFaults)'
    BY <1>27, FaultTyped DEF Reconcile, Probe
  <2> QED BY <1>27, <2>1, <2>2 DEF Reconcile, TypeCatalog, TypeHandles,
         TypeClients, TypeRetries
<1>28. ASSUME NEW t \in Terminals, Recover(t)
      PROVE  TypeOK'
  <2>1. (flight \in [Terminals -> Flights])'
    BY <1>28 DEF Recover, Flights, TypeCatalog
  <2> QED BY <1>28, <2>1 DEF Recover, TypeCatalog, TypeHandles, TypeClients,
         TypeRetries
<1>29. CASE Stop
  <2>1. TypeHandles'
    BY <1>29, LifecycleAssumption DEF Stop, TypeHandles
  <2>2. TypeClients'
    BY <1>29 DEF Stop, TypeClients
  <2>3. (flight \in [Terminals -> Flights])'
    BY <1>29, NoFlightTyped DEF Stop
  <2>4. TypeRetries'
    BY <1>29, LifecycleAssumption DEF Stop, TypeRetries
  <2>5. (faults \in 0..MaxFaults)'
    BY <1>29, FaultTyped DEF Stop
  <2> QED BY <1>29, <2>1, <2>2, <2>3, <2>4, <2>5 DEF Stop, TypeCatalog,
         TypeHandles, TypeClients, TypeRetries
<1>30. CASE Start
  BY <1>30 DEF Start, TypeCatalog, TypeHandles, TypeClients, TypeRetries
<1>31. CASE ListSessions
  <2>1. (faults \in 0..MaxFaults)'
    BY <1>31, FaultTyped DEF ListSessions
  <2> QED BY <1>31, <2>1 DEF ListSessions, TypeCatalog, TypeHandles,
         TypeClients, TypeRetries
<1>32. CASE Serve
  BY <1>32 DEF Serve, TypeCatalog, TypeHandles, TypeClients, TypeRetries
<1>33. CASE UNCHANGED vars
  BY <1>33 DEF vars, TypeCatalog, TypeHandles, TypeClients, TypeRetries
<1> QED BY <1>1, <1>2, <1>3, <1>4, <1>5, <1>6, <1>7, <1>8, <1>9, <1>10,
         <1>11, <1>12, <1>13, <1>14, <1>15, <1>16, <1>17, <1>18, <1>19,
              <1>20, <1>21, <1>22, <1>23, <1>24, <1>25, <1>26, <1>27, <1>28,
                   <1>29, <1>30, <1>31, <1>32, <1>33 DEF Next, Work, Request,
                        Boot

\* Every variable keeps its type, for any number of terminals, attach clients,
\* sockets and faults.
THEOREM TypeCorrect == Spec => []TypeOK
<1>1. TypeOK /\ [Next]_vars => TypeOK'
  BY NextTyped
<1> QED BY <1>1, InitTyped, PTL DEF Spec

-----------------------------------------------------------------------------
\* The safety invariants, for one terminal.
EndJustified(t) == row[t] = "ended" => session[t] # "live" \/ t \in closed

ClientOwned(t) ==
  \A k \in Attaches :
    live[t][k] => \/ terminals[t] = k
                  \/ stage[t][k] = "building" /\ flight[t].by = k
                  \/ stage[t][k] = "failed"
                  \/ k \in killing[t]

HandleAlive(t) ==
  Attached(t) => LET k == terminals[t] IN
                   /\ stage[t][k] = "registered"
                   /\ live[t][k] \/ exit[t][k] \in {"probing"} \cup Liveness

DeadlineAgrees(t) == Attached(t) /\ row[t] = "active" => termDue[t] = due[t]

Own(t) == /\ Untouched(t) /\ MissingIsGone(t) /\ FlightFillsEmptySlot(t)
          /\ LostSlotIsClosed(t) /\ DeadlineCarried(t) /\ EndJustified(t)
          /\ ClientOwned(t) /\ HandleAlive(t) /\ DeadlineAgrees(t)

-----------------------------------------------------------------------------
(* The action of a terminal keeps the terminal's part of the invariant. *)

\* A caller that joins starts a probe, or changes nothing about the flight.
LEMMA JoinFlight ==
  ASSUME TypeOK, NEW t \in Terminals, NEW c \in Callers, Join(t, c)
  PROVE  \/ /\ flight[t].phase = "none" /\ flight'[t].phase = "probe"
            /\ flight'[t].due = due[t]
         \/ /\ flight'[t].phase = flight[t].phase
            /\ flight'[t].due = flight[t].due /\ flight'[t].by = flight[t].by
<1> USE DEF TypeOK, Flights
<1>1. CASE flight[t].phase = "none"
  BY <1>1 DEF Join
<1>2. CASE flight[t].phase # "none"
  BY <1>2 DEF Join
<1> QED BY <1>1, <1>2

\* The terminal's invariant after a create that ends.
LEMMA CreateDoneKeeps ==
  ASSUME TypeOK, NEW t \in Terminals, Own(t),
         CreateDone(t)
  PROVE  Own(t)'
<1> USE DEF TypeOK, Own
<1>1. Untouched(t)' /\ MissingIsGone(t)' /\ EndJustified(t)'
  BY DEF CreateDone, Untouched, MissingIsGone, EndJustified
<1>2. FlightFillsEmptySlot(t)'
  BY DEF CreateDone, FlightFillsEmptySlot, Attached, Liveness, NoFlight,
       TypeCatalog, TypeHandles, TypeClients, Flights
<1>3. LostSlotIsClosed(t)'
  BY LifecycleAssumption DEF CreateDone, LostSlotIsClosed,
       FlightFillsEmptySlot, Attached, Liveness, NoFlight, TypeCatalog,
       TypeHandles, TypeClients, Flights
<1>4. DeadlineCarried(t)'
  BY LifecycleAssumption DEF CreateDone, DeadlineCarried,
       FlightFillsEmptySlot, Attached, Liveness, NoFlight, TypeCatalog,
       TypeHandles, TypeClients, Flights
<1>5. ClientOwned(t)'
  BY LifecycleAssumption DEF CreateDone, ClientOwned, FlightFillsEmptySlot,
       Attached, Liveness, NoFlight, TypeCatalog, TypeHandles, TypeClients,
       Flights
<1>6. HandleAlive(t)'
  BY LifecycleAssumption DEF CreateDone, HandleAlive, FlightFillsEmptySlot,
       Attached, Liveness, NoFlight, TypeCatalog, TypeHandles, TypeClients,
       Flights
<1>7. DeadlineAgrees(t)'
  BY LifecycleAssumption DEF CreateDone, DeadlineAgrees, DeadlineCarried,
       FlightFillsEmptySlot, Attached, Liveness, NoFlight, TypeCatalog,
       TypeHandles, TypeClients, Flights
<1> QED BY <1>1, <1>2, <1>3, <1>4, <1>5, <1>6, <1>7

\* The terminal's invariant after a create whose client exited meanwhile.
LEMMA CreateDoneAfterExitKeeps ==
  ASSUME TypeOK, NEW t \in Terminals, Own(t),
         CreateDoneAfterExit(t)
  PROVE  Own(t)'
<1> USE DEF TypeOK, Own
<1>1. Untouched(t)' /\ MissingIsGone(t)' /\ EndJustified(t)'
  BY DEF CreateDoneAfterExit, Forget, Untouched, MissingIsGone, EndJustified
<1>2. FlightFillsEmptySlot(t)'
  BY DEF CreateDoneAfterExit, Forget, FlightFillsEmptySlot, Attached,
       Liveness, NoFlight, TypeCatalog, TypeHandles, TypeClients, Flights
<1>3. LostSlotIsClosed(t)'
  BY LifecycleAssumption DEF CreateDoneAfterExit, Forget, LostSlotIsClosed,
       FlightFillsEmptySlot, Attached, Liveness, NoFlight, TypeCatalog,
       TypeHandles, TypeClients, Flights
<1>4. DeadlineCarried(t)'
  BY DEF CreateDoneAfterExit, Forget, DeadlineCarried, Attached, Liveness,
       NoFlight
<1>5. ClientOwned(t)'
  BY DEF CreateDoneAfterExit, Forget, ClientOwned, Attached, Liveness,
       NoFlight, TypeCatalog, TypeHandles, TypeClients, Flights
<1>6. HandleAlive(t)'
  BY LifecycleAssumption DEF CreateDoneAfterExit, Forget, HandleAlive,
       FlightFillsEmptySlot, Attached, Liveness, NoFlight, TypeCatalog,
       TypeHandles, TypeClients, Flights
<1>7. DeadlineAgrees(t)'
  BY LifecycleAssumption DEF CreateDoneAfterExit, Forget, DeadlineAgrees,
       FlightFillsEmptySlot, Attached, Liveness, NoFlight, TypeCatalog,
       TypeHandles, TypeClients, Flights
<1> QED BY <1>1, <1>2, <1>3, <1>4, <1>5, <1>6, <1>7

\* The terminal's invariant after a create that fails.
LEMMA CreateFailsKeeps ==
  ASSUME TypeOK, NEW t \in Terminals, Own(t),
         CreateFails(t)
  PROVE  Own(t)'
<1> USE DEF TypeOK, Own
<1>1. Untouched(t)' /\ MissingIsGone(t)' /\ EndJustified(t)'
  BY DEF CreateFails, Fault, Untouched, MissingIsGone, EndJustified
<1>2. FlightFillsEmptySlot(t)'
  BY DEF CreateFails, Fault, FlightFillsEmptySlot, Attached, Liveness,
       NoFlight, TypeCatalog, TypeHandles, TypeClients, Flights
<1>3. LostSlotIsClosed(t)'
  BY LifecycleAssumption DEF CreateFails, Fault, LostSlotIsClosed,
       FlightFillsEmptySlot, Attached, Liveness, NoFlight, TypeCatalog,
       TypeHandles, TypeClients, Flights
<1>4. DeadlineCarried(t)'
  BY DEF CreateFails, Fault, DeadlineCarried, Attached, Liveness, NoFlight
<1>5. ClientOwned(t)'
  BY DEF CreateFails, Fault, ClientOwned, Attached, Liveness, NoFlight,
       TypeCatalog, TypeHandles, TypeClients, Flights
<1>6. HandleAlive(t)'
  BY LifecycleAssumption DEF CreateFails, Fault, HandleAlive,
       FlightFillsEmptySlot, Attached, Liveness, NoFlight, TypeCatalog,
       TypeHandles, TypeClients, Flights
<1>7. DeadlineAgrees(t)'
  BY DEF CreateFails, Fault, DeadlineAgrees, Attached, Liveness, NoFlight
<1> QED BY <1>1, <1>2, <1>3, <1>4, <1>5, <1>6, <1>7

\* The terminal's invariant after a restore whose probe answers.
LEMMA FlightProbedKeeps ==
  ASSUME TypeOK, NEW t \in Terminals, Own(t),
         NEW a \in Liveness,
         FlightProbed(t, a)
  PROVE  Own(t)'
<1> USE DEF TypeOK, Own
<1>1. /\ Untouched(t)' /\ MissingIsGone(t)' /\ LostSlotIsClosed(t)'
      /\ EndJustified(t)'
  BY DEF FlightProbed, Probe, Fault, NoFault, MarkEnded, AnswerNull,
       AnswerHandle, SetDue, Callers, Untouched, MissingIsGone,
       LostSlotIsClosed, EndJustified
<1>2. FlightFillsEmptySlot(t)'
  <2>1. CASE a = "alive" /\ ~Attached(t) /\ row[t] = "active"
    BY <2>1 DEF FlightProbed, FlightFillsEmptySlot, Attached, NoFlight,
       Flights, TypeClients
  <2>2. CASE ~(a = "alive" /\ ~Attached(t) /\ row[t] = "active")
    <3>1. flight' = [flight EXCEPT ![t] = NoFlight]
      BY <2>2 DEF FlightProbed, AnswerNull, AnswerHandle, Liveness
    <3>2. UNCHANGED <<terminals, stage, live, exit>>
      BY DEF FlightProbed
    <3>3. flight'[t].phase = "none" /\ flight[t].phase = "probe"
      BY <3>1 DEF NoFlight, FlightProbed
    <3> QED BY <3>2, <3>3 DEF FlightFillsEmptySlot
  <2> QED BY <2>1, <2>2
<1>3. DeadlineCarried(t)'
  <2>1. CASE a = "missing"
    <3>1. row'[t] # "active" /\ ~due'[t] /\ UNCHANGED <<terminals, termDue>>
      BY <2>1 DEF FlightProbed, MarkEnded, TypeCatalog
    <3> QED BY <3>1 DEF DeadlineCarried, Attached
  <2>2. CASE a # "missing" /\ Attached(t) /\ a = "alive"
    <3>1. AnswerHandle(t, termDue[t]) /\ UNCHANGED <<row, terminals>>
      BY <2>2 DEF FlightProbed
    <3>2. flight'[t].phase = "none" /\ (row[t] # "active" => ~due'[t])
      BY <3>1 DEF AnswerHandle, NoFlight, SetDue, DeadlineCarried,
         TypeCatalog
    <3> QED BY <2>2, <3>1, <3>2 DEF DeadlineCarried, Attached
  <2>3. CASE a # "missing" /\ ~(Attached(t) /\ a = "alive")
    <3>1. UNCHANGED <<row, due, terminals, termDue>>
      BY <2>3 DEF FlightProbed, Liveness
    <3>2. \/ flight' = [flight EXCEPT ![t] = NoFlight]
          \/ flight' = [flight EXCEPT ![t].phase = "query"]
      BY <2>3 DEF FlightProbed, AnswerNull, Liveness
    <3>3. flight[t].phase = "probe"
      BY DEF FlightProbed
    <3>4. \/ flight'[t].phase = "none"
          \/ flight'[t].phase = "query" /\ flight'[t].due = flight[t].due
      BY <3>2 DEF NoFlight, Flights
    <3> QED BY <3>1, <3>3, <3>4 DEF DeadlineCarried, Attached
  <2> QED BY <2>1, <2>2, <2>3
<1>4. ClientOwned(t)'
  BY LifecycleAssumption DEF FlightProbed, Probe, Fault, NoFault, MarkEnded,
       AnswerNull, AnswerHandle, SetDue, Callers, ClientOwned,
       FlightFillsEmptySlot, Attached, Liveness, NoFlight, TypeCatalog,
       TypeHandles, TypeClients, Flights
<1>5. HandleAlive(t)'
  BY DEF FlightProbed, Probe, Fault, NoFault, MarkEnded, AnswerNull,
       AnswerHandle, SetDue, Callers, HandleAlive, Attached, Liveness,
       NoFlight
<1>6. DeadlineAgrees(t)'
  BY LifecycleAssumption DEF FlightProbed, Probe, Fault, NoFault, MarkEnded,
       AnswerNull, AnswerHandle, SetDue, Callers, DeadlineAgrees,
       FlightFillsEmptySlot, Attached, Liveness, NoFlight, TypeCatalog,
       TypeHandles, TypeClients, Flights
<1> QED BY <1>1, <1>2, <1>3, <1>4, <1>5, <1>6

\* The terminal's invariant after a restore that spawns its client.
LEMMA FlightSpawnsKeeps ==
  ASSUME TypeOK, NEW t \in Terminals, Own(t),
         NEW k \in Attaches,
         FlightSpawns(t, k)
  PROVE  Own(t)'
<1> USE DEF TypeOK, Own
<1>1. Untouched(t)' /\ MissingIsGone(t)' /\ EndJustified(t)'
  BY DEF FlightSpawns, AnswerHandle, SetDue, SpawnAttach, Untouched,
       MissingIsGone, EndJustified
<1>2. FlightFillsEmptySlot(t)'
  BY DEF FlightSpawns, AnswerHandle, SetDue, SpawnAttach,
       FlightFillsEmptySlot, Attached, Liveness, NoFlight, TypeCatalog,
       TypeHandles, TypeClients, Flights
<1>3. LostSlotIsClosed(t)'
  BY LifecycleAssumption DEF FlightSpawns, AnswerHandle, SetDue,
       SpawnAttach, LostSlotIsClosed, FlightFillsEmptySlot, ClientOwned,
       HandleAlive, Attached, Liveness, NoFlight, TypeCatalog, TypeHandles,
       TypeClients, Flights
<1>4. DeadlineCarried(t)'
  BY LifecycleAssumption DEF FlightSpawns, AnswerHandle, SetDue,
       SpawnAttach, DeadlineCarried, FlightFillsEmptySlot, Attached,
       Liveness, NoFlight, TypeCatalog, TypeHandles, TypeClients, Flights
<1>5. ClientOwned(t)'
  BY LifecycleAssumption DEF FlightSpawns, AnswerHandle, SetDue,
       SpawnAttach, ClientOwned, FlightFillsEmptySlot, Attached, Liveness,
       NoFlight, TypeCatalog, TypeHandles, TypeClients, Flights
<1>6. HandleAlive(t)'
  BY DEF FlightSpawns, AnswerHandle, SetDue, SpawnAttach, HandleAlive,
       Attached, Liveness, NoFlight
<1>7. DeadlineAgrees(t)'
  BY LifecycleAssumption DEF FlightSpawns, AnswerHandle, SetDue,
       SpawnAttach, DeadlineAgrees, FlightFillsEmptySlot, Attached,
       Liveness, NoFlight, TypeCatalog, TypeHandles, TypeClients, Flights
<1> QED BY <1>1, <1>2, <1>3, <1>4, <1>5, <1>6, <1>7

\* The terminal's invariant after a restore that fails.
LEMMA FlightFailsKeeps ==
  ASSUME TypeOK, NEW t \in Terminals, Own(t),
         FlightFails(t)
  PROVE  Own(t)'
<1> USE DEF TypeOK, Own
<1>1. Untouched(t)' /\ MissingIsGone(t)' /\ EndJustified(t)'
  BY DEF FlightFails, AnswerNull, Untouched, MissingIsGone, EndJustified
<1>2. FlightFillsEmptySlot(t)'
  BY DEF FlightFails, AnswerNull, FlightFillsEmptySlot, Attached, Liveness,
       NoFlight, TypeCatalog, TypeHandles, TypeClients, Flights
<1>3. LostSlotIsClosed(t)'
  BY LifecycleAssumption DEF FlightFails, AnswerNull, LostSlotIsClosed,
       FlightFillsEmptySlot, Attached, Liveness, NoFlight, TypeCatalog,
       TypeHandles, TypeClients, Flights
<1>4. DeadlineCarried(t)'
  BY DEF FlightFails, AnswerNull, DeadlineCarried, Attached, Liveness,
       NoFlight
<1>5. ClientOwned(t)'
  BY LifecycleAssumption DEF FlightFails, AnswerNull, ClientOwned,
       FlightFillsEmptySlot, Attached, Liveness, NoFlight, TypeCatalog,
       TypeHandles, TypeClients, Flights
<1>6. HandleAlive(t)'
  BY LifecycleAssumption DEF FlightFails, AnswerNull, HandleAlive,
       FlightFillsEmptySlot, Attached, Liveness, NoFlight, TypeCatalog,
       TypeHandles, TypeClients, Flights
<1>7. DeadlineAgrees(t)'
  BY DEF FlightFails, AnswerNull, DeadlineAgrees, Attached, Liveness,
       NoFlight
<1> QED BY <1>1, <1>2, <1>3, <1>4, <1>5, <1>6, <1>7

\* The terminal's invariant after a restore that registers its handle.
LEMMA FlightRegistersKeeps ==
  ASSUME TypeOK, NEW t \in Terminals, Own(t),
         FlightRegisters(t)
  PROVE  Own(t)'
<1> USE DEF TypeOK, Own
<1>1. Untouched(t)' /\ MissingIsGone(t)' /\ EndJustified(t)'
  BY DEF FlightRegisters, AnswerHandle, SetDue, Untouched, MissingIsGone,
       EndJustified
<1>2. FlightFillsEmptySlot(t)'
  BY DEF FlightRegisters, AnswerHandle, SetDue, FlightFillsEmptySlot,
       Attached, Liveness, NoFlight, TypeCatalog, TypeHandles, TypeClients,
       Flights
<1>3. LostSlotIsClosed(t)'
  BY LifecycleAssumption DEF FlightRegisters, AnswerHandle, SetDue,
       LostSlotIsClosed, FlightFillsEmptySlot, Attached, Liveness, NoFlight,
       TypeCatalog, TypeHandles, TypeClients, Flights
<1>4. DeadlineCarried(t)'
  <2>1. /\ flight[t].phase = "attach" /\ AnswerHandle(t, flight[t].due)
        /\ terminals' = [terminals EXCEPT ![t] = flight[t].by]
        /\ flight[t].by # NoAttach /\ UNCHANGED row
    BY LifecycleAssumption DEF FlightRegisters, FlightFillsEmptySlot
  <2>2. Attached(t)' /\ flight'[t].phase = "none"
    BY <2>1 DEF Attached, AnswerHandle, NoFlight, TypeHandles
  <2>3. CASE "ws" \in flight[t].callers
    BY <2>1, <2>2, <2>3 DEF AnswerHandle, SetDue, DeadlineCarried,
       TypeCatalog, TypeHandles
  <2>4. CASE "ws" \notin flight[t].callers
    BY <2>1, <2>2, <2>4 DEF AnswerHandle, DeadlineCarried,
       TypeCatalog, TypeHandles
  <2> QED BY <2>3, <2>4
<1>5. ClientOwned(t)'
  BY LifecycleAssumption DEF FlightRegisters, AnswerHandle, SetDue,
       ClientOwned, FlightFillsEmptySlot, Attached, Liveness, NoFlight,
       TypeCatalog, TypeHandles, TypeClients, Flights
<1>6. HandleAlive(t)'
  BY LifecycleAssumption DEF FlightRegisters, AnswerHandle, SetDue,
       HandleAlive, FlightFillsEmptySlot, Attached, Liveness, NoFlight,
       TypeCatalog, TypeHandles, TypeClients, Flights
<1>7. DeadlineAgrees(t)'
  <2>1. /\ flight[t].phase = "attach" /\ AnswerHandle(t, flight[t].due)
        /\ terminals' = [terminals EXCEPT ![t] = flight[t].by]
        /\ flight[t].by # NoAttach /\ UNCHANGED row
    BY LifecycleAssumption DEF FlightRegisters, FlightFillsEmptySlot
  <2>2. Attached(t)' /\ flight'[t].phase = "none"
    BY <2>1 DEF Attached, AnswerHandle, NoFlight, TypeHandles
  <2>3. CASE "ws" \in flight[t].callers
    <3>1. termDue'[t] = FALSE
      BY <2>1, <2>3 DEF AnswerHandle, TypeHandles
    <3>2. row[t] = "active" => due'[t] = FALSE
      BY <2>1, <2>3 DEF AnswerHandle, SetDue, TypeCatalog
    <3> QED BY <2>1, <3>1, <3>2 DEF DeadlineAgrees
  <2>4. CASE "ws" \notin flight[t].callers
    BY <2>1, <2>2, <2>4 DEF AnswerHandle, DeadlineAgrees, DeadlineCarried,
       TypeCatalog, TypeHandles
  <2> QED BY <2>3, <2>4
<1> QED BY <1>1, <1>2, <1>3, <1>4, <1>5, <1>6, <1>7

\* The terminal's invariant after an attach client that exits.
LEMMA AttachExitsKeeps ==
  ASSUME TypeOK, NEW t \in Terminals, Own(t),
         NEW k \in Attaches,
         AttachExits(t, k)
  PROVE  Own(t)'
<1> USE DEF TypeOK, Own
<1>1. /\ Untouched(t)' /\ MissingIsGone(t)' /\ LostSlotIsClosed(t)'
      /\ EndJustified(t)' /\ ClientOwned(t)'
  BY DEF AttachExits, Untouched, MissingIsGone, LostSlotIsClosed,
       EndJustified, ClientOwned
<1>2. FlightFillsEmptySlot(t)'
  BY DEF AttachExits, FlightFillsEmptySlot, Attached, Liveness, NoFlight,
       TypeCatalog, TypeHandles, TypeClients, Flights
<1>3. DeadlineCarried(t)'
  BY DEF AttachExits, DeadlineCarried, Attached, Liveness, NoFlight
<1>4. HandleAlive(t)'
  BY DEF AttachExits, HandleAlive, Attached, Liveness, NoFlight,
       TypeCatalog, TypeHandles, TypeClients, Flights
<1>5. DeadlineAgrees(t)'
  BY DEF AttachExits, DeadlineAgrees, Attached, Liveness, NoFlight
<1> QED BY <1>1, <1>2, <1>3, <1>4, <1>5

\* The terminal's invariant after an exit whose probe answers.
LEMMA ExitProbedKeeps ==
  ASSUME TypeOK, NEW t \in Terminals, Own(t),
         NEW k \in Attaches,
         ExitProbed(t, k)
  PROVE  Own(t)'
<1> USE DEF TypeOK, Own
<1>1. /\ Untouched(t)' /\ LostSlotIsClosed(t)' /\ EndJustified(t)'
      /\ ClientOwned(t)'
  BY DEF ExitProbed, Probe, Untouched, LostSlotIsClosed, EndJustified,
       ClientOwned
<1>2. MissingIsGone(t)'
  BY LifecycleAssumption DEF ExitProbed, Probe, MissingIsGone, Untouched,
       FlightFillsEmptySlot, LostSlotIsClosed, DeadlineCarried,
       EndJustified, ClientOwned, HandleAlive, DeadlineAgrees, Attached,
       Liveness, NoFlight, TypeCatalog, TypeHandles, TypeClients, Flights
<1>3. FlightFillsEmptySlot(t)'
  BY DEF ExitProbed, Probe, FlightFillsEmptySlot, Attached, Liveness,
       NoFlight
<1>4. DeadlineCarried(t)'
  BY DEF ExitProbed, Probe, DeadlineCarried, Attached, Liveness, NoFlight
<1>5. HandleAlive(t)'
  BY DEF ExitProbed, Probe, HandleAlive, Attached, Liveness, NoFlight
<1>6. DeadlineAgrees(t)'
  BY DEF ExitProbed, Probe, DeadlineAgrees, Attached, Liveness, NoFlight
<1> QED BY <1>1, <1>2, <1>3, <1>4, <1>5, <1>6

\* The terminal's invariant after an exit that is judged.
LEMMA FinalizeTerminalExitKeeps ==
  ASSUME TypeOK, NEW t \in Terminals, Own(t),
         NEW k \in Attaches,
         FinalizeTerminalExit(t, k)
  PROVE  Own(t)'
<1> USE DEF TypeOK, Own
<1>1. Untouched(t)'
  BY DEF FinalizeTerminalExit, ExitJudged, IsExit, TornDown, ExitHandled,
       OwnsTerminalSlot, MarkEnded, RemoveTerminalState, Forget, Untouched,
       Attached, Liveness, NoFlight
<1>2. MissingIsGone(t)'
  BY DEF FinalizeTerminalExit, ExitJudged, IsExit, TornDown, ExitHandled,
       OwnsTerminalSlot, MarkEnded, RemoveTerminalState, Forget,
       MissingIsGone, Attached, Liveness, NoFlight, TypeCatalog,
       TypeHandles, TypeClients, Flights
<1>3. FlightFillsEmptySlot(t)'
  BY DEF FinalizeTerminalExit, ExitJudged, IsExit, TornDown, ExitHandled,
       OwnsTerminalSlot, MarkEnded, RemoveTerminalState, Forget,
       FlightFillsEmptySlot, Attached, Liveness, NoFlight, TypeCatalog,
       TypeHandles, TypeClients, Flights
<1>4. LostSlotIsClosed(t)'
  <2>1. CASE k \in killing[t]
    <3>1. UNCHANGED <<stage, live, killing, closed>>
      BY <2>1 DEF FinalizeTerminalExit, ExitHandled
    <3>2. CASE OwnsTerminalSlot(t, k)
      BY <2>1, <3>1, <3>2, LifecycleAssumption
         DEF FinalizeTerminalExit, RemoveTerminalState, OwnsTerminalSlot,
             LostSlotIsClosed, TypeHandles
    <3>3. CASE ~OwnsTerminalSlot(t, k)
      BY <3>1, <3>3 DEF FinalizeTerminalExit, LostSlotIsClosed
    <3> QED BY <3>2, <3>3
  <2>2. CASE k \notin killing[t]
    <3>1. /\ Forget(t, k) /\ UNCHANGED <<killing, closed>>
          /\ \/ UNCHANGED terminals
             \/ /\ terminals[t] \in {k, NoAttach}
                /\ terminals' = [terminals EXCEPT ![t] = NoAttach]
      BY <2>2 DEF FinalizeTerminalExit, ExitHandled, RemoveTerminalState,
         OwnsTerminalSlot
    <3>2. /\ stage'[t] = [stage[t] EXCEPT ![k] = "free"]
          /\ live'[t] = [live[t] EXCEPT ![k] = FALSE]
      BY <3>1 DEF Forget, TypeClients
    <3>3. \A j \in Attaches : j # k =>
            /\ stage'[t][j] = stage[t][j] /\ live'[t][j] = live[t][j]
            /\ terminals'[t] = j <=> terminals[t] = j
      BY <3>1, <3>2, LifecycleAssumption DEF TypeClients, TypeHandles
    <3>4. stage'[t][k] = "free" /\ ~live'[t][k]
      BY <3>2 DEF TypeClients
    <3> QED BY <2>2, <3>1, <3>3, <3>4 DEF LostSlotIsClosed
  <2> QED BY <2>1, <2>2
<1>5. DeadlineCarried(t)'
  BY DEF FinalizeTerminalExit, ExitJudged, IsExit, TornDown, ExitHandled,
       OwnsTerminalSlot, MarkEnded, RemoveTerminalState, Forget,
       DeadlineCarried, Attached, Liveness, NoFlight, TypeCatalog,
       TypeHandles, TypeClients, Flights
<1>6. EndJustified(t)'
  BY LifecycleAssumption DEF FinalizeTerminalExit, ExitJudged, IsExit,
       TornDown, ExitHandled, OwnsTerminalSlot, MarkEnded,
       RemoveTerminalState, Forget, EndJustified, Untouched, MissingIsGone,
       FlightFillsEmptySlot, LostSlotIsClosed, DeadlineCarried, ClientOwned,
       HandleAlive, DeadlineAgrees, Attached, Liveness, NoFlight,
       TypeCatalog, TypeHandles, TypeClients, Flights
<1>7. ClientOwned(t)'
  <2>1. /\ \/ UNCHANGED terminals
           \/ /\ terminals[t] \in {k, NoAttach}
              /\ terminals' = [terminals EXCEPT ![t] = NoAttach]
        /\ UNCHANGED <<flight, killing>>
    BY DEF FinalizeTerminalExit, RemoveTerminalState, OwnsTerminalSlot
  <2>2. \A j \in Attaches : j # k => (terminals'[t] = j <=> terminals[t] = j)
    BY <2>1, LifecycleAssumption DEF TypeHandles
  <2>3. CASE k \in killing[t]
    <3>1. UNCHANGED <<stage, live>>
      BY <2>3 DEF FinalizeTerminalExit, ExitHandled
    <3> QED BY <2>1, <2>2, <2>3, <3>1 DEF ClientOwned
  <2>4. CASE k \notin killing[t]
    <3>1. Forget(t, k)
      BY <2>4 DEF FinalizeTerminalExit, ExitHandled
    <3>2. /\ stage'[t] = [stage[t] EXCEPT ![k] = "free"]
          /\ live'[t] = [live[t] EXCEPT ![k] = FALSE]
      BY <3>1 DEF Forget, TypeClients
    <3>3. ~live'[t][k] /\ \A j \in Attaches : j # k =>
            stage'[t][j] = stage[t][j] /\ live'[t][j] = live[t][j]
      BY <3>2 DEF TypeClients
    <3> QED BY <2>1, <2>2, <3>3 DEF ClientOwned
  <2> QED BY <2>3, <2>4
<1>8. HandleAlive(t)'
  BY DEF FinalizeTerminalExit, ExitJudged, IsExit, TornDown, ExitHandled,
       OwnsTerminalSlot, MarkEnded, RemoveTerminalState, Forget,
       HandleAlive, Attached, Liveness, NoFlight, TypeCatalog, TypeHandles,
       TypeClients, Flights
<1>9. DeadlineAgrees(t)'
  BY DEF FinalizeTerminalExit, ExitJudged, IsExit, TornDown, ExitHandled,
       OwnsTerminalSlot, MarkEnded, RemoveTerminalState, Forget,
       DeadlineAgrees, Attached, Liveness, NoFlight, TypeCatalog,
       TypeHandles, TypeClients, Flights
<1> QED BY <1>1, <1>2, <1>3, <1>4, <1>5, <1>6, <1>7, <1>8, <1>9

\* The terminal's invariant after a dead attach that is detached.
LEMMA DetachDeadAttachKeeps ==
  ASSUME TypeOK, NEW t \in Terminals, Own(t),
         NEW k \in Attaches, NEW b \in BOOLEAN,
         DetachDeadAttach(t, k, b)
  PROVE  Own(t)'
<1> USE DEF TypeOK, Own
<1>1. EndJustified(t)'
  BY DEF DetachDeadAttach, ExitJudged, IsExit, TornDown, ExitHandled,
       RemoveTerminalState, Forget, EndJustified
<1>2. Untouched(t)'
  BY DEF DetachDeadAttach, ExitJudged, IsExit, TornDown, ExitHandled,
       RemoveTerminalState, Forget, Untouched, Attached, Liveness, NoFlight
<1>3. MissingIsGone(t)'
  BY DEF DetachDeadAttach, ExitJudged, IsExit, TornDown, ExitHandled,
       RemoveTerminalState, Forget, MissingIsGone, Attached, Liveness,
       NoFlight, TypeCatalog, TypeHandles, TypeClients, Flights
<1>4. FlightFillsEmptySlot(t)'
  BY LifecycleAssumption DEF DetachDeadAttach, ExitJudged, IsExit, TornDown,
       ExitHandled, RemoveTerminalState, Forget, FlightFillsEmptySlot,
       LostSlotIsClosed, Attached, Liveness, NoFlight, TypeCatalog,
       TypeHandles, TypeClients, Flights
<1>5. LostSlotIsClosed(t)'
  BY LifecycleAssumption DEF DetachDeadAttach, ExitJudged, IsExit, TornDown,
       ExitHandled, RemoveTerminalState, Forget, LostSlotIsClosed,
       FlightFillsEmptySlot, Attached, Liveness, NoFlight, TypeCatalog,
       TypeHandles, TypeClients, Flights
<1>6. DeadlineCarried(t)'
  BY DEF DetachDeadAttach, ExitJudged, IsExit, TornDown, ExitHandled,
       RemoveTerminalState, Forget, DeadlineCarried, Attached, Liveness,
       NoFlight, TypeCatalog, TypeHandles, TypeClients, Flights
<1>7. ClientOwned(t)'
  <2>1. /\ \/ UNCHANGED terminals
           \/ /\ terminals[t] \in {k, NoAttach}
              /\ terminals' = [terminals EXCEPT ![t] = NoAttach]
        /\ UNCHANGED <<flight, killing>>
    BY DEF DetachDeadAttach, RemoveTerminalState, OwnsTerminalSlot
  <2>2. \A j \in Attaches : j # k => (terminals'[t] = j <=> terminals[t] = j)
    BY <2>1, LifecycleAssumption DEF TypeHandles
  <2>3. CASE k \in killing[t]
    <3>1. UNCHANGED <<stage, live>>
      BY <2>3 DEF DetachDeadAttach, ExitHandled
    <3> QED BY <2>1, <2>2, <2>3, <3>1 DEF ClientOwned
  <2>4. CASE k \notin killing[t]
    <3>1. Forget(t, k)
      BY <2>4 DEF DetachDeadAttach, ExitHandled
    <3>2. /\ stage'[t] = [stage[t] EXCEPT ![k] = "free"]
          /\ live'[t] = [live[t] EXCEPT ![k] = FALSE]
      BY <3>1 DEF Forget, TypeClients
    <3>3. ~live'[t][k] /\ \A j \in Attaches : j # k =>
            stage'[t][j] = stage[t][j] /\ live'[t][j] = live[t][j]
      BY <3>2 DEF TypeClients
    <3> QED BY <2>1, <2>2, <3>3 DEF ClientOwned
  <2> QED BY <2>3, <2>4
<1>8. HandleAlive(t)'
  BY DEF DetachDeadAttach, ExitJudged, IsExit, TornDown, ExitHandled,
       RemoveTerminalState, Forget, HandleAlive, Attached, Liveness,
       NoFlight, TypeCatalog, TypeHandles, TypeClients, Flights
<1>9. DeadlineAgrees(t)'
  BY DEF DetachDeadAttach, ExitJudged, IsExit, TornDown, ExitHandled,
       RemoveTerminalState, Forget, DeadlineAgrees, Attached, Liveness,
       NoFlight, TypeCatalog, TypeHandles, TypeClients, Flights
<1> QED BY <1>1, <1>2, <1>3, <1>4, <1>5, <1>6, <1>7, <1>8, <1>9

\* The terminal's invariant after a re-attach timer.
LEMMA TimerFiresKeeps ==
  ASSUME TypeOK, NEW t \in Terminals, Own(t),
         TimerFires(t)
  PROVE  Own(t)'
<1> USE DEF TypeOK, Own
<1>1. MissingIsGone(t)' /\ LostSlotIsClosed(t)' /\ EndJustified(t)'
  BY DEF TimerFires, Join, MissingIsGone, LostSlotIsClosed, EndJustified
<1>2. Untouched(t)'
  BY DEF TimerFires, Join, Untouched, Attached, Liveness, NoFlight
<1>3. FlightFillsEmptySlot(t)'
  BY DEF TimerFires, Join, FlightFillsEmptySlot, Attached, Liveness,
       NoFlight, TypeCatalog, TypeHandles, TypeClients, Flights
<1>4. DeadlineCarried(t)'
  BY DEF TimerFires, Join, DeadlineCarried, Attached, Liveness, NoFlight,
       TypeCatalog, TypeHandles, TypeClients, Flights
<1>5. ClientOwned(t)'
  BY LifecycleAssumption DEF TimerFires, Join, ClientOwned,
       FlightFillsEmptySlot, Attached, Liveness, NoFlight, TypeCatalog,
       TypeHandles, TypeClients, Flights
<1>6. HandleAlive(t)'
  BY DEF TimerFires, Join, HandleAlive, Attached, Liveness, NoFlight
<1>7. DeadlineAgrees(t)'
  BY DEF TimerFires, Join, DeadlineAgrees, Attached, Liveness, NoFlight
<1> QED BY <1>1, <1>2, <1>3, <1>4, <1>5, <1>6, <1>7

\* The terminal's invariant after a sweep that cancels a deadline.
LEMMA SweepCancelsKeeps ==
  ASSUME TypeOK, NEW t \in Terminals, Own(t),
         SweepCancels(t)
  PROVE  Own(t)'
<1> USE DEF TypeOK, Own
<1>1. /\ Untouched(t)' /\ MissingIsGone(t)' /\ FlightFillsEmptySlot(t)'
      /\ LostSlotIsClosed(t)' /\ EndJustified(t)' /\ ClientOwned(t)'
      /\ HandleAlive(t)'
  BY DEF SweepCancels, SetDue, Untouched, MissingIsGone,
       FlightFillsEmptySlot, LostSlotIsClosed, EndJustified, ClientOwned,
       HandleAlive
<1>2. DeadlineCarried(t)'
  BY LifecycleAssumption DEF SweepCancels, SetDue, DeadlineCarried,
       FlightFillsEmptySlot, Attached, Liveness, NoFlight, TypeCatalog,
       TypeHandles, TypeClients, Flights
<1>3. DeadlineAgrees(t)'
  BY DEF SweepCancels, SetDue, DeadlineAgrees, Attached, Liveness, NoFlight,
       TypeCatalog, TypeHandles, TypeClients, Flights
<1> QED BY <1>1, <1>2, <1>3

\* The terminal's invariant after a sweep that closes.
LEMMA SweepEndsKeeps ==
  ASSUME TypeOK, NEW t \in Terminals, Own(t),
         SweepEnds(t)
  PROVE  Own(t)'
<1> USE DEF TypeOK, Own
<1>1. /\ Untouched(t)' /\ MissingIsGone(t)' /\ FlightFillsEmptySlot(t)'
      /\ EndJustified(t)' /\ ClientOwned(t)'
  BY DEF SweepEnds, MarkEnded, Teardown, RemoveTerminalState, Untouched,
       MissingIsGone, FlightFillsEmptySlot, EndJustified, ClientOwned
<1>2. LostSlotIsClosed(t)'
  BY LifecycleAssumption DEF SweepEnds, MarkEnded, Teardown,
       RemoveTerminalState, LostSlotIsClosed, FlightFillsEmptySlot,
       HandleAlive, Attached, Liveness, NoFlight, TypeCatalog, TypeHandles,
       TypeClients, Flights
<1>3. DeadlineCarried(t)'
  BY DEF SweepEnds, MarkEnded, Teardown, RemoveTerminalState,
       DeadlineCarried, Attached, Liveness, NoFlight, TypeCatalog,
       TypeHandles, TypeClients, Flights
<1>4. HandleAlive(t)'
  BY DEF SweepEnds, MarkEnded, Teardown, RemoveTerminalState, HandleAlive,
       Attached, Liveness, NoFlight
<1>5. DeadlineAgrees(t)'
  BY DEF SweepEnds, MarkEnded, Teardown, RemoveTerminalState,
       DeadlineAgrees, Attached, Liveness, NoFlight, TypeCatalog,
       TypeHandles, TypeClients, Flights
<1> QED BY <1>1, <1>2, <1>3, <1>4, <1>5

\* The terminal's invariant after the idle reaper.
LEMMA CleanupIdleKeeps ==
  ASSUME TypeOK, NEW t \in Terminals, Own(t),
         CleanupIdle(t)
  PROVE  Own(t)'
<1> USE DEF TypeOK, Own
<1>1. /\ Untouched(t)' /\ MissingIsGone(t)' /\ FlightFillsEmptySlot(t)'
      /\ EndJustified(t)' /\ ClientOwned(t)'
  BY DEF CleanupIdle, Teardown, RemoveTerminalState, Untouched,
       MissingIsGone, FlightFillsEmptySlot, EndJustified, ClientOwned
<1>2. LostSlotIsClosed(t)'
  BY LifecycleAssumption DEF CleanupIdle, Teardown, RemoveTerminalState,
       LostSlotIsClosed, FlightFillsEmptySlot, HandleAlive, Attached,
       Liveness, NoFlight, TypeCatalog, TypeHandles, TypeClients, Flights
<1>3. DeadlineCarried(t)'
  BY DEF CleanupIdle, Teardown, RemoveTerminalState, DeadlineCarried,
       Attached, Liveness, NoFlight, TypeCatalog, TypeHandles, TypeClients,
       Flights
<1>4. HandleAlive(t)'
  BY DEF CleanupIdle, Teardown, RemoveTerminalState, HandleAlive, Attached,
       Liveness, NoFlight
<1>5. DeadlineAgrees(t)'
  BY DEF CleanupIdle, Teardown, RemoveTerminalState, DeadlineAgrees,
       Attached, Liveness, NoFlight, TypeCatalog, TypeHandles, TypeClients,
       Flights
<1> QED BY <1>1, <1>2, <1>3, <1>4, <1>5

\* The terminal's invariant after the reaper of detached sessions.
LEMMA ReapDetachedKeeps ==
  ASSUME TypeOK, NEW t \in Terminals, Own(t),
         ReapDetached(t)
  PROVE  Own(t)'
<1> USE DEF TypeOK, Own
<1>1. /\ Untouched(t)' /\ MissingIsGone(t)' /\ FlightFillsEmptySlot(t)'
      /\ EndJustified(t)' /\ ClientOwned(t)'
  BY DEF ReapDetached, MarkEnded, Teardown, RemoveTerminalState, Untouched,
       MissingIsGone, FlightFillsEmptySlot, EndJustified, ClientOwned
<1>2. LostSlotIsClosed(t)'
  BY LifecycleAssumption DEF ReapDetached, MarkEnded, Teardown,
       RemoveTerminalState, LostSlotIsClosed, FlightFillsEmptySlot,
       HandleAlive, Attached, Liveness, NoFlight, TypeCatalog, TypeHandles,
       TypeClients, Flights
<1>3. DeadlineCarried(t)'
  BY DEF ReapDetached, MarkEnded, Teardown, RemoveTerminalState,
       DeadlineCarried, Attached, Liveness, NoFlight, TypeCatalog,
       TypeHandles, TypeClients, Flights
<1>4. HandleAlive(t)'
  BY DEF ReapDetached, MarkEnded, Teardown, RemoveTerminalState,
       HandleAlive, Attached, Liveness, NoFlight
<1>5. DeadlineAgrees(t)'
  BY DEF ReapDetached, MarkEnded, Teardown, RemoveTerminalState,
       DeadlineAgrees, Attached, Liveness, NoFlight, TypeCatalog,
       TypeHandles, TypeClients, Flights
<1> QED BY <1>1, <1>2, <1>3, <1>4, <1>5

\* The terminal's invariant after a kill that is done.
LEMMA KillDoneKeeps ==
  ASSUME TypeOK, NEW t \in Terminals, Own(t),
         NEW k \in Attaches,
         KillDone(t, k)
  PROVE  Own(t)'
<1> USE DEF TypeOK, Own
<1>1. Untouched(t)' /\ EndJustified(t)'
  BY DEF KillDone, Forget, Untouched, EndJustified
<1>2. MissingIsGone(t)'
  BY DEF KillDone, Forget, MissingIsGone, Attached, Liveness, NoFlight,
       TypeCatalog, TypeHandles, TypeClients, Flights
<1>3. FlightFillsEmptySlot(t)'
  BY LifecycleAssumption DEF KillDone, Forget, FlightFillsEmptySlot,
       LostSlotIsClosed, Attached, Liveness, NoFlight, TypeCatalog,
       TypeHandles, TypeClients, Flights
<1>4. LostSlotIsClosed(t)'
  BY DEF KillDone, Forget, LostSlotIsClosed, Attached, Liveness, NoFlight,
       TypeCatalog, TypeHandles, TypeClients, Flights
<1>5. DeadlineCarried(t)'
  BY DEF KillDone, Forget, DeadlineCarried, Attached, Liveness, NoFlight
<1>6. ClientOwned(t)'
  BY DEF KillDone, Forget, ClientOwned, Attached, Liveness, NoFlight,
       TypeCatalog, TypeHandles, TypeClients, Flights
<1>7. HandleAlive(t)'
  BY LifecycleAssumption DEF KillDone, Forget, HandleAlive,
       LostSlotIsClosed, Attached, Liveness, NoFlight, TypeCatalog,
       TypeHandles, TypeClients, Flights
<1>8. DeadlineAgrees(t)'
  BY DEF KillDone, Forget, DeadlineAgrees, Attached, Liveness, NoFlight
<1> QED BY <1>1, <1>2, <1>3, <1>4, <1>5, <1>6, <1>7, <1>8

\* The terminal's invariant after a create that starts.
LEMMA CreateKeeps ==
  ASSUME TypeOK, NEW t \in Terminals, Own(t),
         NEW k \in Attaches,
         Create(t, k)
  PROVE  Own(t)'
<1> USE DEF TypeOK, Own
<1>1. Untouched(t)' /\ MissingIsGone(t)'
  BY DEF Create, SpawnAttach, Untouched, MissingIsGone
<1>2. FlightFillsEmptySlot(t)'
  BY LifecycleAssumption DEF Create, SpawnAttach, FlightFillsEmptySlot,
       Untouched, MissingIsGone, LostSlotIsClosed, DeadlineCarried,
       EndJustified, ClientOwned, HandleAlive, DeadlineAgrees, Attached,
       Liveness, NoFlight, TypeCatalog, TypeHandles, TypeClients, Flights
<1>3. LostSlotIsClosed(t)'
  BY DEF Create, SpawnAttach, LostSlotIsClosed, Attached, Liveness,
       NoFlight, TypeCatalog, TypeHandles, TypeClients, Flights
<1>4. DeadlineCarried(t)'
  BY DEF Create, SpawnAttach, DeadlineCarried, Attached, Liveness, NoFlight
<1>5. EndJustified(t)'
  BY LifecycleAssumption DEF Create, SpawnAttach, EndJustified, Untouched,
       MissingIsGone, FlightFillsEmptySlot, LostSlotIsClosed,
       DeadlineCarried, ClientOwned, HandleAlive, DeadlineAgrees, Attached,
       Liveness, NoFlight, TypeCatalog, TypeHandles, TypeClients, Flights
<1>6. ClientOwned(t)'
  BY LifecycleAssumption DEF Create, SpawnAttach, ClientOwned, Untouched,
       MissingIsGone, FlightFillsEmptySlot, LostSlotIsClosed,
       DeadlineCarried, EndJustified, HandleAlive, DeadlineAgrees, Attached,
       Liveness, NoFlight, TypeCatalog, TypeHandles, TypeClients, Flights
<1>7. HandleAlive(t)'
  BY DEF Create, SpawnAttach, HandleAlive, Attached, Liveness, NoFlight
<1>8. DeadlineAgrees(t)'
  BY DEF Create, SpawnAttach, DeadlineAgrees, Attached, Liveness, NoFlight
<1> QED BY <1>1, <1>2, <1>3, <1>4, <1>5, <1>6, <1>7, <1>8

\* The terminal's invariant after a poll.
LEMMA PollKeeps ==
  ASSUME TypeOK, NEW t \in Terminals, Own(t),
         Poll(t)
  PROVE  Own(t)'
<1> USE DEF TypeOK, Own
<1>1. /\ Untouched(t)' /\ MissingIsGone(t)' /\ LostSlotIsClosed(t)'
      /\ EndJustified(t)'
  BY DEF Poll, Join, Untouched, MissingIsGone, LostSlotIsClosed,
       EndJustified
<1>2. FlightFillsEmptySlot(t)'
  BY DEF Poll, Join, FlightFillsEmptySlot, Attached, Liveness, NoFlight,
       TypeCatalog, TypeHandles, TypeClients, Flights
<1>3. DeadlineCarried(t)'
  BY DEF Poll, Join, DeadlineCarried, Attached, Liveness, NoFlight,
       TypeCatalog, TypeHandles, TypeClients, Flights
<1>4. ClientOwned(t)'
  BY LifecycleAssumption DEF Poll, Join, ClientOwned, FlightFillsEmptySlot,
       Attached, Liveness, NoFlight, TypeCatalog, TypeHandles, TypeClients,
       Flights
<1>5. HandleAlive(t)'
  BY DEF Poll, Join, HandleAlive, Attached, Liveness, NoFlight
<1>6. DeadlineAgrees(t)'
  BY DEF Poll, Join, DeadlineAgrees, Attached, Liveness, NoFlight
<1> QED BY <1>1, <1>2, <1>3, <1>4, <1>5, <1>6

\* The terminal's invariant after a socket that is upgraded.
LEMMA UpgradeKeeps ==
  ASSUME TypeOK, NEW t \in Terminals, Own(t),
         Upgrade(t)
  PROVE  Own(t)'
<1> USE DEF TypeOK, Own
<1>1. /\ Untouched(t)' /\ MissingIsGone(t)' /\ LostSlotIsClosed(t)'
      /\ EndJustified(t)'
  BY DEF Upgrade, Join, SetDue, Untouched, MissingIsGone, LostSlotIsClosed,
       EndJustified
<1>2. FlightFillsEmptySlot(t)'
  <2>1. CASE Attached(t)
    <3>1. UNCHANGED <<flight, terminals, row, stage, live, exit>>
      BY <2>1 DEF Upgrade
    <3> QED BY <3>1 DEF FlightFillsEmptySlot, Attached
  <2>2. CASE ~Attached(t)
    <3>1. /\ Join(t, "ws") /\ row[t] = "active"
          /\ UNCHANGED <<terminals, row, stage, live, exit>>
      BY <2>2 DEF Upgrade
    <3>2. \/ flight[t].phase = "none" /\ flight'[t].phase = "probe"
          \/ /\ flight'[t].phase = flight[t].phase
             /\ flight'[t].by = flight[t].by
      BY <3>1, JoinFlight DEF Callers
    <3> QED BY <2>2, <3>1, <3>2 DEF FlightFillsEmptySlot, Attached
  <2> QED BY <2>1, <2>2
<1>3. DeadlineCarried(t)'
  <2>1. CASE Attached(t)
    <3>1. /\ UNCHANGED <<flight, terminals, row>> /\ ~due'[t] /\ ~termDue'[t]
          /\ flight[t].phase = "none"
      BY <2>1 DEF Upgrade, SetDue, DeadlineCarried, FlightFillsEmptySlot,
         TypeCatalog, TypeHandles
    <3> QED BY <3>1 DEF DeadlineCarried, Attached
  <2>2. CASE ~Attached(t)
    <3>1. UNCHANGED <<due, termDue, terminals, row>> /\ Join(t, "ws")
      BY <2>2 DEF Upgrade
    <3> QED BY <3>1, JoinFlight DEF Callers, DeadlineCarried, Attached
  <2> QED BY <2>1, <2>2
<1>4. ClientOwned(t)'
  <2>1. UNCHANGED <<live, terminals, stage, killing>>
    BY DEF Upgrade
  <2>2. CASE Attached(t)
    <3>1. UNCHANGED flight
      BY <2>2 DEF Upgrade
    <3> QED BY <2>1, <3>1 DEF ClientOwned
  <2>3. CASE ~Attached(t)
    <3>1. Join(t, "ws")
      BY <2>3 DEF Upgrade
    <3>2. \A k \in Attaches : stage[t][k] = "building" => flight'[t].by = k
      BY <3>1, JoinFlight DEF Callers, FlightFillsEmptySlot
    <3> QED BY <2>1, <3>2 DEF ClientOwned
  <2> QED BY <2>2, <2>3
<1>5. HandleAlive(t)'
  BY DEF Upgrade, Join, SetDue, HandleAlive, Attached, Liveness, NoFlight
<1>6. DeadlineAgrees(t)'
  <2>1. CASE Attached(t)
    <3>1. termDue'[t] = FALSE /\ UNCHANGED row
      BY <2>1 DEF Upgrade, TypeHandles
    <3>2. row[t] = "active" => due'[t] = FALSE
      BY <2>1 DEF Upgrade, SetDue, TypeCatalog
    <3> QED BY <3>1, <3>2 DEF DeadlineAgrees
  <2>2. CASE ~Attached(t)
    BY <2>2 DEF Upgrade, DeadlineAgrees, Attached
  <2> QED BY <2>1, <2>2
<1> QED BY <1>1, <1>2, <1>3, <1>4, <1>5, <1>6

\* The terminal's invariant after close-later.
LEMMA CloseLaterKeeps ==
  ASSUME TypeOK, NEW t \in Terminals, Own(t),
         NEW f \in BOOLEAN,
         CloseLater(t, f)
  PROVE  Own(t)'
<1> USE DEF TypeOK, Own
<1>1. /\ Untouched(t)' /\ MissingIsGone(t)' /\ FlightFillsEmptySlot(t)'
      /\ LostSlotIsClosed(t)' /\ EndJustified(t)' /\ ClientOwned(t)'
      /\ HandleAlive(t)'
  BY DEF CloseLater, SetDue, Untouched, MissingIsGone, FlightFillsEmptySlot,
       LostSlotIsClosed, EndJustified, ClientOwned, HandleAlive
<1>2. DeadlineCarried(t)'
  BY LifecycleAssumption DEF CloseLater, SetDue, DeadlineCarried,
       FlightFillsEmptySlot, Attached, Liveness, NoFlight, TypeCatalog,
       TypeHandles, TypeClients, Flights
<1>3. DeadlineAgrees(t)'
  BY DEF CloseLater, SetDue, DeadlineAgrees, Attached, Liveness, NoFlight,
       TypeCatalog, TypeHandles, TypeClients, Flights
<1> QED BY <1>1, <1>2, <1>3

\* The terminal's invariant after taking close-later back.
LEMMA CancelCloseLaterKeeps ==
  ASSUME TypeOK, NEW t \in Terminals, Own(t),
         CancelCloseLater(t)
  PROVE  Own(t)'
<1> USE DEF TypeOK, Own
<1>1. /\ Untouched(t)' /\ MissingIsGone(t)' /\ FlightFillsEmptySlot(t)'
      /\ LostSlotIsClosed(t)' /\ EndJustified(t)' /\ ClientOwned(t)'
      /\ HandleAlive(t)'
  BY DEF CancelCloseLater, SetDue, Untouched, MissingIsGone,
       FlightFillsEmptySlot, LostSlotIsClosed, EndJustified, ClientOwned,
       HandleAlive
<1>2. DeadlineCarried(t)'
  BY LifecycleAssumption DEF CancelCloseLater, SetDue, DeadlineCarried,
       FlightFillsEmptySlot, Attached, Liveness, NoFlight, TypeCatalog,
       TypeHandles, TypeClients, Flights
<1>3. DeadlineAgrees(t)'
  BY DEF CancelCloseLater, SetDue, DeadlineAgrees, Attached, Liveness,
       NoFlight, TypeCatalog, TypeHandles, TypeClients, Flights
<1> QED BY <1>1, <1>2, <1>3

\* The terminal's invariant after a delete.
LEMMA DeleteKeeps ==
  ASSUME TypeOK, NEW t \in Terminals, Own(t),
         Delete(t)
  PROVE  Own(t)'
<1> USE DEF TypeOK, Own
<1>1. /\ Untouched(t)' /\ MissingIsGone(t)' /\ FlightFillsEmptySlot(t)'
      /\ EndJustified(t)' /\ ClientOwned(t)'
  BY DEF Delete, MarkEnded, Teardown, RemoveTerminalState, Untouched,
       MissingIsGone, FlightFillsEmptySlot, EndJustified, ClientOwned
<1>2. LostSlotIsClosed(t)'
  BY LifecycleAssumption DEF Delete, MarkEnded, Teardown,
       RemoveTerminalState, LostSlotIsClosed, FlightFillsEmptySlot,
       HandleAlive, Attached, Liveness, NoFlight, TypeCatalog, TypeHandles,
       TypeClients, Flights
<1>3. DeadlineCarried(t)'
  BY DEF Delete, MarkEnded, Teardown, RemoveTerminalState, DeadlineCarried,
       Attached, Liveness, NoFlight, TypeCatalog, TypeHandles, TypeClients,
       Flights
<1>4. HandleAlive(t)'
  BY DEF Delete, MarkEnded, Teardown, RemoveTerminalState, HandleAlive,
       Attached, Liveness, NoFlight
<1>5. DeadlineAgrees(t)'
  BY DEF Delete, MarkEnded, Teardown, RemoveTerminalState, DeadlineAgrees,
       Attached, Liveness, NoFlight, TypeCatalog, TypeHandles, TypeClients,
       Flights
<1> QED BY <1>1, <1>2, <1>3, <1>4, <1>5

\* The terminal's invariant after a session whose shell exits.
LEMMA SessionExitsKeeps ==
  ASSUME TypeOK, NEW t \in Terminals, Own(t),
         SessionExits(t)
  PROVE  Own(t)'
<1> USE DEF TypeOK, Own
<1>1. /\ Untouched(t)' /\ MissingIsGone(t)' /\ LostSlotIsClosed(t)'
      /\ EndJustified(t)' /\ ClientOwned(t)'
  BY DEF SessionExits, Untouched, MissingIsGone, LostSlotIsClosed,
       EndJustified, ClientOwned
<1>2. FlightFillsEmptySlot(t)'
  BY DEF SessionExits, FlightFillsEmptySlot, Attached, Liveness, NoFlight
<1>3. DeadlineCarried(t)'
  BY DEF SessionExits, DeadlineCarried, Attached, Liveness, NoFlight
<1>4. HandleAlive(t)'
  BY DEF SessionExits, HandleAlive, Attached, Liveness, NoFlight
<1>5. DeadlineAgrees(t)'
  BY DEF SessionExits, DeadlineAgrees, Attached, Liveness, NoFlight
<1> QED BY <1>1, <1>2, <1>3, <1>4, <1>5

\* The terminal's invariant after start-up reconciliation.
LEMMA ReconcileKeeps ==
  ASSUME TypeOK, NEW t \in Terminals, Own(t),
         Reconcile(t)
  PROVE  Own(t)'
<1> USE DEF TypeOK, Own
<1>1. /\ MissingIsGone(t)' /\ LostSlotIsClosed(t)' /\ EndJustified(t)'
      /\ ClientOwned(t)'
  BY DEF Reconcile, MarkEnded, Probe, MissingIsGone, LostSlotIsClosed,
       EndJustified, ClientOwned
<1>2. Untouched(t)'
  BY DEF Reconcile, MarkEnded, Probe, Untouched, Attached, Liveness,
       NoFlight, TypeCatalog, TypeHandles, TypeClients, Flights
<1>3. FlightFillsEmptySlot(t)'
  BY DEF Reconcile, MarkEnded, Probe, FlightFillsEmptySlot, Attached,
       Liveness, NoFlight, TypeCatalog, TypeHandles, TypeClients, Flights
<1>4. DeadlineCarried(t)'
  BY DEF Reconcile, MarkEnded, Probe, DeadlineCarried, Attached, Liveness,
       NoFlight, TypeCatalog, TypeHandles, TypeClients, Flights
<1>5. HandleAlive(t)'
  BY DEF Reconcile, MarkEnded, Probe, HandleAlive, Attached, Liveness,
       NoFlight
<1>6. DeadlineAgrees(t)'
  BY DEF Reconcile, MarkEnded, Probe, DeadlineAgrees, Attached, Liveness,
       NoFlight, TypeCatalog, TypeHandles, TypeClients, Flights
<1> QED BY <1>1, <1>2, <1>3, <1>4, <1>5, <1>6

\* The terminal's invariant after start-up recovery.
LEMMA RecoverKeeps ==
  ASSUME TypeOK, NEW t \in Terminals, Own(t),
         Recover(t)
  PROVE  Own(t)'
<1> USE DEF TypeOK, Own
<1>1. MissingIsGone(t)' /\ LostSlotIsClosed(t)' /\ EndJustified(t)'
  BY DEF Recover, MissingIsGone, LostSlotIsClosed, EndJustified
<1>2. Untouched(t)'
  BY DEF Recover, Untouched, Attached, Liveness, NoFlight
<1>3. FlightFillsEmptySlot(t)'
  BY DEF Recover, FlightFillsEmptySlot, Attached, Liveness, NoFlight
<1>4. DeadlineCarried(t)'
  BY DEF Recover, DeadlineCarried, Attached, Liveness, NoFlight
<1>5. ClientOwned(t)'
  BY LifecycleAssumption DEF Recover, ClientOwned, FlightFillsEmptySlot,
       Attached, Liveness, NoFlight, TypeCatalog, TypeHandles, TypeClients,
       Flights
<1>6. HandleAlive(t)'
  BY DEF Recover, HandleAlive, Attached, Liveness, NoFlight
<1>7. DeadlineAgrees(t)'
  BY DEF Recover, DeadlineAgrees, Attached, Liveness, NoFlight
<1> QED BY <1>1, <1>2, <1>3, <1>4, <1>5, <1>6, <1>7

\* The terminal's invariant after a stop.
LEMMA StopKeeps ==
  ASSUME TypeOK, NEW t \in Terminals, Own(t),
         Stop
  PROVE  Own(t)'
<1> USE DEF TypeOK, Own
<1>1. /\ MissingIsGone(t)' /\ LostSlotIsClosed(t)' /\ EndJustified(t)'
      /\ ClientOwned(t)'
  BY DEF Stop, MissingIsGone, LostSlotIsClosed, EndJustified, ClientOwned
<1>2. Untouched(t)'
  BY DEF Stop, Untouched, Attached, Liveness, NoFlight
<1>3. FlightFillsEmptySlot(t)'
  BY DEF Stop, FlightFillsEmptySlot, Attached, Liveness, NoFlight
<1>4. DeadlineCarried(t)'
  BY DEF Stop, DeadlineCarried, Attached, Liveness, NoFlight
<1>5. HandleAlive(t)'
  BY DEF Stop, HandleAlive, Attached, Liveness, NoFlight
<1>6. DeadlineAgrees(t)'
  BY DEF Stop, DeadlineAgrees, Attached, Liveness, NoFlight
<1> QED BY <1>1, <1>2, <1>3, <1>4, <1>5, <1>6

-----------------------------------------------------------------------------
(* The rest of the step *)

\* The part of the state Own(u) is about.
Part(u) == <<row[u], due[u], session[u], terminals[u], termDue[u], stage[u],
             live[u], exit[u], flight[u], killing[u]>>

\* Where nothing of a terminal changes, its invariant stays.
LEMMA PartKeeps ==
  ASSUME NEW u \in Terminals, Own(u), UNCHANGED Part(u), closed \subseteq closed'
  PROVE  Own(u)'
<1> USE DEF Part, Own, Attached
<1>1. Untouched(u)' /\ MissingIsGone(u)' /\ EndJustified(u)'
  BY DEF Untouched, MissingIsGone, EndJustified
<1>2. FlightFillsEmptySlot(u)' /\ LostSlotIsClosed(u)'
  BY DEF FlightFillsEmptySlot, LostSlotIsClosed
<1>3. DeadlineCarried(u)' /\ DeadlineAgrees(u)'
  BY DEF DeadlineCarried, DeadlineAgrees
<1>4. ClientOwned(u)' /\ HandleAlive(u)'
  BY DEF ClientOwned, HandleAlive
<1> QED BY <1>1, <1>2, <1>3, <1>4

\* What a terminal's action leaves alone, for each action that writes
\* something Own is about.
LEMMA WorkElsewhere ==
  ASSUME TypeOK, NEW t \in Terminals, NEW u \in Terminals, u # t, Work(t)
  PROVE  UNCHANGED Part(u) /\ closed \subseteq closed'
<1> USE DEF TypeOK, TypeCatalog, TypeHandles, TypeClients, Part
<1>1. CASE CreateDone(t) \/ CreateDoneAfterExit(t) \/ CreateFails(t)
  BY <1>1 DEF CreateDone, CreateDoneAfterExit, CreateFails, Forget
<1>2. ASSUME NEW a \in Liveness, FlightProbed(t, a)
      PROVE  UNCHANGED Part(u) /\ closed \subseteq closed'
  BY <1>2 DEF FlightProbed, MarkEnded, AnswerNull, AnswerHandle, SetDue
<1>3. ASSUME NEW k \in Attaches, FlightSpawns(t, k)
      PROVE  UNCHANGED Part(u) /\ closed \subseteq closed'
  BY ZenonT(60), <1>3 DEF FlightSpawns, AnswerHandle, SetDue, SpawnAttach
<1>4. CASE FlightFails(t)
  BY <1>4 DEF FlightFails, AnswerNull
<1>5. CASE FlightRegisters(t)
  BY <1>5 DEF FlightRegisters, AnswerHandle, SetDue
<1>6. ASSUME NEW k \in Attaches, AttachExits(t, k) \/ ExitProbed(t, k)
      PROVE  UNCHANGED Part(u) /\ closed \subseteq closed'
  BY <1>6 DEF AttachExits, ExitProbed
<1>7. ASSUME NEW k \in Attaches, FinalizeTerminalExit(t, k)
      PROVE  UNCHANGED Part(u) /\ closed \subseteq closed'
  BY <1>7 DEF FinalizeTerminalExit, ExitHandled, MarkEnded,
     RemoveTerminalState, Forget
<1>8. ASSUME NEW k \in Attaches, NEW b \in BOOLEAN, DetachDeadAttach(t, k, b)
      PROVE  UNCHANGED Part(u) /\ closed \subseteq closed'
  BY <1>8 DEF DetachDeadAttach, ExitHandled, RemoveTerminalState, Forget
<1>9. CASE TimerFires(t) \/ SocketOpens(t)
  BY <1>9 DEF TimerFires, SocketOpens, Join
<1>10. CASE SweepCancels(t)
  BY <1>10 DEF SweepCancels, SetDue
<1>11. CASE SweepEnds(t) \/ CleanupIdle(t) \/ ReapDetached(t)
  BY <1>11 DEF SweepEnds, CleanupIdle, ReapDetached, Teardown, MarkEnded,
     RemoveTerminalState
<1>12. ASSUME NEW k \in Attaches, KillDone(t, k)
       PROVE  UNCHANGED Part(u) /\ closed \subseteq closed'
  BY <1>12 DEF KillDone, Forget
<1> QED BY <1>1, <1>2, <1>3, <1>4, <1>5, <1>6, <1>7, <1>8, <1>9, <1>10,
           <1>11, <1>12 DEF Work

\* A request for one terminal touches no other.
LEMMA RequestElsewhere ==
  ASSUME TypeOK, NEW t \in Terminals, NEW u \in Terminals, u # t,
         Request(t) \/ SessionExits(t) \/ Reconcile(t) \/ Recover(t)
  PROVE  UNCHANGED Part(u) /\ closed \subseteq closed'
<1> USE DEF TypeOK, TypeCatalog, TypeHandles, TypeClients, Part
<1>1. ASSUME NEW k \in Attaches, Create(t, k)
      PROVE  UNCHANGED Part(u) /\ closed \subseteq closed'
  BY <1>1 DEF Create, SpawnAttach
<1>2. CASE Poll(t) \/ Upgrade(t)
  BY <1>2 DEF Poll, Upgrade, Join, SetDue
<1>3. CASE SocketCloses(t) \/ CancelCloseLater(t)
  BY <1>3 DEF SocketCloses, CancelCloseLater, SetDue
<1>4. ASSUME NEW f \in BOOLEAN, CloseLater(t, f)
      PROVE  UNCHANGED Part(u) /\ closed \subseteq closed'
  BY <1>4 DEF CloseLater, SetDue
<1>5. CASE Delete(t)
  BY <1>5 DEF Delete, Teardown, MarkEnded, RemoveTerminalState
<1>6. CASE SessionExits(t) \/ Reconcile(t) \/ Recover(t)
  BY <1>6 DEF SessionExits, Reconcile, Recover, MarkEnded
<1> QED BY <1>1, <1>2, <1>3, <1>4, <1>5, <1>6 DEF Request

\* Whatever the service does for a terminal keeps its invariant.
LEMMA WorkKeeps ==
  ASSUME TypeOK, NEW t \in Terminals, Own(t), Work(t)
  PROVE  Own(t)'
<1>1. CASE SocketOpens(t)
  BY <1>1, PartKeeps DEF SocketOpens, Part
<1>2. CASE CreateDone(t) \/ CreateDoneAfterExit(t) \/ CreateFails(t)
  BY <1>2, CreateDoneKeeps, CreateDoneAfterExitKeeps, CreateFailsKeeps
<1>3. CASE \/ \E a \in Liveness : FlightProbed(t, a)
           \/ \E k \in Attaches : FlightSpawns(t, k)
           \/ FlightFails(t) \/ FlightRegisters(t)
  BY <1>3, FlightProbedKeeps, FlightSpawnsKeeps, FlightFailsKeeps,
     FlightRegistersKeeps
<1>4. CASE \E k \in Attaches : \/ AttachExits(t, k) \/ ExitProbed(t, k)
                               \/ FinalizeTerminalExit(t, k)
                               \/ KillDone(t, k)
  BY <1>4, AttachExitsKeeps, ExitProbedKeeps, FinalizeTerminalExitKeeps,
     KillDoneKeeps
<1>5. CASE \E k \in Attaches, b \in BOOLEAN : DetachDeadAttach(t, k, b)
  BY <1>5, DetachDeadAttachKeeps
<1>6. CASE \/ TimerFires(t) \/ SweepCancels(t) \/ SweepEnds(t)
           \/ CleanupIdle(t) \/ ReapDetached(t)
  BY <1>6, TimerFiresKeeps, SweepCancelsKeeps, SweepEndsKeeps,
     CleanupIdleKeeps, ReapDetachedKeeps
<1> QED BY <1>1, <1>2, <1>3, <1>4, <1>5, <1>6 DEF Work

\* Whatever is asked for a terminal keeps its invariant.
LEMMA RequestKeeps ==
  ASSUME TypeOK, NEW t \in Terminals, Own(t),
         Request(t) \/ SessionExits(t) \/ Reconcile(t) \/ Recover(t)
  PROVE  Own(t)'
<1>1. CASE SocketCloses(t)
  BY <1>1, PartKeeps DEF SocketCloses, Part
<1>2. CASE \E k \in Attaches : Create(t, k)
  BY <1>2, CreateKeeps
<1>3. CASE \/ Poll(t) \/ Upgrade(t) \/ CancelCloseLater(t) \/ Delete(t)
           \/ \E f \in BOOLEAN : CloseLater(t, f)
  BY <1>3, PollKeeps, UpgradeKeeps, CancelCloseLaterKeeps, DeleteKeeps,
     CloseLaterKeeps
<1>4. CASE SessionExits(t) \/ Reconcile(t) \/ Recover(t)
  BY <1>4, SessionExitsKeeps, ReconcileKeeps, RecoverKeeps
<1> QED BY <1>1, <1>2, <1>3, <1>4 DEF Request

\* Every step keeps the invariant of every terminal.
LEMMA NextKeeps ==
  ASSUME TypeOK, \A t \in Terminals : Own(t), [Next]_vars,
         NEW u \in Terminals
  PROVE  Own(u)'
<1>1. ASSUME NEW t \in Terminals, Work(t) PROVE Own(u)'
  BY <1>1, WorkKeeps, WorkElsewhere, PartKeeps
<1>2. ASSUME NEW t \in Terminals,
             Request(t) \/ SessionExits(t) \/ Reconcile(t) \/ Recover(t)
      PROVE  Own(u)'
  BY <1>2, RequestKeeps, RequestElsewhere, PartKeeps
<1>3. CASE Stop
  BY <1>3, StopKeeps
<1>4. CASE Start \/ ListSessions \/ Serve \/ UNCHANGED vars
  <2>1. UNCHANGED Part(u) /\ UNCHANGED closed
    BY <1>4 DEF Start, ListSessions, Serve, vars, Part
  <2> QED BY <2>1, PartKeeps
<1> QED BY <1>1, <1>2, <1>3, <1>4 DEF Next, Boot

-----------------------------------------------------------------------------
(* The theorems *)

\* The invariant is the types and each terminal's own part.
LEMMA IInvIsOwn == IInv <=> TypeOK /\ \A t \in Terminals : Own(t)
  BY DEF IInv, Own, EndedIsJustified, EndJustified, NoOrphanClient,
     ClientOwned, NoDeadHandle, HandleAlive, DeadlinesAgree, DeadlineAgrees

\* Every terminal starts with its part.
LEMMA InitOwn == ASSUME Init, NEW t \in Terminals PROVE Own(t)
<1> USE DEF Init, Attached, NoFlight
<1>1. Untouched(t) /\ MissingIsGone(t) /\ EndJustified(t)
  BY DEF Untouched, MissingIsGone, EndJustified
<1>2. FlightFillsEmptySlot(t) /\ LostSlotIsClosed(t)
  BY DEF FlightFillsEmptySlot, LostSlotIsClosed
<1>3. DeadlineCarried(t) /\ DeadlineAgrees(t)
  BY DEF DeadlineCarried, DeadlineAgrees
<1>4. ClientOwned(t) /\ HandleAlive(t)
  BY DEF ClientOwned, HandleAlive
<1> QED BY <1>1, <1>2, <1>3, <1>4 DEF Own

\* The inductive invariant of the session life cycle.
THEOREM LifecycleInvariant == Spec => []IInv
<1>1. Init => \A t \in Terminals : Own(t)
  BY InitOwn
<1>2. TypeOK /\ (\A t \in Terminals : Own(t)) /\ [Next]_vars
        => (\A t \in Terminals : Own(t))'
  BY NextKeeps
<1>3. Spec => [](\A t \in Terminals : Own(t))
  BY <1>1, <1>2, TypeCorrect, PTL DEF Spec
<1> QED BY <1>3, TypeCorrect, IInvIsOwn, PTL

\* No probe failure, attach death, stop or restart ends the row of a session
\* that lives and that nobody closed.
THEOREM LifecycleEndedIsJustified == Spec => []EndedIsJustified
<1>1. IInv => EndedIsJustified
  BY DEF IInv
<1> QED BY <1>1, LifecycleInvariant, PTL

\* Polls, upgrades and re-attach timers never leave a client nobody owns.
THEOREM LifecycleNoOrphanClient == Spec => []NoOrphanClient
<1>1. IInv => NoOrphanClient
  BY DEF IInv
<1> QED BY <1>1, LifecycleInvariant, PTL

\* No handle is left in the Map whose client died unnoticed.
THEOREM LifecycleNoDeadHandle == Spec => []NoDeadHandle
<1>1. IInv => NoDeadHandle
  BY DEF IInv
<1> QED BY <1>1, LifecycleInvariant, PTL

\* The handle and the row agree on a scheduled close.
THEOREM LifecycleDeadlinesAgree == Spec => []DeadlinesAgree
<1>1. IInv => DeadlinesAgree
  BY DEF IInv
<1> QED BY <1>1, LifecycleInvariant, PTL
=============================================================================
