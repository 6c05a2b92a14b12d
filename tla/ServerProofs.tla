---------------------------- MODULE ServerProofs ----------------------------
(***************************************************************************)
(* Proofs about five parts of the server: PipeCapture, for any set of      *)
(* calls and any number of restarts; TerminalAdmission, for any finite set *)
(* of requests and users and any caps; TaskRunner, for any number of       *)
(* rounds, agents and messages; AgentResume, for any number of rows,       *)
(* requests and restarts; and LinkedViews, for any number of views.        *)
(***************************************************************************)
EXTENDS PipeCapture, TerminalAdmission, TaskRunner, AgentResume,
        LinkedViews, FiniteSetTheorems, SequenceTheorems, TLAPS

-----------------------------------------------------------------------------
(* Arming the pipe of a session.                                           *)

CaptureInv == /\ CaptureTypeOK /\ FileTells /\ ElsewhereTells /\ DecisionStands
              /\ ArmedOnReturn

\* At the start no call of ensurePipeCapture is under way.
LEMMA InitCapture == CaptureInit => CaptureInv
<1>1. CaptureInit => CaptureTypeOK
  <2>1. CaptureInit => pipe \in {"closed", "here", "elsewhere"} /\ file \in BOOLEAN
    BY DEF CaptureInit
  <2>2. CaptureInit => turn \in Seq(Calls) /\ restarts \in 0..MaxRestarts
    BY CaptureAssumption DEF CaptureInit
  <2>3. CaptureInit => step \in [Calls -> Steps] /\ open \in [Calls -> BOOLEAN]
    BY DEF CaptureInit, Steps
  <2> QED BY <2>1, <2>2, <2>3 DEF CaptureTypeOK
<1>2. CaptureInit => FileTells /\ ElsewhereTells
  BY DEF CaptureInit, FileTells, ElsewhereTells
<1>3. CaptureInit => DecisionStands /\ ArmedOnReturn
  BY DEF CaptureInit, DecisionStands, ArmedOnReturn
<1> QED BY <1>1, <1>2, <1>3 DEF CaptureInv

\* A call in the middle of its steps has the turn, so there is one at most.
LEMMA OneCall ==
  ASSUME NEW c \in Calls, NEW d \in Calls, HasTurn(c), HasTurn(d)
  PROVE  c = d
  BY DEF HasTurn

\* Every step of a call, and a restart, keeps what was looked at.
LEMMA NextCapture == ASSUME CaptureInv, [CaptureNext]_captureVars PROVE CaptureInv'
<1> USE CaptureAssumption DEF CaptureInv, CaptureTypeOK, Steps
<1>1. ASSUME NEW c \in Calls, Enters(c) PROVE CaptureInv'
  <2>1. /\ step' = [step EXCEPT ![c] = "check"] /\ step[c] = "new"
        /\ turn' = Append(turn, c) /\ turn' \in Seq(Calls)
        /\ UNCHANGED <<pipe, file, open, restarts>>
    BY <1>1 DEF Enters
  <2>2. \A d \in Calls : HasTurn(d) => HasTurn(d)'
    BY <2>1 DEF HasTurn
  <2> QED BY <2>1, <2>2
          DEF FileTells, ElsewhereTells, DecisionStands, ArmedOnReturn
<1>2. ASSUME NEW c \in Calls, Checks(c) PROVE CaptureInv'
  BY <1>2, OneCall DEF Checks, Goes, HasTurn, FileTells, ElsewhereTells,
     DecisionStands, ArmedOnReturn
<1>3. ASSUME NEW c \in Calls, LooksAtLog(c) PROVE CaptureInv'
  <2>1. /\ step[c] = "look" /\ HasTurn(c) /\ open[c] = (pipe # "closed")
        /\ UNCHANGED <<pipe, file, open, restarts>>
    BY <1>3 DEF LooksAtLog, Goes, DecisionStands
  <2>2. \A d \in Calls : d # c => step[d] \notin {"look", "close", "touch", "arm"}
    BY <2>1, OneCall DEF DecisionStands
  <2>3. CASE open[c] /\ file
    <3>1. step' = [step EXCEPT ![c] = "done"] /\ turn' = Tail(turn)
      BY <1>3, <2>3 DEF LooksAtLog, Goes
    <3>2. turn' \in Seq(Calls)
      BY <2>1, <3>1 DEF HasTurn
    <3> QED BY <2>1, <2>2, <2>3, <3>1, <3>2
            DEF FileTells, ElsewhereTells, DecisionStands, ArmedOnReturn
  <2>4. CASE ~(open[c] /\ file)
    <3>1. /\ step' = [step EXCEPT ![c] = IF open[c] THEN "close" ELSE "touch"]
          /\ turn' = turn
      BY <1>3, <2>4 DEF LooksAtLog, Goes
    <3> QED BY <2>1, <2>2, <2>4, <3>1 DEF HasTurn, FileTells, ElsewhereTells,
            DecisionStands, ArmedOnReturn
  <2> QED BY <2>3, <2>4
<1>4. ASSUME NEW c \in Calls, ClosesPipe(c) PROVE CaptureInv'
  <2>1. \A d \in Calls : d # c => step[d] \notin {"look", "close", "touch", "arm"}
    BY <1>4, OneCall DEF ClosesPipe, Goes, DecisionStands
  <2>2. pipe = "elsewhere" /\ \A d \in Calls : step[d] # "done"
    BY <1>4 DEF ClosesPipe, Goes, DecisionStands, ArmedOnReturn
  <2> QED BY <1>4, <2>1, <2>2 DEF ClosesPipe, Goes, HasTurn, FileTells,
          ElsewhereTells, DecisionStands, ArmedOnReturn
<1>5. ASSUME NEW c \in Calls, Touches(c) PROVE CaptureInv'
  BY <1>5, OneCall DEF Touches, Goes, HasTurn, FileTells, ElsewhereTells,
     DecisionStands, ArmedOnReturn
<1>6. ASSUME NEW c \in Calls, Arms(c) PROVE CaptureInv'
  <2>1. \A d \in Calls : d # c => step[d] \notin {"look", "close", "touch", "arm"}
    BY <1>6, OneCall DEF Arms, Goes, DecisionStands
  <2>2. pipe = "closed" /\ pipe' = "here" /\ turn' \in Seq(Calls)
    BY <1>6 DEF Arms, Goes, HasTurn, DecisionStands
  <2>3. file
    BY <1>6 DEF Arms, Goes, DecisionStands
  <2> QED BY <1>6, <2>1, <2>2, <2>3 DEF Arms, Goes, FileTells,
          ElsewhereTells, DecisionStands, ArmedOnReturn
<1>7. CASE CaptureRestart
  BY <1>7 DEF CaptureRestart, FileTells, ElsewhereTells, DecisionStands,
     ArmedOnReturn
<1>8. CASE UNCHANGED captureVars
  BY <1>8 DEF captureVars, HasTurn, FileTells, ElsewhereTells, DecisionStands,
     ArmedOnReturn
<1> QED BY <1>1, <1>2, <1>3, <1>4, <1>5, <1>6, <1>7, <1>8 DEF CaptureNext

\* What a call of ensurePipeCapture saw of the pipe and its log file still
\* holds when it acts, for any number of calls and restarts.
THEOREM CaptureInvariant == CaptureSpec => []CaptureInv
<1>1. CaptureInv /\ [CaptureNext]_captureVars => CaptureInv'
  BY NextCapture
<1> QED BY <1>1, InitCapture, PTL DEF CaptureSpec

\* Whatever calls and restarts came before, a returned call left the pane
\* writing to the log the service reads.
THEOREM CaptureArmed == CaptureSpec => []ArmedOnReturn
<1>1. CaptureInv => ArmedOnReturn
  BY DEF CaptureInv
<1> QED BY <1>1, CaptureInvariant, PTL

\* No step closes an armed pipe: only a call that saw it closed, or open
\* without a log file here, touches it, and nobody else had the turn since.
THEOREM CaptureStaysArmed == CaptureSpec => StaysArmed
<1>1. ASSUME CaptureInv, [CaptureNext]_captureVars, pipe = "here" PROVE pipe' = "here"
  BY <1>1 DEF CaptureInv, DecisionStands, CaptureNext, Enters, Checks, LooksAtLog, ClosesPipe,
     Touches, Arms, Goes, CaptureRestart, captureVars
<1>2. CaptureInv /\ [CaptureNext]_captureVars => [pipe = "here" => pipe' = "here"]_captureVars
  BY <1>1
<1> QED BY <1>2, CaptureInvariant, PTL DEF CaptureSpec, StaysArmed

-----------------------------------------------------------------------------
(* Creating terminals: types *)

\* No create was asked for.
LEMMA InitTyped == AdmissionInit => AdmissionTypeOK
<1> SUFFICES ASSUME AdmissionInit PROVE AdmissionTypeOK
  OBVIOUS
<1> USE DEF AdmissionInit, States
<1>1. state \in [Requests -> States]
  OBVIOUS
<1>2. recent \in [Users -> 0..PerUserRate]
  BY AdmissionAssumption
<1>3. pass \in [Users -> 0..2] /\ list \in [Users -> SUBSET Requests]
  OBVIOUS
<1>4. /\ disabled \in SUBSET Users /\ overlapped \in BOOLEAN
      /\ reattached \in SUBSET Requests
  OBVIOUS
<1> QED BY <1>1, <1>2, <1>3, <1>4 DEF AdmissionTypeOK

\* Every step keeps counters within their windows.
LEMMA NextTyped == ASSUME AdmissionTypeOK, [AdmissionNext]_admissionVars PROVE AdmissionTypeOK'
<1> USE AdmissionAssumption DEF AdmissionTypeOK, States
<1>1. ASSUME NEW r \in Requests, Gate(r) PROVE AdmissionTypeOK'
  BY <1>1 DEF Gate, Becomes
<1>2. ASSUME NEW r \in Requests, Admit(r) PROVE AdmissionTypeOK'
  <2>1. Owner[r] \in Users
    OBVIOUS
  <2>2. CASE HasRoom(Owner[r]) /\ Owner[r] \notin disabled
    <3>1. recent[Owner[r]] + 1 \in 0..PerUserRate
      BY <2>1, <2>2 DEF HasRoom
    <3> QED BY <1>2, <2>1, <2>2, <3>1 DEF Admit, Becomes
  <2>3. CASE ~(HasRoom(Owner[r]) /\ Owner[r] \notin disabled)
    BY <1>2, <2>3 DEF Admit, Becomes
  <2> QED BY <2>2, <2>3
<1>3. ASSUME NEW r \in Requests, Spawned(r) PROVE AdmissionTypeOK'
  BY <1>3 DEF Spawned, Becomes
<1>4. ASSUME NEW r \in Requests, SpawnFails(r) PROVE AdmissionTypeOK'
  BY <1>4 DEF SpawnFails, Becomes
<1>5. ASSUME NEW r \in Requests, TerminalEnds(r) PROVE AdmissionTypeOK'
  BY <1>5 DEF TerminalEnds, Becomes
<1>6. ASSUME NEW r \in Requests, Detach(r) PROVE AdmissionTypeOK'
  BY <1>6 DEF Detach, Becomes
<1>7. ASSUME NEW r \in Requests, Reattach(r) PROVE AdmissionTypeOK'
  BY <1>7 DEF Reattach, Becomes
<1>8. ASSUME NEW u \in Users, Expire(u) PROVE AdmissionTypeOK'
  BY <1>8 DEF Expire
<1>9. ASSUME NEW u \in Users, Disable(u) PROVE AdmissionTypeOK'
  BY <1>9 DEF Disable, LiveOf, LiveTerminals
<1>10. ASSUME NEW u \in Users, SweepKills(u) PROVE AdmissionTypeOK'
  BY <1>10 DEF SweepKills, Becomes
<1>11. ASSUME NEW u \in Users, SweepGoesOn(u) PROVE AdmissionTypeOK'
  BY <1>11 DEF SweepGoesOn, LiveOf, LiveTerminals
<1>12. ASSUME NEW u \in Users, Enable(u) PROVE AdmissionTypeOK'
  BY <1>12 DEF Enable
<1>13. CASE UNCHANGED admissionVars
  BY <1>13 DEF admissionVars
<1> QED BY <1>1, <1>2, <1>3, <1>4, <1>5, <1>6, <1>7, <1>8, <1>9, <1>10,
           <1>11, <1>12, <1>13 DEF AdmissionNext

\* Every variable keeps its type.
THEOREM AdmissionTypeCorrect == AdmissionSpec => []AdmissionTypeOK
<1>1. AdmissionTypeOK /\ [AdmissionNext]_admissionVars => AdmissionTypeOK'
  BY NextTyped
<1> QED BY <1>1, InitTyped, PTL DEF AdmissionSpec

-----------------------------------------------------------------------------
(* Creating terminals: against the disabling of their user *)

\* Every step keeps creates from outliving the disabling of their owner.
LEMMA NextSwept ==
  ASSUME AdmissionTypeOK, NoCreateOutlivesDisable, [AdmissionNext]_admissionVars
  PROVE  NoCreateOutlivesDisable'
<1> USE AdmissionAssumption DEF AdmissionTypeOK, NoCreateOutlivesDisable
<1>1. ASSUME NEW r \in Requests,
             Gate(r) \/ Admit(r) \/ Spawned(r) \/ SpawnFails(r) \/ TerminalEnds(r)
             \/ Detach(r) \/ Reattach(r)
      PROVE  NoCreateOutlivesDisable'
  <2>1. UNCHANGED <<disabled, list>> /\ reattached \subseteq reattached'
    BY <1>1 DEF Gate, Admit, Spawned, SpawnFails, TerminalEnds, Detach, Reattach
  <2>2. \A q \in Requests : q # r => state'[q] = state[q]
    BY <1>1 DEF Gate, Admit, Spawned, SpawnFails, TerminalEnds, Detach, Reattach,
       Becomes
  <2>3. state'[r] = "live" /\ Owner[r] \in disabled => r \in reattached'
    BY <1>1 DEF Gate, Admit, Spawned, SpawnFails, TerminalEnds, Detach, Reattach,
       Becomes
  <2> QED BY <2>1, <2>2, <2>3
<1>2. ASSUME NEW u \in Users, Expire(u) PROVE NoCreateOutlivesDisable'
  BY <1>2 DEF Expire
<1>3. ASSUME NEW u \in Users, Disable(u) PROVE NoCreateOutlivesDisable'
  BY <1>3 DEF Disable, LiveOf, LiveTerminals
<1>4. ASSUME NEW u \in Users, SweepKills(u) PROVE NoCreateOutlivesDisable'
  BY <1>4 DEF SweepKills, Becomes
<1>5. ASSUME NEW u \in Users, SweepGoesOn(u) PROVE NoCreateOutlivesDisable'
  BY <1>5 DEF SweepGoesOn, LiveOf, LiveTerminals
<1>6. ASSUME NEW u \in Users, Enable(u) PROVE NoCreateOutlivesDisable'
  BY <1>6 DEF Enable
<1>7. CASE UNCHANGED admissionVars
  BY <1>7 DEF admissionVars
<1> QED BY <1>1, <1>2, <1>3, <1>4, <1>5, <1>6, <1>7 DEF AdmissionNext

\* A create that races the disabling of its user leaves no terminal behind.
THEOREM AdmissionSwept == AdmissionSpec => []NoCreateOutlivesDisable
<1>1. AdmissionInit => NoCreateOutlivesDisable
  BY DEF AdmissionInit, NoCreateOutlivesDisable
<1>2. AdmissionTypeOK /\ NoCreateOutlivesDisable /\ [AdmissionNext]_admissionVars
        => NoCreateOutlivesDisable'
  BY NextSwept
<1> QED BY <1>1, <1>2, AdmissionTypeCorrect, PTL DEF AdmissionSpec

-----------------------------------------------------------------------------
(* Creating terminals: the caps *)

\* Terminals that are in the Map, will be, or will be again.
Held == {r \in Requests : state[r] \in {"spawning", "live", "detached"}}
HeldOf(u) == {r \in Held : Owner[r] = u}

\* The inductive form: Live alone may grow by a restore.
HeldWithinCaps ==
  ~overlapped => /\ Cardinality(Held) <= MaxTerminals
                 /\ \A u \in Users : Cardinality(HeldOf(u)) <= MaxPerUser

\* What is held is a finite set, so that it can be counted.
LEMMA HeldFinite ==
  /\ IsFiniteSet(Held) /\ IsFiniteSet(LiveTerminals)
  /\ Cardinality(LiveTerminals) <= Cardinality(Held)
  /\ \A u \in Users : IsFiniteSet(HeldOf(u))
                      /\ Cardinality(LiveOf(u)) <= Cardinality(HeldOf(u))
<1>1. LiveTerminals \subseteq Held /\ Held \subseteq Requests
  BY DEF LiveTerminals, Held
<1>2. \A u \in Users : LiveOf(u) \subseteq HeldOf(u)
                       /\ HeldOf(u) \subseteq Requests
  BY <1>1 DEF LiveOf, HeldOf
<1> QED BY <1>1, <1>2, AdmissionAssumption, FS_Subset

\* No step but an admission adds to what is held.
LEMMA FewerHeld ==
  ASSUME HeldWithinCaps, UNCHANGED overlapped,
         \A r \in Requests :
           state'[r] \in {"spawning", "live", "detached"} =>
             state[r] \in {"spawning", "live", "detached"}
  PROVE  HeldWithinCaps'
<1>1. Held' \subseteq Held
  BY DEF Held
<1>2. \A u \in Users : HeldOf(u)' \subseteq HeldOf(u)
  BY <1>1 DEF HeldOf
<1>3. Cardinality(Held') <= Cardinality(Held)
  BY <1>1, HeldFinite, FS_Subset
<1>4. \A u \in Users : Cardinality(HeldOf(u)') <= Cardinality(HeldOf(u))
  BY <1>2, HeldFinite, FS_Subset
<1>5. /\ Cardinality(Held) \in Nat /\ Cardinality(Held') \in Nat
      /\ \A u \in Users : Cardinality(HeldOf(u)) \in Nat
                          /\ Cardinality(HeldOf(u)') \in Nat
  BY <1>1, <1>2, HeldFinite, FS_Subset, FS_CardinalityType
<1> QED BY <1>3, <1>4, <1>5, AdmissionAssumption DEF HeldWithinCaps

\* An admission, alone, keeps what is held within the caps.
LEMMA AdmitHeld ==
  ASSUME AdmissionTypeOK, HeldWithinCaps, NEW r \in Requests, Admit(r)
  PROVE  HeldWithinCaps'
<1>1. CASE state' = [state EXCEPT ![r] = "denied"] /\ UNCHANGED overlapped
  BY <1>1, FewerHeld DEF AdmissionTypeOK
<1>2. CASE /\ state' = [state EXCEPT ![r] = "spawning"]
           /\ HasRoom(Owner[r]) /\ state[r] = "gated"
           /\ overlapped' = (overlapped \/ \E q \in Requests :
                               state[q] \in {"spawning", "detached"})
  <2> SUFFICES ASSUME ~overlapped'
               PROVE  /\ Cardinality(Held') <= MaxTerminals
                      /\ \A u \in Users :
                           Cardinality(HeldOf(u)') <= MaxPerUser
    BY DEF HeldWithinCaps
  <2>1. ~overlapped /\ Held = LiveTerminals /\ \A u \in Users : HeldOf(u) = LiveOf(u)
    BY <1>2 DEF Held, LiveTerminals, HeldOf, LiveOf
  <2>2. Held' = Held \cup {r} /\ r \notin Held
    BY <1>2 DEF Held, AdmissionTypeOK
  <2>3. Cardinality(Held') <= MaxTerminals
    <3>1. Cardinality(Held) < MaxTerminals
      BY <1>2, <2>1 DEF HasRoom
    <3>2. Cardinality(Held') = Cardinality(Held) + 1
      BY <2>2, HeldFinite, FS_AddElement
    <3>3. Cardinality(Held) \in Nat
      BY HeldFinite, FS_CardinalityType
    <3> QED BY <3>1, <3>2, <3>3, AdmissionAssumption
  <2>4. ASSUME NEW u \in Users PROVE Cardinality(HeldOf(u)') <= MaxPerUser
    <3>1. CASE u = Owner[r]
      <4>1. HeldOf(u)' = HeldOf(u) \cup {r} /\ r \notin HeldOf(u)
        BY <2>2, <3>1 DEF HeldOf
      <4>2. Cardinality(HeldOf(u)) < MaxPerUser
        BY <1>2, <2>1, <3>1 DEF HasRoom
      <4>3. Cardinality(HeldOf(u)') = Cardinality(HeldOf(u)) + 1
        BY <4>1, HeldFinite, FS_AddElement
      <4>4. Cardinality(HeldOf(u)) \in Nat
        BY HeldFinite, FS_CardinalityType
      <4> QED BY <4>2, <4>3, <4>4, AdmissionAssumption
    <3>2. CASE u # Owner[r]
      <4>1. HeldOf(u)' = HeldOf(u)
        BY <2>2, <3>2 DEF HeldOf
      <4> QED BY <2>1, <4>1 DEF HeldWithinCaps
    <3> QED BY <3>1, <3>2
  <2> QED BY <2>3, <2>4
<1> QED BY <1>1, <1>2 DEF Admit, Becomes

\* Every step keeps what is held within the caps.
LEMMA NextHeld ==
  ASSUME AdmissionTypeOK, HeldWithinCaps, [AdmissionNext]_admissionVars
  PROVE  HeldWithinCaps'
<1>1. ASSUME NEW r \in Requests, Admit(r) PROVE HeldWithinCaps'
  BY <1>1, AdmitHeld
<1>2. ASSUME NEW r \in Requests,
             Gate(r) \/ Spawned(r) \/ SpawnFails(r) \/ TerminalEnds(r) \/ Detach(r)
             \/ Reattach(r)
      PROVE  HeldWithinCaps'
  BY <1>2, FewerHeld DEF AdmissionTypeOK, Gate, Spawned, SpawnFails, TerminalEnds, Detach,
     Reattach, Becomes
<1>3. ASSUME NEW u \in Users,
             Expire(u) \/ Disable(u) \/ SweepKills(u) \/ SweepGoesOn(u)
             \/ Enable(u)
      PROVE  HeldWithinCaps'
  BY <1>3, FewerHeld DEF AdmissionTypeOK, Expire, Disable, SweepKills, SweepGoesOn,
     Enable, Becomes
<1>4. CASE UNCHANGED admissionVars
  BY <1>4, FewerHeld DEF admissionVars
<1> QED BY <1>1, <1>2, <1>3, <1>4 DEF AdmissionNext

\* Creates that do not overlap keep both caps exactly, whatever detaches and
\* comes back in between.
THEOREM AdmissionCaps == AdmissionSpec => []CapsHoldOneByOne
<1>1. AdmissionInit => HeldWithinCaps
  <2> SUFFICES ASSUME AdmissionInit PROVE HeldWithinCaps
    OBVIOUS
  <2>1. Held = {} /\ \A u \in Users : HeldOf(u) = {}
    BY DEF AdmissionInit, Held, HeldOf
  <2> QED BY <2>1, FS_EmptySet, AdmissionAssumption DEF HeldWithinCaps
<1>2. AdmissionTypeOK /\ HeldWithinCaps /\ [AdmissionNext]_admissionVars => HeldWithinCaps'
  BY NextHeld
<1>3. HeldWithinCaps => CapsHoldOneByOne
  <2>1. LiveTerminals \subseteq Held /\ \A u \in Users : LiveOf(u) \subseteq HeldOf(u)
    BY DEF LiveTerminals, Held, LiveOf, HeldOf
  <2>2. /\ Cardinality(LiveTerminals) <= Cardinality(Held)
        /\ Cardinality(LiveTerminals) \in Nat /\ Cardinality(Held) \in Nat
    BY <2>1, HeldFinite, FS_Subset, FS_CardinalityType
  <2>3. \A u \in Users :
          /\ Cardinality(LiveOf(u)) <= Cardinality(HeldOf(u))
          /\ Cardinality(LiveOf(u)) \in Nat /\ Cardinality(HeldOf(u)) \in Nat
    BY <2>1, HeldFinite, FS_Subset, FS_CardinalityType
  <2> QED BY <2>2, <2>3, AdmissionAssumption
          DEF HeldWithinCaps, CapsHoldOneByOne
<1> QED BY <1>1, <1>2, <1>3, AdmissionTypeCorrect, PTL DEF AdmissionSpec

-----------------------------------------------------------------------------
(* A supervised task: whoever is at the head of the queue holds task.json. *)

TaskRecords == [status : TaskStatus, round : Nat, processed : Int, worker : Int, judge : Int]
AgentRecords == [phase : {"none", "creating", "agent", "wrote", "shell", "gone"},
                 role : {"worker", "judge"}, round : Nat]
QueuedCalls == [op : {"worker", "judge", "done", "exit", "tell-worker", "tell-judge"},
                term : Int, step : {"queued", "loaded", "decided", "told"}, copy : TaskRecords]

TaskTyped ==
  /\ task \in TaskRecords /\ judged \in Seq(Nat) /\ queue \in Seq(QueuedCalls)
  /\ edit \in [op : EditOps \cup {"none", "checked"}, copy : TaskRecords]
  /\ agents \in [AgentTerminals -> AgentRecords]
  /\ \A e \in triggers : e \in [op : {"done", "exit"}, term : Int]

\* Only the head of the queue works, and no edit is under way while it does.
HeadWorks ==
  \A i \in DOMAIN queue : queue[i].step # "queued" => i = 1 /\ edit.op = "none"

\* What was loaded under the lock is still what is stored.
CopyStands ==
  /\ \A i \in DOMAIN queue : queue[i].step \in {"loaded", "told"} => queue[i].copy = task
  /\ edit.op # "none" => edit.copy = task

\* A record and the verdicts that were applied.
Knows(r) == /\ r.processed <= r.round
            /\ \A k \in DOMAIN judged : judged[k] <= r.processed

JudgedKnown ==
  /\ task.processed <= task.round
  /\ (\A i \in DOMAIN queue : queue[i].step # "decided") => Knows(task)
  /\ \A i \in DOMAIN queue : queue[i].step = "decided" => Knows(queue[i].copy)

TaskInv == TaskTyped /\ HeadWorks /\ CopyStands /\ JudgedKnown /\ VerdictOnce /\ ToldRightRole

\* The call at the head leaves the lock.
LEMMA HeadLeaves ==
  ASSUME NEW S, NEW q \in Seq(S), 1 \in DOMAIN q
  PROVE  /\ RemoveAt(q, 1) \in Seq(S)
         /\ \A j \in DOMAIN RemoveAt(q, 1) : j + 1 \in DOMAIN q /\ RemoveAt(q, 1)[j] = q[j + 1]
<1>1. SubSeq(q, 1, 0) = <<>> /\ SubSeq(q, 2, Len(q)) \in Seq(S)
  OBVIOUS
<1>2. RemoveAt(q, 1) = SubSeq(q, 2, Len(q))
  BY <1>1 DEF RemoveAt
<1>3. Len(q) \in Nat /\ DOMAIN q = 1..Len(q)
  OBVIOUS
<1>4. Len(q) >= 1
  BY <1>3
<1>5. Len(SubSeq(q, 2, Len(q))) = Len(q) - 1
  BY <1>3, <1>4
<1>6. DOMAIN SubSeq(q, 2, Len(q)) = 1..(Len(q) - 1)
  BY <1>1, <1>5
<1>7. \A j \in 1..(Len(q) - 1) : SubSeq(q, 2, Len(q))[j] = q[2 + j - 1]
  BY <1>3, <1>4
<1>8. \A j \in 1..(Len(q) - 1) : 2 + j - 1 = j + 1 /\ j + 1 \in 1..Len(q)
  BY <1>3
<1> QED BY <1>1, <1>2, <1>3, <1>6, <1>7, <1>8

\* At the start nothing is queued.
LEMMA InitTask == TaskInit => TaskInv
<1> SUFFICES ASSUME TaskInit PROVE TaskInv
  OBVIOUS
<1>1. NewTask \in TaskRecords
  BY DEF NewTask, TaskRecords, TaskStatus
<1>2. NoAgent \in AgentRecords
  BY DEF NoAgent, AgentRecords
<1>3. TaskTyped
  BY <1>1, <1>2 DEF TaskInit, TaskTyped, NoEdit, EditOps
<1>4. HeadWorks /\ CopyStands /\ VerdictOnce /\ ToldRightRole
  BY DEF TaskInit, HeadWorks, CopyStands, NoEdit, VerdictOnce, ToldRightRole
<1>5. JudgedKnown
  BY DEF TaskInit, JudgedKnown, Knows, NewTask
<1> QED BY <1>3, <1>4, <1>5 DEF TaskInv

\* A call joins at the end of the queue; what the head holds stays.
LEMMA Joins ==
  ASSUME TaskInv, NEW c \in QueuedCalls, c.step = "queued", queue' = Append(queue, c),
         UNCHANGED <<task, judged, edit>>,
         agents' \in [AgentTerminals -> AgentRecords],
         \A e \in triggers' : e \in [op : {"done", "exit"}, term : Int]
  PROVE  TaskInv'
<1>1. /\ queue' \in Seq(QueuedCalls) /\ DOMAIN queue' = 1..(Len(queue) + 1)
      /\ DOMAIN queue = 1..Len(queue) /\ Len(queue) \in Nat
      /\ queue'[Len(queue) + 1] = c /\ \A i \in DOMAIN queue : queue'[i] = queue[i]
  BY DEF TaskInv, TaskTyped
<1>2. \A i \in DOMAIN queue' : queue'[i].step # "queued" => i \in DOMAIN queue
  BY <1>1
<1>3. TaskTyped'
  BY <1>1 DEF TaskInv, TaskTyped
<1>4. HeadWorks' /\ CopyStands' /\ ToldRightRole' /\ VerdictOnce'
  BY <1>1, <1>2 DEF TaskInv, HeadWorks, CopyStands, ToldRightRole, Target, VerdictOnce
<1>5. JudgedKnown'
  BY <1>1, <1>2 DEF TaskInv, JudgedKnown, Knows
<1> QED BY <1>3, <1>4, <1>5 DEF TaskInv

\* Nothing of the task or its queue changes.
LEMMA Aside ==
  ASSUME TaskInv, UNCHANGED <<task, judged, edit, queue>>,
         agents' \in [AgentTerminals -> AgentRecords],
         \A e \in triggers' : e \in [op : {"done", "exit"}, term : Int]
  PROVE  TaskInv'
<1>1. TaskTyped' /\ HeadWorks' /\ CopyStands'
  BY DEF TaskInv, TaskTyped, HeadWorks, CopyStands
<1>2. JudgedKnown' /\ VerdictOnce' /\ ToldRightRole'
  BY DEF TaskInv, JudgedKnown, Knows, VerdictOnce, ToldRightRole, Target
<1> QED BY <1>1, <1>2 DEF TaskInv

\* Agents, their terminals and their ends leave the record to the queue.
LEMMA AgentSteps ==
  ASSUME TaskInv, NEW t \in AgentTerminals,
         \/ \E role \in {"worker", "judge"} : Route(t, role)
         \/ Created(t) \/ AgentNotCreated(t)
         \/ (\E v \in Verdicts : Judges(t, v)) \/ AgentDone(t) \/ TerminalExit(t)
  PROVE  TaskInv'
<1>0. /\ agents \in [AgentTerminals -> AgentRecords] /\ t \in Int /\ task.round \in Nat
      /\ \A e \in triggers : e \in [op : {"done", "exit"}, term : Int]
      /\ NoAgent \in AgentRecords /\ [NoAgent EXCEPT !.phase = "gone"] \in AgentRecords
  BY SMTT(30), TaskAssumption DEF TaskInv, TaskTyped, TaskRecords, NoAgent, AgentTerminals, AgentRecords
<1>1. ASSUME NEW role \in {"worker", "judge"}, Route(t, role) PROVE TaskInv'
  <2>1. [phase |-> "creating", role |-> role,
         round |-> IF role = "judge" THEN task.round ELSE 0] \in AgentRecords
    BY <1>0 DEF AgentRecords
  <2>2. agents' \in [AgentTerminals -> AgentRecords]
    BY <1>0, <1>1, <2>1 DEF Route
  <2> QED BY <1>0, <1>1, <2>2, Aside DEF Route
<1>2. CASE Created(t)
  <2>1. /\ agents' \in [AgentTerminals -> AgentRecords] /\ agents[t].role \in {"worker", "judge"}
    BY <1>0, <1>2 DEF Created, AgentRecords
  <2>2. NewTask \in TaskRecords
    BY DEF NewTask, TaskRecords, TaskStatus
  <2>3. Call(agents[t].role, t) \in QueuedCalls /\ Call(agents[t].role, t).step = "queued"
    BY <1>0, <2>1, <2>2 DEF Call, QueuedCalls
  <2> QED BY <1>0, <1>2, <2>1, <2>3, Joins DEF Created
<1>3. CASE AgentNotCreated(t)
  <2>1. agents' \in [AgentTerminals -> AgentRecords]
    BY <1>0, <1>3 DEF AgentNotCreated, AgentRecords
  <2> QED BY <1>0, <1>3, <2>1, Aside DEF AgentNotCreated
<1>4. ASSUME NEW v, Judges(t, v) PROVE TaskInv'
  <2>1. agents' \in [AgentTerminals -> AgentRecords]
    BY <1>0, <1>4 DEF Judges, AgentRecords
  <2> QED BY <1>0, <1>4, <2>1, Aside DEF Judges
<1>5. CASE AgentDone(t) \/ TerminalExit(t)
  <2>1. agents' \in [AgentTerminals -> AgentRecords] /\ UNCHANGED <<task, judged, edit, queue>>
    BY <1>0, <1>5 DEF AgentDone, TerminalExit, AgentRecords
  <2>2. \A e \in triggers' : e \in [op : {"done", "exit"}, term : Int]
    BY <1>0, <1>5 DEF AgentDone, TerminalExit
  <2> QED BY <2>1, <2>2, Aside
<1> QED BY <1>1, <1>2, <1>3, <1>4, <1>5

\* The head leaves the lock with a record that knows every verdict.
LEMMA Leaves ==
  ASSUME TaskInv, 1 \in DOMAIN queue, queue' = RemoveAt(queue, 1), edit.op = "none",
         UNCHANGED <<judged, edit, agents, triggers>>, task' \in TaskRecords, Knows(task')
  PROVE  TaskInv'
<1>1. /\ queue' \in Seq(QueuedCalls)
      /\ \A j \in DOMAIN queue' : j + 1 \in DOMAIN queue /\ queue'[j] = queue[j + 1]
  BY HeadLeaves DEF TaskInv, TaskTyped
<1>2. \A j \in DOMAIN queue' : queue'[j].step = "queued"
  <2>1. \A j \in DOMAIN queue' : j \in Nat /\ j >= 1
    BY <1>1
  <2>2. \A j \in DOMAIN queue' : j + 1 # 1
    BY <2>1
  <2> QED BY <1>1, <2>2 DEF TaskInv, HeadWorks
<1>3. TaskTyped'
  BY <1>1 DEF TaskInv, TaskTyped
<1>4. HeadWorks' /\ CopyStands' /\ ToldRightRole' /\ VerdictOnce'
  BY <1>2 DEF TaskInv, HeadWorks, CopyStands, ToldRightRole, VerdictOnce
<1>5. JudgedKnown'
  BY <1>2 DEF JudgedKnown, Knows
<1> QED BY <1>3, <1>4, <1>5 DEF TaskInv

\* The head goes on to its next step.
LEMMA HeadGoesOn ==
  ASSUME TaskInv, 1 \in DOMAIN queue, edit.op = "none",
         NEW c \in QueuedCalls, queue' = [queue EXCEPT ![1] = c],
         UNCHANGED <<task, edit, agents, triggers>>, judged' \in Seq(Nat), VerdictOnce',
         c.step \in {"loaded", "told"} => c.copy = task,
         c.step = "told" => Target(task, c.op) = c.term,
         c.step # "decided" => UNCHANGED judged /\ queue[1].step # "decided",
         c.step = "decided" => /\ c.copy.processed <= c.copy.round
                               /\ \A k \in DOMAIN judged' : judged'[k] <= c.copy.processed
  PROVE  TaskInv'
<1>1. /\ queue' \in Seq(QueuedCalls) /\ DOMAIN queue' = DOMAIN queue
      /\ queue'[1] = c /\ \A j \in DOMAIN queue : j # 1 => queue'[j] = queue[j]
  BY DEF TaskInv, TaskTyped
<1>2. \A j \in DOMAIN queue : j # 1 => queue'[j].step = "queued" /\ queue[j].step = "queued"
  BY <1>1 DEF TaskInv, HeadWorks
<1>3. TaskTyped'
  BY <1>1 DEF TaskInv, TaskTyped
<1>4. HeadWorks' /\ CopyStands'
  BY <1>1, <1>2 DEF TaskInv, HeadWorks, CopyStands
<1>5. ToldRightRole'
  BY <1>1, <1>2 DEF TaskInv, ToldRightRole, CopyStands
<1>6. JudgedKnown'
  <2>1. task'.processed <= task'.round
    BY DEF TaskInv, JudgedKnown
  <2>2. ASSUME c.step # "decided" PROVE Knows(task)'
    <3>1. \A i \in DOMAIN queue : queue[i].step # "decided"
      BY <1>2, <2>2
    <3> QED BY <2>2, <3>1 DEF TaskInv, JudgedKnown, Knows
  <2>3. (\A i \in DOMAIN queue' : queue'[i].step # "decided") => Knows(task)'
    BY <1>1, <2>2
  <2>4. ASSUME NEW i \in DOMAIN queue', queue'[i].step = "decided"
        PROVE Knows(queue[i].copy)'
    <3>1. i = 1 /\ queue'[i] = c
      BY <1>1, <1>2, <2>4
    <3> QED BY <2>4, <3>1 DEF Knows
  <2> QED BY <2>1, <2>3, <2>4 DEF JudgedKnown
<1> QED BY <1>3, <1>4, <1>5, <1>6 DEF TaskInv

\* The head of the queue works on the record it loaded.
LEMMA LockSteps ==
  ASSUME TaskInv, "edit" \notin Races, NEW i \in DOMAIN queue,
         Load(i) \/ TakesTurn(i) \/ Save(i) \/ Told(i)
  PROVE  TaskInv'
<1>1. /\ i = 1 /\ edit.op = "none" /\ 1 \in DOMAIN queue
      /\ queue[1] \in QueuedCalls /\ task \in TaskRecords /\ judged \in Seq(Nat)
      /\ queue \in Seq(QueuedCalls)
  BY DEF Load, TakesTurn, Save, Told, Turn, TaskInv, TaskTyped
<1>2. \A j \in DOMAIN queue : j # 1 => queue[j].step = "queued"
  BY DEF TaskInv, HeadWorks
<1>3. queue[1].step # "decided" => Knows(task)
  BY <1>2 DEF TaskInv, JudgedKnown
<1>4. /\ queue[1].step = "loaded" => queue[1].copy = task
      /\ task.processed <= task.round
  BY <1>1 DEF TaskInv, CopyStands, JudgedKnown
<1>5. CASE Load(i)
  <2>1. CASE exists
    <3> DEFINE c == [queue[1] EXCEPT !.step = "loaded", !.copy = task]
    <3>1. c \in QueuedCalls /\ c.step = "loaded" /\ c.copy = task
      BY <1>1 DEF QueuedCalls
    <3>2. queue' = [queue EXCEPT ![1] = c]
      BY <1>1, <1>5, <2>1 DEF Load
    <3>3. UNCHANGED <<task, judged, edit, agents, triggers>> /\ queue[1].step # "decided"
      BY <1>1, <1>5 DEF Load
    <3>4. VerdictOnce'
      BY <3>3 DEF TaskInv, VerdictOnce
    <3> HIDE DEF c
    <3> QED BY <1>1, <3>1, <3>2, <3>3, <3>4, HeadGoesOn
  <2>2. CASE ~exists
    BY <1>1, <1>3, <1>5, <2>2, Leaves DEF Load
  <2> QED BY <2>1, <2>2
<1>6. CASE Save(i)
  <2>1. Knows(queue[1].copy) /\ queue[1].copy \in TaskRecords
    BY <1>1, <1>6 DEF Save, TaskInv, JudgedKnown, QueuedCalls
  <2> QED BY <1>1, <1>6, <2>1, Leaves DEF Save
<1>7. CASE Told(i)
  BY <1>1, <1>3, <1>7, Leaves DEF Told
<1>8. CASE TakesTurn(i)
  <2>0. /\ UNCHANGED <<task, edit, agents, triggers>> /\ queue[1].step = "loaded"
        /\ queue[1].copy = task /\ Knows(task)
    BY <1>1, <1>3, <1>4, <1>8 DEF TakesTurn
  <2>1. CASE queue' = RemoveAt(queue, 1) /\ UNCHANGED judged
    BY <1>1, <2>0, <2>1, Leaves
  <2>2. ASSUME Deliver(i), queue' # RemoveAt(queue, 1) PROVE TaskInv'
    <3> DEFINE c == [queue[1] EXCEPT !.step = "told", !.term = Target(task, queue[1].op)]
    <3>0. Target(task, queue[1].op) \in Int
      BY <1>1 DEF Target, TaskRecords
    <3>1. c \in QueuedCalls /\ c.step = "told" /\ c.copy = task /\ Target(task, c.op) = c.term
      BY <1>1, <2>0, <3>0 DEF QueuedCalls
    <3>2. queue' = [queue EXCEPT ![1] = c] /\ UNCHANGED judged
      BY <1>1, <2>0, <2>2 DEF Deliver
    <3>3. VerdictOnce'
      BY <3>2 DEF TaskInv, VerdictOnce
    <3> HIDE DEF c
    <3> QED BY <1>1, <2>0, <3>1, <3>2, <3>3, HeadGoesOn
  <2>3. ASSUME NEW r \in TaskRecords, Decided(i, r), UNCHANGED judged, r.processed = task.processed,
               r.round = task.round
        PROVE  TaskInv'
    <3> DEFINE c == [queue[1] EXCEPT !.step = "decided", !.copy = r]
    <3>1. c \in QueuedCalls /\ c.step = "decided" /\ c.copy = r
      BY <1>1 DEF QueuedCalls
    <3>2. queue' = [queue EXCEPT ![1] = c]
      BY <1>1, <2>3 DEF Decided
    <3>3. VerdictOnce' /\ judged' \in Seq(Nat)
      BY <1>1, <2>3 DEF TaskInv, VerdictOnce
    <3>4. c.copy.processed <= c.copy.round /\ \A k \in DOMAIN judged' : judged'[k] <= c.copy.processed
      BY <1>4, <2>0, <2>3, <3>1 DEF Knows
    <3> HIDE DEF c
    <3> QED BY <1>1, <2>0, <3>1, <3>2, <3>3, <3>4, HeadGoesOn
  <2>4. CASE MarkStarted(i)
    <3>1. [task EXCEPT !.worker = queue[1].term, !.status = "worker-running"] \in TaskRecords
      BY <1>1 DEF TaskRecords, QueuedCalls, TaskStatus
    <3>2. [task EXCEPT !.judge = queue[1].term, !.status = "judge-running"] \in TaskRecords
      BY <1>1 DEF TaskRecords, QueuedCalls, TaskStatus
    <3>3. CASE queue[1].op = "worker"
      BY <1>1, <2>0, <2>3, <2>4, <3>1, <3>3 DEF MarkStarted, TaskRecords
    <3>4. CASE queue[1].op # "worker"
      BY <1>1, <2>0, <2>3, <2>4, <3>2, <3>4 DEF MarkStarted, TaskRecords
    <3> QED BY <3>3, <3>4
  <2>5. CASE SettleDone(i)
    <3>1. CASE queue' = RemoveAt(queue, i) /\ UNCHANGED judged
      BY <1>1, <2>1, <3>1
    <3>2. CASE Decided(i, [task EXCEPT !.status = "needs-user"]) /\ UNCHANGED judged
      <4>1. [task EXCEPT !.status = "needs-user"] \in TaskRecords
        BY <1>1 DEF TaskRecords, TaskStatus
      <4> QED BY <1>1, <2>3, <3>2, <4>1 DEF TaskRecords
    <3>3. CASE /\ Applicable(task) /\ judged' = Append(judged, task.round)
               /\ Decided(i, Applied(task, verdicts[task.round]))
      <4> DEFINE r == Applied(task, verdicts[task.round])
                 c == [queue[1] EXCEPT !.step = "decided", !.copy = r]
      <4>1. r \in TaskRecords /\ r.processed = task.round /\ r.round >= task.round
        <5> DEFINE on == verdicts[task.round] = "NEEDS_WORK" /\ task.round + 1 < MaxRounds
                   st == CASE verdicts[task.round] = "PASS" -> "complete" [] on -> "ready"
                           [] OTHER -> "needs-user"
                   rd == IF on THEN task.round + 1 ELSE task.round
        <5>1. task.round \in Nat /\ rd \in Nat /\ rd >= task.round
          BY <1>1 DEF TaskRecords
        <5>2. st \in TaskStatus
          BY DEF TaskStatus
        <5>3. r = [task EXCEPT !.status = st, !.processed = task.round, !.round = rd]
          BY DEF Applied
        <5> HIDE DEF r, st, rd, on
        <5>4. r \in TaskRecords
          <6>1. task \in TaskRecords /\ task.round \in Int
            BY <1>1, <5>1
          <6>2. [task EXCEPT !.status = st] \in TaskRecords
            BY <6>1, <5>2 DEF TaskRecords
          <6>3. [task EXCEPT !.status = st, !.processed = task.round] \in TaskRecords
            BY <6>1, <5>2 DEF TaskRecords
          <6> QED BY <6>1, <5>1, <5>2, <5>3 DEF TaskRecords
        <5>5. r.processed = task.round /\ r.round = rd
          BY <1>1, <5>3 DEF TaskRecords
        <5> QED BY <5>1, <5>4, <5>5
      <4>2. task.processed < task.round
        BY <1>1, <1>4, <3>3 DEF Applicable, TaskRecords
      <4>3. \A k \in DOMAIN judged : judged[k] < task.round
        BY <1>1, <2>0, <4>2 DEF Knows, TaskRecords
      <4>4. /\ judged' \in Seq(Nat) /\ DOMAIN judged' = 1..(Len(judged) + 1)
            /\ DOMAIN judged = 1..Len(judged) /\ Len(judged) \in Nat
            /\ judged'[Len(judged) + 1] = task.round
            /\ \A k \in DOMAIN judged : judged'[k] = judged[k]
        BY <1>1, <3>3 DEF TaskRecords
      <4>5. VerdictOnce'
        BY <4>3, <4>4 DEF TaskInv, VerdictOnce
      <4>6. \A k \in DOMAIN judged' : judged'[k] <= r.processed
        <5> HIDE DEF r
        <5>1. task.round \in Nat
          BY <1>1 DEF TaskRecords
        <5>2. ASSUME NEW k \in DOMAIN judged' PROVE judged'[k] <= r.processed
          <6>1. CASE k \in DOMAIN judged
            BY <1>1, <4>1, <4>3, <4>4, <5>1, <6>1
          <6>2. CASE k = Len(judged) + 1
            BY <4>1, <4>4, <5>1, <6>2
          <6> QED BY <4>4, <6>1, <6>2
        <5> QED BY <5>2
      <4>7. c \in QueuedCalls /\ c.step = "decided" /\ c.copy = r
        BY <1>1, <4>1 DEF QueuedCalls
      <4>8. queue' = [queue EXCEPT ![1] = c]
        BY <1>1, <3>3 DEF Decided
      <4>9. c.copy.processed <= c.copy.round
        BY <1>1, <4>1, <4>7 DEF TaskRecords
      <4> HIDE DEF r, c
      <4> QED BY <1>1, <2>0, <4>4, <4>5, <4>6, <4>7, <4>8, <4>9, HeadGoesOn
    <3> QED BY <1>1, <2>0, <2>5, <3>1, <3>2, <3>3 DEF SettleDone
  <2> QED BY <1>1, <1>8, <2>1, <2>2, <2>4, <2>5 DEF TakesTurn, Deliver
<1> QED BY <1>5, <1>6, <1>7, <1>8

\* What joins the queue waits behind the head.
LEMMA QueueJoins ==
  ASSUME TaskInv,
         \/ \E e \in triggers : Scan(e)
         \/ \E role \in {"worker", "judge"} : PostMessage(role)
  PROVE  TaskInv'
<1>1. NewTask \in TaskRecords
  BY DEF NewTask, TaskRecords, TaskStatus
<1>2. /\ agents \in [AgentTerminals -> AgentRecords]
      /\ \A e \in triggers : e \in [op : {"done", "exit"}, term : Int]
  BY DEF TaskInv, TaskTyped
<1>3. ASSUME NEW e \in triggers, Scan(e) PROVE TaskInv'
  <2>1. /\ UNCHANGED <<task, judged, edit, agents>>
        /\ \A f \in triggers' : f \in [op : {"done", "exit"}, term : Int]
    BY <1>2, <1>3 DEF Scan
  <2>2. Call(e.op, e.term) \in QueuedCalls /\ Call(e.op, e.term).step = "queued"
    BY <1>1, <1>2 DEF Call, QueuedCalls
  <2>3. CASE queue' = Append(queue, Call(e.op, e.term))
    BY <1>2, <2>1, <2>2, <2>3, Joins
  <2>4. CASE UNCHANGED queue
    BY <1>2, <2>1, <2>4, Aside
  <2> QED BY <1>3, <2>3, <2>4 DEF Scan
<1>4. ASSUME NEW role, PostMessage(role) PROVE TaskInv'
  <2>1. PICK tell \in {"tell-worker", "tell-judge"} : queue' = Append(queue, Call(tell, 0))
    BY <1>4 DEF PostMessage
  <2>2. Call(tell, 0) \in QueuedCalls /\ Call(tell, 0).step = "queued"
    BY <1>1 DEF Call, QueuedCalls
  <2> QED BY <1>2, <1>4, <2>1, <2>2, Joins DEF PostMessage
<1> QED BY <1>3, <1>4

\* Without overlapping edits the stored record is the head's.
LEMMA EditSteps ==
  ASSUME TaskInv, "edit" \notin Races,
         (\E kind \in EditOps : Edit(kind)) \/ EditSave \/ DeleteTask
  PROVE  TaskInv'
<1>0. /\ task \in TaskRecords /\ edit \in [op : EditOps \cup {"none", "checked"}, copy : TaskRecords]
      /\ edit.op # "none" => /\ edit.copy = task
                             /\ \A i \in DOMAIN queue : queue[i].step = "queued"
      /\ NewTask \in TaskRecords
  BY DEF TaskInv, TaskTyped, HeadWorks, CopyStands, NewTask, TaskRecords, TaskStatus
<1>1. ASSUME NEW kind \in EditOps, Edit(kind) PROVE TaskInv'
  <2>1. /\ queue = <<>> /\ edit' = [op |-> kind, copy |-> task]
        /\ UNCHANGED <<task, judged, agents, triggers, queue>>
    BY <1>1 DEF Edit
  <2>2. TaskTyped'
    BY <1>0, <2>1 DEF TaskInv, TaskTyped
  <2>3. HeadWorks' /\ CopyStands' /\ ToldRightRole' /\ VerdictOnce'
    BY <2>1 DEF TaskInv, HeadWorks, CopyStands, ToldRightRole, VerdictOnce
  <2>4. JudgedKnown'
    BY <2>1 DEF TaskInv, JudgedKnown, Knows
  <2> QED BY <2>2, <2>3, <2>4 DEF TaskInv
<1>2. CASE EditSave
  <2>1. PICK s \in EditStatus(edit.op, edit.copy.status) :
          /\ task' = [edit.copy EXCEPT !.status = s]
          /\ edit' = IF edit.op = "checks" THEN [op |-> "checked", copy |-> task'] ELSE NoEdit
    BY <1>2 DEF EditSave
  <2>2. /\ edit.op \in {"pause", "reset", "rename", "checks", "checked"} /\ edit.copy = task
        /\ UNCHANGED <<judged, agents, triggers, queue>>
    BY <1>0, <1>2 DEF EditSave, EditOps
  <2>3. s \in TaskStatus
    BY <1>0, <2>1, <2>2 DEF EditStatus, TaskStatus, TaskRecords
  <2>4. task' \in TaskRecords /\ task'.processed = task.processed /\ task'.round = task.round
    BY <1>0, <2>1, <2>2, <2>3 DEF TaskRecords
  <2>5. /\ edit' \in [op : EditOps \cup {"none", "checked"}, copy : TaskRecords]
        /\ edit'.op # "none" => edit'.copy = task'
    BY <1>0, <2>1, <2>4 DEF NoEdit
  <2>6. TaskTyped'
    BY <2>2, <2>4, <2>5 DEF TaskInv, TaskTyped
  <2>7. HeadWorks' /\ CopyStands' /\ ToldRightRole' /\ VerdictOnce'
    BY <1>0, <2>2, <2>5 DEF TaskInv, HeadWorks, CopyStands, ToldRightRole, VerdictOnce
  <2>8. JudgedKnown'
    BY <1>0, <2>2, <2>4 DEF TaskInv, JudgedKnown, Knows
  <2> QED BY <2>6, <2>7, <2>8 DEF TaskInv
<1>3. CASE DeleteTask
  <2>1. /\ edit.op # "none" /\ edit' = NoEdit /\ judged' = <<>>
        /\ UNCHANGED <<task, agents, triggers, queue>>
    BY <1>3 DEF DeleteTask
  <2>2. TaskTyped'
    BY <1>0, <2>1 DEF TaskInv, TaskTyped, NoEdit
  <2>3. HeadWorks' /\ CopyStands' /\ ToldRightRole' /\ VerdictOnce'
    BY <1>0, <2>1 DEF HeadWorks, CopyStands, ToldRightRole, VerdictOnce, NoEdit
  <2>4. JudgedKnown'
    BY <1>0, <2>1 DEF TaskInv, JudgedKnown, Knows
  <2> QED BY <2>2, <2>3, <2>4 DEF TaskInv
<1> QED BY <1>1, <1>2, <1>3

\* Every step keeps the head's copy and the rounds judged.
LEMMA NextTask ==
  ASSUME TaskInv, "edit" \notin Races, [TaskNext]_taskVars PROVE TaskInv'
<1>1. CASE TaskNext
  BY <1>1, AgentSteps, LockSteps, QueueJoins, EditSteps DEF TaskNext, TaskWork
<1>2. CASE UNCHANGED taskVars
  BY <1>2, Aside DEF taskVars, TaskInv, TaskTyped
<1> QED BY <1>1, <1>2

\* The strengthened invariant of a supervised task, for any number of rounds,
\* agents and messages, where no edit overlaps the work under the lock.
THEOREM TaskInvariant == ASSUME "edit" \notin Races PROVE TaskSpec => []TaskInv
<1>1. TaskInv /\ [TaskNext]_taskVars => TaskInv'
  BY NextTask
<1> QED BY <1>1, InitTask, PTL DEF TaskSpec

\* The verdict of a round is applied once, whatever triggers report its end.
THEOREM TaskVerdictOnce == ASSUME "edit" \notin Races PROVE TaskSpec => []VerdictOnce
<1>1. TaskInv => VerdictOnce
  BY DEF TaskInv
<1> QED BY <1>1, TaskInvariant, PTL

\* A message is typed only into the terminal of the role whose turn it is.
THEOREM TaskToldRightRole == ASSUME "edit" \notin Races PROVE TaskSpec => []ToldRightRole
<1>1. TaskInv => ToldRightRole
  BY DEF TaskInv
<1> QED BY <1>1, TaskInvariant, PTL

-----------------------------------------------------------------------------
(* A task: types, whatever overlaps.                                        *)

CallRecords ==
  [op : {"worker", "judge", "done", "exit", "tell-worker", "tell-judge"},
   term : AgentTerminals \cup {0}, step : {"queued", "loaded", "decided", "told"},
   copy : TaskRecord]

\* Rounds never pass the last one, in the record, in what was loaded of it and
\* in what the agents were given.
TaskTypesInv ==
  /\ task \in TaskRecord /\ exists \in BOOLEAN
  /\ verdicts \in [Rounds -> Verdicts \cup {"none"}]
  /\ judged \in Seq(Rounds) /\ queue \in Seq(CallRecords)
  /\ edit \in [op : EditOps \cup {"none", "checked"}, copy : TaskRecord]
  /\ agents \in [AgentTerminals -> [phase : {"none", "creating", "agent", "wrote", "shell", "gone"},
                                    role : {"worker", "judge"}, round : Rounds]]
  /\ triggers \subseteq [op : {"done", "exit"}, term : AgentTerminals]

\* Round 0 is one, and a new task is in it.
LEMMA RoundsFit == 0 \in Rounds /\ Rounds \subseteq Int /\ NewTask \in TaskRecord /\ NewTask.round = 0
  BY TaskAssumption DEF Rounds, NewTask, TaskRecord, TaskStatus

\* No round was started.
LEMMA InitTaskTypes == TaskInit => TaskTypesInv
<1> SUFFICES ASSUME TaskInit PROVE TaskTypesInv
  OBVIOUS
<1>1. edit \in [op : EditOps \cup {"none", "checked"}, copy : TaskRecord]
  BY RoundsFit DEF TaskInit, NoEdit
<1>2. agents \in [AgentTerminals -> [phase : {"none", "creating", "agent", "wrote", "shell", "gone"},
                                    role : {"worker", "judge"}, round : Rounds]]
  BY RoundsFit DEF TaskInit, NoAgent
<1>3. judged \in Seq(Rounds) /\ queue \in Seq(CallRecords)
  BY DEF TaskInit
<1> QED BY <1>1, <1>2, <1>3, RoundsFit DEF TaskInit, TaskTypesInv

\* The routes and the agents.
LEMMA AgentTypes ==
  ASSUME TaskTypesInv, NEW t \in AgentTerminals,
         \/ \E role \in {"worker", "judge"} : Route(t, role)
         \/ Created(t) \/ AgentNotCreated(t) \/ AgentDone(t) \/ TerminalExit(t)
         \/ \E v \in Verdicts : Judges(t, v)
  PROVE  TaskTypesInv'
<1> USE DEF TaskTypesInv
<1>1. ASSUME NEW role \in {"worker", "judge"}, Route(t, role) PROVE TaskTypesInv'
  <2>1. (IF role = "judge" THEN task.round ELSE 0) \in Rounds
    BY RoundsFit DEF TaskRecord
  <2> QED BY <1>1, <2>1 DEF Route
<1>2. CASE Created(t)
  <2>1. Call(agents[t].role, t) \in CallRecords
    BY RoundsFit DEF Call, CallRecords
  <2>2. queue' \in Seq(CallRecords)
    BY <1>2, <2>1 DEF Created
  <2> QED BY <1>2, <2>2 DEF Created
<1>3. CASE AgentNotCreated(t)
  BY <1>3, RoundsFit DEF AgentNotCreated, NoAgent
<1>4. CASE AgentDone(t)
  <2>1. triggers' \subseteq [op : {"done", "exit"}, term : AgentTerminals]
    BY <1>4 DEF AgentDone
  <2>2. [agents[t] EXCEPT !.phase = "shell", !.round = 0]
          \in [phase : {"none", "creating", "agent", "wrote", "shell", "gone"},
              role : {"worker", "judge"}, round : Rounds]
    BY RoundsFit
  <2>3. agents' = [agents EXCEPT ![t] = [agents[t] EXCEPT !.phase = "shell", !.round = 0]]
    BY <1>4 DEF AgentDone
  <2> QED BY <1>4, <2>1, <2>2, <2>3 DEF AgentDone
<1>5. CASE TerminalExit(t)
  <2>1. triggers' \subseteq [op : {"done", "exit"}, term : AgentTerminals]
    BY <1>5 DEF TerminalExit
  <2>2. [NoAgent EXCEPT !.phase = "gone"]
          \in [phase : {"none", "creating", "agent", "wrote", "shell", "gone"},
              role : {"worker", "judge"}, round : Rounds]
    BY RoundsFit DEF NoAgent
  <2> QED BY <1>5, <2>1, <2>2 DEF TerminalExit
<1>6. ASSUME NEW v \in Verdicts, Judges(t, v) PROVE TaskTypesInv'
  BY <1>6 DEF Judges
<1> QED BY <1>1, <1>2, <1>3, <1>4, <1>5, <1>6

\* What joins the queue has its types.
LEMMA QueueTypes ==
  ASSUME TaskTypesInv,
         \/ \E role \in {"worker", "judge"} : PostMessage(role)
         \/ \E e \in triggers : Scan(e)
  PROVE  TaskTypesInv'
<1> USE DEF TaskTypesInv
<1>1. ASSUME NEW role \in {"worker", "judge"}, PostMessage(role) PROVE TaskTypesInv'
  <2>1. Call("tell-worker", 0) \in CallRecords /\ Call("tell-judge", 0) \in CallRecords
    BY RoundsFit DEF Call, CallRecords
  <2>2. queue' \in Seq(CallRecords)
    BY <1>1, <2>1 DEF PostMessage
  <2> QED BY <1>1, <2>2 DEF PostMessage
<1>2. ASSUME NEW e \in triggers, Scan(e) PROVE TaskTypesInv'
  <2>1. Call(e.op, e.term) \in CallRecords
    BY RoundsFit DEF Call, CallRecords
  <2>2. queue' \in Seq(CallRecords)
    BY <1>2, <2>1 DEF Scan
  <2> QED BY <1>2, <2>2 DEF Scan
<1> QED BY <1>1, <1>2

\* The record after a verdict has a round that there is.
LEMMA AppliedTypes ==
  ASSUME NEW r \in TaskRecord, NEW v
  PROVE  Applied(r, v) \in TaskRecord
<1> DEFINE on == v = "NEEDS_WORK" /\ r.round + 1 < MaxRounds
<1>1. (IF on THEN r.round + 1 ELSE r.round) \in Rounds
  BY TaskAssumption DEF TaskRecord, Rounds
<1>2. (CASE v = "PASS" -> "complete" [] on -> "ready" [] OTHER -> "needs-user") \in TaskStatus
  <2>1. v = "PASS" => ~on
    OBVIOUS
  <2> HIDE DEF on
  <2> QED BY <2>1 DEF TaskStatus
<1> QED BY <1>1, <1>2 DEF Applied, TaskRecord

\* A turn keeps the types of the record and never passes the last round.
LEMMA TurnTypes ==
  ASSUME TaskTypesInv, NEW i \in DOMAIN queue, Load(i) \/ TakesTurn(i) \/ Save(i) \/ Told(i)
  PROVE  TaskTypesInv'
<1> USE DEF TaskTypesInv
<1> DEFINE q == queue
<1>8. q \in Seq(CallRecords) /\ i \in 1..Len(q)
  BY LenProperties
<1>0. queue[i] \in CallRecords /\ queue[i].copy \in TaskRecord
  <2>1. queue[i] \in CallRecords
    BY <1>8, ElementOfSeq
  <2> QED BY <2>1 DEF CallRecords
<1>1. i = 1 => RemoveAt(queue, i) \in Seq(CallRecords)
  BY HeadLeaves
<1>2. ASSUME NEW r \in TaskRecord, NEW s \in {"loaded", "decided"}
      PROVE  [queue EXCEPT ![i].step = s, ![i].copy = r] \in Seq(CallRecords)
  <2>1. [queue[i] EXCEPT !.step = s, !.copy = r] \in CallRecords
    BY <1>0 DEF CallRecords
  <2>2. [queue EXCEPT ![i].step = s, ![i].copy = r]
          = [queue EXCEPT ![i] = [queue[i] EXCEPT !.step = s, !.copy = r]]
    OBVIOUS
  <2> QED BY <1>8, <2>1, <2>2, ExceptSeq
<1>3. Turn(i) => i = 1
  BY DEF Turn
<1>4. CASE Load(i)
  BY <1>1, <1>2, <1>3, <1>4 DEF Load
<1>5. CASE TakesTurn(i)
  <2>0. i = 1 /\ UNCHANGED <<task, exists, agents, triggers, edit, requests>>
    BY <1>3, <1>5 DEF TakesTurn
  <2>1. CASE Deliver(i)
    <3> DEFINE u == Target(queue[i].copy, queue[i].op)
    <3>1. u # 0 => u \in AgentTerminals
      BY <1>0 DEF Target, TaskRecord
    <3>2. u # 0 => [queue EXCEPT ![i].step = "told", ![i].term = u] \in Seq(CallRecords)
      <4> HIDE DEF u
      <4>1. u # 0 => [queue[i] EXCEPT !.step = "told", !.term = u] \in CallRecords
        BY <1>0, <3>1 DEF CallRecords
      <4>2. [queue EXCEPT ![i].step = "told", ![i].term = u]
              = [queue EXCEPT ![i] = [queue[i] EXCEPT !.step = "told", !.term = u]]
        OBVIOUS
      <4> QED BY <1>8, <4>1, <4>2, ExceptSeq
    <3>3. queue' \in Seq(CallRecords) /\ UNCHANGED <<verdicts, judged>>
      BY <1>1, <2>0, <2>1, <3>2 DEF Deliver
    <3> QED BY <2>0, <3>3
  <2>2. CASE MarkStarted(i)
    <3>1. /\ queue[i].op \in {"worker", "judge"}
          /\ queue[i].term \in AgentTerminals \cup {0} /\ queue[i].copy.round \in Rounds
      BY <1>0, <2>2 DEF MarkStarted, CallRecords, TaskRecord
    <3>2. /\ [queue[i].copy EXCEPT !.worker = queue[i].term, !.status = "worker-running"] \in TaskRecord
          /\ [queue[i].copy EXCEPT !.judge = queue[i].term, !.status = "judge-running"] \in TaskRecord
      BY <1>0, <3>1 DEF TaskRecord, TaskStatus
    <3>3. queue' \in Seq(CallRecords)
      BY <1>2, <2>2, <3>2 DEF MarkStarted, Decided
    <3>4. verdicts' \in [Rounds -> Verdicts \cup {"none"}] /\ judged' = judged
      BY <2>2, <3>1 DEF MarkStarted
    <3> QED BY <2>0, <3>3, <3>4
  <2>3. CASE SettleDone(i)
    <3>1. queue[i].copy.round \in Rounds
      BY <1>0 DEF TaskRecord
    <3>2. [queue[i].copy EXCEPT !.status = "needs-user"] \in TaskRecord
      BY <1>0 DEF TaskRecord, TaskStatus
    <3>3. Applied(queue[i].copy, verdicts[queue[i].copy.round]) \in TaskRecord
      BY <1>0, AppliedTypes
    <3>4. queue' \in Seq(CallRecords)
      BY <1>1, <1>2, <2>0, <2>3, <3>2, <3>3 DEF SettleDone, Decided
    <3>5. judged' \in Seq(Rounds) /\ verdicts' = verdicts
      <4>1. Append(judged, queue[i].copy.round) \in Seq(Rounds)
        BY <3>1
      <4> QED BY <2>3, <4>1 DEF SettleDone
    <3> QED BY <2>0, <3>4, <3>5
  <2>4. CASE queue' = RemoveAt(queue, i) /\ UNCHANGED <<verdicts, judged>>
    BY <1>1, <2>0, <2>4
  <2> QED BY <1>5, <2>1, <2>2, <2>3, <2>4 DEF TakesTurn
<1>6. CASE Save(i)
  BY <1>0, <1>1, <1>3, <1>6 DEF Save
<1>7. CASE Told(i)
  BY <1>1, <1>3, <1>7 DEF Told
<1> QED BY <1>4, <1>5, <1>6, <1>7

\* Calls outside the lock.
LEMMA EditTypes ==
  ASSUME TaskTypesInv, EditSave \/ DeleteTask \/ \E kind \in EditOps : Edit(kind)
  PROVE  TaskTypesInv'
<1> USE DEF TaskTypesInv
<1>1. CASE EditSave
  <2>1. edit.op \in {"pause", "reset", "rename", "checks", "checked"} /\ edit.copy \in TaskRecord
    BY <1>1 DEF EditSave, EditOps
  <2>2. EditStatus(edit.op, edit.copy.status) \subseteq TaskStatus
    BY <2>1 DEF EditStatus, TaskStatus, TaskRecord
  <2>3. task' \in TaskRecord
    BY <1>1, <2>1, <2>2 DEF EditSave, TaskRecord
  <2>4. edit' \in [op : EditOps \cup {"none", "checked"}, copy : TaskRecord]
    <3>1. NoEdit \in [op : EditOps \cup {"none", "checked"}, copy : TaskRecord]
      BY RoundsFit DEF NoEdit
    <3>2. edit' = NoEdit \/ edit' = [op |-> "checked", copy |-> task']
      BY <1>1 DEF EditSave
    <3> QED BY <2>3, <3>1, <3>2
  <2> QED BY <1>1, <2>3, <2>4 DEF EditSave
<1>2. CASE DeleteTask
  <2>1. edit' \in [op : EditOps \cup {"none", "checked"}, copy : TaskRecord]
    BY <1>2, RoundsFit DEF DeleteTask, NoEdit
  <2>2. judged' \in Seq(Rounds)
    BY <1>2 DEF DeleteTask
  <2> QED BY <1>2, <2>1, <2>2 DEF DeleteTask
<1>3. ASSUME NEW kind \in EditOps, Edit(kind) PROVE TaskTypesInv'
  BY <1>3 DEF Edit
<1> QED BY <1>1, <1>2, <1>3

\* Every step keeps the types.
LEMMA NextTaskTypes == ASSUME TaskTypesInv, [TaskNext]_taskVars PROVE TaskTypesInv'
<1>1. CASE TaskNext
  BY <1>1, AgentTypes, QueueTypes, TurnTypes, EditTypes DEF TaskNext, TaskWork
<1>2. CASE UNCHANGED taskVars
  BY <1>2 DEF taskVars, TaskTypesInv
<1> QED BY <1>1, <1>2

\* The strengthening states the types.
LEMMA TaskTypes == ASSUME TaskTypesInv PROVE TaskTypeOK
<1>1. \A i \in DOMAIN judged : judged[i] \in Rounds
  BY ElementOfSeq, LenProperties DEF TaskTypesInv
<1>2. \A i \in DOMAIN queue : queue[i] \in CallRecords
  BY ElementOfSeq, LenProperties DEF TaskTypesInv
<1> QED BY <1>1, <1>2 DEF TaskTypesInv, TaskTypeOK, CallRecords

\* The record on disk, and every copy a call loaded of it, is one of a round
\* that the task has, whatever overlaps the lock.
THEOREM TaskTypeCorrect == TaskSpec => []TaskTypeOK
<1>1. TaskTypesInv /\ [TaskNext]_taskVars => TaskTypesInv'
  BY NextTaskTypes
<1>2. TaskTypesInv => TaskTypeOK
  BY TaskTypes
<1> QED BY <1>1, <1>2, InitTaskTypes, PTL DEF TaskSpec

-----------------------------------------------------------------------------
(* Resuming agents: reservations, and rows that name no agent any more.    *)

RequestRecords == [phase : {"unused", "create", "typed", "over", "lost"},
                   of : Sessions \cup {0}, mode : {"none", "exact", "last", "pick"},
                   made : Sessions \cup {0}]

ReservationTyped ==
  /\ sessionRow \in [Sessions -> {"none", "active", "ended"}]
  /\ DOMAIN agentName = Sessions
  /\ reservedAt \in [Sessions -> ResumeRequests \cup {0}]
  /\ request \in [ResumeRequests -> RequestRecords]

ReservationInv == ReservationTyped /\ ReservedByItsRequest

\* What a closed row must not do: name an agent again.
StaysEmpty ==
  \A s \in Sessions : sessionRow[s] = "ended" /\ agentName[s] = 0 => agentName'[s] = 0

\* Nothing is reserved.
LEMMA InitReservation == ResumeInit => ReservationInv
<1> SUFFICES ASSUME ResumeInit PROVE ReservationInv
  OBVIOUS
<1>1. NoRequest \in RequestRecords
  BY DEF NoRequest, RequestRecords
<1>2. ReservationTyped
  BY <1>1 DEF ResumeInit, ReservationTyped
<1>3. ReservedByItsRequest
  BY ResumeAssumption DEF ResumeInit, ReservedByItsRequest
<1> QED BY <1>2, <1>3 DEF ReservationInv

\* A row that changes its name loses its reservation, and no ended row is
\* opened again.
LEMMA RowsChange ==
  ASSUME ReservationInv, ReservationTyped',
         \A q \in ResumeRequests : /\ request'[q].of = request[q].of
                                   /\ request'[q].phase = request[q].phase,
         \A s \in Sessions : /\ sessionRow[s] = "ended" => sessionRow'[s] = "ended"
                             /\ reservedAt'[s] \in {reservedAt[s], 0},
         StaysEmpty
  PROVE  ReservationInv' /\ StaysEmpty
  BY ResumeAssumption DEF ReservationInv, ReservedByItsRequest

\* The reservation of a request goes with it.
LEMMA RequestEnds ==
  ASSUME ReservationInv, ReservationTyped', NEW q \in ResumeRequests,
         \A p \in ResumeRequests \ {q} : request'[p] = request[p],
         \A s \in Sessions : /\ sessionRow[s] = "ended" => sessionRow'[s] = "ended"
                             /\ reservedAt'[s] \in {reservedAt[s], 0}
                             /\ reservedAt'[s] # q,
         StaysEmpty
  PROVE  ReservationInv' /\ StaysEmpty
  BY ResumeAssumption DEF ReservationInv, ReservedByItsRequest

\* A request that releases leaves no token behind.
LEMMA Released ==
  ASSUME ReservationInv, NEW q \in ResumeRequests, Releases(q)
  PROVE  /\ reservedAt' \in [Sessions -> ResumeRequests \cup {0}]
         /\ \A s \in Sessions : reservedAt'[s] \in {reservedAt[s], 0} /\ reservedAt'[s] # q
<1>1. \A s \in Sessions : reservedAt[s] = q => s = request[q].of
  BY DEF ReservationInv, ReservedByItsRequest
<1>2. reservedAt' = IF Owns(q) THEN [reservedAt EXCEPT ![request[q].of] = 0] ELSE reservedAt
  BY DEF Releases
<1> QED BY <1>1, <1>2, ResumeAssumption DEF Owns, ReservationInv, ReservationTyped

\* Agents and their markers write no token.
LEMMA SessionSteps ==
  ASSUME ReservationInv, NEW s \in Sessions,
         \/ \E c \in Conversations : AgentStarts(s, c)
         \/ AgentExits(s) \/ MarkerArrives(s) \/ WriteRuns(s) \/ SessionDies(s)
         \/ ExitHandled(s) \/ CloseLater(s) \/ UserClosesTab(s)
  PROVE  ReservationInv' /\ StaysEmpty
<1> USE DEF ReservationInv
<1>1. ASSUME UNCHANGED <<sessionRow, agentName, reservedAt, request>>
      PROVE  ReservationInv' /\ StaysEmpty
  BY <1>1, RowsChange DEF ReservationTyped, StaysEmpty
<1>2. CASE \/ \E c \in Conversations : AgentStarts(s, c)
           \/ AgentExits(s) \/ MarkerArrives(s) \/ SessionDies(s) \/ CloseLater(s)
  BY <1>1, <1>2 DEF AgentStarts, AgentExits, MarkerArrives, SessionDies, CloseLater, sessionRows
<1>3. ASSUME Names(s, 0), UNCHANGED request,
             sessionRow' \in {sessionRow, [sessionRow EXCEPT ![s] = "ended"]}
      PROVE  ReservationInv' /\ StaysEmpty
  <2>1. ReservationTyped' /\ StaysEmpty
    BY <1>3 DEF Names, ReservationTyped, StaysEmpty
  <2> QED BY <1>3, <2>1, RowsChange DEF Names, ReservationTyped
<1>4. CASE WriteRuns(s)
  <2>1. CASE Names(s, 0)
    BY <1>3, <1>4, <2>1 DEF WriteRuns
  <2>2. ASSUME NEW mark, Records(s, mark) PROVE ReservationInv' /\ StaysEmpty
    <3>1. CASE sessionRow[s] = "ended"
      BY <1>1, <1>4, <2>2, <3>1 DEF Records, WriteRuns
    <3>2. CASE sessionRow[s] # "ended"
      <4>1. Names(s, mark) /\ UNCHANGED <<sessionRow, request>>
        BY <1>4, <2>2, <3>2 DEF Records, WriteRuns
      <4>2. ReservationTyped' /\ StaysEmpty
        BY <3>2, <4>1 DEF Names, ReservationTyped, StaysEmpty
      <4> QED BY <4>1, <4>2, RowsChange DEF Names, ReservationTyped
    <3> QED BY <3>1, <3>2
  <2> QED BY <1>4, <2>1, <2>2 DEF WriteRuns
<1>5. CASE ExitHandled(s)
  <2>1. CASE Names(s, 0)
    BY <1>3, <1>5, <2>1 DEF ExitHandled, EndsRow
  <2>2. CASE UNCHANGED <<agentName, reservedAt>>
    <3>1. ReservationTyped' /\ StaysEmpty
      BY <1>5, <2>2 DEF ExitHandled, EndsRow, ReservationTyped, StaysEmpty
    <3> QED BY <1>5, <2>2, <3>1, RowsChange DEF ExitHandled, EndsRow, ReservationTyped
  <2> QED BY <1>5, <2>1, <2>2 DEF ExitHandled
<1>6. CASE UserClosesTab(s)
  BY <1>3, <1>6 DEF UserClosesTab, EndsRow
<1> QED BY <1>2, <1>4, <1>5, <1>6

\* A request that moves on keeps the types of all requests.
LEMMA RequestChanges ==
  ASSUME ReservationTyped, NEW q \in ResumeRequests, NEW n \in Sessions \cup {0},
         NEW ph \in {"typed", "over"},
         request' = [request EXCEPT ![q].phase = ph, ![q].made = n]
  PROVE  request' \in [ResumeRequests -> RequestRecords]
<1>1. request[q] \in RequestRecords
  BY DEF ReservationTyped
<1> DEFINE new == [request[q] EXCEPT !.phase = ph, !.made = n]
<1>2. new \in RequestRecords
  BY <1>1 DEF RequestRecords
<1>3. request' = [request EXCEPT ![q] = new]
  BY DEF ReservationTyped
<1> HIDE DEF new
<1> QED BY <1>2, <1>3 DEF ReservationTyped

\* A request reserves its own row, and releases what it holds.
LEMMA RequestSteps ==
  ASSUME ReservationInv, NEW q \in ResumeRequests,
         \/ \E s \in Sessions : ResumeReserves(q, s)
         \/ ResumeFails(q) \/ Enter(q) \/ EnterFails(q) \/ ReservationAges(q)
         \/ \E n \in Sessions, same \in BOOLEAN : CreateDone(q, n, same)
  PROVE  ReservationInv' /\ StaysEmpty
<1> USE DEF ReservationInv
<1>1. ASSUME NEW s \in Sessions, ResumeReserves(q, s) PROVE ReservationInv' /\ StaysEmpty
  <2>1. /\ reservedAt' = [reservedAt EXCEPT ![s] = q] /\ sessionRow[s] = "ended"
        /\ request[q].phase = "unused" /\ UNCHANGED <<sessionRow, agentName>>
        /\ request' = [request EXCEPT ![q] = [phase |-> "create", of |-> s,
                                              mode |-> Mode(s), made |-> 0]]
    BY <1>1 DEF ResumeReserves
  <2>2. Mode(s) \in {"none", "exact", "last", "pick"}
    BY DEF Mode
  <2>3. ReservationTyped' /\ StaysEmpty
    BY <2>1, <2>2 DEF ReservationTyped, RequestRecords, StaysEmpty
  <2>4. \A t \in Sessions : reservedAt[t] # q
    BY <2>1 DEF ReservedByItsRequest
  <2>5. ReservedByItsRequest'
    BY <2>1, <2>4 DEF ReservationTyped, ReservedByItsRequest
  <2> QED BY <2>3, <2>5
<1>2. ASSUME Releases(q), NEW n \in Sessions \cup {0}, ResumeOver(q, n), UNCHANGED agentName,
             \A s \in Sessions : sessionRow[s] = "ended" => sessionRow'[s] = "ended",
             sessionRow' \in [Sessions -> {"none", "active", "ended"}]
      PROVE  ReservationInv' /\ StaysEmpty
  <2>1. ReservationTyped' /\ StaysEmpty
    <3>1. request' \in [ResumeRequests -> RequestRecords]
      BY <1>2, RequestChanges DEF ResumeOver
    <3>2. reservedAt' \in [Sessions -> ResumeRequests \cup {0}]
      BY <1>2, Released
    <3> QED BY <1>2, <3>1, <3>2 DEF ReservationTyped, StaysEmpty
  <2>2. \A p \in ResumeRequests \ {q} : request'[p] = request[p]
    BY <1>2 DEF ResumeOver, ReservationTyped
  <2> QED BY <1>2, <2>1, <2>2, Released, RequestEnds
<1>3. CASE ResumeFails(q) \/ EnterFails(q)
  <2>1. request[q].made \in Sessions \cup {0}
    BY DEF ReservationTyped, RequestRecords
  <2> QED BY <1>2, <1>3, <2>1 DEF ResumeFails, EnterFails, ReservationTyped
<1>4. CASE Enter(q)
  <2> DEFINE n == request[q].made
             of == request[q].of
  <2>1. /\ Names(of, 0) /\ ResumeOver(q, n) /\ UNCHANGED sessionRow
        /\ n \in Sessions \cup {0} /\ of \in Sessions \cup {0}
    BY <1>4 DEF Enter, ReservationTyped, RequestRecords
  <2>2. ReservationTyped' /\ StaysEmpty
    <3>1. request' \in [ResumeRequests -> RequestRecords]
      BY <2>1, RequestChanges DEF ResumeOver
    <3>2. /\ DOMAIN agentName' = Sessions
          /\ reservedAt' \in [Sessions -> ResumeRequests \cup {0}]
      BY <2>1 DEF Names, ReservationTyped
    <3>3. StaysEmpty
      BY <2>1 DEF Names, ReservationTyped, StaysEmpty
    <3> QED BY <2>1, <3>1, <3>2, <3>3 DEF ReservationTyped
  <2>3. \A p \in ResumeRequests \ {q} : request'[p] = request[p]
    BY <2>1 DEF ResumeOver, ReservationTyped
  <2>4. \A s \in Sessions : reservedAt'[s] \in {reservedAt[s], 0} /\ reservedAt'[s] # q
    BY <2>1, ResumeAssumption DEF Names, ReservationTyped, ReservedByItsRequest
  <2> QED BY <2>1, <2>2, <2>3, <2>4, RequestEnds
<1>5. CASE ReservationAges(q)
  <2>1. UNCHANGED <<sessionRow, agentName, reservedAt, request>>
    BY <1>5 DEF ReservationAges
  <2> QED BY <2>1, RowsChange DEF ReservationTyped, StaysEmpty
<1>6. ASSUME NEW n \in Sessions, NEW same \in BOOLEAN, CreateDone(q, n, same)
      PROVE  ReservationInv' /\ StaysEmpty
  <2>1. /\ sessionRow[n] = "none" /\ sessionRow' = [sessionRow EXCEPT ![n] = "active"]
        /\ UNCHANGED agentName
    BY <1>6 DEF CreateDone
  <2>2. /\ \A s \in Sessions : sessionRow[s] = "ended" => sessionRow'[s] = "ended"
        /\ sessionRow' \in [Sessions -> {"none", "active", "ended"}]
    BY <2>1 DEF ReservationTyped
  <2>3. CASE ResumeOver(q, n) /\ Releases(q)
    BY <1>2, <2>1, <2>2, <2>3
  <2>4. CASE /\ request' = [request EXCEPT ![q].phase = "typed", ![q].made = n]
             /\ UNCHANGED <<reservedAt, handoff>>
    <3>1. ReservationTyped' /\ StaysEmpty
      <4>1. request' \in [ResumeRequests -> RequestRecords]
        BY <2>4, RequestChanges
      <4> QED BY <2>1, <2>2, <2>4, <4>1 DEF ReservationTyped, StaysEmpty
    <3>2. ReservedByItsRequest'
      BY <2>2, <2>4 DEF ReservationTyped, RequestRecords, ReservedByItsRequest
    <3> QED BY <3>1, <3>2
  <2> QED BY <1>6, <2>3, <2>4 DEF CreateDone
<1> QED BY <1>1, <1>3, <1>4, <1>5, <1>6

\* Tokens outlive the service in their rows, without a request at work.
LEMMA ServiceSteps ==
  ASSUME ReservationInv,
         HandoffEnds \/ ServiceStops \/ ServiceStarts \/ UNCHANGED resumeVars
  PROVE  ReservationInv' /\ StaysEmpty
<1> USE DEF ReservationInv
<1>1. CASE HandoffEnds \/ UNCHANGED resumeVars
  <2>1. UNCHANGED <<sessionRow, agentName, reservedAt, request>>
    BY <1>1 DEF HandoffEnds, resumeVars, sessionRows
  <2> QED BY <2>1, RowsChange DEF ReservationTyped, StaysEmpty
<1>2. CASE ServiceStops
  <2>1. /\ UNCHANGED <<sessionRow, agentName, reservedAt>>
        /\ request' = [q \in ResumeRequests |->
             IF request[q].phase \in {"create", "typed"}
             THEN [request[q] EXCEPT !.phase = "lost"] ELSE request[q]]
    BY <1>2 DEF ServiceStops, sessionRows
  <2>2. \A q \in ResumeRequests :
          /\ request[q] \in RequestRecords /\ [request[q] EXCEPT !.phase = "lost"] \in RequestRecords
          /\ [request[q] EXCEPT !.phase = "lost"].of = request[q].of
          /\ [request[q] EXCEPT !.phase = "lost"].phase = "lost"
    BY DEF ReservationTyped, RequestRecords
  <2>3. ReservationTyped' /\ StaysEmpty
    BY <2>1, <2>2 DEF ReservationTyped, StaysEmpty
  <2>4. ReservedByItsRequest'
    BY <2>1, <2>2 DEF ReservedByItsRequest
  <2> QED BY <2>3, <2>4
<1>3. CASE ServiceStarts
  <2>1. ReservationTyped' /\ StaysEmpty
    BY <1>3 DEF ServiceStarts, ReservationTyped, StaysEmpty
  <2>2. \A s \in Sessions : /\ sessionRow[s] = "ended" => sessionRow'[s] = "ended"
                            /\ reservedAt'[s] \in {reservedAt[s], 0}
    BY <1>3 DEF ServiceStarts
  <2>3. UNCHANGED request
    BY <1>3 DEF ServiceStarts
  <2> QED BY <2>1, <2>2, <2>3, RowsChange
<1> QED BY <1>1, <1>2, <1>3

\* Every step keeps the reservations, and the rows that stay empty.
LEMMA NextReservation ==
  ASSUME ReservationInv, [ResumeNext]_resumeVars
  PROVE  ReservationInv' /\ StaysEmpty
  BY SessionSteps, RequestSteps, ServiceSteps DEF ResumeNext

\* A row is reserved for the request at work on it and no other, for any number
\* of rows, requests, restarts and lost answers.
THEOREM ResumeReservations == ResumeSpec => []ReservedByItsRequest
<1>1. ReservationInv /\ [ResumeNext]_resumeVars => ReservationInv'
  BY NextReservation
<1>2. ReservationInv => ReservedByItsRequest
  BY DEF ReservationInv
<1> QED BY <1>1, <1>2, InitReservation, PTL DEF ResumeSpec

\* A write that was under way when the user closed the tab, or when its session
\* ended, does not bring the agent's name back.
THEOREM ResumeClosedStaysClosed == ResumeSpec => ClosedStaysClosed
<1>1. ReservationInv /\ [ResumeNext]_resumeVars => ReservationInv'
  BY NextReservation
<1>2. ReservationInv /\ [ResumeNext]_resumeVars =>
        [\A s \in Sessions :
           sessionRow[s] = "ended" /\ agentName[s] = 0 => agentName'[s] = 0]_resumeVars
  BY NextReservation DEF StaysEmpty
<1> QED BY <1>1, <1>2, InitReservation, PTL DEF ResumeSpec, ClosedStaysClosed

-----------------------------------------------------------------------------
(* Resuming agents: one agent for every conversation.                      *)

WithoutId == Conversations \ WithId
AtWork(q) == request[q].phase \in {"create", "typed"}

\* What is known of conversation c in session s: it runs there, its row names
\* it, or a marker or a write of it is under way.
Known(s, c) == \/ running[s] = c \/ agentName[s] = c
               \/ Contains(markers[s], c) \/ Contains(agentResumeWrite[s], c)

RowsFit ==
  \A s \in Sessions :
    /\ running[s] # 0 => sessionRow[s] = "active" /\ s \notin died
    /\ s \in died => sessionRow[s] = "active"
    /\ sessionRow[s] = "none" => agentName[s] = 0 /\ agentResumeWrite[s] = <<>>
    /\ sessionRow[s] # "active" => markers[s] = <<>> /\ s \notin terminals
    /\ up /\ sessionRow[s] = "active" /\ s \notin died => s \in terminals

MarkersFit ==
  \A s \in Sessions :
    /\ \A i \in 2..Len(markers[s]) : markers[s][i] = 0
    /\ running[s] # 0 => markers[s] = <<>> \/ markers[s] = <<running[s]>>

RequestFits(q) ==
  /\ AtWork(q) =>
       /\ up /\ request[q].of \in Sessions /\ sessionRow[request[q].of] = "ended"
       /\ agentResumeWrite[request[q].of] = <<>> /\ agentName[request[q].of] # 0
       /\ request[q].mode \in {"exact", "last", "pick"}
       /\ request[q].mode = "exact" <=> agentName[request[q].of] \in WithId
  /\ request[q].phase = "typed" =>
       LET n == request[q].made IN
       /\ n # 0 /\ running[n] = 0 /\ agentName[n] = 0
       /\ markers[n] = <<>> /\ agentResumeWrite[n] = <<>>
  /\ request[q].made # 0 => sessionRow[request[q].made] # "none"

RequestsFit ==
  /\ \A q \in ResumeRequests : RequestFits(q)
  /\ \A p, q \in ResumeRequests : p # q =>
       /\ AtWork(p) /\ AtWork(q) => request[p].of # request[q].of
       /\ request[p].made # 0 => request[p].made # request[q].made

StartedFit ==
  /\ IsFiniteSet(started) /\ started = 1..Cardinality(started)
  /\ \A s \in Sessions, c \in Conversations : Known(s, c) => c \in started
  /\ lastCodex # 0 => lastCodex \in started \ WithId

MarkerAwaited ==
  up => \A s \in Sessions :
    /\ markers[s] # <<>> /\ Head(markers[s]) \in WithoutId =>
         \E q \in ResumeRequests :
           /\ request[q].made = s /\ request[q].phase = "over"
           /\ request[q].mode \in {"last", "pick"}
    /\ running[s] \in WithoutId => s \in showsCodex \/ markers[s] # <<>>

EntryKept == up /\ handoff = 0 /\ ~forgotten => \A q \in ResumeRequests : ~StillOpens(q)

OneHome ==
  \A s, t \in Sessions, c \in Conversations : Known(s, c) /\ Known(t, c) => s = t

LastAlone ==
  \A q \in ResumeRequests : AtWork(q) /\ request[q].mode = "last" =>
    \A t \in Sessions \ {request[q].of}, c \in WithoutId : ~Known(t, c)

AgentsFit == forgotten \/ (OneHome /\ LastAlone)

ResumeInv ==
  /\ ResumeTypeOK /\ RowsFit /\ MarkersFit /\ RequestsFit /\ StartedFit
  /\ MarkerAwaited /\ EntryKept /\ AgentsFit

-----------------------------------------------------------------------------
\* An empty list contains nothing.
LEMMA EmptyContains == ASSUME NEW c PROVE ~Contains(<<>>, c)
  BY DEF Contains

\* A list contains what is appended and what it did.
LEMMA AppendContains ==
  ASSUME NEW T, NEW m \in Seq(T), NEW x \in T
  PROVE  /\ Append(m, x) \in Seq(T)
         /\ \A c : Contains(Append(m, x), c) => Contains(m, c) \/ c = x
  BY DEF Contains

\* What is behind the first was in the list.
LEMMA TailContains ==
  ASSUME NEW T, NEW m \in Seq(T), m # <<>>
  PROVE  /\ Tail(m) \in Seq(T) /\ Head(m) \in T /\ Contains(m, Head(m))
         /\ \A c : Contains(Tail(m), c) => Contains(m, c)
<1>1. Len(m) \in Nat /\ Len(m) >= 1
  BY EmptySeq
<1>2. Tail(m) \in Seq(T) /\ Len(Tail(m)) = Len(m) - 1 /\ \A i \in 1..Len(m)-1 : Tail(m)[i] = m[i + 1]
  BY <1>1, HeadTailProperties
<1>3. Head(m) = m[1] /\ m[1] \in T
  BY <1>1
<1> QED BY <1>1, <1>2, <1>3 DEF Contains

\* No agent runs.
LEMMA InitAgents == ResumeInit => ResumeInv
<1> SUFFICES ASSUME ResumeInit PROVE ResumeInv
  OBVIOUS
<1> USE ResumeAssumption
<1>1. ResumeTypeOK
  <2>1. request \in [ResumeRequests -> RequestRecords]
    BY DEF ResumeInit, NoRequest, RequestRecords
  <2>2. /\ agentEvents \in 0..MaxAgentEvents
        /\ sessionRow \in [Sessions -> {"none", "active", "ended"}]
    BY DEF ResumeInit
  <2>3. /\ markers \in [Sessions -> Seq(Conversations \cup {0})]
        /\ agentResumeWrite \in [Sessions -> Seq(Conversations \cup {0})]
    BY EmptySeq DEF ResumeInit
  <2> QED BY <2>1, <2>2, <2>3 DEF ResumeInit, ResumeTypeOK, RequestRecords
<1>2. RowsFit
  BY DEF ResumeInit, RowsFit
<1>3. MarkersFit
  BY DEF ResumeInit, MarkersFit
<1>4. \A q \in ResumeRequests : request[q].phase = "unused" /\ request[q].made = 0
                               /\ request[q].mode = "none"
  BY DEF ResumeInit, NoRequest
<1>5. RequestsFit
  BY <1>4 DEF RequestsFit, RequestFits, AtWork
<1>6. \A s \in Sessions, c \in Conversations : ~Known(s, c)
  BY EmptyContains DEF ResumeInit, Known
<1>7. StartedFit
  <2>1. IsFiniteSet({}) /\ Cardinality({}) = 0
    BY FS_EmptySet
  <2> QED BY <1>6, <2>1 DEF ResumeInit, StartedFit
<1>8. MarkerAwaited /\ EntryKept
  BY <1>4 DEF ResumeInit, MarkerAwaited, EntryKept, StillOpens, WithoutId
<1>9. AgentsFit
  BY <1>4, <1>6 DEF AgentsFit, OneHome, LastAlone, AtWork
<1> QED BY <1>1, <1>2, <1>3, <1>5, <1>7, <1>8, <1>9 DEF ResumeInv

\* A request's record is of its own and the marks are numbers.
LEMMA Typed ==
  ASSUME ResumeTypeOK
  PROVE  /\ \A q \in ResumeRequests : request[q] \in RequestRecords
         /\ \A s \in Sessions : markers[s] \in Seq(Conversations \cup {0})
                                /\ agentResumeWrite[s] \in Seq(Conversations \cup {0})
  BY DEF ResumeTypeOK, RequestRecords

\* A step that starts nothing and hands nothing over keeps the conversations
\* where they are.
LEMMA NothingNew ==
  ASSUME StartedFit, AgentsFit, UNCHANGED <<started, lastCodex>>, forgotten => forgotten',
         \A s \in Sessions, c \in Conversations : Known(s, c)' => Known(s, c),
         \A q \in ResumeRequests :
           AtWork(q)' /\ request'[q].mode = "last" =>
             /\ AtWork(q) /\ request[q].mode = "last" /\ request'[q].of = request[q].of
  PROVE  StartedFit' /\ AgentsFit'
<1>1. StartedFit'
  BY DEF StartedFit
<1>2. AgentsFit'
  BY DEF AgentsFit, OneHome, LastAlone, WithoutId
<1> QED BY <1>1, <1>2

\* An agent that starts by hand has a conversation of its own.
LEMMA StartStep ==
  ASSUME ResumeInv, ManualStarts => Conversations \subseteq WithId,
         NEW s \in Sessions, NEW c \in Conversations, AgentStarts(s, c)
  PROVE  ResumeInv'
<1> USE ResumeAssumption DEF ResumeInv
<1>1. /\ up /\ s \in terminals /\ Lives(s) /\ running[s] = 0 /\ markers[s] = <<>>
      /\ \A q \in ResumeRequests : request[q].phase = "typed" => request[q].made # s
      /\ c = Cardinality(started) + 1 /\ started' = started \cup {c}
      /\ running' = [running EXCEPT ![s] = c]
      /\ lastCodex' = IF c \in WithId THEN lastCodex ELSE c
      /\ showsCodex' = IF c \in WithId THEN showsCodex ELSE showsCodex \cup {s}
      /\ agentResumeWrite' = [agentResumeWrite EXCEPT ![s] = Append(@, c)]
      /\ UNCHANGED <<sessionRow, scheduled, agentName, reservedAt, stale, died, atDeath, up,
                     terminals, handoff, forgotten, markers, request, agentEvents>>
  BY DEF AgentStarts, Opened, sessionRows
<1>2. ManualStarts \/ \A q \in ResumeRequests : ~AtWork(q)
  BY DEF AgentStarts, AtWork
<1>3. /\ agentResumeWrite[s] \in Seq(Conversations \cup {0})
      /\ Append(agentResumeWrite[s], c) \in Seq(Conversations \cup {0})
      /\ \A d : Contains(Append(agentResumeWrite[s], c), d) => Contains(agentResumeWrite[s], d) \/ d = c
  BY Typed, AppendContains
<1>4. ResumeTypeOK'
  <2>1. agentResumeWrite' \in [Sessions -> Seq(Conversations \cup {0})]
    BY <1>1, <1>3 DEF ResumeTypeOK
  <2>2. /\ running' \in [Sessions -> Conversations \cup {0}]
        /\ lastCodex' \in Conversations \cup {0} /\ showsCodex' \subseteq Sessions
        /\ started' \subseteq Conversations
    BY <1>1 DEF ResumeTypeOK
  <2> QED BY <1>1, <2>1, <2>2 DEF ResumeTypeOK
<1>5. RowsFit'
  BY <1>1 DEF RowsFit, Lives, ResumeTypeOK
<1>6. MarkersFit'
  BY <1>1 DEF MarkersFit, ResumeTypeOK
<1>7. RequestsFit'
  BY <1>1 DEF RequestsFit, RequestFits, AtWork, ResumeTypeOK, Lives
<1>8. c \notin started /\ IsFiniteSet(started') /\ started' = 1..Cardinality(started')
  <2>1. Cardinality(started) \in Nat /\ IsFiniteSet(started)
    BY FS_CardinalityType DEF StartedFit
  <2>2. c \notin started
    BY <1>1, <2>1 DEF StartedFit
  <2>3. IsFiniteSet(started') /\ Cardinality(started') = Cardinality(started) + 1
    BY <1>1, <2>1, <2>2, FS_AddElement
  <2> DEFINE k == Cardinality(started)
  <2>4. started' = (1..k) \cup {k + 1}
    BY <1>1 DEF StartedFit
  <2>5. started' = 1..(k + 1)
    BY <2>1, <2>4
  <2> QED BY <2>2, <2>3, <2>5
<1>9. \A t \in Sessions, d \in Conversations :
        Known(t, d)' => Known(t, d) \/ (t = s /\ d = c)
  BY <1>1, <1>3 DEF Known, ResumeTypeOK
<1>10. StartedFit'
  BY <1>1, <1>8, <1>9 DEF StartedFit
<1>11. MarkerAwaited'
  BY <1>1 DEF MarkerAwaited, WithoutId, ResumeTypeOK
<1>12. EntryKept'
  BY <1>1 DEF EntryKept, StillOpens
<1>13. AgentsFit'
  <2>1. \A t \in Sessions : ~Known(t, c)
    BY <1>8 DEF StartedFit
  <2>2. OneHome => OneHome'
    BY <1>9, <2>1 DEF OneHome
  <2>3. LastAlone => LastAlone'
    BY <1>1, <1>2, <1>9 DEF LastAlone, AtWork, WithoutId
  <2> QED BY <1>1, <2>2, <2>3 DEF AgentsFit
<1> QED BY <1>4, <1>5, <1>6, <1>7, <1>10, <1>11, <1>12, <1>13

\* What is known shrinks with the marks, the writes, the agents and the names.
LEMMA KnownLess ==
  ASSUME NEW s \in Sessions, NEW c \in Conversations,
         running'[s] # c \/ running[s] = c, agentName'[s] # c \/ Known(s, c),
         Contains(markers'[s], c) => Contains(markers[s], c),
         Contains(agentResumeWrite'[s], c) =>
           Contains(agentResumeWrite[s], c) \/ Contains(markers[s], c)
  PROVE  Known(s, c)' => Known(s, c)
  BY DEF Known

\* An agent that ends leaves its conversation to its row or to a marker.
LEMMA ExitStep ==
  ASSUME ResumeInv, NEW s \in Sessions, AgentExits(s)
  PROVE  ResumeInv'
<1> USE ResumeAssumption DEF ResumeInv
<1>1. /\ running[s] # 0 /\ agentEvents < MaxAgentEvents /\ agentEvents' = agentEvents + 1
      /\ running' = [running EXCEPT ![s] = 0]
      /\ markers' = [markers EXCEPT ![s] = Append(@, 0)]
      /\ UNCHANGED <<sessionRow, scheduled, agentName, reservedAt, stale, lastCodex, died,
                     atDeath, started, up, terminals, showsCodex, agentResumeWrite, handoff,
                     forgotten, request>>
  BY DEF AgentExits, AgentEvent, Marks, sessionRows, memory
<1>2. /\ Append(markers[s], 0) \in Seq(Conversations \cup {0})
      /\ \A d : Contains(Append(markers[s], 0), d) => Contains(markers[s], d) \/ d = 0
  BY Typed, AppendContains
<1>3. /\ \A i \in 2..Len(Append(markers[s], 0)) : Append(markers[s], 0)[i] = 0
      /\ Append(markers[s], 0) # <<>>
      /\ Head(Append(markers[s], 0)) = IF markers[s] = <<>> THEN 0 ELSE Head(markers[s])
  <2>1. markers[s] \in Seq(Conversations \cup {0}) /\ Len(markers[s]) \in Nat
    BY Typed
  <2>2. markers[s] = <<>> \/ markers[s] = <<running[s]>>
    BY <1>1 DEF MarkersFit
  <2>3. Len(markers[s]) = 0 \/ Len(markers[s]) = 1
    <3>1. Len(<<>>) = 0 /\ Len(<<running[s]>>) = 1
      OBVIOUS
    <3> QED BY <2>2, <3>1, Zenon
  <2>4. /\ Len(Append(markers[s], 0)) = Len(markers[s]) + 1
        /\ Append(markers[s], 0)[Len(markers[s]) + 1] = 0
        /\ Append(markers[s], 0) # <<>>
    BY <2>1, AppendProperties
  <2> QED BY <2>1, <2>3, <2>4, HeadTailAppend
<1>4. ResumeTypeOK'
  BY SMTT(30), <1>1, <1>2 DEF ResumeTypeOK
<1>5. RowsFit'
  BY <1>1, <1>2 DEF RowsFit, ResumeTypeOK
<1>6. MarkersFit'
  BY <1>1, <1>3 DEF MarkersFit, ResumeTypeOK
<1>7. RequestsFit'
  BY <1>1 DEF RequestsFit, RequestFits, AtWork, ResumeTypeOK
<1>8. \A t \in Sessions, c \in Conversations : Known(t, c)' => Known(t, c)
  <2> SUFFICES ASSUME NEW t \in Sessions, NEW c \in Conversations PROVE Known(t, c)' => Known(t, c)
    OBVIOUS
  <2>1. markers'[t] = IF t = s THEN Append(markers[s], 0) ELSE markers[t]
    BY <1>1 DEF ResumeTypeOK
  <2>2. Contains(markers'[t], c) => Contains(markers[t], c)
    BY <1>2, <2>1
  <2> QED BY <1>1, <2>2, KnownLess DEF Known, ResumeTypeOK
<1>9. StartedFit' /\ AgentsFit'
  BY <1>1, <1>8, NothingNew DEF AtWork
<1>10. \A t \in Sessions : markers'[t] # <<>> /\ Head(markers'[t]) # 0 =>
         markers[t] # <<>> /\ Head(markers'[t]) = Head(markers[t])
  BY <1>1, <1>3 DEF ResumeTypeOK
<1>11. MarkerAwaited'
  <2>1. ASSUME NEW t \in Sessions, up, markers'[t] # <<>>, Head(markers'[t]) \in WithoutId
        PROVE  \E q \in ResumeRequests :
                 /\ request'[q].made = t /\ request'[q].phase = "over"
                 /\ request'[q].mode \in {"last", "pick"}
    BY <1>1, <1>10, <2>1 DEF MarkerAwaited, WithoutId
  <2>2. ASSUME NEW t \in Sessions, up, running'[t] \in WithoutId
        PROVE  t \in showsCodex' \/ markers'[t] # <<>>
    BY <1>1, <2>2 DEF MarkerAwaited, WithoutId, ResumeTypeOK
  <2> QED BY <1>1, <2>1, <2>2 DEF MarkerAwaited
<1>12. EntryKept'
  <2>1. ASSUME NEW q \in ResumeRequests, StillOpens(q)' PROVE StillOpens(q)
    <3>1. request[q].made \in Sessions \cup {0}
      BY Typed DEF RequestRecords
    <3> QED BY <1>1, <1>10, <2>1, <3>1 DEF StillOpens
  <2> QED BY <1>1, <2>1 DEF EntryKept
<1> QED BY <1>4, <1>5, <1>6, <1>7, <1>9, <1>11, <1>12

\* A marker that arrives becomes a write; what is known stays known.
LEMMA MarkerStep ==
  ASSUME ResumeInv, NEW s \in Sessions, MarkerArrives(s)
  PROVE  ResumeInv'
<1> USE ResumeAssumption DEF ResumeInv
<1> DEFINE mark == Head(markers[s])
<1>1. /\ up /\ s \in terminals /\ markers[s] # <<>>
      /\ agentResumeWrite' = [agentResumeWrite EXCEPT ![s] = Append(@, mark)]
      /\ showsCodex' = IF mark \in WithoutId THEN showsCodex \cup {s} ELSE showsCodex \ {s}
      /\ markers' = [markers EXCEPT ![s] = Tail(@)]
      /\ UNCHANGED <<sessionRow, scheduled, agentName, reservedAt, stale, running, lastCodex,
                     died, atDeath, started, up, terminals, handoff, forgotten, request,
                     agentEvents>>
  BY DEF MarkerArrives, sessionRows, host, WithoutId
<1>2. /\ Tail(markers[s]) \in Seq(Conversations \cup {0}) /\ mark \in Conversations \cup {0}
      /\ Contains(markers[s], mark)
      /\ \A d : Contains(Tail(markers[s]), d) => Contains(markers[s], d)
  BY <1>1, Typed, TailContains
<1>3. /\ Append(agentResumeWrite[s], mark) \in Seq(Conversations \cup {0})
      /\ \A d : Contains(Append(agentResumeWrite[s], mark), d) =>
           Contains(agentResumeWrite[s], d) \/ d = mark
  <2>1. agentResumeWrite[s] \in Seq(Conversations \cup {0})
    BY Typed
  <2> HIDE DEF mark
  <2> QED BY <1>2, <2>1, AppendContains
<1>4. /\ \A i \in 1..Len(Tail(markers[s])) : Tail(markers[s])[i] = 0
      /\ running[s] # 0 => markers[s] = <<running[s]>>
  <2>1. /\ Len(Tail(markers[s])) = Len(markers[s]) - 1 /\ Len(markers[s]) \in Nat
        /\ \A i \in 1..Len(Tail(markers[s])) : Tail(markers[s])[i] = markers[s][i + 1]
    BY <1>1, Typed, HeadTailProperties
  <2>2. \A i \in 2..Len(markers[s]) : markers[s][i] = 0
    BY DEF MarkersFit
  <2> QED BY <1>1, <2>1, <2>2 DEF MarkersFit
<1>5. running[s] # 0 => mark = running[s] /\ Tail(markers[s]) = <<>>
  <2> SUFFICES ASSUME running[s] # 0 PROVE mark = running[s] /\ Tail(markers[s]) = <<>>
    OBVIOUS
  <2>1. markers[s] = <<running[s]>>
    BY <1>4
  <2>2. Head(<<running[s]>>) = running[s] /\ Tail(<<running[s]>>) = <<>>
    OBVIOUS
  <2> QED BY <2>1, <2>2, Zenon
<1>6. sessionRow[s] = "active"
  BY <1>1 DEF RowsFit
<1>7. ResumeTypeOK'
  <2>1. agentResumeWrite' \in [Sessions -> Seq(Conversations \cup {0})]
    BY <1>1, <1>3 DEF ResumeTypeOK
  <2>2. markers' \in [Sessions -> Seq(Conversations \cup {0})]
    BY <1>1, <1>2 DEF ResumeTypeOK
  <2>3. showsCodex' \subseteq Sessions
    BY <1>1 DEF ResumeTypeOK
  <2> QED BY <1>1, <2>1, <2>2, <2>3 DEF ResumeTypeOK
<1>8. RowsFit'
  BY <1>1, <1>6 DEF RowsFit, ResumeTypeOK
<1>9. MarkersFit'
  BY <1>1, <1>4, <1>5 DEF MarkersFit, ResumeTypeOK
<1>10. RequestsFit'
  BY <1>1, <1>6 DEF RequestsFit, RequestFits, AtWork, ResumeTypeOK
<1>11. \A t \in Sessions, c \in Conversations : Known(t, c)' => Known(t, c)
  <2> SUFFICES ASSUME NEW t \in Sessions, NEW c \in Conversations PROVE Known(t, c)' => Known(t, c)
    OBVIOUS
  <2>1. /\ markers'[t] = IF t = s THEN Tail(markers[s]) ELSE markers[t]
        /\ agentResumeWrite'[t] = IF t = s THEN Append(agentResumeWrite[s], mark)
                                  ELSE agentResumeWrite[t]
    BY <1>1 DEF ResumeTypeOK
  <2> HIDE DEF mark
  <2>2. Contains(markers'[t], c) => Contains(markers[t], c)
    BY <1>2, <2>1
  <2>3. Contains(agentResumeWrite'[t], c) =>
          Contains(agentResumeWrite[t], c) \/ Contains(markers[t], c)
    BY <1>2, <1>3, <2>1
  <2> QED BY <1>1, <2>2, <2>3, KnownLess DEF Known
<1>12. StartedFit' /\ AgentsFit'
  BY <1>1, <1>11, NothingNew DEF AtWork
<1>13. \A t \in Sessions : markers'[t] # <<>> /\ Head(markers'[t]) # 0 =>
         t # s /\ markers'[t] = markers[t]
  <2>1. Tail(markers[s]) # <<>> => Head(Tail(markers[s])) = 0
    <3> SUFFICES ASSUME Tail(markers[s]) # <<>> PROVE Head(Tail(markers[s])) = 0
      OBVIOUS
    <3>1. Len(Tail(markers[s])) \in Nat \ {0}
      BY <1>2, EmptySeq
    <3>2. 1 \in 1..Len(Tail(markers[s]))
      BY <3>1
    <3>3. Tail(markers[s])[1] = 0
      BY <1>4, <3>2
    <3> QED BY <3>3
  <2> QED BY <1>1, <2>1 DEF ResumeTypeOK
<1>14. MarkerAwaited'
  <2> SUFFICES ASSUME NEW t \in Sessions
               PROVE  /\ markers'[t] # <<>> /\ Head(markers'[t]) \in WithoutId =>
                           \E q \in ResumeRequests :
                             /\ request'[q].made = t /\ request'[q].phase = "over"
                             /\ request'[q].mode \in {"last", "pick"}
                      /\ running'[t] \in WithoutId =>
                           t \in showsCodex' \/ markers'[t] # <<>>
    BY DEF MarkerAwaited
  <2>1. ASSUME markers'[t] # <<>>, Head(markers'[t]) \in WithoutId
        PROVE  \E q \in ResumeRequests :
                 /\ request'[q].made = t /\ request'[q].phase = "over"
                 /\ request'[q].mode \in {"last", "pick"}
    BY <1>1, <1>13, <2>1 DEF MarkerAwaited, WithoutId
  <2>2. ASSUME running'[t] \in WithoutId
        PROVE  t \in showsCodex' \/ markers'[t] # <<>>
    BY <1>1, <1>5, <2>2 DEF MarkerAwaited, WithoutId, ResumeTypeOK
  <2> QED BY <2>1, <2>2
<1>15. EntryKept'
  <2>1. ASSUME NEW q \in ResumeRequests, StillOpens(q)' PROVE StillOpens(q)
    <3>1. request[q].made \in Sessions \cup {0}
      BY Typed DEF RequestRecords
    <3> QED BY <1>1, <1>13, <2>1, <3>1 DEF StillOpens
  <2> QED BY <1>1, <2>1 DEF EntryKept
<1> QED BY <1>7, <1>8, <1>9, <1>10, <1>12, <1>14, <1>15

\* The write behind a marker puts in the row what the marker says.
LEMMA WriteStep ==
  ASSUME ResumeInv, NEW s \in Sessions, WriteRuns(s)
  PROVE  ResumeInv'
<1> USE ResumeAssumption DEF ResumeInv
<1> DEFINE mark == Head(agentResumeWrite[s])
<1>1. /\ up /\ agentResumeWrite[s] # <<>>
      /\ agentResumeWrite' = [agentResumeWrite EXCEPT ![s] = Tail(@)]
      /\ UNCHANGED <<sessionRow, scheduled, stale, running, lastCodex, died, atDeath, started,
                     up, terminals, showsCodex, handoff, forgotten, markers, request,
                     agentEvents>>
  BY DEF WriteRuns, host
<1>2. /\ Tail(agentResumeWrite[s]) \in Seq(Conversations \cup {0})
      /\ mark \in Conversations \cup {0} /\ Contains(agentResumeWrite[s], mark)
      /\ \A d : Contains(Tail(agentResumeWrite[s]), d) => Contains(agentResumeWrite[s], d)
  BY <1>1, Typed, TailContains
<1>3. \/ UNCHANGED <<agentName, reservedAt>>
      \/ agentName' = [agentName EXCEPT ![s] = mark] /\ reservedAt' = [reservedAt EXCEPT ![s] = 0]
  BY DEF WriteRuns, Records, Names
<1> HIDE DEF mark
<1>4. ResumeTypeOK'
  <2>1. agentName' \in [Sessions -> Conversations \cup {0}]
    BY <1>2, <1>3 DEF ResumeTypeOK
  <2>2. reservedAt' \in [Sessions -> ResumeRequests \cup {0}]
    BY <1>3 DEF ResumeTypeOK
  <2>3. agentResumeWrite' \in [Sessions -> Seq(Conversations \cup {0})]
    BY <1>1, <1>2 DEF ResumeTypeOK
  <2> QED BY <1>1, <2>1, <2>2, <2>3 DEF ResumeTypeOK
<1>5. RowsFit'
  BY <1>1, <1>3 DEF RowsFit, ResumeTypeOK
<1>6. MarkersFit' /\ MarkerAwaited'
  BY <1>1 DEF MarkersFit, MarkerAwaited
<1>7. RequestsFit'
  <2>1. ASSUME NEW q \in ResumeRequests PROVE RequestFits(q)'
    <3>1. RequestFits(q)
      BY DEF RequestsFit
    <3>2. \A t \in Sessions \ {s} : /\ agentName'[t] = agentName[t]
                                   /\ agentResumeWrite'[t] = agentResumeWrite[t]
      BY <1>1, <1>3 DEF ResumeTypeOK
    <3>3. request[q].made \in Sessions \cup {0}
      BY Typed DEF RequestRecords
    <3> QED BY ZenonT(60), <1>1, <3>1, <3>2, <3>3 DEF RequestFits, AtWork
  <2> QED BY <1>1, <2>1 DEF RequestsFit, AtWork
<1>8. EntryKept'
  BY <1>1 DEF EntryKept, StillOpens
<1>9. \A t \in Sessions, c \in Conversations : Known(t, c)' => Known(t, c)
  <2> SUFFICES ASSUME NEW t \in Sessions, NEW c \in Conversations PROVE Known(t, c)' => Known(t, c)
    OBVIOUS
  <2>1. /\ agentResumeWrite'[t] = IF t = s THEN Tail(agentResumeWrite[s]) ELSE agentResumeWrite[t]
        /\ agentName'[t] = agentName[t] \/ (t = s /\ agentName'[t] = mark)
    BY <1>1, <1>3 DEF ResumeTypeOK
  <2>2. Contains(agentResumeWrite'[t], c) => Contains(agentResumeWrite[t], c)
    BY <1>2, <2>1
  <2>3. agentName'[t] # c \/ Known(t, c)
    BY <1>2, <2>1 DEF Known
  <2> QED BY <1>1, <2>2, <2>3, KnownLess
<1>10. StartedFit' /\ AgentsFit'
  BY <1>1, <1>9, NothingNew DEF AtWork
<1> QED BY <1>4, <1>5, <1>6, <1>7, <1>8, <1>10

\* A session ends, or its end is handled: agents, markers and names go.
LEMMA GoesAway ==
  ASSUME ResumeInv, UNCHANGED <<up, agentResumeWrite, lastCodex, started, handoff, forgotten,
                                request>>,
         \A s \in Sessions : running'[s] \in {0, running[s]} /\ agentName'[s] \in {0, agentName[s]}
                             /\ markers'[s] \in {<<>>, markers[s]},
         \A s \in Sessions : (sessionRow'[s] = "none") = (sessionRow[s] = "none"),
         \A s \in Sessions : sessionRow[s] = "ended" =>
                               sessionRow'[s] = "ended" /\ agentName'[s] = agentName[s],
         \A s \in Sessions : running'[s] # 0 => markers'[s] = markers[s] /\ s \notin showsCodex \ showsCodex'
  PROVE  MarkersFit' /\ RequestsFit' /\ StartedFit' /\ MarkerAwaited' /\ EntryKept' /\ AgentsFit'
<1> USE ResumeAssumption DEF ResumeInv
<1>1. MarkersFit'
  <2>1. \A i \in 2..Len(<<>>) : <<>>[i] = 0
    OBVIOUS
  <2> QED BY <2>1 DEF MarkersFit
<1>2. \A q \in ResumeRequests : request[q].made \in Sessions \cup {0} /\ request[q].of \in Sessions \cup {0}
  BY Typed DEF RequestRecords
<1>3. RequestsFit'
  <2>1. ASSUME NEW q \in ResumeRequests PROVE RequestFits(q)'
    <3>1. RequestFits(q)
      BY DEF RequestsFit
    <3> QED BY <1>2, <3>1 DEF RequestFits, AtWork
  <2> QED BY <2>1 DEF RequestsFit, AtWork
<1>4. \A s \in Sessions, c \in Conversations : Known(s, c)' => Known(s, c)
  <2> SUFFICES ASSUME NEW s \in Sessions, NEW c \in Conversations PROVE Known(s, c)' => Known(s, c)
    OBVIOUS
  <2>1. ~Contains(<<>>, c)
    BY EmptyContains
  <2> QED BY <2>1 DEF Known
<1>5. StartedFit' /\ AgentsFit'
  BY <1>4, NothingNew DEF AtWork
<1>6. MarkerAwaited'
  <2>1. ASSUME up, NEW t \in Sessions, markers'[t] # <<>>, Head(markers'[t]) \in WithoutId
        PROVE  \E q \in ResumeRequests :
                 /\ request'[q].made = t /\ request'[q].phase = "over"
                 /\ request'[q].mode \in {"last", "pick"}
    BY <2>1 DEF MarkerAwaited, WithoutId
  <2>2. ASSUME up, NEW t \in Sessions, running'[t] \in WithoutId
        PROVE  t \in showsCodex' \/ markers'[t] # <<>>
    BY <2>2 DEF MarkerAwaited, WithoutId
  <2> QED BY <2>1, <2>2 DEF MarkerAwaited
<1>7. EntryKept'
  <2>1. ASSUME NEW q \in ResumeRequests, StillOpens(q)' PROVE StillOpens(q)
    BY <1>2, <2>1 DEF StillOpens
  <2> QED BY <2>1 DEF EntryKept
<1> QED BY <1>1, <1>3, <1>5, <1>6, <1>7

\* What ends or is closed leaves fewer conversations known.
LEMMA EndSteps ==
  ASSUME ResumeInv, NEW s \in Sessions,
         SessionDies(s) \/ ExitHandled(s) \/ CloseLater(s) \/ UserClosesTab(s)
  PROVE  ResumeInv'
<1> USE ResumeAssumption DEF ResumeInv
<1>1. CASE SessionDies(s)
  <2>1. /\ sessionRow[s] = "active" /\ s \notin died /\ died' = died \cup {s}
        /\ agentEvents < MaxAgentEvents /\ agentEvents' = agentEvents + 1
        /\ running' = [running EXCEPT ![s] = 0] /\ atDeath' = [atDeath EXCEPT ![s] = running[s]]
        /\ UNCHANGED <<sessionRow, scheduled, agentName, reservedAt, stale, lastCodex, started,
                       up, terminals, showsCodex, agentResumeWrite, handoff, forgotten, markers,
                       request>>
    BY <1>1 DEF SessionDies, Lives, AgentEvent, Stops, sessionRows, memory
  <2>2. ResumeTypeOK'
    BY SMTT(30), <2>1 DEF ResumeTypeOK
  <2>3. RowsFit'
    BY <2>1 DEF RowsFit, ResumeTypeOK
  <2>4. \A t \in Sessions : running'[t] \in {0, running[t]}
    BY <2>1 DEF ResumeTypeOK
  <2> QED BY <2>1, <2>2, <2>3, <2>4, GoesAway
<1>2. CASE ExitHandled(s)
  <2>1. /\ up /\ s \in died /\ sessionRow[s] = "active" /\ died' = died \ {s}
        /\ sessionRow' = [sessionRow EXCEPT ![s] = "ended"] /\ scheduled' = scheduled \ {s}
        /\ terminals' = terminals \ {s} /\ showsCodex' = showsCodex \ {s}
        /\ markers' = [markers EXCEPT ![s] = <<>>]
        /\ \/ UNCHANGED <<agentName, reservedAt>>
           \/ agentName' = [agentName EXCEPT ![s] = 0] /\ reservedAt' = [reservedAt EXCEPT ![s] = 0]
        /\ UNCHANGED <<stale, running, lastCodex, atDeath, started, up, agentResumeWrite, handoff,
                       forgotten, request, agentEvents>>
    BY <1>2 DEF ExitHandled, EndsRow, Removes, Names
  <2>2. running[s] = 0
    BY <2>1 DEF RowsFit
  <2>3. ResumeTypeOK'
    <3>1. markers' \in [Sessions -> Seq(Conversations \cup {0})]
      BY <2>1, EmptySeq DEF ResumeTypeOK
    <3>2. sessionRow' \in [Sessions -> {"none", "active", "ended"}]
      BY <2>1 DEF ResumeTypeOK
    <3> QED BY <2>1, <3>1, <3>2 DEF ResumeTypeOK
  <2>4. RowsFit'
    BY <2>1, <2>2 DEF RowsFit, ResumeTypeOK
  <2>5. \A t \in Sessions : /\ markers'[t] = IF t = s THEN <<>> ELSE markers[t]
                            /\ sessionRow'[t] = IF t = s THEN "ended" ELSE sessionRow[t]
                            /\ agentName'[t] \in {agentName[t], IF t = s THEN 0 ELSE agentName[t]}
    BY <2>1 DEF ResumeTypeOK
  <2> QED BY <2>1, <2>2, <2>3, <2>4, <2>5, GoesAway
<1>3. CASE CloseLater(s)
  <2>1. /\ scheduled' \in {scheduled \ {s}, scheduled \cup {s}}
        /\ agentEvents < MaxAgentEvents /\ agentEvents' = agentEvents + 1
        /\ UNCHANGED <<sessionRow, agentName, reservedAt, stale, running, lastCodex, died,
                       atDeath, started, up, terminals, showsCodex, agentResumeWrite, handoff,
                       forgotten, markers, request>>
    BY <1>3 DEF CloseLater, AgentEvent, host, memory
  <2>2. ResumeTypeOK'
    BY <2>1 DEF ResumeTypeOK
  <2>3. RowsFit'
    BY <2>1 DEF RowsFit
  <2> QED BY <2>1, <2>2, <2>3, GoesAway
<1>4. CASE UserClosesTab(s)
  <2>1. /\ up /\ s \in terminals /\ s \notin died /\ sessionRow[s] = "active"
        /\ agentEvents < MaxAgentEvents /\ agentEvents' = agentEvents + 1
        /\ sessionRow' = [sessionRow EXCEPT ![s] = "ended"] /\ scheduled' = scheduled \ {s}
        /\ terminals' = terminals \ {s} /\ showsCodex' = showsCodex \ {s}
        /\ markers' = [markers EXCEPT ![s] = <<>>]
        /\ running' = [running EXCEPT ![s] = 0] /\ atDeath' = [atDeath EXCEPT ![s] = running[s]]
        /\ agentName' = [agentName EXCEPT ![s] = 0] /\ reservedAt' = [reservedAt EXCEPT ![s] = 0]
        /\ UNCHANGED <<stale, lastCodex, died, started, up, agentResumeWrite, handoff, forgotten,
                       request>>
    BY <1>4 DEF UserClosesTab, AgentEvent, EndsRow, Removes, Stops, Names, Lives
  <2>3. ResumeTypeOK'
    <3>1. markers' \in [Sessions -> Seq(Conversations \cup {0})]
      BY <2>1, EmptySeq DEF ResumeTypeOK
    <3>2. sessionRow' \in [Sessions -> {"none", "active", "ended"}]
      BY <2>1 DEF ResumeTypeOK
    <3> QED BY SMTT(30), <2>1, <3>1, <3>2 DEF ResumeTypeOK
  <2>4. RowsFit'
    BY <2>1 DEF RowsFit, ResumeTypeOK
  <2>5. \A t \in Sessions : /\ markers'[t] = IF t = s THEN <<>> ELSE markers[t]
                            /\ sessionRow'[t] = IF t = s THEN "ended" ELSE sessionRow[t]
                            /\ agentName'[t] = IF t = s THEN 0 ELSE agentName[t]
                            /\ running'[t] = IF t = s THEN 0 ELSE running[t]
    BY <2>1 DEF ResumeTypeOK
  <2> QED BY <2>1, <2>3, <2>4, <2>5, GoesAway
<1> QED BY <1>1, <1>2, <1>3, <1>4

\* A request that reserves: it is new at its row, and a --last that it plans
\* finds no other conversation without an id anywhere.
LEMMA ReserveStep ==
  ASSUME ResumeInv, NEW q \in ResumeRequests, NEW s \in Sessions, ResumeReserves(q, s)
  PROVE  ResumeInv'
<1> USE ResumeAssumption DEF ResumeInv
<1> DEFINE new == [phase |-> "create", of |-> s, mode |-> Mode(s), made |-> 0]
<1>1. /\ up /\ request[q].phase = "unused" /\ sessionRow[s] = "ended" /\ agentName[s] # 0
      /\ s \notin InProgress /\ \A t \in Sessions : agentResumeWrite[t] = <<>>
      /\ reservedAt' = [reservedAt EXCEPT ![s] = q]
      /\ handoff' = IF agentName[s] \in WithId THEN handoff ELSE q
      /\ request' = [request EXCEPT ![q] = new]
      /\ UNCHANGED <<sessionRow, scheduled, agentName, stale, running, lastCodex, died, atDeath,
                     started, up, terminals, showsCodex, agentResumeWrite, forgotten, markers,
                     agentEvents>>
  BY DEF ResumeReserves, host
<1>2. Mode(s) \in {"exact", "last", "pick"} /\ (Mode(s) = "exact" <=> agentName[s] \in WithId)
  BY DEF Mode
<1>3. new \in RequestRecords
  BY <1>2 DEF RequestRecords
<1>4. \A p \in ResumeRequests : request'[p] = IF p = q THEN new ELSE request[p]
  BY <1>1 DEF ResumeTypeOK
<1>5. \A p \in ResumeRequests : AtWork(p) => request[p].of # s
  BY <1>1 DEF InProgress, AtWork
<1>6. ResumeTypeOK'
  <2>1. request' \in [ResumeRequests -> RequestRecords]
    BY <1>1, <1>3 DEF ResumeTypeOK, RequestRecords
  <2> QED BY <1>1, <2>1 DEF ResumeTypeOK, RequestRecords
<1>7. RowsFit' /\ MarkersFit'
  BY <1>1 DEF RowsFit, MarkersFit
<1>8. new.phase = "create" /\ new.of = s /\ new.mode = Mode(s) /\ new.made = 0
  OBVIOUS
<1> HIDE DEF new
<1>9. RequestsFit'
  <2>1. ASSUME NEW p \in ResumeRequests PROVE RequestFits(p)'
    <3>1. RequestFits(p)
      BY DEF RequestsFit
    <3> QED BY <1>1, <1>2, <1>4, <1>8, <3>1 DEF RequestFits, AtWork
  <2>2. ASSUME NEW p \in ResumeRequests, NEW r \in ResumeRequests, p # r
        PROVE  /\ AtWork(p)' /\ AtWork(r)' => request'[p].of # request'[r].of
               /\ request'[p].made # 0 => request'[p].made # request'[r].made
    BY <1>4, <1>5, <1>8, <2>2 DEF RequestsFit, AtWork
  <2> QED BY <2>1, <2>2 DEF RequestsFit
<1>10. \A t \in Sessions, c \in Conversations : Known(t, c)' <=> Known(t, c)
  BY <1>1 DEF Known
<1>11. StartedFit'
  BY <1>1, <1>10 DEF StartedFit
<1>12. MarkerAwaited'
  <2>1. ASSUME NEW t \in Sessions, markers'[t] # <<>>, Head(markers'[t]) \in WithoutId
        PROVE  \E p \in ResumeRequests :
                 /\ request'[p].made = t /\ request'[p].phase = "over"
                 /\ request'[p].mode \in {"last", "pick"}
    BY <1>1, <1>4, <2>1 DEF MarkerAwaited
  <2> QED BY <1>1, <2>1 DEF MarkerAwaited
<1>13. EntryKept'
  <2>1. ASSUME handoff' = 0, NEW p \in ResumeRequests, StillOpens(p)' PROVE StillOpens(p)
    BY <1>1, <1>2, <1>4, <1>8, <2>1 DEF StillOpens
  <2>2. handoff' = 0 => handoff = 0
    BY <1>1
  <2> QED BY <1>1, <2>1, <2>2 DEF EntryKept
<1>14. ASSUME ~forgotten, Mode(s) = "last"
       PROVE  \A t \in Sessions \ {s}, c \in WithoutId : ~Known(t, c)
  <2> SUFFICES ASSUME NEW t \in Sessions \ {s}, NEW c \in WithoutId PROVE ~Known(t, c)
    OBVIOUS
  <2>1. /\ handoff = 0 /\ showsCodex \ {s} = {}
        /\ \A u \in Sessions \ {s} : agentName[u] \notin WithoutId
    BY <1>14 DEF Mode, CodexFolderShared, WithoutId
  <2>2. \A p \in ResumeRequests : ~StillOpens(p)
    BY <1>1, <1>14, <2>1 DEF EntryKept
  <2>3. ~(markers[t] # <<>> /\ Head(markers[t]) \in WithoutId)
    <3> SUFFICES ASSUME markers[t] # <<>>, Head(markers[t]) \in WithoutId PROVE FALSE
      OBVIOUS
    <3>1. PICK p \in ResumeRequests : /\ request[p].made = t /\ request[p].phase = "over"
                                      /\ request[p].mode \in {"last", "pick"}
      BY <1>1 DEF MarkerAwaited
    <3>2. StillOpens(p)
      BY <3>1 DEF StillOpens, WithoutId
    <3> QED BY <2>2, <3>2
  <2>4. ~Contains(markers[t], c)
    <3> SUFFICES ASSUME Contains(markers[t], c) PROVE FALSE
      OBVIOUS
    <3>1. markers[t] \in Seq(Conversations \cup {0}) /\ c # 0
      BY Typed DEF WithoutId
    <3>2. PICK i \in 1..Len(markers[t]) : markers[t][i] = c
      BY DEF Contains
    <3>3. i = 1 /\ markers[t] # <<>>
      BY <3>1, <3>2 DEF MarkersFit
    <3> QED BY <2>3, <3>1, <3>2, <3>3
  <2>5. running[t] # c
    <3>1. running[t] \in WithoutId => markers[t] # <<>>
      BY <1>1, <2>1 DEF MarkerAwaited
    <3>2. running[t] \in WithoutId => markers[t] = <<running[t]>>
      BY <3>1 DEF MarkersFit, WithoutId
    <3> QED BY <2>3, <3>1, <3>2
  <2>6. ~Contains(agentResumeWrite[t], c)
    BY <1>1, EmptyContains
  <2> QED BY <2>1, <2>4, <2>5, <2>6 DEF Known
<1>15. AgentsFit'
  <2> SUFFICES ASSUME ~forgotten PROVE OneHome' /\ LastAlone'
    BY <1>1 DEF AgentsFit
  <2>1. OneHome /\ LastAlone
    BY DEF AgentsFit
  <2>2. OneHome'
    BY <1>10, <2>1 DEF OneHome
  <2>3. ASSUME NEW p \in ResumeRequests, AtWork(p)', request'[p].mode = "last"
        PROVE  \A t \in Sessions \ {request'[p].of}, c \in WithoutId : ~Known(t, c)'
    <3>1. CASE p = q
      BY <1>4, <1>8, <1>10, <1>14, <2>3, <3>1 DEF WithoutId
    <3>2. CASE p # q
      BY <1>4, <1>10, <2>1, <2>3, <3>2 DEF LastAlone, AtWork, WithoutId
    <3> QED BY <3>1, <3>2
  <2> QED BY <2>2, <2>3 DEF LastAlone
<1> QED BY <1>6, <1>7, <1>9, <1>11, <1>12, <1>13, <1>15

\* A request that moves on leaves every other as it was.
LEMMA RequestMoves ==
  ASSUME ResumeTypeOK, NEW q \in ResumeRequests, NEW n \in Sessions \cup {0},
         NEW ph \in {"typed", "over"},
         request' = [request EXCEPT ![q].phase = ph, ![q].made = n]
  PROVE  /\ request' \in [ResumeRequests -> RequestRecords]
         /\ \A p \in ResumeRequests : p # q => request'[p] = request[p]
         /\ request'[q].phase = ph /\ request'[q].made = n
         /\ request'[q].of = request[q].of /\ request'[q].mode = request[q].mode
<1>1. request \in [ResumeRequests -> RequestRecords]
  BY DEF ResumeTypeOK, RequestRecords
<1> DEFINE new == [request[q] EXCEPT !.phase = ph, !.made = n]
<1>2. request[q] \in RequestRecords
  BY <1>1
<1>3. /\ new \in RequestRecords /\ new.phase = ph /\ new.made = n
      /\ new.of = request[q].of /\ new.mode = request[q].mode
  BY <1>2 DEF RequestRecords
<1>4. request' = [request EXCEPT ![q] = new]
  BY <1>1
<1> HIDE DEF new
<1> QED BY ZenonT(60), <1>1, <1>3, <1>4

\* A request that is released, and leaves a terminal or none.
LEMMA Releasing ==
  ASSUME ResumeInv, NEW q \in ResumeRequests, NEW n \in Sessions \cup {0},
         Releases(q), ResumeOver(q, n), AtWork(q),
         UNCHANGED <<scheduled, agentName, stale, host, up, showsCodex, agentResumeWrite,
                     markers, agentEvents>>,
         n = 0 \/ markers[n] = <<>>,
         n # 0 => \A p \in ResumeRequests \ {q} : request[p].made # n,
         n # 0 => sessionRow'[n] # "none",
         \A s \in Sessions : \/ sessionRow'[s] = sessionRow[s]
                             \/ sessionRow[s] = "none" /\ sessionRow'[s] = "active",
         ResumeTypeOK', RowsFit'
  PROVE  ResumeInv'
<1> USE ResumeAssumption DEF ResumeInv
<1>1. /\ \A p \in ResumeRequests : p # q => request'[p] = request[p]
      /\ request'[q].phase = "over" /\ request'[q].made = n
      /\ request'[q].of = request[q].of /\ request'[q].mode = request[q].mode
  BY RequestMoves DEF ResumeOver
<1>2. /\ handoff' = IF handoff = q THEN 0 ELSE handoff
      /\ forgotten' = (forgotten \/ (handoff = q /\ \E p \in ResumeRequests \ {q} : StillOpens(p)))
  BY DEF Releases, OthersOpen
<1>3. UNCHANGED <<running, lastCodex, died, atDeath, started, agentName, up, agentResumeWrite,
                  markers, showsCodex>>
  BY DEF host
<1>4. MarkersFit'
  BY <1>3 DEF MarkersFit
<1>5. RequestsFit'
  <2>0. \A p \in ResumeRequests : request[p].made \in Sessions \cup {0} /\ request[p].of \in Sessions \cup {0}
    BY Typed DEF RequestRecords
  <2>1. ASSUME NEW p \in ResumeRequests PROVE RequestFits(p)'
    <3>1. RequestFits(p)
      BY DEF RequestsFit
    <3>2. CASE p = q
      BY <1>1, <3>2 DEF RequestFits, AtWork
    <3>3. CASE p # q
      <4>1. request'[p] = request[p] /\ UNCHANGED <<up, running, agentName, markers, agentResumeWrite>>
        BY <1>1, <1>3, <3>3
      <4>2. \A t \in Sessions : sessionRow[t] # "none" => sessionRow'[t] = sessionRow[t]
        OBVIOUS
      <4>3. request[p].made # 0 => sessionRow'[request[p].made] # "none"
        BY <2>0, <3>1, <4>2 DEF RequestFits
      <4>4. AtWork(p) => sessionRow'[request[p].of] = "ended"
        BY <3>1, <4>2 DEF RequestFits
      <4> QED BY <3>1, <4>1, <4>3, <4>4 DEF RequestFits, AtWork
    <3> QED BY <3>2, <3>3
  <2>2. ASSUME NEW p \in ResumeRequests, NEW r \in ResumeRequests, p # r
        PROVE  /\ AtWork(p)' /\ AtWork(r)' => request'[p].of # request'[r].of
               /\ request'[p].made # 0 => request'[p].made # request'[r].made
    BY <1>1, <2>2 DEF RequestsFit, AtWork
  <2> QED BY <2>1, <2>2 DEF RequestsFit
<1>6. \A t \in Sessions, c \in Conversations : Known(t, c)' => Known(t, c)
  BY <1>3 DEF Known
<1>7. StartedFit' /\ AgentsFit'
  BY <1>1, <1>2, <1>3, <1>6, NothingNew DEF AtWork
<1>8. MarkerAwaited'
  <2>1. ASSUME up, NEW t \in Sessions, markers'[t] # <<>>, Head(markers'[t]) \in WithoutId
        PROVE  \E p \in ResumeRequests :
                 /\ request'[p].made = t /\ request'[p].phase = "over"
                 /\ request'[p].mode \in {"last", "pick"}
    <3>1. PICK p \in ResumeRequests : /\ request[p].made = t /\ request[p].phase = "over"
                                      /\ request[p].mode \in {"last", "pick"}
      BY <1>3, <2>1 DEF MarkerAwaited
    <3> QED BY <1>1, <3>1 DEF AtWork
  <2>2. ASSUME up, NEW t \in Sessions, running'[t] \in WithoutId
        PROVE  t \in showsCodex' \/ markers'[t] # <<>>
    BY <1>3, <2>2 DEF MarkerAwaited
  <2>3. up' => up
    BY <1>3
  <2>4. ASSUME up', NEW t \in Sessions
        PROVE  /\ markers'[t] # <<>> /\ Head(markers'[t]) \in WithoutId' =>
                    \E p \in ResumeRequests :
                      /\ request'[p].made = t /\ request'[p].phase = "over"
                      /\ request'[p].mode \in {"last", "pick"}
               /\ running'[t] \in WithoutId' => t \in showsCodex' \/ markers'[t] # <<>>
    <3>1. up
      BY <2>3, <2>4
    <3>2. WithoutId' = WithoutId
      BY DEF WithoutId
    <3> QED BY <2>1, <2>2, <3>1, <3>2
  <2> QED BY <2>4 DEF MarkerAwaited
<1>9. EntryKept'
  <2> SUFFICES ASSUME up, handoff' = 0, ~forgotten', NEW p \in ResumeRequests, StillOpens(p)'
               PROVE  FALSE
    BY <1>3 DEF EntryKept
  <2>1. p # q
    BY <1>1, <1>3 DEF StillOpens
  <2>2. StillOpens(p)
    BY <1>1, <1>3, <2>1 DEF StillOpens
  <2>3. handoff = 0 \/ handoff = q
    BY <1>2
  <2> QED BY <1>2, <2>1, <2>2, <2>3 DEF EntryKept
<1> QED BY <1>4, <1>5, <1>7, <1>8, <1>9

\* A resume that fails releases its row.
LEMMA FailSteps ==
  ASSUME ResumeInv, NEW q \in ResumeRequests, ResumeFails(q) \/ EnterFails(q)
  PROVE  ResumeInv'
<1> USE ResumeAssumption DEF ResumeInv
<1> DEFINE n == IF request[q].phase = "create" THEN 0 ELSE request[q].made
<1>1. /\ AtWork(q) /\ ResumeOver(q, n) /\ Releases(q)
      /\ UNCHANGED <<sessionRow, scheduled, agentName, stale, host, up, terminals, showsCodex,
                     agentResumeWrite, markers, agentEvents>>
  BY DEF ResumeFails, EnterFails, AtWork
<1>2. n \in Sessions \cup {0} /\ RequestFits(q)
  BY Typed DEF RequestRecords, RequestsFit
<1>3. /\ n = 0 \/ markers[n] = <<>>
      /\ n # 0 => \A p \in ResumeRequests \ {q} : request[p].made # n
      /\ n # 0 => sessionRow[n] # "none"
  BY <1>1, <1>2 DEF RequestsFit, RequestFits, AtWork
<1>4. reservedAt' \in [Sessions -> ResumeRequests \cup {0}] /\ handoff' \in ResumeRequests \cup {0}
      /\ forgotten' \in BOOLEAN
  BY <1>1 DEF Releases, ResumeTypeOK
<1> HIDE DEF n
<1>5. request' \in [ResumeRequests -> RequestRecords]
  BY <1>1, <1>2, RequestMoves DEF ResumeOver
<1>6. ResumeTypeOK' /\ RowsFit'
  <2>1. ResumeTypeOK'
    BY <1>1, <1>4, <1>5 DEF ResumeTypeOK, RequestRecords, host
  <2>2. RowsFit'
    BY <1>1 DEF RowsFit, host
  <2> QED BY <2>1, <2>2
<1> QED BY <1>1, <1>2, <1>3, <1>6, Releasing

\* The terminal that a create makes, or finds, is its request's only.
LEMMA CreateStep ==
  ASSUME ResumeInv, NEW q \in ResumeRequests, NEW n \in Sessions, NEW same \in BOOLEAN,
         CreateDone(q, n, same)
  PROVE  ResumeInv'
<1> USE ResumeAssumption DEF ResumeInv
<1>1. /\ up /\ request[q].phase = "create" /\ AtWork(q)
      /\ sessionRow[n] = "none" /\ sessionRow' = [sessionRow EXCEPT ![n] = "active"]
      /\ terminals' = terminals \cup {n}
      /\ UNCHANGED <<scheduled, agentName, stale, host, up, showsCodex, agentResumeWrite,
                     markers, agentEvents>>
  BY DEF CreateDone, AtWork
<1>2. UNCHANGED <<running, lastCodex, died, atDeath, started>>
  BY <1>1 DEF host
<1>3. /\ running[n] = 0 /\ n \notin died /\ agentName[n] = 0 /\ agentResumeWrite[n] = <<>>
      /\ markers[n] = <<>>
  BY <1>1 DEF RowsFit
<1>4. \A p \in ResumeRequests : /\ request[p].made # n
                               /\ request[p].made \in Sessions \cup {0}
                               /\ request[p].of \in Sessions \cup {0}
  BY <1>1, Typed DEF RequestsFit, RequestFits, RequestRecords
<1>5. \A s \in Sessions : sessionRow'[s] = IF s = n THEN "active" ELSE sessionRow[s]
  BY <1>1 DEF ResumeTypeOK
<1>6. RowsFit'
  BY <1>1, <1>2, <1>3, <1>5 DEF RowsFit
<1>7. sessionRow' \in [Sessions -> {"none", "active", "ended"}] /\ terminals' \subseteq Sessions
  BY <1>1 DEF ResumeTypeOK
<1>8. CASE ResumeOver(q, n) /\ Releases(q)
  <2>1. /\ reservedAt' \in [Sessions -> ResumeRequests \cup {0}]
        /\ handoff' \in ResumeRequests \cup {0} /\ forgotten' \in BOOLEAN
    BY <1>8 DEF Releases, ResumeTypeOK
  <2>2. request' \in [ResumeRequests -> RequestRecords]
    BY <1>8, RequestMoves DEF ResumeOver
  <2>3. ResumeTypeOK'
    BY <1>1, <1>2, <1>7, <2>1, <2>2 DEF ResumeTypeOK, RequestRecords
  <2> QED BY <1>1, <1>3, <1>4, <1>5, <1>6, <1>8, <2>3, Releasing
<1>9. CASE /\ request' = [request EXCEPT ![q].phase = "typed", ![q].made = n]
           /\ UNCHANGED <<reservedAt, handoff, forgotten>>
  <2>1. /\ request' \in [ResumeRequests -> RequestRecords]
        /\ \A p \in ResumeRequests : p # q => request'[p] = request[p]
        /\ request'[q].phase = "typed" /\ request'[q].made = n
        /\ request'[q].of = request[q].of /\ request'[q].mode = request[q].mode
    BY <1>9, RequestMoves
  <2>2. ResumeTypeOK'
    BY <1>1, <1>2, <1>7, <1>9, <2>1 DEF ResumeTypeOK, RequestRecords
  <2>3. MarkersFit'
    BY <1>1, <1>2 DEF MarkersFit
  <2>4. RequestsFit'
    <3>1. ASSUME NEW p \in ResumeRequests PROVE RequestFits(p)'
      <4>1. RequestFits(p)
        BY DEF RequestsFit
      <4>2. CASE p = q
        BY <1>1, <1>2, <1>3, <1>5, <2>1, <4>1, <4>2 DEF RequestFits, AtWork
      <4>3. CASE p # q
        BY <1>1, <1>2, <1>4, <1>5, <2>1, <4>1, <4>3 DEF RequestFits, AtWork
      <4> QED BY <4>2, <4>3
    <3>2. ASSUME NEW p \in ResumeRequests, NEW r \in ResumeRequests, p # r
          PROVE  /\ AtWork(p)' /\ AtWork(r)' => request'[p].of # request'[r].of
                 /\ request'[p].made # 0 => request'[p].made # request'[r].made
      BY <1>1, <1>4, <2>1, <3>2 DEF RequestsFit, AtWork
    <3> QED BY <3>1, <3>2 DEF RequestsFit
  <2>5. \A t \in Sessions, c \in Conversations : Known(t, c)' => Known(t, c)
    BY <1>1, <1>2 DEF Known
  <2>6. StartedFit' /\ AgentsFit'
    BY <1>1, <1>2, <1>9, <2>1, <2>5, NothingNew DEF AtWork
  <2>7. MarkerAwaited'
    <3>1. ASSUME NEW t \in Sessions, markers'[t] # <<>>, Head(markers'[t]) \in WithoutId
          PROVE  \E p \in ResumeRequests :
                   /\ request'[p].made = t /\ request'[p].phase = "over"
                   /\ request'[p].mode \in {"last", "pick"}
      <4>1. PICK p \in ResumeRequests : /\ request[p].made = t /\ request[p].phase = "over"
                                        /\ request[p].mode \in {"last", "pick"}
        BY <1>1, <3>1 DEF MarkerAwaited
      <4> QED BY <1>1, <2>1, <4>1
    <3> QED BY <1>1, <1>2, <3>1 DEF MarkerAwaited
  <2>8. EntryKept'
    <3>1. ASSUME NEW p \in ResumeRequests, StillOpens(p)' PROVE StillOpens(p)
      BY <1>1, <2>1, <3>1 DEF StillOpens
    <3> QED BY <1>1, <1>9, <3>1 DEF EntryKept
  <2> QED BY <1>6, <2>2, <2>3, <2>4, <2>6, <2>7, <2>8
<1> QED BY <1>8, <1>9 DEF CreateDone

\* Enter: the conversation leaves its row for the new terminal, and nobody
\* else has it.
LEMMA EnterStep ==
  ASSUME ResumeInv, NEW q \in ResumeRequests, Enter(q)
  PROVE  ResumeInv'
<1> USE ResumeAssumption DEF ResumeInv
<1> DEFINE n == request[q].made
           of == request[q].of
           c == Opens(q)
<1>1. /\ up /\ request[q].phase = "typed" /\ AtWork(q) /\ Lives(n) /\ n \in terminals
      /\ ResumeOver(q, n)
      /\ agentName' = [agentName EXCEPT ![of] = 0] /\ reservedAt' = [reservedAt EXCEPT ![of] = 0]
      /\ running' = [running EXCEPT ![n] = c] /\ markers' = [markers EXCEPT ![n] = Append(@, c)]
      /\ lastCodex' = IF c \in WithId THEN lastCodex ELSE c
      /\ UNCHANGED <<sessionRow, scheduled, stale, died, atDeath, started, up, terminals,
                     showsCodex, agentResumeWrite, handoff, forgotten, agentEvents>>
  BY DEF Enter, Names, Opened, Marks, memory, AtWork
<1>2. RequestFits(q)
  BY DEF RequestsFit
<1>3. /\ of \in Sessions /\ sessionRow[of] = "ended" /\ agentName[of] # 0
      /\ agentResumeWrite[of] = <<>> /\ markers[of] = <<>> /\ running[of] = 0
      /\ request[q].mode \in {"exact", "last", "pick"}
      /\ request[q].mode = "exact" <=> agentName[of] \in WithId
  BY <1>1, <1>2 DEF RequestFits, RowsFit
<1>4. /\ n \in Sessions /\ running[n] = 0 /\ agentName[n] = 0 /\ markers[n] = <<>>
      /\ agentResumeWrite[n] = <<>> /\ sessionRow[n] = "active" /\ n \notin died /\ n # of
  BY <1>1, <1>2, <1>3 DEF RequestFits, RowsFit, Lives, ResumeTypeOK
<1>5. c = IF request[q].mode = "last" THEN lastCodex ELSE agentName[of]
  BY DEF Opens
<1>6. c \in Conversations \cup {0}
  BY ZenonT(60), <1>3, <1>5 DEF ResumeTypeOK
<1>7. request[q].mode = "last" => c = 0 \/ c \in started \ WithId
  BY <1>5 DEF StartedFit
<1>8. request[q].mode # "last" => c # 0 /\ Known(of, c) /\ c \in started
  BY <1>3, <1>5, <1>6 DEF StartedFit, Known
<1>9. c \in WithoutId => request[q].mode \in {"last", "pick"}
  BY <1>3, <1>5 DEF WithoutId
<1> HIDE DEF c
<1>10. /\ Append(<<>>, c) \in Seq(Conversations \cup {0}) /\ Append(<<>>, c) # <<>>
       /\ Head(Append(<<>>, c)) = c /\ Append(<<>>, c) = <<c>>
       /\ \A d : Contains(Append(<<>>, c), d) => d = c
  <2>1. <<>> \in Seq(Conversations \cup {0})
    BY EmptySeq
  <2>2. Append(<<>>, c) = <<c>>
    OBVIOUS
  <2>3. Append(<<>>, c) \in Seq(Conversations \cup {0}) /\ Append(<<>>, c) # <<>>
    BY <1>6, <2>1, AppendProperties
  <2>4. Head(Append(<<>>, c)) = c
    BY <2>2
  <2>5. \A d : Contains(Append(<<>>, c), d) => d = c
    BY ZenonT(60), <1>6, <2>1, AppendContains, EmptyContains
  <2> QED BY <2>2, <2>3, <2>4, <2>5
<1>11. /\ request' \in [ResumeRequests -> RequestRecords]
       /\ \A p \in ResumeRequests : p # q => request'[p] = request[p]
       /\ request'[q].phase = "over" /\ request'[q].made = n
       /\ request'[q].of = of /\ request'[q].mode = request[q].mode
  BY <1>1, <1>4, RequestMoves DEF ResumeOver
<1>12. \A t \in Sessions :
         /\ agentName'[t] = IF t = of THEN 0 ELSE agentName[t]
         /\ running'[t] = IF t = n THEN c ELSE running[t]
         /\ markers'[t] = IF t = n THEN Append(<<>>, c) ELSE markers[t]
  BY <1>1, <1>4 DEF ResumeTypeOK
<1>13. ResumeTypeOK'
  <2>1. agentName' \in [Sessions -> Conversations \cup {0}]
    BY <1>1 DEF ResumeTypeOK
  <2>2. reservedAt' \in [Sessions -> ResumeRequests \cup {0}]
    BY <1>1 DEF ResumeTypeOK
  <2>3. running' \in [Sessions -> Conversations \cup {0}] /\ lastCodex' \in Conversations \cup {0}
    BY <1>1, <1>6 DEF ResumeTypeOK
  <2>4. markers' \in [Sessions -> Seq(Conversations \cup {0})]
    BY <1>1, <1>4, <1>10 DEF ResumeTypeOK
  <2> QED BY <1>1, <1>11, <2>1, <2>2, <2>3, <2>4 DEF ResumeTypeOK, RequestRecords
<1>14. RowsFit'
  BY <1>1, <1>3, <1>4, <1>12 DEF RowsFit
<1>15. MarkersFit'
  <2>1. \A i \in 2..Len(<<c>>) : FALSE
    OBVIOUS
  <2> QED BY <1>10, <1>12, <2>1 DEF MarkersFit
<1>16. RequestsFit'
  <2>1. ASSUME NEW p \in ResumeRequests PROVE RequestFits(p)'
    <3>1. RequestFits(p)
      BY DEF RequestsFit
    <3>2. CASE p = q
      BY <1>1, <1>4, <1>11, <3>2 DEF RequestFits, AtWork
    <3>3. CASE p # q
      <4>1. AtWork(p) => request[p].of # of /\ request[p].of \in Sessions /\ sessionRow[request[p].of] = "ended"
        BY <1>1, <3>1, <3>3 DEF RequestsFit, RequestFits
      <4>2. request[p].made # 0 => request[p].made # n /\ request[p].made \in Sessions
        BY <3>3, Typed DEF RequestsFit, RequestRecords
      <4>3. request'[p] = request[p]
        BY <1>11, <3>3
      <4> QED BY <1>1, <1>4, <1>12, <3>1, <4>1, <4>2, <4>3 DEF RequestFits, AtWork
    <3> QED BY <3>2, <3>3
  <2>2. ASSUME NEW p \in ResumeRequests, NEW r \in ResumeRequests, p # r
        PROVE  /\ AtWork(p)' /\ AtWork(r)' => request'[p].of # request'[r].of
               /\ request'[p].made # 0 => request'[p].made # request'[r].made
    <3>1. \A x \in ResumeRequests : request'[x].of = request[x].of /\ request'[x].made = request[x].made
                                    /\ (AtWork(x)' => AtWork(x))
      BY <1>11 DEF AtWork
    <3> QED BY <2>2, <3>1 DEF RequestsFit
  <2> QED BY <2>1, <2>2 DEF RequestsFit
<1>17. \A t \in Sessions, d \in Conversations :
         Known(t, d)' => \/ t # of /\ Known(t, d)
                         \/ t = n /\ d = c
  BY <1>1, <1>3, <1>10, <1>12, EmptyContains DEF Known
<1>18. StartedFit'
  <2>1. \A t \in Sessions, d \in Conversations : Known(t, d)' => d \in started
    BY <1>7, <1>8, <1>17 DEF StartedFit
  <2>2. lastCodex' # 0 => lastCodex' \in started \ WithId
    BY <1>1, <1>7, <1>8 DEF StartedFit
  <2> QED BY <1>1, <2>1, <2>2 DEF StartedFit
<1>19. MarkerAwaited'
  <2>1. ASSUME NEW t \in Sessions, markers'[t] # <<>>, Head(markers'[t]) \in WithoutId
        PROVE  \E p \in ResumeRequests :
                 /\ request'[p].made = t /\ request'[p].phase = "over"
                 /\ request'[p].mode \in {"last", "pick"}
    <3>1. CASE t = n
      BY <1>9, <1>10, <1>11, <1>12, <2>1, <3>1
    <3>2. CASE t # n
      <4>1. markers'[t] = markers[t]
        BY <1>12, <3>2
      <4>2. up /\ markers[t] # <<>> /\ Head(markers[t]) \in WithoutId
        BY <1>1, <2>1, <4>1
      <4>3. PICK p \in ResumeRequests : /\ request[p].made = t /\ request[p].phase = "over"
                                        /\ request[p].mode \in {"last", "pick"}
        BY <4>2 DEF MarkerAwaited
      <4> QED BY <1>1, <1>11, <4>3
    <3> QED BY <3>1, <3>2
  <2>2. ASSUME NEW t \in Sessions, running'[t] \in WithoutId
        PROVE  t \in showsCodex' \/ markers'[t] # <<>>
    <3>1. CASE t = n
      BY <1>10, <1>12, <3>1
    <3>2. CASE t # n
      <4>1. running'[t] = running[t] /\ markers'[t] = markers[t]
        BY <1>12, <3>2
      <4> QED BY <1>1, <2>2, <4>1 DEF MarkerAwaited
    <3> QED BY <3>1, <3>2
  <2> QED BY <1>1, <2>1, <2>2 DEF MarkerAwaited
<1>20. EntryKept'
  <2>1. ASSUME NEW p \in ResumeRequests, StillOpens(p)' PROVE StillOpens(p)
    <3>1. CASE p = q
      BY <1>1, <1>11, <2>1, <3>1 DEF StillOpens
    <3>2. CASE p # q
      <4>1. request[p].made # 0 => request[p].made # n /\ request[p].made \in Sessions
        BY <3>2, Typed DEF RequestsFit, RequestRecords
      <4>2. request[p].made # 0 => markers'[request[p].made] = markers[request[p].made]
        BY <1>12, <4>1
      <4>3. request'[p] = request[p]
        BY <1>11, <3>2
      <4> QED BY <2>1, <4>2, <4>3 DEF StillOpens
    <3> QED BY <3>1, <3>2
  <2> QED BY <1>1, <2>1 DEF EntryKept
<1>21. ASSUME ~forgotten, NEW t \in Sessions \ {of}, c # 0 PROVE ~Known(t, c)
  <2>1. CASE request[q].mode = "last"
    BY <1>1, <1>6, <1>7, <1>21, <2>1 DEF AgentsFit, LastAlone, WithoutId
  <2>2. CASE request[q].mode # "last"
    BY <1>3, <1>6, <1>8, <1>21, <2>2 DEF AgentsFit, OneHome
  <2> QED BY <2>1, <2>2
<1>22. AgentsFit'
  <2> SUFFICES ASSUME ~forgotten PROVE OneHome' /\ LastAlone'
    BY <1>1 DEF AgentsFit
  <2>1. OneHome'
    <3> SUFFICES ASSUME NEW t \in Sessions, NEW u \in Sessions, NEW d \in Conversations,
                        Known(t, d)', Known(u, d)'
                 PROVE  t = u
      BY DEF OneHome
    <3>1. CASE d = c
      BY <1>17, <1>21, <3>1
    <3>2. CASE d # c
      BY <1>17, <3>2 DEF AgentsFit, OneHome
    <3> QED BY <3>1, <3>2
  <2>2. ASSUME NEW p \in ResumeRequests, AtWork(p)', request'[p].mode = "last",
               NEW t \in Sessions \ {request'[p].of}, NEW d \in WithoutId, Known(t, d)'
        PROVE  FALSE
    <3>1. p # q /\ AtWork(p) /\ request[p].mode = "last" /\ request'[p].of = request[p].of
      BY <1>11, <2>2 DEF AtWork
    <3>2. ~Known(t, d)
      BY <2>2, <3>1 DEF AgentsFit, LastAlone, WithoutId
    <3>3. t = n /\ d = c
      BY <1>17, <2>2, <3>2 DEF WithoutId
    <3>4. c \in Conversations /\ request[q].mode \in {"last", "pick"}
      BY <1>9, <2>2, <3>3 DEF WithoutId
    <3>5. agentName[of] \in WithoutId /\ Known(of, agentName[of])
      BY <1>3, <3>4 DEF WithoutId, Known, ResumeTypeOK
    <3>6. of # request[p].of
      BY <1>1, <3>1 DEF RequestsFit
    <3> QED BY <1>3, <3>1, <3>5, <3>6 DEF AgentsFit, LastAlone
  <2> QED BY <2>1, <2>2 DEF LastAlone
<1> QED BY <1>13, <1>14, <1>15, <1>16, <1>18, <1>19, <1>20, <1>22

\* Stop and start, and a hand-over or a reservation that runs out.
LEMMA ServiceKeeps ==
  ASSUME ResumeInv,
         \/ HandoffEnds \/ ServiceStops \/ ServiceStarts \/ UNCHANGED resumeVars
         \/ \E q \in ResumeRequests : ReservationAges(q)
  PROVE  ResumeInv'
<1> USE ResumeAssumption DEF ResumeInv
<1>1. CASE HandoffEnds
  <2>1. /\ \A q \in ResumeRequests : ~StillOpens(q)
        /\ handoff' = 0
        /\ UNCHANGED <<sessionRow, scheduled, agentName, reservedAt, stale, running, lastCodex,
                       died, atDeath, started, up, terminals, showsCodex, agentResumeWrite,
                       forgotten, markers, request, agentEvents>>
    BY <1>1 DEF HandoffEnds, sessionRows, host
  <2>2. ResumeTypeOK' /\ RowsFit' /\ MarkersFit' /\ MarkerAwaited'
    BY <2>1 DEF ResumeTypeOK, RowsFit, MarkersFit, MarkerAwaited
  <2>3. RequestsFit'
    BY <2>1 DEF RequestsFit, RequestFits, AtWork
  <2>4. \A t \in Sessions, c \in Conversations : Known(t, c)' => Known(t, c)
    BY <2>1 DEF Known
  <2>5. StartedFit' /\ AgentsFit'
    BY <2>1, <2>4, NothingNew DEF AtWork
  <2>6. EntryKept'
    BY <2>1 DEF EntryKept, StillOpens
  <2> QED BY <2>2, <2>3, <2>5, <2>6
<1>2. CASE ServiceStops
  <2>1. /\ up' = FALSE /\ terminals' = {} /\ showsCodex' = {} /\ handoff' = 0
        /\ agentEvents < MaxAgentEvents /\ agentEvents' = agentEvents + 1
        /\ agentResumeWrite' = [s \in Sessions |-> <<>>]
        /\ request' = [q \in ResumeRequests |->
             IF request[q].phase \in {"create", "typed"}
             THEN [request[q] EXCEPT !.phase = "lost"] ELSE request[q]]
        /\ UNCHANGED <<sessionRow, scheduled, agentName, reservedAt, stale, running, lastCodex,
                       died, atDeath, started, forgotten, markers>>
    BY <1>2 DEF ServiceStops, AgentEvent, sessionRows, host
  <2>2. \A q \in ResumeRequests :
          /\ request[q] \in RequestRecords /\ [request[q] EXCEPT !.phase = "lost"] \in RequestRecords
          /\ [request[q] EXCEPT !.phase = "lost"].of = request[q].of
          /\ [request[q] EXCEPT !.phase = "lost"].made = request[q].made
          /\ [request[q] EXCEPT !.phase = "lost"].phase = "lost"
    BY Typed DEF RequestRecords
  <2>3. request' \in [ResumeRequests -> RequestRecords]
    BY <2>1, <2>2
  <2>4. \A q \in ResumeRequests : /\ request'[q].of = request[q].of
                                  /\ request'[q].made = request[q].made
                                  /\ ~AtWork(q)'
    BY <2>1, <2>2 DEF AtWork
  <2>5. ResumeTypeOK'
    <3>1. agentResumeWrite' \in [Sessions -> Seq(Conversations \cup {0})]
      BY <2>1, EmptySeq
    <3>2. handoff' \in ResumeRequests \cup {0} /\ up' \in BOOLEAN
          /\ terminals' \subseteq Sessions /\ showsCodex' \subseteq Sessions
      BY <2>1
    <3>3. agentEvents' \in 0..MaxAgentEvents
      BY <2>1 DEF ResumeTypeOK
    <3>4. request' \in [ResumeRequests -> [phase : {"unused", "create", "typed", "over", "lost"},
                               of : Sessions \cup {0},
                               mode : {"none", "exact", "last", "pick"},
                               made : Sessions \cup {0}]]
      BY <2>3 DEF RequestRecords
    <3>5. /\ sessionRow' \in [Sessions -> {"none", "active", "ended"}]
          /\ scheduled' \subseteq Sessions
          /\ agentName' \in [Sessions -> Conversations \cup {0}]
          /\ reservedAt' \in [Sessions -> ResumeRequests \cup {0}]
          /\ stale' \subseteq ResumeRequests
          /\ running' \in [Sessions -> Conversations \cup {0}]
          /\ lastCodex' \in Conversations \cup {0}
          /\ markers' \in [Sessions -> Seq(Conversations \cup {0})]
          /\ died' \subseteq Sessions /\ atDeath' \in [Sessions -> Conversations \cup {0}]
          /\ started' \subseteq Conversations /\ forgotten' \in BOOLEAN
      BY <2>1 DEF ResumeTypeOK
    <3> QED BY <3>1, <3>2, <3>3, <3>4, <3>5 DEF ResumeTypeOK
  <2>6. RowsFit' /\ MarkersFit' /\ MarkerAwaited' /\ EntryKept'
    BY <2>1 DEF RowsFit, MarkersFit, MarkerAwaited, EntryKept
  <2>7. RequestsFit'
    BY <2>1, <2>4 DEF RequestsFit, RequestFits, AtWork
  <2>8. \A t \in Sessions, c \in Conversations : Known(t, c)' => Known(t, c)
    BY <2>1, EmptyContains DEF Known
  <2>9. StartedFit' /\ AgentsFit'
    BY <2>1, <2>4, <2>8, NothingNew
  <2> QED BY <2>5, <2>6, <2>7, <2>9
<1>3. CASE ServiceStarts
  <2>1. /\ ~up /\ up' = TRUE
        /\ terminals' = {s \in Sessions : Lives(s)}
        /\ showsCodex' = {s \in {t \in Sessions : Lives(t)} : running[s] \in WithoutId}
        /\ sessionRow' = [s \in Sessions |-> IF s \in died THEN "ended" ELSE sessionRow[s]]
        /\ agentName' = [s \in Sessions |->
             IF s \in died /\ s \in scheduled THEN 0 ELSE agentName[s]]
        /\ reservedAt' = [s \in Sessions |->
             IF s \in died /\ s \in scheduled THEN 0 ELSE reservedAt[s]]
        /\ scheduled' = scheduled \ died
        /\ died' = {} /\ markers' = [s \in Sessions |-> <<>>]
        /\ UNCHANGED <<stale, running, lastCodex, atDeath, started, agentResumeWrite, handoff,
                       forgotten, request, agentEvents>>
    BY <1>3 DEF ServiceStarts, WithoutId
  <2>2. ResumeTypeOK'
    <3>1. markers' \in [Sessions -> Seq(Conversations \cup {0})]
      BY <2>1, EmptySeq
    <3>2. /\ agentName' \in [Sessions -> Conversations \cup {0}]
          /\ reservedAt' \in [Sessions -> ResumeRequests \cup {0}]
          /\ sessionRow' \in [Sessions -> {"none", "active", "ended"}]
      BY <2>1 DEF ResumeTypeOK
    <3> QED BY <2>1, <3>1, <3>2 DEF ResumeTypeOK
  <2>3. RowsFit'
    BY <2>1 DEF RowsFit, Lives, ResumeTypeOK
  <2>4. MarkersFit'
    <3>1. \A i \in 2..Len(<<>>) : FALSE
      OBVIOUS
    <3> QED BY <2>1, <3>1 DEF MarkersFit
  <2>5. \A q \in ResumeRequests : ~AtWork(q) /\ ~AtWork(q)'
    BY <2>1 DEF RequestsFit, RequestFits, AtWork
  <2>6. RequestsFit'
    <3>1. \A q \in ResumeRequests : request[q].made \in Sessions \cup {0}
      BY Typed DEF RequestRecords
    <3>2. \A q \in ResumeRequests : request[q].made # 0 => sessionRow'[request[q].made] # "none"
      BY <2>1, <3>1 DEF RequestsFit, RequestFits
    <3> QED BY <2>1, <2>5, <3>2 DEF RequestsFit, RequestFits, AtWork
  <2>7. \A t \in Sessions, c \in Conversations : Known(t, c)' => Known(t, c)
    BY <2>1, EmptyContains DEF Known
  <2>8. StartedFit' /\ AgentsFit'
    BY <2>1, <2>5, <2>7, NothingNew
  <2>9. MarkerAwaited'
    BY <2>1 DEF MarkerAwaited, RowsFit, Lives, WithoutId
  <2>10. EntryKept'
    <3>1. ASSUME NEW q \in ResumeRequests PROVE ~StillOpens(q)'
      <4>1. request[q].made \in Sessions \cup {0}
        BY Typed DEF RequestRecords
      <4> QED BY <2>1, <2>5, <4>1 DEF StillOpens, AtWork
    <3> QED BY <3>1 DEF EntryKept
  <2> QED BY <2>2, <2>3, <2>4, <2>6, <2>8, <2>9, <2>10
<1>4. CASE UNCHANGED resumeVars \/ \E q \in ResumeRequests : ReservationAges(q)
  <2>1. /\ stale' = stale \/ \E q \in ResumeRequests : stale' = stale \cup {q}
        /\ UNCHANGED <<sessionRow, scheduled, agentName, reservedAt, running, lastCodex, died,
                       atDeath, started, up, terminals, showsCodex, agentResumeWrite, handoff,
                       forgotten, markers, request, agentEvents>>
    BY <1>4 DEF ReservationAges, resumeVars, sessionRows, host, memory
  <2>2. ResumeTypeOK' /\ RowsFit' /\ MarkersFit' /\ MarkerAwaited'
    BY <2>1 DEF ResumeTypeOK, RowsFit, MarkersFit, MarkerAwaited
  <2>3. RequestsFit' /\ EntryKept'
    BY <2>1 DEF RequestsFit, RequestFits, AtWork, EntryKept, StillOpens
  <2>4. \A t \in Sessions, c \in Conversations : Known(t, c)' => Known(t, c)
    BY <2>1 DEF Known
  <2>5. StartedFit' /\ AgentsFit'
    BY <2>1, <2>4, NothingNew DEF AtWork
  <2> QED BY <2>2, <2>3, <2>5
<1> QED BY <1>1, <1>2, <1>3, <1>4

\* Every step keeps each conversation in one session.
LEMMA NextAgents ==
  ASSUME ResumeInv, [ResumeNext]_resumeVars, ManualStarts => Conversations \subseteq WithId
  PROVE  ResumeInv'
<1>1. CASE \E s \in Sessions :
             \/ \E c \in Conversations : AgentStarts(s, c)
             \/ AgentExits(s) \/ MarkerArrives(s) \/ WriteRuns(s)
             \/ SessionDies(s) \/ ExitHandled(s) \/ CloseLater(s) \/ UserClosesTab(s)
  BY <1>1, StartStep, ExitStep, MarkerStep, WriteStep, EndSteps
<1>2. CASE \E q \in ResumeRequests :
             \/ \E s \in Sessions : ResumeReserves(q, s)
             \/ ResumeFails(q) \/ Enter(q) \/ EnterFails(q)
             \/ \E n \in Sessions, same \in BOOLEAN : CreateDone(q, n, same)
  BY <1>2, ReserveStep, FailSteps, EnterStep, CreateStep
<1> QED BY <1>1, <1>2, ServiceKeeps DEF ResumeNext

\* The inductive invariant: rows, markers and requests fit together, and every
\* conversation is known in one session only.
THEOREM ResumeInvariant ==
  ASSUME ManualStarts => Conversations \subseteq WithId
  PROVE  ResumeSpec => []ResumeInv
<1>1. ResumeInv /\ [ResumeNext]_resumeVars => ResumeInv'
  BY NextAgents
<1> QED BY <1>1, InitAgents, PTL DEF ResumeSpec

\* No two agents work on one conversation, however requests, ends, markers and
\* restarts interleave, unless a hand-over lost its entry to a later one.
THEOREM ResumeOneAgentEach ==
  ASSUME ManualStarts => Conversations \subseteq WithId
  PROVE  ResumeSpec => []OneAgentEach
<1>1. ResumeInv => OneAgentEach
  <2> SUFFICES ASSUME ResumeInv, ~forgotten, NEW s \in Sessions, NEW t \in Sessions,
                      s # t, running[s] # 0, running[s] = running[t]
               PROVE  FALSE
    BY DEF OneAgentEach, NeverTwoAgents
  <2>1. running[s] \in Conversations /\ Known(s, running[s]) /\ Known(t, running[s])
    BY DEF ResumeInv, ResumeTypeOK, Known
  <2> QED BY <2>1 DEF ResumeInv, AgentsFit, OneHome
<1> QED BY <1>1, ResumeInvariant, PTL

-----------------------------------------------------------------------------
(* Resuming agents: types, whatever is started by hand.                     *)

\* A request at work has a row.
HasRow(q) == request[q].phase \in {"create", "typed"} => request[q].of \in Sessions

ResumeTypesInv == ResumeTypeOK /\ \A q \in ResumeRequests : HasRow(q)

Marked == Conversations \cup {0}

\* The count of events stays within its bound.
LEMMA EventFits ==
  ASSUME agentEvents \in 0..MaxAgentEvents, AgentEvent
  PROVE  agentEvents' \in 0..MaxAgentEvents
  BY ResumeAssumption DEF AgentEvent

\* Markers and the writes behind them come and go one by one.
LEMMA MarkTypes ==
  ASSUME NEW f \in [Sessions -> Seq(Marked)], NEW s \in Sessions
  PROVE  /\ \A c \in Marked : [f EXCEPT ![s] = Append(@, c)] \in [Sessions -> Seq(Marked)]
         /\ f[s] # <<>> => /\ [f EXCEPT ![s] = Tail(@)] \in [Sessions -> Seq(Marked)]
                           /\ Head(f[s]) \in Marked
         /\ [f EXCEPT ![s] = <<>>] \in [Sessions -> Seq(Marked)]
<1>1. f[s] \in Seq(Marked) /\ <<>> \in Seq(Marked)
  BY EmptySeq
<1>2. f[s] # <<>> => Tail(f[s]) \in Seq(Marked) /\ Head(f[s]) \in Marked
  BY <1>1, HeadTailProperties
<1>3. \A c \in Marked : Append(f[s], c) \in Seq(Marked)
  BY <1>1
<1> QED BY <1>1, <1>2, <1>3

\* Agents and markers keep the types.
LEMMA AgentTypesResume ==
  ASSUME ResumeTypesInv, NEW s \in Sessions,
         \/ \E c \in Conversations : AgentStarts(s, c)
         \/ AgentExits(s) \/ MarkerArrives(s) \/ WriteRuns(s)
  PROVE  ResumeTypesInv'
<1> USE DEF ResumeTypesInv, ResumeTypeOK, HasRow
<1>0. /\ markers \in [Sessions -> Seq(Marked)] /\ agentResumeWrite \in [Sessions -> Seq(Marked)]
      /\ 0 \in Marked /\ Conversations \subseteq Marked
  BY DEF Marked
<1>1. ASSUME NEW c \in Conversations, AgentStarts(s, c) PROVE ResumeTypesInv'
  <2>1. agentResumeWrite' \in [Sessions -> Seq(Marked)]
    BY <1>0, <1>1, MarkTypes DEF AgentStarts
  <2>2. lastCodex' \in Conversations \cup {0}
    BY <1>1 DEF AgentStarts, Opened
  <2> QED BY <1>1, <2>1, <2>2 DEF AgentStarts, sessionRows, Marked
<1>2. CASE AgentExits(s)
  <2>1. markers' \in [Sessions -> Seq(Marked)]
    BY <1>0, <1>2, MarkTypes DEF AgentExits, Marks
  <2> QED BY <1>2, <2>1, EventFits DEF AgentExits, sessionRows, memory, Marked
<1>3. CASE MarkerArrives(s)
  <2>1. markers' \in [Sessions -> Seq(Marked)] /\ agentResumeWrite' \in [Sessions -> Seq(Marked)]
    BY <1>0, <1>3, MarkTypes DEF MarkerArrives
  <2> QED BY <1>3, <2>1 DEF MarkerArrives, sessionRows, host, Marked
<1>4. CASE WriteRuns(s)
  <2>1. agentResumeWrite' \in [Sessions -> Seq(Marked)] /\ Head(agentResumeWrite[s]) \in Marked
    BY <1>0, <1>4, MarkTypes DEF WriteRuns
  <2>2. /\ agentName' \in [Sessions -> Conversations \cup {0}]
        /\ reservedAt' \in [Sessions -> ResumeRequests \cup {0}]
    <3>1. \/ \E c \in Marked : Names(s, c)
          \/ UNCHANGED <<agentName, reservedAt>>
      BY <1>0, <1>4, <2>1 DEF WriteRuns, Records
    <3>2. ASSUME NEW c \in Marked, Names(s, c)
          PROVE  /\ agentName' \in [Sessions -> Marked]
                 /\ reservedAt' \in [Sessions -> ResumeRequests \cup {0}]
      BY <3>2 DEF Names, Marked
    <3> QED BY <3>1, <3>2 DEF Marked
  <2> QED BY <1>4, <2>1, <2>2 DEF WriteRuns, host, Marked
<1> QED BY <1>1, <1>2, <1>3, <1>4

\* Closing, deleting and ending keep the types.
LEMMA EndTypes ==
  ASSUME ResumeTypesInv, NEW s \in Sessions,
         SessionDies(s) \/ ExitHandled(s) \/ CloseLater(s) \/ UserClosesTab(s)
  PROVE  ResumeTypesInv'
<1> USE DEF ResumeTypesInv, ResumeTypeOK, HasRow
<1>1. CASE SessionDies(s)
  BY <1>1, EventFits DEF SessionDies, Stops, sessionRows, memory
<1>2. markers \in [Sessions -> Seq(Marked)] /\ Removes(s) => markers' \in [Sessions -> Seq(Marked)]
  BY MarkTypes DEF Removes
<1>3. CASE ExitHandled(s)
  <2>1. markers' \in [Sessions -> Seq(Marked)]
    BY <1>2, <1>3 DEF ExitHandled, Marked
  <2>2. /\ agentName' \in [Sessions -> Conversations \cup {0}]
        /\ reservedAt' \in [Sessions -> ResumeRequests \cup {0}]
    BY <1>3 DEF ExitHandled, Names
  <2> QED BY <1>3, <2>1, <2>2 DEF ExitHandled, EndsRow, Removes, Marked
<1>4. CASE CloseLater(s)
  BY <1>4, EventFits DEF CloseLater, host, memory
<1>5. CASE UserClosesTab(s)
  <2>1. markers' \in [Sessions -> Seq(Marked)]
    BY <1>2, <1>5 DEF UserClosesTab, Marked
  <2>2. /\ agentName' \in [Sessions -> Conversations \cup {0}]
        /\ reservedAt' \in [Sessions -> ResumeRequests \cup {0}]
    BY <1>5 DEF UserClosesTab, Names
  <2> QED BY <1>5, <2>1, <2>2, EventFits DEF UserClosesTab, EndsRow, Removes, Stops, Marked
<1> QED BY <1>1, <1>3, <1>4, <1>5

\* A request changes, and with it what Releases and Names write.
LEMMA RequestTypesKept ==
  ASSUME ResumeTypesInv, NEW q \in ResumeRequests, NEW r \in RequestRecords,
         request' = [request EXCEPT ![q] = r],
         r.phase \in {"create", "typed"} => r.of \in Sessions
  PROVE  /\ request' \in [ResumeRequests -> RequestRecords]
         /\ \A p \in ResumeRequests : HasRow(p)'
  BY DEF ResumeTypesInv, ResumeTypeOK, HasRow, RequestRecords

\* The route's steps keep the types.
LEMMA RequestTypes ==
  ASSUME ResumeTypesInv, NEW q \in ResumeRequests,
         \/ \E s \in Sessions : ResumeReserves(q, s)
         \/ ResumeFails(q) \/ Enter(q) \/ EnterFails(q) \/ ReservationAges(q)
         \/ \E n \in Sessions, same \in BOOLEAN : CreateDone(q, n, same)
  PROVE  ResumeTypesInv'
<1> USE DEF ResumeTypesInv
<1>0. request[q] \in RequestRecords /\ request \in [ResumeRequests -> RequestRecords]
  BY DEF ResumeTypeOK, RequestRecords
<1>1. ASSUME NEW n \in Sessions \cup {0}, ResumeOver(q, n)
      PROVE  /\ request' \in [ResumeRequests -> RequestRecords]
             /\ \A p \in ResumeRequests : HasRow(p)'
  <2> DEFINE r == [request[q] EXCEPT !.phase = "over", !.made = n]
  <2>1. r \in RequestRecords /\ r.phase = "over"
    BY <1>0 DEF RequestRecords
  <2>2. request' = [request EXCEPT ![q] = r]
    BY <1>1 DEF ResumeOver
  <2> HIDE DEF r
  <2> QED BY <2>1, <2>2, RequestTypesKept
<1>2. Releases(q) => /\ reservedAt' \in [Sessions -> ResumeRequests \cup {0}]
                     /\ handoff' \in ResumeRequests \cup {0} /\ forgotten' \in BOOLEAN
  BY DEF Releases, ResumeTypeOK
<1>3. ASSUME NEW s \in Sessions, ResumeReserves(q, s) PROVE ResumeTypesInv'
  <2> DEFINE r == [phase |-> "create", of |-> s, mode |-> Mode(s), made |-> 0]
  <2>1. r \in RequestRecords /\ r.of \in Sessions
    BY DEF RequestRecords, Mode
  <2>2. request' = [request EXCEPT ![q] = r]
    BY <1>3 DEF ResumeReserves
  <2>3. /\ request' \in [ResumeRequests -> RequestRecords]
        /\ \A p \in ResumeRequests : HasRow(p)'
    <3> HIDE DEF r
    <3> QED BY <2>1, <2>2, RequestTypesKept
  <2> HIDE DEF r
  <2> QED BY <1>3, <2>3 DEF ResumeReserves, host, ResumeTypeOK, RequestRecords
<1>4. CASE ResumeFails(q)
  <2>1. /\ request' \in [ResumeRequests -> RequestRecords]
        /\ \A p \in ResumeRequests : HasRow(p)'
    BY <1>1, <1>4 DEF ResumeFails
  <2> QED BY <1>2, <1>4, <2>1 DEF ResumeFails, host, ResumeTypeOK, RequestRecords
<1>5. CASE EnterFails(q)
  <2>1. /\ request' \in [ResumeRequests -> RequestRecords]
        /\ \A p \in ResumeRequests : HasRow(p)'
    BY <1>0, <1>1, <1>5 DEF EnterFails, RequestRecords
  <2> QED BY <1>2, <1>5, <2>1 DEF EnterFails, host, ResumeTypeOK, RequestRecords
<1>6. CASE Enter(q)
  <2> DEFINE n == request[q].made
  <2>1. n \in Sessions /\ ResumeOver(q, n) /\ request[q].of \in Sessions
    BY <1>6 DEF Enter, ResumeTypeOK, HasRow
  <2>2. Opens(q) \in Conversations \cup {0}
    BY <2>1 DEF Opens, ResumeTypeOK
  <2>3. markers' \in [Sessions -> Seq(Marked)]
    BY <1>6, <2>1, <2>2, MarkTypes DEF Enter, Marks, Marked, ResumeTypeOK
  <2>4. /\ request' \in [ResumeRequests -> RequestRecords]
        /\ \A p \in ResumeRequests : HasRow(p)'
    BY <1>1, <2>1
  <2>5. /\ lastCodex' \in Conversations \cup {0}
        /\ running' \in [Sessions -> Conversations \cup {0}]
        /\ agentName' \in [Sessions -> Conversations \cup {0}]
        /\ reservedAt' \in [Sessions -> ResumeRequests \cup {0}]
    BY <1>6, <2>1, <2>2 DEF Enter, Opened, Names, ResumeTypeOK
  <2> QED BY <1>6, <2>3, <2>4, <2>5 DEF Enter, memory, ResumeTypeOK, RequestRecords, Marked
<1>7. CASE ReservationAges(q)
  BY <1>7 DEF ReservationAges, host, memory, ResumeTypeOK, HasRow
<1>8. ASSUME NEW n \in Sessions, NEW same \in BOOLEAN, CreateDone(q, n, same)
      PROVE  ResumeTypesInv'
  <2> DEFINE r == [request[q] EXCEPT !.phase = "typed", !.made = n]
  <2>1. r \in RequestRecords /\ r.of = request[q].of
    BY <1>0 DEF RequestRecords
  <2>2. request[q].of \in Sessions
    BY <1>8 DEF CreateDone, HasRow
  <2>3. /\ request' \in [ResumeRequests -> RequestRecords]
        /\ \A p \in ResumeRequests : HasRow(p)'
        /\ reservedAt' \in [Sessions -> ResumeRequests \cup {0}]
        /\ handoff' \in ResumeRequests \cup {0} /\ forgotten' \in BOOLEAN
    <3>1. CASE ResumeOver(q, n) /\ Releases(q)
      BY <1>1, <1>2, <3>1
    <3>2. CASE request' = [request EXCEPT ![q] = r] /\ UNCHANGED <<reservedAt, handoff, forgotten>>
      <4> HIDE DEF r
      <4> QED BY <2>1, <2>2, <3>2, RequestTypesKept DEF ResumeTypeOK
    <3>3. request' = [request EXCEPT ![q].phase = "typed", ![q].made = n]
            => request' = [request EXCEPT ![q] = r]
      OBVIOUS
    <3> QED BY <1>8, <3>1, <3>2, <3>3 DEF CreateDone
  <2> HIDE DEF r
  <2> QED BY <1>8, <2>3 DEF CreateDone, host, ResumeTypeOK, RequestRecords
<1> QED BY <1>3, <1>4, <1>5, <1>6, <1>7, <1>8

\* Stop and start keep the types.
LEMMA ServiceTypes ==
  ASSUME ResumeTypesInv, HandoffEnds \/ ServiceStops \/ ServiceStarts
  PROVE  ResumeTypesInv'
<1> USE DEF ResumeTypesInv
<1>1. CASE HandoffEnds
  BY <1>1 DEF HandoffEnds, sessionRows, host, ResumeTypeOK, HasRow
<1>2. [s \in Sessions |-> <<>>] \in [Sessions -> Seq(Conversations \cup {0})]
  BY EmptySeq
<1>3. CASE ServiceStops
  <2>1. \A q \in ResumeRequests :
          /\ request[q] \in RequestRecords /\ [request[q] EXCEPT !.phase = "lost"] \in RequestRecords
          /\ [request[q] EXCEPT !.phase = "lost"].phase = "lost"
    BY ZenonT(60) DEF ResumeTypeOK, RequestRecords
  <2>2. /\ request' \in [ResumeRequests -> RequestRecords]
        /\ \A q \in ResumeRequests : HasRow(q)'
    BY <1>3, <2>1 DEF ServiceStops, HasRow
  <2> QED BY <1>2, <1>3, <2>2, EventFits
          DEF ServiceStops, sessionRows, host, ResumeTypeOK, RequestRecords
<1>4. CASE ServiceStarts
  <2>1. /\ sessionRow' \in [Sessions -> {"none", "active", "ended"}]
        /\ agentName' \in [Sessions -> Conversations \cup {0}]
        /\ reservedAt' \in [Sessions -> ResumeRequests \cup {0}]
    BY <1>4 DEF ServiceStarts, ResumeTypeOK
  <2>2. markers' \in [Sessions -> Seq(Conversations \cup {0})]
    BY <1>2, <1>4 DEF ServiceStarts
  <2> QED BY <1>4, <2>1, <2>2 DEF ServiceStarts, ResumeTypeOK, HasRow
<1> QED BY <1>1, <1>3, <1>4

\* No session has a row.
LEMMA InitResumeTypes == ResumeInit => ResumeTypesInv
  BY InitAgents DEF ResumeInit, NoRequest, ResumeInv, ResumeTypesInv, HasRow

\* Every step keeps the types.
LEMMA NextResumeTypes ==
  ASSUME ResumeTypesInv, [ResumeNext]_resumeVars PROVE ResumeTypesInv'
<1>1. CASE ResumeNext
  BY <1>1, AgentTypesResume, EndTypes, RequestTypes, ServiceTypes DEF ResumeNext
<1>2. CASE UNCHANGED resumeVars
  BY <1>2 DEF resumeVars, sessionRows, host, memory, ResumeTypesInv, ResumeTypeOK, HasRow
<1> QED BY <1>1, <1>2

\* The rows, the memory and the requests stay what the code declares them to be.
THEOREM ResumeTypeCorrect == ResumeSpec => []ResumeTypeOK
<1>1. ResumeInit => ResumeTypesInv
  BY InitResumeTypes
<1>2. ResumeTypesInv /\ [ResumeNext]_resumeVars => ResumeTypesInv'
  BY NextResumeTypes
<1>3. ResumeTypesInv => ResumeTypeOK
  BY DEF ResumeTypesInv
<1> QED BY <1>1, <1>2, <1>3, PTL DEF ResumeSpec

-----------------------------------------------------------------------------
(* Linked views: somebody is left to kill the session.                      *)

ViewsTyped ==
  /\ viewRow \in [ViewHandles -> {"none", "active", "ended"}]
  /\ place \in [ViewHandles -> {"out", "attach", "map"}]

\* What is closed stays closed, and what is in the Map has a row.
ClosedIsOut ==
  \A h \in ViewHandles : /\ h \in asked => viewRow[h] = "ended" /\ place[h] = "out"
                         /\ place[h] = "map" => viewRow[h] # "none"

\* A session that lives is being killed, or has a handle that can still be
\* closed, or lost one that nobody closed.
SomeoneIsLeft ==
  shared /\ ~unkilled => \/ kills # {}
                         \/ \E h \in ViewHandles : viewRow[h] # "none" /\ h \notin asked

ViewsInv == ViewsTyped /\ ClosedIsOut /\ SomeoneIsLeft /\ asked \subseteq ViewHandles
            /\ shared \in BOOLEAN /\ unkilled \in BOOLEAN

\* One terminal, no views.
LEMMA InitViews == ViewsInit => ViewsInv
  BY DEF ViewsInit, ViewsInv, ViewsTyped, ClosedIsOut, SomeoneIsLeft, ViewHandles

\* A step that closes nothing and forgets no row.
LEMMA NothingCloses ==
  ASSUME ViewsInv, ViewsTyped', ClosedIsOut', UNCHANGED <<kills, asked>>,
         shared' \in BOOLEAN, shared' => shared, UNCHANGED unkilled,
         \A h \in ViewHandles : viewRow[h] # "none" => viewRow'[h] # "none"
  PROVE  ViewsInv'
  BY DEF ViewsInv, SomeoneIsLeft

\* Every step leaves someone to end the session.
LEMMA NextViews == ASSUME ViewsInv, [ViewsNext]_viewVars PROVE ViewsInv'
<1> USE DEF ViewsInv
<1>1. ASSUME NEW v \in Views, NEW source \in ViewHandles, LinkedView(v, source)
      PROVE  ViewsInv'
  <2>1. v \in ViewHandles
    BY DEF ViewHandles
  <2>2. ViewsTyped' /\ ClosedIsOut'
    BY <1>1, <2>1 DEF LinkedView, ViewsTyped, ClosedIsOut
  <2> QED BY <1>1, <2>2, NothingCloses DEF LinkedView
<1>2. CASE RestorePrimary
  <2>1. ViewsTyped' /\ ClosedIsOut'
    BY <1>2 DEF RestorePrimary, ViewsTyped, ClosedIsOut
  <2>2. \A h \in ViewHandles : viewRow[h] # "none" => viewRow'[h] # "none"
    BY <1>2 DEF RestorePrimary, ViewsTyped
  <2> QED BY <1>2, <2>1, <2>2, NothingCloses DEF RestorePrimary
<1>3. ASSUME NEW h \in ViewHandles, ClientSpawns(h) PROVE ViewsInv'
  <2>1. ViewsTyped' /\ ClosedIsOut'
    BY <1>3 DEF ClientSpawns, ViewsTyped, ClosedIsOut
  <2> QED BY <1>3, <2>1, NothingCloses DEF ClientSpawns
<1>4. ASSUME NEW h \in ViewHandles, ViewRegisters(h) PROVE ViewsInv'
  <2>1. ViewsTyped' /\ ClosedIsOut'
    BY <1>4 DEF ViewRegisters, ViewsTyped, ClosedIsOut
  <2>2. \A o \in ViewHandles : viewRow[o] # "none" => viewRow'[o] # "none"
    BY <1>4 DEF ViewRegisters, ViewsTyped
  <2> QED BY <1>4, <2>1, <2>2, NothingCloses DEF ViewRegisters
<1>5. ASSUME NEW h \in ViewHandles, SharedClientExits(h) PROVE ViewsInv'
  <2>1. CASE h = Primary
    <3>1. ViewsTyped' /\ ClosedIsOut'
      BY <1>5, <2>1 DEF SharedClientExits, ViewsTyped, ClosedIsOut
    <3> QED BY <1>5, <2>1, <3>1, NothingCloses DEF SharedClientExits
  <2>2. CASE h # Primary
    <3>1. ViewExits(h) /\ UNCHANGED <<shared, kills, asked, unkilled>>
      BY <1>5, <2>2 DEF SharedClientExits
    <3>2. ViewsTyped' /\ ClosedIsOut'
      BY <3>1 DEF ViewExits, ViewsTyped, ClosedIsOut
    <3>3. \A o \in ViewHandles : viewRow[o] # "none" => viewRow'[o] # "none"
      BY <3>1 DEF ViewExits, ViewsTyped
    <3> QED BY <3>1, <3>2, <3>3, NothingCloses
  <2> QED BY <2>1, <2>2
<1>6. CASE PrimaryExitJudged
  <2>1. ViewsTyped' /\ ClosedIsOut'
    BY <1>6 DEF PrimaryExitJudged, ViewsTyped, ClosedIsOut
  <2>2. \A h \in ViewHandles : viewRow[h] # "none" => viewRow'[h] # "none"
    BY <1>6 DEF PrimaryExitJudged, ViewsTyped
  <2> QED BY <1>6, <2>1, <2>2, NothingCloses DEF PrimaryExitJudged
<1>7. ASSUME NEW h \in ViewHandles, CloseHandle(h) PROVE ViewsInv'
  <2>1. /\ viewRow' = [viewRow EXCEPT ![h] = "ended"] /\ place[h] = "map"
        /\ place' = [place EXCEPT ![h] = "out"] /\ asked' = asked \cup {h}
        /\ UNCHANGED <<shared, unkilled>>
    BY <1>7 DEF CloseHandle
  <2>2. ViewsTyped' /\ ClosedIsOut'
    BY <2>1 DEF ViewsTyped, ClosedIsOut
  <2>3. SomeoneIsLeft'
    <3>1. CASE HasOther(h)
      <4>1. PICK o \in ViewHandles \ {h} : place[o] = "map"
        BY <3>1 DEF HasOther
      <4>2. viewRow'[o] # "none" /\ o \notin asked'
        BY <2>1, <4>1 DEF ViewsTyped, ClosedIsOut
      <4> QED BY <4>2 DEF SomeoneIsLeft
    <3>2. CASE ~HasOther(h)
      BY <1>7, <3>2 DEF CloseHandle, SomeoneIsLeft
    <3> QED BY <3>1, <3>2
  <2> QED BY <2>1, <2>2, <2>3
<1>8. ASSUME NEW h \in ViewHandles, SharedKillDone(h) PROVE ViewsInv'
  BY <1>8 DEF SharedKillDone, ViewsTyped, ClosedIsOut, SomeoneIsLeft
<1>9. CASE SharedShellExits
  <2>1. ViewsTyped' /\ ClosedIsOut'
    BY <1>9 DEF SharedShellExits, ViewsTyped, ClosedIsOut
  <2> QED BY <1>9, <2>1, NothingCloses DEF SharedShellExits
<1>10. CASE ViewsRestart
  <2>1. ViewsTyped' /\ ClosedIsOut'
    BY <1>10 DEF ViewsRestart, ViewsTyped, ClosedIsOut
  <2>2. \A h \in ViewHandles : viewRow[h] # "none" => viewRow'[h] # "none"
    BY <1>10 DEF ViewsRestart
  <2>3. /\ UNCHANGED <<shared, asked>> /\ unkilled' = (unkilled \/ kills # {})
        /\ unkilled' \in BOOLEAN
    BY <1>10 DEF ViewsRestart
  <2>4. SomeoneIsLeft'
    BY <2>2, <2>3 DEF SomeoneIsLeft
  <2> QED BY <2>1, <2>3, <2>4
<1>11. CASE UNCHANGED viewVars
  BY <1>11 DEF viewVars, ViewsTyped, ClosedIsOut, SomeoneIsLeft
<1> QED BY <1>1, <1>2, <1>3, <1>4, <1>5, <1>6, <1>7, <1>8, <1>9, <1>10, <1>11 DEF ViewsNext

\* The session goes with the last of its handles that is closed, for any number
\* of views, closes at once, lost clients and restores.
THEOREM ViewsLastClose == ViewsSpec => []LastCloseEndsSession
<1>1. ViewsInv /\ [ViewsNext]_viewVars => ViewsInv'
  BY NextViews
<1>2. ViewsInv => LastCloseEndsSession
  BY DEF ViewsInv, SomeoneIsLeft, LastCloseEndsSession
<1> QED BY <1>1, <1>2, InitViews, PTL DEF ViewsSpec

\* One terminal, no views.
LEMMA InitViewTypes == ViewsInit => ViewsTypeOK
<1> SUFFICES ASSUME ViewsInit PROVE ViewsTypeOK
  OBVIOUS
<1>1. viewFaults \in 0..MaxViewFaults
  BY ViewsAssumption DEF ViewsInit
<1> QED BY <1>1 DEF ViewsInit, ViewsTypeOK

\* Every step keeps the types.
LEMMA NextViewTypes == ASSUME ViewsTypeOK, [ViewsNext]_viewVars PROVE ViewsTypeOK'
<1> USE DEF ViewsTypeOK
<1>1. ASSUME ViewFault PROVE viewFaults' \in 0..MaxViewFaults
  BY <1>1, ViewsAssumption DEF ViewFault
<1>2. ASSUME NEW v \in Views, NEW source \in ViewHandles, LinkedView(v, source)
      PROVE  ViewsTypeOK'
  BY <1>2 DEF LinkedView
<1>3. CASE RestorePrimary
  BY <1>3 DEF RestorePrimary
<1>4. ASSUME NEW h \in ViewHandles, ClientSpawns(h) \/ ViewRegisters(h) PROVE ViewsTypeOK'
  BY <1>4 DEF ClientSpawns, ViewRegisters
<1>5. ASSUME NEW h \in ViewHandles, SharedClientExits(h) PROVE ViewsTypeOK'
  BY <1>1, <1>5 DEF SharedClientExits, ViewExits
<1>6. CASE PrimaryExitJudged
  BY <1>6 DEF PrimaryExitJudged
<1>7. ASSUME NEW h \in ViewHandles, CloseHandle(h) PROVE ViewsTypeOK'
  BY <1>7 DEF CloseHandle
<1>8. ASSUME NEW h \in ViewHandles, SharedKillDone(h) PROVE ViewsTypeOK'
  BY <1>1, <1>8 DEF SharedKillDone
<1>9. CASE SharedShellExits
  BY <1>9 DEF SharedShellExits
<1>10. CASE ViewsRestart
  BY <1>1, <1>10 DEF ViewsRestart
<1>11. CASE UNCHANGED viewVars
  BY <1>11 DEF viewVars
<1> QED BY <1>2, <1>3, <1>4, <1>5, <1>6, <1>7, <1>8, <1>9, <1>10, <1>11 DEF ViewsNext

\* Rows, places and clients of the handles keep their values.
THEOREM ViewsTypeCorrect == ViewsSpec => []ViewsTypeOK
<1>1. ViewsInit => ViewsTypeOK
  BY InitViewTypes
<1>2. ViewsTypeOK /\ [ViewsNext]_viewVars => ViewsTypeOK'
  BY NextViewTypes
<1> QED BY <1>1, <1>2, PTL DEF ViewsSpec
=============================================================================
