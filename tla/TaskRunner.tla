----------------------------- MODULE TaskRunner -----------------------------
(***************************************************************************)
(* One supervised task (backend/task-runner.ts and the task routes of      *)
(* backend/server.ts): a worker agent and a judge agent run in terminals   *)
(* of their own, the judge leaves a verdict file for the round, and the    *)
(* server applies it when it hears that the judge's agent finished         *)
(* (agent-done) or that its terminal exited, whichever it hears of first.  *)
(*                                                                         *)
(* runExclusive gives each task a queue: `queue` holds the calls behind it *)
(* in order, and a call loads task.json, decides, and saves, with an await *)
(* between the steps.  updateTask, runChecks and deleteTask load and save  *)
(* without joining the queue: `edit` is one such call.                     *)
(*                                                                         *)
(* Races names the overlaps the queue does not rule out: "edit", a call    *)
(* outside it while others are under way; "earlyExit", a terminal that is  *)
(* gone before its start is recorded in task.json.                         *)
(***************************************************************************)
EXTENDS Naturals, Integers, Sequences, SequencesExt

CONSTANTS
  MaxRounds,     \* the maxRounds option of createTaskRunner
  MaxAgents,     \* bound: terminals the start and judge routes create
  MaxRequests,   \* bound: messages posted and calls that do not join the queue
  Races          \* subset of {"edit", "earlyExit"}

ASSUME TaskAssumption == MaxRounds \in Nat \ {0} /\ MaxAgents \in Nat

Rounds == 0..(MaxRounds - 1)
AgentTerminals == 1..MaxAgents
Verdicts == {"PASS", "NEEDS_WORK", "BLOCKED"}
TaskStatus == {"ready", "worker-running", "checks-running", "needs-judge",
               "judge-running", "needs-user", "complete", "paused"}

\* 0 stands for no terminal, -1 for no round processed yet.
TaskRecord == [status : TaskStatus, round : Rounds, processed : Rounds \cup {-1},
               worker : AgentTerminals \cup {0}, judge : AgentTerminals \cup {0}]

VARIABLES
  task,      \* task.json
  exists,    \* the task's directory is there
  verdicts,  \* verdict-r<round>.json of each round, or "none"
  judged,    \* the rounds of the "verdict" lines of rounds.jsonl, in order
  agents,    \* the terminals of the task's agents
  triggers,  \* agent-done and terminal-exit events whose scan has not answered
  queue,     \* runExclusive: the calls behind the task's lock
  edit,      \* the call outside the lock that is under way, if any
  requests   \* bound: messages posted and calls made outside the lock

taskVars == <<task, exists, verdicts, judged, agents, triggers, queue, edit, requests>>

NoAgent == [phase |-> "none", role |-> "worker", round |-> 0]
\* createTask: the record a task starts with, and a call that has loaded nothing.
NewTask == [status |-> "ready", round |-> 0, processed |-> -1, worker |-> 0, judge |-> 0]
NoEdit == [op |-> "none", copy |-> NewTask]
Call(kind, t) == [op |-> kind, term |-> t, step |-> "queued", copy |-> NewTask]

TaskInit ==
  /\ task = NewTask
  /\ exists = TRUE
  /\ verdicts = [r \in Rounds |-> "none"]
  /\ judged = <<>>
  /\ agents = [t \in AgentTerminals |-> NoAgent]
  /\ triggers = {}
  /\ queue = <<>>
  /\ edit = NoEdit
  /\ requests = 0

-----------------------------------------------------------------------------
(* The routes and the agents.                                              *)

\* POST start and POST judge up to their await of the terminal.  The judge's
\* prompt names the verdict file of the round read here.
Route(t, role) ==
  /\ exists
  /\ agents[t].phase = "none"
  /\ \A u \in AgentTerminals : u < t => agents[u].phase # "none"
  /\ agents' = [agents EXCEPT ![t] =
       [phase |-> "creating", role |-> role,
        round |-> IF role = "judge" THEN task.round ELSE 0]]
  /\ UNCHANGED <<task, exists, verdicts, judged, triggers, queue, edit, requests>>

\* The terminal is there: the route types the agent's command and joins the
\* queue with markWorkerStarted or markJudgeStarted.
Created(t) ==
  /\ agents[t].phase = "creating"
  /\ agents' = [agents EXCEPT ![t].phase = "agent"]
  /\ queue' = Append(queue, Call(agents[t].role, t))
  /\ UNCHANGED <<task, exists, verdicts, judged, triggers, edit, requests>>

AgentNotCreated(t) ==
  /\ agents[t].phase = "creating"
  /\ agents' = [agents EXCEPT ![t] = [NoAgent EXCEPT !.phase = "gone"]]
  /\ UNCHANGED <<task, exists, verdicts, judged, triggers, queue, edit, requests>>

\* The judge writes the file its prompt named.
Judges(t, v) ==
  /\ agents[t].phase = "agent" /\ agents[t].role = "judge"
  /\ exists
  /\ agents' = [agents EXCEPT ![t].phase = "wrote"]
  /\ verdicts' = [verdicts EXCEPT ![agents[t].round] = v]
  /\ UNCHANGED <<task, exists, judged, triggers, queue, edit, requests>>

\* The agent returns to the shell that ran it: agent-done.
AgentDone(t) ==
  /\ agents[t].phase \in {"agent", "wrote"}
  /\ agents' = [agents EXCEPT ![t].phase = "shell", ![t].round = 0]
  /\ triggers' = triggers \cup {[op |-> "done", term |-> t]}
  /\ UNCHANGED <<task, exists, verdicts, judged, queue, edit, requests>>

\* Any shell of the task may be closed, at the latest once its start is saved.
TerminalExit(t) ==
  /\ agents[t].phase \in {"agent", "wrote", "shell"}
  /\ \/ "earlyExit" \in Races
     \/ \A i \in DOMAIN queue : queue[i].op = agents[t].role => queue[i].term # t
  /\ agents' = [agents EXCEPT ![t] = [NoAgent EXCEPT !.phase = "gone"]]
  /\ triggers' = triggers \cup {[op |-> "exit", term |-> t]}
  /\ UNCHANGED <<task, exists, verdicts, judged, queue, edit, requests>>

\* POST messages: joins the queue.
PostMessage(role) ==
  /\ exists /\ requests < MaxRequests
  /\ requests' = requests + 1
  /\ LET tell == IF role = "worker" THEN "tell-worker" ELSE "tell-judge" IN
     queue' = Append(queue, Call(tell, 0))
  /\ UNCHANGED <<task, exists, verdicts, judged, agents, triggers, edit>>

-----------------------------------------------------------------------------
(* handleTerminalExit and handleJudgeCompletion before the lock.           *)

WorkerExit(r, t) == r.worker = t /\ r.status = "worker-running"
JudgeTurn(r, t) == r.judge = t /\ r.status = "judge-running"

\* Mutant: only a judge's terminal is looked for.
CandidateJudge(kind, r, t) == kind \in {"done", "exit"} /\ JudgeTurn(r, t)

Candidate(kind, r, t) == JudgeTurn(r, t) \/ (kind = "exit" /\ WorkerExit(r, t))

\* The scan reads every task.json of the owner; a task that does not match is
\* not looked at again.
Scan(e) ==
  /\ e \in triggers
  /\ triggers' = triggers \ {e}
  /\ queue' = IF exists /\ Candidate(e.op, task, e.term)
              THEN Append(queue, Call(e.op, e.term)) ELSE queue
  /\ UNCHANGED <<task, exists, verdicts, judged, agents, edit, requests>>

-----------------------------------------------------------------------------
(* runExclusive: a call runs when every call before it has settled.        *)

\* Mutant: the calls of a task are not chained.
NoTurns(i) == i \in DOMAIN queue

Turn(i) == i \in DOMAIN queue /\ i = 1 /\ ("edit" \in Races \/ edit.op = "none")

\* loadTask inside the critical section; a task that is gone ends the call.
Load(i) ==
  /\ Turn(i) /\ queue[i].step = "queued"
  /\ queue' = IF exists THEN [queue EXCEPT ![i].step = "loaded", ![i].copy = task]
                        ELSE RemoveAt(queue, i)
  /\ UNCHANGED <<task, exists, verdicts, judged, agents, triggers, edit, requests>>

Decided(i, r) == queue' = [queue EXCEPT ![i].step = "decided", ![i].copy = r]

\* markWorkerStarted and markJudgeStarted.  A verdict file left by an earlier
\* attempt at the round is removed before the attempt is recorded.
MarkStarted(i) ==
  LET c == queue[i] IN
  /\ c.op \in {"worker", "judge"}
  /\ Decided(i, IF c.op = "worker"
                THEN [c.copy EXCEPT !.worker = c.term, !.status = "worker-running"]
                ELSE [c.copy EXCEPT !.judge = c.term, !.status = "judge-running"])
  /\ verdicts' = IF c.op = "judge" THEN [verdicts EXCEPT ![c.copy.round] = "none"]
                                    ELSE verdicts
  /\ UNCHANGED judged

\* applyJudgeVerdict: the record after the verdict v of its round.
Applied(r, v) ==
  LET on == v = "NEEDS_WORK" /\ r.round + 1 < MaxRounds IN
  [r EXCEPT !.status = CASE v = "PASS" -> "complete" [] on -> "ready"
                         [] OTHER -> "needs-user",
            !.processed = r.round,
            !.round = IF on THEN r.round + 1 ELSE r.round]

\* Mutant: a round that was judged is judged again.
ApplicableAgain(r) == verdicts[r.round] # "none"

Applicable(r) == r.processed # r.round /\ verdicts[r.round] # "none"

\* The triggers inside the lock: what the scan saw is asked again, a judge's
\* turn takes the verdict, and a turn without one goes to the user.
SettleDone(i) ==
  LET c == queue[i] IN
  /\ c.op \in {"done", "exit"}
  /\ IF ~Candidate(c.op, c.copy, c.term)
     THEN queue' = RemoveAt(queue, i) /\ UNCHANGED judged
     ELSE IF JudgeTurn(c.copy, c.term) /\ Applicable(c.copy)
     THEN /\ judged' = Append(judged, c.copy.round)
          /\ Decided(i, Applied(c.copy, verdicts[c.copy.round]))
     ELSE Decided(i, [c.copy EXCEPT !.status = "needs-user"]) /\ UNCHANGED judged
  /\ UNCHANGED verdicts

\* POST messages inside the lock: the pointer line goes to the terminal the
\* record names for a role whose turn it is, if the agent runs there now.
Target(r, kind) ==
  CASE kind = "tell-worker" /\ r.status = "worker-running" -> r.worker
    [] kind = "tell-judge" /\ r.status = "judge-running" -> r.judge
    [] OTHER -> 0

Deliver(i) ==
  LET c == queue[i]
      t == Target(c.copy, c.op) IN
  /\ c.op \in {"tell-worker", "tell-judge"}
  /\ queue' = IF t # 0 /\ agents[t].phase \in {"agent", "wrote"}
              THEN [queue EXCEPT ![i].step = "told", ![i].term = t]
              ELSE RemoveAt(queue, i)
  /\ UNCHANGED <<verdicts, judged>>

\* Every decision appends a line to a file of the task's directory, and a
\* directory that is gone fails the call before it saves; a message makes its
\* inbox first.
TakesTurn(i) ==
  /\ Turn(i) /\ queue[i].step = "loaded"
  /\ \/ Deliver(i)
     \/ exists /\ (MarkStarted(i) \/ SettleDone(i))
     \/ /\ ~exists /\ queue[i].op \notin {"tell-worker", "tell-judge"}
        /\ queue' = RemoveAt(queue, i) /\ UNCHANGED <<verdicts, judged>>
  /\ UNCHANGED <<task, exists, agents, triggers, edit, requests>>

\* saveTask: mkdir, then task.json is replaced; the call leaves the lock.
Save(i) ==
  /\ Turn(i) /\ queue[i].step = "decided"
  /\ task' = queue[i].copy
  /\ exists' = TRUE
  /\ queue' = RemoveAt(queue, i)
  /\ UNCHANGED <<verdicts, judged, agents, triggers, edit, requests>>

\* The route writes its outcome event and leaves the lock.
Told(i) ==
  /\ Turn(i) /\ queue[i].step = "told"
  /\ queue' = RemoveAt(queue, i)
  /\ UNCHANGED <<task, exists, verdicts, judged, agents, triggers, edit, requests>>

-----------------------------------------------------------------------------
(* Outside the lock.                                                       *)

\* updateTask and runChecks load the record they will save as a whole.
Edit(kind) ==
  /\ exists /\ edit.op = "none" /\ requests < MaxRequests
  /\ "edit" \in Races \/ (queue = <<>> /\ triggers = {})
  /\ requests' = requests + 1
  /\ edit' = [op |-> kind, copy |-> task]
  /\ UNCHANGED <<task, exists, verdicts, judged, agents, triggers, queue>>

EditStatus(kind, s) ==
  CASE kind = "pause" -> {"paused"}
    [] kind = "reset" -> {"ready"}
    [] kind = "rename" -> {s}
    [] kind = "checks" -> {"checks-running"}
    [] kind = "checked" -> {"needs-judge", "needs-user"}

\* runChecks saves twice: before the first check and after the last.
EditSave ==
  /\ edit.op \notin {"none", "delete"}
  /\ \E s \in EditStatus(edit.op, edit.copy.status) :
       /\ task' = [edit.copy EXCEPT !.status = s]
       /\ edit' = IF edit.op = "checks" THEN [op |-> "checked", copy |-> task']
                                        ELSE NoEdit
  /\ exists' = TRUE
  /\ UNCHANGED <<verdicts, judged, agents, triggers, queue, requests>>

\* deleteTask, the worktree already removed: the directory goes as a whole.
DeleteTask ==
  /\ edit.op = "delete"
  /\ exists' = FALSE
  /\ verdicts' = [r \in Rounds |-> "none"]
  /\ judged' = <<>>
  /\ edit' = NoEdit
  /\ UNCHANGED <<task, agents, triggers, queue, requests>>

EditOps == {"pause", "reset", "rename", "checks", "delete"}

-----------------------------------------------------------------------------
TaskWork ==
  \/ \E t \in AgentTerminals : Created(t)
  \/ \E e \in triggers : Scan(e)
  \/ \E i \in DOMAIN queue : Load(i) \/ TakesTurn(i) \/ Save(i) \/ Told(i)
  \/ EditSave
  \/ DeleteTask

TaskNext ==
  \/ TaskWork
  \/ \E t \in AgentTerminals :
       \/ \E role \in {"worker", "judge"} : Route(t, role)
       \/ AgentNotCreated(t)
       \/ \E v \in Verdicts : Judges(t, v)
       \/ AgentDone(t)
       \/ TerminalExit(t)
  \/ \E role \in {"worker", "judge"} : PostMessage(role)
  \/ \E kind \in EditOps : Edit(kind)

\* Every await of the server's own work answers: file reads and writes, a
\* terminal's creation, a check with its timeout.
TaskSpec == TaskInit /\ [][TaskNext]_taskVars /\ WF_taskVars(TaskWork)

-----------------------------------------------------------------------------
(* Properties.                                                             *)

TaskTypeOK ==
  /\ task \in TaskRecord
  /\ exists \in BOOLEAN
  /\ verdicts \in [Rounds -> Verdicts \cup {"none"}]
  /\ \A i \in DOMAIN judged : judged[i] \in Rounds
  /\ \A i \in DOMAIN queue : queue[i].copy \in TaskRecord
  /\ edit.copy \in TaskRecord

\* A round's verdict is applied once, and rounds are judged in order, however
\* agent-done and terminal-exit meet: "so duplicate triggers ... cannot
\* interleave load-mutate-save cycles" (task-runner.ts runExclusive).
VerdictOnce == \A i, j \in DOMAIN judged : i < j => judged[i] < judged[j]

\* A task whose agent's terminal is gone does not stay in that agent's
\* *-running status (handleTerminalExit).
Abandoned(t) == exists /\ agents[t].phase = "gone"
                /\ (WorkerExit(task, t) \/ JudgeTurn(task, t))
ExitAdvances ==
  (\E t \in AgentTerminals : Abandoned(t)) ~> (\A t \in AgentTerminals : ~Abandoned(t))

\* A message's pointer line is typed only into the terminal of the role whose
\* turn it is, also when the call waited behind a start or a verdict.
ToldRightRole ==
  \A i \in DOMAIN queue :
    queue[i].step = "told" => Target(task, queue[i].op) = queue[i].term
=============================================================================
