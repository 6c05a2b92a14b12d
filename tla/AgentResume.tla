---------------------------- MODULE AgentResume ----------------------------
(***************************************************************************)
(* One-tap agent resume (src/backend/agent-resume.ts, server.ts and the     *)
(* terminal_agent_sessions rows of foundation-state.ts): shell markers name *)
(* the agent of a session in its row, the end of the session leaves the     *)
(* name there, and a Resume request reopens the conversation in a new       *)
(* terminal.  All sessions are of one owner and in one folder.              *)
(*                                                                         *)
(* Assumed: a conversation that the user starts by hand is a new one; a     *)
(* Resume tap comes after the marker of a start by hand was read, and after *)
(* the writes of what was read.                                             *)
(***************************************************************************)
EXTENDS Naturals, Sequences, FiniteSets, SequencesExt

CONSTANTS Sessions,        \* terminal ids, numbered: those open at first,
          Open,            \* and those that Resume creates
          Conversations,   \* numbered from 1
          WithId,          \* those whose marker has an id; the others are
                           \* Codex runs without one
          ResumeRequests,  \* POST .../resume, each with its own token
          ManualStarts,    \* may an agent be started by hand while a Resume
                           \* request is under way?
          MaxAgentEvents   \* bound on ends, closes and restarts

ASSUME ResumeAssumption ==
  /\ 0 \notin ResumeRequests /\ 0 \notin Conversations
  /\ Sessions \subseteq Nat \ {0} /\ Open \subseteq Sessions
  /\ MaxAgentEvents \in Nat

VARIABLES
  up,          \* the service runs
  sessionRow,  \* terminal_sessions.status
  scheduled,   \* termination_scheduled_at is set
  agentName,   \* the conversation that terminal_agent_sessions names, or 0;
               \* the code sees which one only for those WithId
  reservedAt,  \* the token of agent_resume_reserved_at, or 0
  stale,       \* tokens older than AGENT_RESUME_RESERVATION_TTL_MS
  terminals,   \* sessions with a handle in memory
  showsCodex,  \* term.agentName = "codex"
  running,     \* the conversation of the agent in the session, or 0
  lastCodex,   \* what `codex resume --last` opens
  markers,     \* in the pipe log, not read yet: a conversation, or 0 for done
  agentResumeWrite,  \* the chain of writes behind the markers that were read
  died,        \* sessions whose end the service has not handled yet
  started,     \* history: the conversations there have been
  atDeath,     \* history: the conversation that ran when the session ended
  request,     \* the resume requests
  handoff,     \* the request whose codexResumeHandoffs entry is in force, or 0
  forgotten,   \* history: an entry was deleted that another hand-over needed
  agentEvents

sessionRows == <<sessionRow, scheduled, agentName, reservedAt, stale>>
host == <<running, lastCodex, died, atDeath, started>>
memory == <<up, terminals, showsCodex, agentResumeWrite, handoff, forgotten>>
resumeVars == <<sessionRows, host, memory, markers, request, agentEvents>>

NoRequest == [phase |-> "unused", of |-> 0, mode |-> "none", made |-> 0]

ResumeTypeOK ==
  /\ up \in BOOLEAN
  /\ sessionRow \in [Sessions -> {"none", "active", "ended"}]
  /\ scheduled \subseteq Sessions
  /\ agentName \in [Sessions -> Conversations \cup {0}]
  /\ reservedAt \in [Sessions -> ResumeRequests \cup {0}]
  /\ stale \subseteq ResumeRequests
  /\ terminals \subseteq Sessions /\ showsCodex \subseteq Sessions
  /\ running \in [Sessions -> Conversations \cup {0}]
  /\ lastCodex \in Conversations \cup {0}
  /\ markers \in [Sessions -> Seq(Conversations \cup {0})]
  /\ agentResumeWrite \in [Sessions -> Seq(Conversations \cup {0})]
  /\ died \subseteq Sessions /\ atDeath \in [Sessions -> Conversations \cup {0}]
  /\ request \in [ResumeRequests -> [phase : {"unused", "create", "typed", "over", "lost"},
                               of : Sessions \cup {0},
                               mode : {"none", "exact", "last", "pick"},
                               made : Sessions \cup {0}]]
  /\ started \subseteq Conversations /\ handoff \in ResumeRequests \cup {0}
  /\ forgotten \in BOOLEAN
  /\ agentEvents \in 0..MaxAgentEvents

\* Some terminals are open, with nothing run in them yet.
ResumeInit ==
  /\ up = TRUE
  /\ sessionRow = [s \in Sessions |-> IF s \in Open THEN "active" ELSE "none"]
  /\ terminals = Open
  /\ scheduled = {} /\ agentName = [s \in Sessions |-> 0]
  /\ reservedAt = [s \in Sessions |-> 0] /\ stale = {} /\ showsCodex = {}
  /\ running = [s \in Sessions |-> 0] /\ lastCodex = 0
  /\ markers = [s \in Sessions |-> <<>>]
  /\ agentResumeWrite = [s \in Sessions |-> <<>>]
  /\ died = {} /\ atDeath = [s \in Sessions |-> 0]
  /\ request = [q \in ResumeRequests |-> NoRequest] /\ handoff = 0
  /\ forgotten = FALSE /\ started = {} /\ agentEvents = 0

-----------------------------------------------------------------------------
\* The agents, and the markers of the shell wrapper.

Lives(s) == sessionRow[s] = "active" /\ s \notin died
Marks(s, mark) == markers' = [markers EXCEPT ![s] = Append(@, mark)]
Opened(c) == lastCodex' = IF c \in WithId THEN lastCodex ELSE c

AgentStarts(s, c) ==
  /\ up /\ s \in terminals /\ Lives(s) /\ running[s] = 0 /\ markers[s] = <<>>
  /\ ManualStarts \/ \A q \in ResumeRequests : request[q].phase \notin {"create", "typed"}
  /\ \A q \in ResumeRequests : request[q].phase = "typed" => request[q].made # s
  /\ c = Cardinality(started) + 1 /\ started' = started \cup {c}
  /\ running' = [running EXCEPT ![s] = c] /\ Opened(c)
  /\ showsCodex' = IF c \in WithId THEN showsCodex ELSE showsCodex \cup {s}
  /\ agentResumeWrite' = [agentResumeWrite EXCEPT ![s] = Append(@, c)]
  /\ UNCHANGED <<sessionRows, died, atDeath, up, terminals, handoff, forgotten,
                 markers, request, agentEvents>>

\* What people and machines do, bounded.
AgentEvent == agentEvents < MaxAgentEvents /\ agentEvents' = agentEvents + 1

AgentExits(s) ==
  /\ running[s] # 0 /\ AgentEvent
  /\ running' = [running EXCEPT ![s] = 0] /\ Marks(s, 0)
  /\ UNCHANGED <<sessionRows, lastCodex, died, atDeath, started, memory, request>>

\* The pump (every 2 s) reads the log: recordAgentResumeEvents().
MarkerArrives(s) ==
  /\ up /\ s \in terminals /\ markers[s] # <<>>
  /\ LET mark == Head(markers[s]) IN
     /\ agentResumeWrite' = [agentResumeWrite EXCEPT ![s] = Append(@, mark)]
     /\ showsCodex' = IF mark \in Conversations \ WithId THEN showsCodex \cup {s}
                      ELSE showsCodex \ {s}
  /\ markers' = [markers EXCEPT ![s] = Tail(@)]
  /\ UNCHANGED <<sessionRows, host, up, terminals, handoff, forgotten, request,
                 agentEvents>>

Names(s, c) == agentName' = [agentName EXCEPT ![s] = c]
               /\ reservedAt' = [reservedAt EXCEPT ![s] = 0]

\* Mutant: a start whose write waited is recorded in an ended row, too.
RecordsAnyway(s, c) == Names(s, c)

\* recordAgentSession()
Records(s, c) == IF sessionRow[s] = "ended" THEN UNCHANGED <<agentName, reservedAt>>
                 ELSE Names(s, c)

\* queueAgentResumeWrite(): one write after the other; the service has looked
\* up the folder, which is an await, before a start is recorded.
WriteRuns(s) ==
  /\ up /\ agentResumeWrite[s] # <<>>
  /\ LET mark == Head(agentResumeWrite[s]) IN
     IF mark = 0 THEN Names(s, 0) ELSE Records(s, mark)
  /\ agentResumeWrite' = [agentResumeWrite EXCEPT ![s] = Tail(@)]
  /\ UNCHANGED <<sessionRow, scheduled, stale, host, up, terminals, showsCodex,
                 handoff, forgotten, markers, request, agentEvents>>

-----------------------------------------------------------------------------
\* The ends of a session.

\* markTerminalSessionEnded(), and what no longer has a handle
EndsRow(s) == sessionRow' = [sessionRow EXCEPT ![s] = "ended"] /\ scheduled' = scheduled \ {s}
Removes(s) ==
  /\ terminals' = terminals \ {s} /\ showsCodex' = showsCodex \ {s}
  /\ markers' = [markers EXCEPT ![s] = <<>>]
Stops(s) ==
  /\ running' = [running EXCEPT ![s] = 0]
  /\ atDeath' = [atDeath EXCEPT ![s] = running[s]]

\* tmux crashes, the machine reboots, the shell exits.
SessionDies(s) ==
  /\ Lives(s) /\ AgentEvent /\ Stops(s) /\ died' = died \cup {s}
  /\ UNCHANGED <<sessionRows, lastCodex, started, memory, markers, request>>

\* finalizeTerminalExit(), or reconcileSessionsOnStartup()
ExitHandled(s) ==
  /\ up /\ s \in died /\ sessionRow[s] = "active" /\ EndsRow(s) /\ Removes(s)
  /\ IF s \in scheduled THEN Names(s, 0) ELSE UNCHANGED <<agentName, reservedAt>>
  /\ died' = died \ {s}
  /\ UNCHANGED <<stale, running, lastCodex, atDeath, started, up, agentResumeWrite,
                 handoff, forgotten, request, agentEvents>>

\* close-later, and its cancel
CloseLater(s) ==
  /\ up /\ s \in terminals /\ sessionRow[s] = "active" /\ AgentEvent
  /\ scheduled' = IF s \in scheduled THEN scheduled \ {s} ELSE scheduled \cup {s}
  /\ UNCHANGED <<sessionRow, agentName, reservedAt, stale, host, memory, markers,
                 request>>

\* DELETE, or the sweep of the scheduled closes: the user closed it.
UserClosesTab(s) ==
  /\ up /\ s \in terminals /\ Lives(s) /\ AgentEvent
  /\ EndsRow(s) /\ Removes(s) /\ Stops(s) /\ Names(s, 0)
  /\ UNCHANGED <<stale, lastCodex, died, started, up, agentResumeWrite, handoff,
                 forgotten, request>>

-----------------------------------------------------------------------------
\* POST /api/terminals/:id/resume

InProgress == {request[q].of : q \in {p \in ResumeRequests :
                 request[p].phase \in {"create", "typed"}}}

\* Mutant: a conversation that is being handed over does not count.
SharedWithoutHandoff(s) ==
  \/ showsCodex \ {s} # {}
  \/ \E t \in Sessions \ {s} : agentName[t] \in Conversations \ WithId

\* codexFolderShared()
CodexFolderShared(s) ==
  \/ handoff # 0
  \/ showsCodex \ {s} # {}
  \/ \E t \in Sessions \ {s} : agentName[t] \in Conversations \ WithId

\* planAgentResume()
Mode(s) == IF agentName[s] \in WithId THEN "exact"
           ELSE IF CodexFolderShared(s) THEN "pick" ELSE "last"

\* Up to the first await after the checks; a request that is refused changes
\* nothing.
ResumeReserves(q, s) ==
  /\ up /\ request[q].phase = "unused"
  /\ sessionRow[s] = "ended" /\ s \notin terminals /\ agentName[s] # 0
  /\ s \notin InProgress /\ reservedAt[s] \in stale \cup {0}
  /\ \A t \in Sessions : agentResumeWrite[t] = <<>>
  /\ reservedAt' = [reservedAt EXCEPT ![s] = q]
  /\ handoff' = IF agentName[s] \in WithId THEN handoff ELSE q
  /\ request' = [request EXCEPT ![q] = [phase |-> "create", of |-> s,
                                        mode |-> Mode(s), made |-> 0]]
  /\ UNCHANGED <<sessionRow, scheduled, agentName, stale, host, up, terminals,
                 showsCodex, agentResumeWrite, forgotten, markers, agentEvents>>

Owns(q) == reservedAt[request[q].of] = q

\* A Codex run without an id that q reopens, until its start marker was read
StillOpens(q) ==
  /\ request[q].mode \in {"last", "pick"}
  /\ \/ request[q].phase \in {"create", "typed"}
     \/ /\ request[q].phase = "over" /\ request[q].made # 0
        /\ markers[request[q].made] # <<>> /\ Head(markers[request[q].made]) # 0

OthersOpen(q) == \E p \in ResumeRequests \ {q} : StillOpens(p)

\* releaseAgentResume(), for the token's owner, and the entry of the folder:
\* a later hand-over overwrites an earlier one's, and deletes it as its own.
Releases(q) ==
  /\ reservedAt' = IF Owns(q) THEN [reservedAt EXCEPT ![request[q].of] = 0]
                   ELSE reservedAt
  /\ handoff' = IF handoff = q THEN 0 ELSE handoff
  /\ forgotten' = (forgotten \/ (handoff = q /\ OthersOpen(q)))

ResumeOver(q, n) == request' = [request EXCEPT ![q].phase = "over", ![q].made = n]

\* The create path failed, or refused (a limit, a folder that is not allowed).
ResumeFails(q) ==
  /\ up /\ request[q].phase = "create" /\ ResumeOver(q, 0) /\ Releases(q)
  /\ UNCHANGED <<sessionRow, scheduled, agentName, stale, host, up, terminals,
                 showsCodex, agentResumeWrite, markers, agentEvents>>

\* The new terminal is there; the command is typed into it unless it is in
\* another folder or the reservation was lost.
CreateDone(q, n, sameFolder) ==
  /\ up /\ request[q].phase = "create"
  /\ sessionRow[n] = "none" /\ \A m \in Sessions : m < n => sessionRow[m] # "none"
  /\ sessionRow' = [sessionRow EXCEPT ![n] = "active"] /\ terminals' = terminals \cup {n}
  /\ IF sameFolder /\ Owns(q)
     THEN /\ request' = [request EXCEPT ![q].phase = "typed", ![q].made = n]
          /\ UNCHANGED <<reservedAt, handoff, forgotten>>
     ELSE ResumeOver(q, n) /\ Releases(q)
  /\ UNCHANGED <<scheduled, agentName, stale, host, up, showsCodex,
                 agentResumeWrite, markers, agentEvents>>

\* 300 ms later: Enter, and the row is handed over in the same turn.  In the
\* agent's own picker the user picks the conversation that the row was about.
Opens(q) == IF request[q].mode = "last" THEN lastCodex
            ELSE agentName[request[q].of]

Enter(q) ==
  /\ up /\ request[q].phase = "typed"
  /\ LET n == request[q].made IN
     /\ Lives(n) /\ n \in terminals /\ ResumeOver(q, n)
     /\ Names(request[q].of, 0)
     /\ running' = [running EXCEPT ![n] = Opens(q)]
     /\ Opened(Opens(q)) /\ Marks(n, Opens(q))
  /\ UNCHANGED <<sessionRow, scheduled, stale, died, atDeath, started, memory, agentEvents>>

\* The new terminal is gone: the write throws.
EnterFails(q) ==
  /\ up /\ request[q].phase = "typed" /\ ~Lives(request[q].made)
  /\ ResumeOver(q, request[q].made) /\ Releases(q)
  /\ UNCHANGED <<sessionRow, scheduled, agentName, stale, host, up, terminals,
                 showsCodex, agentResumeWrite, markers, agentEvents>>

\* 60 s
ReservationAges(q) ==
  /\ q \in {reservedAt[s] : s \in Sessions} \ stale
  /\ stale' = stale \cup {q}
  /\ UNCHANGED <<sessionRow, scheduled, agentName, reservedAt, host, memory, markers,
                 request, agentEvents>>

\* 30 s after the last reservation, by when every resumed agent's own marker
\* has arrived
HandoffEnds ==
  /\ handoff # 0 /\ \A q \in ResumeRequests : ~StillOpens(q)
  /\ handoff' = 0
  /\ UNCHANGED <<sessionRows, host, up, terminals, showsCodex, agentResumeWrite,
                 forgotten, markers, request, agentEvents>>

-----------------------------------------------------------------------------
\* The service stops with everything that is in its memory; on its return it
\* attaches the sessions that live, shows the agents that it finds in their
\* process trees, and reads the logs from their ends.

ServiceStops ==
  /\ up /\ AgentEvent
  /\ up' = FALSE /\ terminals' = {} /\ showsCodex' = {} /\ handoff' = 0
  /\ agentResumeWrite' = [s \in Sessions |-> <<>>]
  /\ request' = [q \in ResumeRequests |->
       IF request[q].phase \in {"create", "typed"}
       THEN [request[q] EXCEPT !.phase = "lost"] ELSE request[q]]
  /\ UNCHANGED <<sessionRows, host, forgotten, markers>>

ServiceStarts ==
  /\ ~up /\ up' = TRUE
  /\ LET there == {s \in Sessions : Lives(s)} IN
     /\ terminals' = there
     /\ showsCodex' = {s \in there : running[s] \in Conversations \ WithId}
     /\ sessionRow' = [s \in Sessions |-> IF s \in died THEN "ended" ELSE sessionRow[s]]
     /\ agentName' = [s \in Sessions |->
          IF s \in died /\ s \in scheduled THEN 0 ELSE agentName[s]]
     /\ reservedAt' = [s \in Sessions |->
          IF s \in died /\ s \in scheduled THEN 0 ELSE reservedAt[s]]
     /\ scheduled' = scheduled \ died
  /\ died' = {} /\ markers' = [s \in Sessions |-> <<>>]
  /\ UNCHANGED <<stale, running, lastCodex, atDeath, started, agentResumeWrite, handoff,
                 forgotten, request, agentEvents>>

-----------------------------------------------------------------------------

ResumeNext ==
  \/ \E s \in Sessions : \E c \in Conversations : AgentStarts(s, c)
  \/ \E s \in Sessions : AgentExits(s) \/ MarkerArrives(s) \/ WriteRuns(s)
  \/ \E s \in Sessions : SessionDies(s) \/ ExitHandled(s)
  \/ \E s \in Sessions : CloseLater(s) \/ UserClosesTab(s)
  \/ \E q \in ResumeRequests, s \in Sessions : ResumeReserves(q, s)
  \/ \E q \in ResumeRequests : ResumeFails(q) \/ Enter(q) \/ EnterFails(q)
  \/ \E q \in ResumeRequests, n \in Sessions, same \in BOOLEAN : CreateDone(q, n, same)
  \/ \E q \in ResumeRequests : ReservationAges(q)
  \/ HandoffEnds \/ ServiceStops \/ ServiceStarts

ResumeSpec == ResumeInit /\ [][ResumeNext]_resumeVars

-----------------------------------------------------------------------------

\* "Two taps, two browsers or two direct calls never start two agents on one
\* conversation" (server.ts), and no --last opens one that runs.
NeverTwoAgents ==
  \A s, t \in Sessions : s # t /\ running[s] # 0 => running[s] # running[t]

\* While no hand-over lost its entry to a later one that failed, this is so.
OneAgentEach == forgotten \/ NeverTwoAgents

\* A row is reserved for a request at work on it, and for no other, or for one
\* that died with the service; every other end of a request released it or
\* handed it over (the finally of the resume route).
ReservedByItsRequest ==
  \A s \in Sessions : \A q \in ResumeRequests : reservedAt[s] = q =>
    /\ request[q].of = s /\ request[q].phase \in {"create", "typed", "lost"}
    /\ sessionRow[s] = "ended"

\* What the user closed is not offered again, whatever write was still under
\* way then (recordAgentSession, forgetAgentResumeOnUserClose).
ClosedStaysClosed ==
  [][\A s \in Sessions :
       sessionRow[s] = "ended" /\ agentName[s] = 0 => agentName'[s] = 0]_resumeVars

\* "An ENDED row that still names an agent therefore had its agent alive when
\* the session died" (server.ts).
EndedHadItsAgent ==
  \A s \in Sessions : sessionRow[s] = "ended" /\ agentName[s] # 0
                      /\ agentResumeWrite[s] = <<>> => atDeath[s] # 0
=============================================================================
