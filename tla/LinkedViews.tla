---------------------------- MODULE LinkedViews ----------------------------
(***************************************************************************)
(* Linked views (server.ts): a terminal's tmux session with more than one  *)
(* handle, each a tmux client with a row of its own.  The handle of the    *)
(* terminal itself is restored when its client dies; a view is not.  The   *)
(* session is killed with the last handle of the Map.                      *)
(*                                                                         *)
(* A probe and what follows from it are one step, and so are a stop and    *)
(* the next start; SessionLifecycle has both in detail.  Closing stands    *)
(* for DELETE, the sweep of the scheduled closes and the revocation.       *)
(***************************************************************************)
EXTENDS Naturals

CONSTANTS Primary,       \* the terminal whose name the session has
          Views,         \* its linked views
          MaxViewFaults  \* bound on lone exits, failed kills, restarts

ASSUME ViewsAssumption == MaxViewFaults \in Nat

VARIABLES
  shared,      \* the tmux session lives
  viewRow,     \* terminal_sessions.status of each handle
  place,       \* out of the Map, in backend.attach, or in the Map
  tmuxClient,  \* its tmux client; "gone": exited, and that is not dealt with
  kills,       \* teardowns that await kill-session
  asked,       \* history: the handles that were closed on request
  exited,      \* history: the shell exited by itself
  unkilled,    \* history: a kill failed, or a restart came before it
  viewFaults

viewVars == <<shared, viewRow, place, tmuxClient, kills, asked, exited, unkilled,
              viewFaults>>

ViewHandles == Views \cup {Primary}

ViewsTypeOK ==
  /\ shared \in BOOLEAN /\ exited \in BOOLEAN /\ unkilled \in BOOLEAN
  /\ viewRow \in [ViewHandles -> {"none", "active", "ended"}]
  /\ place \in [ViewHandles -> {"out", "attach", "map"}]
  /\ tmuxClient \in [ViewHandles -> {"none", "runs", "gone"}]
  /\ kills \subseteq ViewHandles /\ asked \subseteq ViewHandles
  /\ viewFaults \in 0..MaxViewFaults

\* The terminal is open and has no view.
ViewsInit ==
  /\ shared = TRUE /\ exited = FALSE /\ unkilled = FALSE
  /\ viewRow = [h \in ViewHandles |-> IF h = Primary THEN "active" ELSE "none"]
  /\ place = [h \in ViewHandles |-> IF h = Primary THEN "map" ELSE "out"]
  /\ tmuxClient = [h \in ViewHandles |-> IF h = Primary THEN "runs" ELSE "none"]
  /\ kills = {} /\ asked = {} /\ viewFaults = 0

ViewFault == viewFaults < MaxViewFaults /\ viewFaults' = viewFaults + 1

-----------------------------------------------------------------------------
\* Getting a handle.

\* POST /api/terminals/:id/linked-view, of the terminal or of another view
LinkedView(v, source) ==
  /\ place[source] = "map" /\ viewRow[v] = "none" /\ place[v] = "out"
  /\ place' = [place EXCEPT ![v] = "attach"]
  /\ UNCHANGED <<shared, viewRow, tmuxClient, kills, asked, exited, unkilled, viewFaults>>

\* The re-attach timer, a poll or an upgrade: the terminal's own name is
\* probed, and only that of a terminal is the session's.
RestorePrimary ==
  /\ viewRow[Primary] = "active" /\ place[Primary] = "out"
  /\ IF shared
     THEN place' = [place EXCEPT ![Primary] = "attach"] /\ UNCHANGED viewRow
     ELSE viewRow' = [viewRow EXCEPT ![Primary] = "ended"] /\ UNCHANGED place
  /\ UNCHANGED <<shared, tmuxClient, kills, asked, exited, unkilled, viewFaults>>

ClientSpawns(h) ==
  /\ place[h] = "attach" /\ tmuxClient[h] = "none"
  /\ tmuxClient' = [tmuxClient EXCEPT ![h] = "runs"]
  /\ UNCHANGED <<shared, viewRow, place, kills, asked, exited, unkilled, viewFaults>>

\* The attach has answered, whether its client still runs or not; the row of
\* a view is written in the same turn.
ViewRegisters(h) ==
  /\ place[h] = "attach" /\ tmuxClient[h] # "none"
  /\ place' = [place EXCEPT ![h] = "map"]
  /\ viewRow' = [viewRow EXCEPT ![h] = "active"]
  /\ UNCHANGED <<shared, tmuxClient, kills, asked, exited, unkilled, viewFaults>>

-----------------------------------------------------------------------------
\* Losing it.

\* Judged at once: finalizeTerminalExit() of a view, whose row may not be
\* there yet; a handle that is still to be registered is registered later.
ViewExits(v) ==
  /\ tmuxClient' = [tmuxClient EXCEPT ![v] = IF place[v] = "attach" THEN "gone" ELSE "none"]
  /\ viewRow' = [viewRow EXCEPT ![v] = IF @ = "none" THEN "none" ELSE "ended"]
  /\ place' = [place EXCEPT ![v] = IF @ = "map" THEN "out" ELSE @]

\* A client exits with the session, or alone (detach-client, a stray kill).
SharedClientExits(h) ==
  /\ tmuxClient[h] = "runs"
  /\ IF shared THEN ViewFault ELSE UNCHANGED viewFaults
  /\ IF h = Primary
     THEN tmuxClient' = [tmuxClient EXCEPT ![h] = "gone"] /\ UNCHANGED <<viewRow, place>>
     ELSE ViewExits(h)
  /\ UNCHANGED <<shared, kills, asked, exited, unkilled>>

\* The terminal's own client: the probe has answered and the handle is settled.
PrimaryExitJudged ==
  /\ tmuxClient[Primary] = "gone" /\ place[Primary] # "attach"
  /\ tmuxClient' = [tmuxClient EXCEPT ![Primary] = "none"]
  /\ place' = [place EXCEPT ![Primary] = "out"]
  /\ viewRow' = IF shared /\ place[Primary] = "map" THEN viewRow
                ELSE [viewRow EXCEPT ![Primary] = "ended"]
  /\ UNCHANGED <<shared, kills, asked, exited, unkilled, viewFaults>>

\* Mutant: the handle that is being closed counts as one that stays.
CountsItself(h) == \E o \in ViewHandles : place[o] = "map"

\* hasOtherTerminalForSession(), after the handle has left the Map
HasOther(h) == \E o \in ViewHandles \ {h} : place[o] = "map"

\* The row ends and the handle leaves the Map before the look at the others,
\* all in one turn.
CloseHandle(h) ==
  /\ place[h] = "map"
  /\ viewRow' = [viewRow EXCEPT ![h] = "ended"]
  /\ place' = [place EXCEPT ![h] = "out"]
  /\ asked' = asked \cup {h}
  /\ IF HasOther(h)
     THEN tmuxClient' = [tmuxClient EXCEPT ![h] = "none"] /\ UNCHANGED kills
     ELSE kills' = kills \cup {h} /\ UNCHANGED tmuxClient
  /\ UNCHANGED <<shared, exited, unkilled, viewFaults>>

\* kill-session returns, and the client of the closed handle is killed.
SharedKillDone(h) ==
  /\ h \in kills /\ kills' = kills \ {h}
  /\ \/ shared' = FALSE /\ UNCHANGED <<unkilled, viewFaults>>
     \/ shared /\ ViewFault /\ unkilled' = TRUE /\ UNCHANGED shared
  /\ tmuxClient' = [tmuxClient EXCEPT ![h] = "none"]
  /\ UNCHANGED <<viewRow, place, asked, exited>>

\* The shell exits.
SharedShellExits ==
  /\ shared /\ shared' = FALSE /\ exited' = TRUE
  /\ UNCHANGED <<viewRow, place, tmuxClient, kills, asked, unkilled, viewFaults>>

\* The service stops, with its clients; reconcileSessionsOnStartup() finds no
\* session of a view's own name and ends the row.
ViewsRestart ==
  /\ ViewFault
  /\ place' = [h \in ViewHandles |-> "out"] /\ tmuxClient' = [h \in ViewHandles |-> "none"]
  /\ viewRow' = [h \in ViewHandles |->
       IF viewRow[h] = "active" /\ ~(h = Primary /\ shared) THEN "ended" ELSE viewRow[h]]
  /\ kills' = {} /\ unkilled' = (unkilled \/ kills # {})
  /\ UNCHANGED <<shared, asked, exited>>

-----------------------------------------------------------------------------

ViewsNext ==
  \/ \E v \in Views, source \in ViewHandles : LinkedView(v, source)
  \/ RestorePrimary
  \/ \E h \in ViewHandles : ClientSpawns(h) \/ ViewRegisters(h)
  \/ \E h \in ViewHandles : SharedClientExits(h)
  \/ PrimaryExitJudged
  \/ \E h \in ViewHandles : CloseHandle(h) \/ SharedKillDone(h)
  \/ SharedShellExits \/ ViewsRestart

ViewsSpec == ViewsInit /\ [][ViewsNext]_viewVars

-----------------------------------------------------------------------------

\* When all the handles there ever were have been closed, in whatever order
\* and however many at once, the session goes with the last of them
\* (killTmuxSessionIfLast).
LastCloseEndsSession ==
  asked = {h \in ViewHandles : viewRow[h] # "none"} /\ kills = {} /\ ~unkilled
    => ~shared

\* "Only an explicit close ends a session"
\* (docs/plans/2026-08-30-session-lifetime-defaults-design.md:44): what ends
\* that of a terminal is its shell's exit or a close of the terminal.
OnlyCloseEndsSession == ~shared => exited \/ Primary \in asked

\* A view that is in the Map has a client, or one whose exit will be seen
\* ("its attach exit still ends only the view", attach-exit-liveness.test.ts:554).
ViewExitEndsView == \A v \in Views : place[v] = "map" => tmuxClient[v] = "runs"
=============================================================================
