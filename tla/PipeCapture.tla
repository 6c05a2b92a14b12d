---------------------------- MODULE PipeCapture -----------------------------
(***************************************************************************)
(* Arming the pipe log of one tmux session (ensurePipeCapture in            *)
(* src/backend/services/tmux-terminal-backend.ts).  Every create and every  *)
(* attach of the session arms it, and `pipe-pane -o` TOGGLES: run on an     *)
(* open pipe it closes it.  The calls of one service take turns; a restart  *)
(* may cut a call off after any of its steps.                               *)
(***************************************************************************)
EXTENDS Naturals, Sequences

CONSTANTS Calls,        \* ensurePipeCapture calls of the session
          MaxRestarts   \* bound on the restarts of the service

ASSUME CaptureAssumption == MaxRestarts \in Nat

VARIABLES
  pipe,      \* where the pane writes: "closed", "here", or "elsewhere" (the
             \* log location of an older release)
  file,      \* does the log file exist here?
  turn,      \* pipeArmLocks: the calls under way, first in line first
  step,      \* of a call
  open,      \* what the call's display-message said of the pane's pipe
  restarts

captureVars == <<pipe, file, turn, step, open, restarts>>

Steps == {"new", "check", "look", "close", "touch", "arm", "done"}

CaptureTypeOK ==
  /\ pipe \in {"closed", "here", "elsewhere"} /\ file \in BOOLEAN
  /\ turn \in Seq(Calls)
  /\ step \in [Calls -> Steps] /\ open \in [Calls -> BOOLEAN]
  /\ restarts \in 0..MaxRestarts

\* A session of this release, of an older one, or new; an older release's
\* pipe has no log file here.
CaptureInit ==
  /\ \/ pipe = "closed" /\ file \in BOOLEAN
     \/ pipe = "here" /\ file = TRUE
     \/ pipe = "elsewhere" /\ file = FALSE
  /\ turn = <<>> /\ restarts = 0
  /\ step = [c \in Calls |-> "new"] /\ open = [c \in Calls |-> FALSE]

-----------------------------------------------------------------------------

\* Mutant: no turns, every call runs at once.
AtOnce(c) == step[c] # "new"

\* The calls before it have settled.
HasTurn(c) == turn # <<>> /\ Head(turn) = c

Goes(c, from, to) ==
  /\ step[c] = from /\ HasTurn(c)
  /\ step' = [step EXCEPT ![c] = to]

Enters(c) ==
  /\ step[c] = "new"
  /\ step' = [step EXCEPT ![c] = "check"]
  /\ turn' = Append(turn, c)
  /\ UNCHANGED <<pipe, file, open, restarts>>

\* display-message '#{pane_pipe}'
Checks(c) ==
  /\ Goes(c, "check", "look")
  /\ open' = [open EXCEPT ![c] = pipe # "closed"]
  /\ UNCHANGED <<pipe, file, turn, restarts>>

\* Mutant: an open pipe is taken to write here.
TrustsOpenPipe(c) ==
  /\ Goes(c, "look", IF open[c] THEN "done" ELSE "touch")
  /\ turn' = IF open[c] THEN Tail(turn) ELSE turn
  /\ UNCHANGED <<pipe, file, open, restarts>>

\* Mutant: an early return keeps the turn.
LooksKeepsTurn(c) ==
  /\ Goes(c, "look", IF ~open[c] THEN "touch"
                     ELSE IF file THEN "done" ELSE "close")
  /\ UNCHANGED <<pipe, file, turn, open, restarts>>

\* Open with its file here: armed already.  Open without it: the pane writes
\* elsewhere, so that pipe is closed first.
LooksAtLog(c) ==
  /\ Goes(c, "look", IF ~open[c] THEN "touch"
                     ELSE IF file THEN "done" ELSE "close")
  /\ turn' = IF open[c] /\ file THEN Tail(turn) ELSE turn
  /\ UNCHANGED <<pipe, file, open, restarts>>

\* pipe-pane without a command
ClosesPipe(c) ==
  /\ Goes(c, "close", "touch")
  /\ pipe' = "closed"
  /\ UNCHANGED <<file, turn, open, restarts>>

Touches(c) ==
  /\ Goes(c, "touch", "arm")
  /\ file' = TRUE
  /\ UNCHANGED <<pipe, turn, open, restarts>>

\* pipe-pane -o 'cat >> log'
Arms(c) ==
  /\ Goes(c, "arm", "done")
  /\ pipe' = IF pipe = "closed" THEN "here" ELSE "closed"
  /\ turn' = Tail(turn)
  /\ UNCHANGED <<file, open, restarts>>

\* The service stops between two steps; every session is attached again.
CaptureRestart ==
  /\ restarts < MaxRestarts /\ restarts' = restarts + 1
  /\ turn' = <<>>
  /\ step' = [c \in Calls |-> "new"] /\ open' = [c \in Calls |-> FALSE]
  /\ UNCHANGED <<pipe, file>>

CaptureNext ==
  \/ \E c \in Calls :
       \/ Enters(c) \/ Checks(c) \/ LooksAtLog(c) \/ ClosesPipe(c) \/ Touches(c)
       \/ Arms(c)
  \/ CaptureRestart

CaptureSpec == CaptureInit /\ [][CaptureNext]_captureVars

CaptureWork(c) == Checks(c) \/ LooksAtLog(c) \/ ClosesPipe(c) \/ Touches(c) \/ Arms(c)

CaptureFairness == \A c \in Calls : WF_captureVars(CaptureWork(c))

CaptureFairSpec == CaptureSpec /\ CaptureFairness

-----------------------------------------------------------------------------

\* When a call returns, the pane writes to the log the service reads: not to
\* an older release's file, and not nowhere because two calls toggled.
ArmedOnReturn == \A c \in Calls : step[c] = "done" => pipe = "here"

\* An armed pipe is never closed again, by any number of attaches, restarts
\* or calls cut off half-way (spike S9: create then attach closed it).
StaysArmed == [][pipe = "here" => pipe' = "here"]_captureVars

\* No call waits for ever for its turn.
UnderWay == {c \in Calls : step[c] \notin {"new", "done"}}
EveryCallReturns == (UnderWay # {}) ~> (UnderWay = {})

-----------------------------------------------------------------------------
(* What the safety properties rest on *)

\* An open pipe writes here exactly if the log file exists.
FileTells == pipe = "here" => file
ElsewhereTells == pipe = "elsewhere" => ~file

\* What a call decided still holds when its turn comes to act on it.
DecisionStands ==
  \A c \in Calls :
    /\ step[c] = "look" => open[c] = (pipe # "closed")
    /\ step[c] = "close" => pipe = "elsewhere"
    /\ step[c] \in {"touch", "arm"} => pipe = "closed"
    /\ step[c] = "arm" => file
    /\ step[c] \in {"look", "close", "touch", "arm"} => HasTurn(c)
=============================================================================
