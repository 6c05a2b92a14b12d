---------------------------- MODULE ScrollControl ----------------------------
(***************************************************************************)
(* The TerminalScrollController of services/terminal-scroll-control.ts: one *)
(* ordered, bounded queue per tmux terminal for scroll gestures and for the *)
(* input that must wait until tmux copy-mode has been left, so that         *)
(* copy-mode never eats what is typed on a touch page.                      *)
(*                                                                         *)
(* JavaScript runs to completion: while the drain is in its loop nothing    *)
(* else of the controller runs (every handler needs drain # "loop").  tmux  *)
(* commands take effect, answer, fail or are killed at any moment.  Only    *)
(* the controller's own commands enter copy-mode (tmux mouse is off, see    *)
(* ensureServerOptions); anything may leave it.                             *)
(***************************************************************************)
EXTENDS Integers, FiniteSets, SequencesExt

CONSTANTS MaxOps,      \* MAX_QUEUED_SCROLL_OPS
          MaxHeld,     \* MAX_HELD_INPUT_BYTES, in inputs of one byte
          MaxLines,    \* TOUCH_SCROLL_MAX_LINES, in gestures of one line
          MaxRequests  \* bound: scroll requests and inputs

ASSUME ScrollAssumption ==
  /\ MaxOps \in Nat \ {0} /\ MaxHeld \in Nat /\ MaxLines \in Nat \ {0}
  /\ MaxRequests \in Nat

VARIABLES
  queue,      \* the ops that wait
  inFlight,   \* the scroll op that runs, or NoOp
  drain,      \* where the drain is
  sync,       \* has this drain() not yet awaited anything?
  heldBytes,
  mayBeInCopyMode,
  cache,      \* how the cached state routes a touch gesture, or "none"
  applied,    \* has tmux carried out the command the drain waits for?
  read,       \* the state reads under way, the drain's and the emit chain's
  left,       \* what is left of a confirmed exit's time
  pane,       \* tmux: is the pane in copy-mode, does its app take keys?
  active,     \* isActive()
  scrolls,    \* scroll requests so far
  typed,      \* inputs so far; an input is [id, from]
  pty,        \* ids written to the tmux client, in order
  dropped,    \* ids of inputs that were dropped
  unread      \* has the exit just ended because the pane was unreadable?

queueVars == <<queue, heldBytes, dropped>>
vars == <<queueVars, pty, inFlight, drain, sync, mayBeInCopyMode, cache,
          applied, read, left, pane, active, scrolls, typed, unread>>

(* "other": a desktop page, or a terminal reply of any page. *)
Origins == {"touch", "other"}
Inputs  == [id: 1..MaxRequests, from: Origins]
Readers == {"drain", "emit"}
NoRead  == [busy |-> FALSE, quiet |-> FALSE, saw |-> "none"]

Scroll(kind, n) == [kind |-> kind, n |-> n, data |-> <<>>]
Input(data)     == [kind |-> "input", n |-> 0, data |-> data]
NoOp            == Scroll("none", 0)
Exit            == Scroll("absolute", 0)

IsExit(op)   == op = Exit
MayEnter(op) == \/ op.kind \in {"relative", "touch"}
                \/ op.kind = "absolute" /\ op.n > 0

(* The inputs of one op, and those that wait in a queue. *)
Ids(data)     == {k.id : k \in ToSet(data)}
WaitingIds(q) == UNION {Ids(q[i].data) : i \in DOMAIN q}

\* The fields of the controller.
TypeOK ==
  /\ \A i \in DOMAIN queue :
       /\ queue[i].kind \in {"relative", "touch", "absolute", "input"}
       /\ queue[i].n \in -MaxLines..MaxLines
       /\ ToSet(queue[i].data) \subseteq Inputs
  /\ inFlight = NoOp \/ MayEnter(inFlight) \/ IsExit(inFlight)
  /\ drain \in {"idle", "loop", "wedged", "scroll", "route", "exit",
                "exitRead", "cancel", "cancelRead", "wait"}
  /\ {sync, mayBeInCopyMode, applied, active, unread} \subseteq BOOLEAN
  /\ cache \in {"none", "history", "keys"}
  /\ heldBytes \in 0..MaxHeld
  /\ read \in [Readers -> [busy: BOOLEAN, quiet: BOOLEAN,
                           saw: {"none", "mode", "live", "keys"}]]
  /\ left \in {"open", "near", "past"}
  /\ pane \in [inMode: BOOLEAN, keys: BOOLEAN]
  /\ dropped \subseteq 1..MaxRequests /\ ToSet(pty) \subseteq 1..MaxRequests

Init ==
  /\ queue = <<>> /\ inFlight = NoOp /\ drain = "idle" /\ sync = FALSE
  /\ heldBytes = 0 /\ mayBeInCopyMode = FALSE /\ cache = "none"
  /\ applied = FALSE /\ read = [r \in Readers |-> NoRead] /\ left = "open"
  /\ pane \in [inMode: {FALSE}, keys: BOOLEAN] /\ active = TRUE
  /\ scrolls = 0 /\ typed = 0 /\ pty = <<>>
  /\ dropped = {} /\ unread = FALSE

-----------------------------------------------------------------------------
(* The queue. *)

ExitPending == IsExit(inFlight) \/ \E i \in DOMAIN queue : IsExit(queue[i])

HasQueuedInput == \E i \in DOMAIN queue : queue[i].kind = "input"

(* May the pane be in copy-mode once everything queued so far has run? *)
Projected ==
  LET ops  == <<inFlight>> \o queue
      last == SelectLastInSeq(ops, LAMBDA op : MayEnter(op) \/ IsExit(op))
  IN IF last = 0 THEN mayBeInCopyMode ELSE MayEnter(ops[last])

(* The last scroll op queued, or the one running when none is queued. *)
LastScrollOp(q) ==
  LET last == SelectLastInSeq(q, LAMBDA op : op.kind # "input")
  IN IF last = 0 THEN inFlight ELSE q[last]

WithScroll(q, op) == IF Len(q) < MaxOps THEN Append(q, op) ELSE q

(* A gesture of one line joins a last op of its kind, within +-MaxLines; an
   op that has come to no lines at all is taken out. *)
Clamp(n) == IF n > MaxLines THEN MaxLines
            ELSE IF n < -MaxLines THEN -MaxLines ELSE n

Coalesced(kind, by) ==
  LET last == Len(queue)
      sum  == Clamp(queue[last].n + by)
  IN IF last = 0 \/ queue[last].kind # kind
     THEN WithScroll(queue, Scroll(kind, by))
     ELSE IF sum = 0 THEN Front(queue) ELSE [queue EXCEPT ![last].n = sum]

\* Mutant: an absolute target replaces everything that is queued.
NothingKept(q) == <<>>

(* What an absolute target leaves: everything up to the last input. *)
UpToLastInput(q) ==
  SubSeq(q, 1, SelectLastInSeq(q, LAMBDA op : op.kind = "input"))

Joined(q, k) ==
  IF q # <<>> /\ Last(q).kind = "input"
  THEN [q EXCEPT ![Len(q)].data = Append(@, k)]
  ELSE Append(q, Input(<<k>>))

HoldInput(q, k) ==
  IF heldBytes + 1 > MaxHeld
  THEN queue' = q /\ dropped' = dropped \union {k.id} /\ UNCHANGED heldBytes
  ELSE queue' = Joined(q, k) /\ heldBytes' = heldBytes + 1
       /\ UNCHANGED dropped

(* drain(): the loop starts at once unless a drain is under way. *)
StartDrain == IF drain = "idle" THEN drain' = "loop" /\ sync' = TRUE
              ELSE UNCHANGED <<drain, sync>>

Write(data) == pty' = pty \o [i \in DOMAIN data |-> data[i].id]

-----------------------------------------------------------------------------
(* What the sockets send. *)

Handler == active /\ drain # "loop"
ScrollRequest ==
  /\ Handler /\ scrolls + typed < MaxRequests /\ scrolls' = scrolls + 1
  /\ StartDrain
  /\ UNCHANGED <<pty, heldBytes, dropped, inFlight, mayBeInCopyMode, cache,
                 applied, read, left, pane, active, typed, unread>>

ScrollRelative(by) == ScrollRequest /\ queue' = Coalesced("relative", by)

TouchScroll(by) == ScrollRequest /\ queue' = Coalesced("touch", by)

ScrollTo(position) ==
  /\ ScrollRequest
  /\ LET rest == UpToLastInput(queue)
     IN queue' = IF position = 0 /\ IsExit(LastScrollOp(rest)) THEN rest
                 ELSE WithScroll(rest, Scroll("absolute", position))

(* Only typing on a touch page puts an exit in front of itself. *)
Barrier(from) == from = "touch" /\ Projected

Typing(from) ==
  /\ Handler /\ scrolls + typed < MaxRequests /\ typed' = typed + 1
  /\ UNCHANGED <<inFlight, mayBeInCopyMode, cache, applied, read, left, pane,
                 active, scrolls, unread>>

\* Mutant: input waits for an exit, not for input that waits already.
MustWaitForExit(from) == Barrier(from) \/ ExitPending

MustWait(from) == Barrier(from) \/ ExitPending \/ HasQueuedInput

TypeNow(from) ==
  /\ Typing(from) /\ ~MustWait(from)
  /\ Write(<<[id |-> typed + 1, from |-> from]>>)
  /\ UNCHANGED <<queueVars, drain, sync>>

BehindExit(from) == IF Barrier(from) THEN Append(queue, Exit) ELSE queue

TypeHeld(from) ==
  /\ Typing(from) /\ MustWait(from)
  /\ HoldInput(BehindExit(from), [id |-> typed + 1, from |-> from])
  /\ StartDrain
  /\ UNCHANGED pty

-----------------------------------------------------------------------------
(* tmux commands and state reads. *)

Commanding == drain \in {"scroll", "exit", "cancel"}

Disturbed(rs) == [r \in Readers |-> [rs[r] EXCEPT !.quiet = FALSE]]

(* call(): a command starts.  One that may enter copy-mode raises the
   barrier already now. *)
Start(step) ==
  /\ drain' = step /\ sync' = FALSE /\ UNCHANGED applied
  /\ read' = Disturbed(read)
  /\ mayBeInCopyMode' = (mayBeInCopyMode \/ step = "scroll")

Reading(rs, r, quiet) ==
  [rs EXCEPT ![r] = [busy |-> TRUE, quiet |-> quiet, saw |-> "none"]]

StartRead(step) ==
  /\ drain' = step /\ sync' = FALSE
  /\ read' = Reading(read, "drain", TRUE)
  /\ UNCHANGED <<applied, mayBeInCopyMode>>

(* A command ends, by its answer, an error or the abort at its deadline. *)
Settled(aborted) ==
  /\ mayBeInCopyMode' = (mayBeInCopyMode \/ drain = "scroll" \/ aborted)
  /\ applied' = FALSE

(* readFresh(): only a read that met no command may move the barrier. *)
Route(saw) == IF saw = "keys" THEN "keys" ELSE "history"

ReadReturns(r, saw) ==
  read[r].busy /\ saw \in {read[r].saw, "null"} \ {"none"}

\* Mutant: every read moves the barrier.
BarrierAfterAny(r, saw) == IF saw # "null" THEN saw = "mode"
                           ELSE mayBeInCopyMode

BarrierAfter(r, saw) == IF read[r].quiet /\ saw # "null" THEN saw = "mode"
                        ELSE mayBeInCopyMode

-----------------------------------------------------------------------------
(* The drain: its loop, until the next await. *)

TmuxVars == <<read, applied, mayBeInCopyMode>>
Fixed    == <<pane, active, scrolls, typed>>

(* this.draining = run is set after the loop has started: a loop that ends
   without any await leaves a finished promise there, and no later drain()
   would run again. *)
Finish == drain' = (IF sync THEN "wedged" ELSE "idle") /\ UNCHANGED sync

LoopEnds ==
  /\ drain = "loop" /\ queue = <<>>
  /\ Finish /\ unread' = FALSE
  /\ UNCHANGED <<queueVars, pty, TmuxVars, Fixed, inFlight, cache, left>>

(* The terminal is gone: what waits goes with it. *)
LoopStops ==
  /\ drain = "loop" /\ queue # <<>> /\ ~active
  /\ queue' = <<>> /\ heldBytes' = 0
  /\ dropped' = dropped \union WaitingIds(queue)
  /\ Finish /\ unread' = FALSE
  /\ UNCHANGED <<pty, TmuxVars, Fixed, inFlight, cache, left>>

LoopTakes ==
  /\ drain = "loop" /\ active /\ queue # <<>>
  /\ queue' = Tail(queue) /\ unread' = FALSE

WriteHeld ==
  /\ LoopTakes /\ Head(queue).kind = "input"
  /\ heldBytes' = heldBytes - Len(Head(queue).data)
  /\ Write(Head(queue).data)
  /\ UNCHANGED <<TmuxVars, Fixed, dropped, inFlight, drain, sync, cache, left>>

RunScroll ==
  /\ LoopTakes /\ Head(queue).kind # "input" /\ inFlight' = Head(queue)
  /\ UNCHANGED <<Fixed, pty, heldBytes, dropped, cache, left>>

RunHistory ==
  /\ RunScroll /\ MayEnter(Head(queue))
  /\ Head(queue).kind = "touch" => cache = "history"
  /\ Start("scroll")

RunExit == RunScroll /\ IsExit(Head(queue)) /\ Start("exit")

RunTouch == RunScroll /\ Head(queue).kind = "touch" /\ cache = "none"
            /\ StartRead("route")

(* Wheel reports or arrow keys are written, as if the browser had sent them. *)
RunKeys ==
  /\ LoopTakes /\ Head(queue).kind = "touch" /\ cache = "keys"
  /\ sync' = FALSE
  /\ UNCHANGED <<TmuxVars, Fixed, pty, heldBytes, dropped, inFlight, drain,
                 cache, left>>

-----------------------------------------------------------------------------
(* The drain: what it waits for. *)

Await(step) == drain = step /\ UNCHANGED <<Fixed, pty, sync>>

(* A scroll op has run and went to copy-mode: the cached state is stale. *)
OpDone == inFlight' = NoOp /\ drain' = "loop" /\ cache' = "none"
          /\ left' = "open"

ScrollSettles(aborted) ==
  /\ Await("scroll") /\ Settled(aborted) /\ OpDone
  /\ read' = Disturbed(read)
  /\ UNCHANGED <<queueVars, unread>>

(* The read a touch gesture is routed by has returned. *)
TouchRouted(saw) ==
  /\ Await("route") /\ ReadReturns("drain", saw)
  /\ cache' = Route(saw)
  /\ UNCHANGED <<queueVars, left, unread>>

TouchToHistory(saw) ==
  /\ TouchRouted(saw) /\ Route(saw) = "history"
  /\ drain' = "scroll" /\ mayBeInCopyMode' = TRUE
  /\ read' = Disturbed([read EXCEPT !["drain"] = NoRead])
  /\ UNCHANGED <<inFlight, applied>>

TouchToKeys(saw) ==
  /\ TouchRouted(saw) /\ Route(saw) = "keys"
  /\ inFlight' = NoOp /\ drain' = "loop"
  /\ mayBeInCopyMode' = BarrierAfter("drain", saw)
  /\ read' = [read EXCEPT !["drain"] = NoRead]
  /\ UNCHANGED applied

-----------------------------------------------------------------------------
(* confirmedExit().  Its deadline is open, near (EXIT_DEADLINE_MARGIN_MS or
   less) or past; a step that meets it ends here. *)

HeldAtHead == IF queue # <<>> /\ Head(queue).kind = "input"
              THEN Head(queue).data ELSE <<>>

\* Mutant: what waits is written although the pane did not leave copy-mode.
GiveUpKeeps(rs) == OpDone /\ read' = rs /\ UNCHANGED queueVars

(* What waits behind this exit would be eaten: it is dropped. *)
GiveUp(rs) ==
  /\ OpDone /\ read' = rs
  /\ queue' = IF HeldAtHead = <<>> THEN queue ELSE Tail(queue)
  /\ heldBytes' = heldBytes - Len(HeldAtHead)
  /\ dropped' = dropped \union Ids(HeldAtHead)

\* Mutant: a deadline for each try instead of one for the exit.
ReadAfresh(step) ==
  IF left = "past" THEN GiveUp(Disturbed(read))
  ELSE /\ drain' = step /\ left' = "open"
       /\ read' = Reading(Disturbed(read), "drain", TRUE)
       /\ UNCHANGED <<queueVars, inFlight, cache>>

(* Past the deadline there is no state to look at. *)
ReadOrGiveUp(step) ==
  IF left = "past" THEN GiveUp(Disturbed(read))
  ELSE /\ drain' = step
       /\ read' = Reading(Disturbed(read), "drain", TRUE)
       /\ UNCHANGED <<queueVars, inFlight, cache, left>>

ExitSettles(aborted) ==
  /\ Await("exit") /\ Settled(aborted) /\ ReadOrGiveUp("exitRead")
  /\ UNCHANGED <<unread>>

CancelSettles(aborted) ==
  /\ Await("cancel") /\ Settled(aborted) /\ ReadOrGiveUp("cancelRead")
  /\ UNCHANGED <<unread>>

ExitReads == {"exitRead", "cancelRead"}

StateRead(saw) ==
  /\ \E step \in ExitReads : Await(step)
  /\ ReadReturns("drain", saw)

LeftCopyMode(saw) ==
  /\ StateRead(saw) /\ saw \in {"live", "keys"}
  /\ OpDone /\ mayBeInCopyMode' = BarrierAfter("drain", saw)
  /\ read' = [read EXCEPT !["drain"] = NoRead]
  /\ UNCHANGED <<queueVars, applied, unread>>

(* The pane cannot be read at all: the input behind this exit goes through. *)
Unreadable ==
  /\ StateRead("null") /\ left = "open"
  /\ OpDone /\ unread' = TRUE
  /\ read' = [read EXCEPT !["drain"] = NoRead]
  /\ UNCHANGED <<queueVars, applied, mayBeInCopyMode>>

TryCancel ==
  /\ StateRead("mode") /\ drain = "exitRead" /\ left # "past"
  /\ drain' = "cancel" /\ UNCHANGED applied
  /\ mayBeInCopyMode' = BarrierAfter("drain", "mode")
  /\ read' = Disturbed([read EXCEPT !["drain"] = NoRead])
  /\ cache' = Route("mode")
  /\ UNCHANGED <<queueVars, inFlight, left, unread>>

(* Still in copy-mode after both tries, or a read the deadline cut off. *)
NotOut(saw) ==
  /\ StateRead(saw)
  /\ \/ saw = "mode" /\ (drain = "cancelRead" \/ left = "past")
     \/ saw = "null" /\ left # "open"
  /\ mayBeInCopyMode' = BarrierAfter("drain", saw)
  /\ UNCHANGED <<applied, unread>>

Retry(saw) ==
  /\ NotOut(saw) /\ left # "past" /\ active
  /\ drain' = "wait" /\ cache' = Route(saw)
  /\ read' = [read EXCEPT !["drain"] = NoRead]
  /\ UNCHANGED <<queueVars, inFlight, left>>

StopTrying(saw) ==
  /\ NotOut(saw) /\ (left = "past" \/ ~active)
  /\ GiveUp([read EXCEPT !["drain"] = NoRead])

WaitEnds ==
  /\ Await("wait")
  /\ IF left = "past"
     THEN GiveUp(read)
     ELSE /\ drain' = "exit" /\ read' = Disturbed(read)
          /\ UNCHANGED <<queueVars, inFlight, cache, left>>
  /\ UNCHANGED <<applied, mayBeInCopyMode, unread>>

-----------------------------------------------------------------------------
(* The emit chain: one state read at a time, asked for by a drain that has
   scrolled, by output, by a resize or by a page that reconnects. *)

Rest == <<queueVars, pty, inFlight, drain, sync, left, scrolls, typed,
          unread>>

EmitReads ==
  /\ Handler /\ ~read["emit"].busy
  /\ read' = Reading(read, "emit", ~Commanding)
  /\ UNCHANGED <<Rest, mayBeInCopyMode, cache, applied, pane, active>>

EmitReturns(saw) ==
  /\ drain # "loop" /\ ReadReturns("emit", saw)
  /\ mayBeInCopyMode' = BarrierAfter("emit", saw) /\ cache' = Route(saw)
  /\ read' = [read EXCEPT !["emit"] = NoRead]
  /\ UNCHANGED <<Rest, applied, pane, active>>

(* stateCacheMs *)
CacheExpires ==
  /\ drain # "loop" /\ cache # "none" /\ cache' = "none"
  /\ UNCHANGED <<Rest, mayBeInCopyMode, applied, read, pane, active>>

DeadlineComesNear ==
  /\ drain \in {"exit", "cancel", "wait"} \union ExitReads /\ left # "past"
  /\ left' = IF left = "open" THEN "near" ELSE "past"
  /\ UNCHANGED <<queueVars, pty, TmuxVars, Fixed, inFlight, drain, sync,
                 cache, unread>>

(* The terminal is closed, or a re-attach takes its place. *)
Close ==
  /\ Handler /\ active' = FALSE
  /\ UNCHANGED <<Rest, TmuxVars, cache, pane>>

-----------------------------------------------------------------------------
(* tmux. *)

(* What the command the drain waits for does to the pane: scrolling up may
   be refused (alternate screen), scrolling down may reach the bottom. *)
Effects ==
  IF drain = "scroll" /\ inFlight.n > 0 THEN {TRUE, pane.inMode}
  ELSE {FALSE, pane.inMode}

TmuxActs ==
  /\ Commanding /\ ~applied /\ applied' = TRUE
  /\ \E inMode \in Effects : pane' = [pane EXCEPT !.inMode = inMode]
  /\ UNCHANGED <<Rest, mayBeInCopyMode, cache, read, active>>

(* A read command takes its look at the pane. *)
TmuxLooks(r) ==
  /\ read[r].busy /\ read[r].saw = "none"
  /\ read' = [read EXCEPT ![r].saw = IF pane.inMode THEN "mode"
                                     ELSE IF pane.keys THEN "keys" ELSE "live"]
  /\ UNCHANGED <<Rest, mayBeInCopyMode, cache, applied, pane, active>>

(* Copy-mode ends by itself: q, the bottom, another viewer. *)
PaneLeaves ==
  /\ pane.inMode /\ pane' = [pane EXCEPT !.inMode = FALSE]
  /\ UNCHANGED <<Rest, TmuxVars, cache, active>>

-----------------------------------------------------------------------------
Saws == {"mode", "live", "keys", "null"}

Requests ==
  \/ \E by \in {1, -1} : ScrollRelative(by) \/ TouchScroll(by)
  \/ \E position \in {0, 1} : ScrollTo(position)
  \/ \E from \in Origins : TypeNow(from) \/ TypeHeld(from)

Loop == \/ LoopEnds \/ LoopStops \/ WriteHeld
        \/ RunHistory \/ RunExit \/ RunTouch \/ RunKeys

Answers ==
  \/ \E aborted \in BOOLEAN :
       ScrollSettles(aborted) \/ ExitSettles(aborted) \/ CancelSettles(aborted)
  \/ \E saw \in Saws :
       \/ TouchToHistory(saw) \/ TouchToKeys(saw) \/ LeftCopyMode(saw)
       \/ Retry(saw) \/ StopTrying(saw)
  \/ Unreadable \/ TryCancel \/ WaitEnds

Next ==
  \/ Requests \/ Loop \/ Answers
  \/ EmitReads \/ \E saw \in Saws : EmitReturns(saw)
  \/ CacheExpires \/ DeadlineComesNear \/ Close
  \/ TmuxActs \/ (\E r \in Readers : TmuxLooks(r)) \/ PaneLeaves

Spec == Init /\ [][Next]_vars

(* Promises run on, every tmux call has a deadline after which it is killed
   and answers, and time passes.  Nothing is asked of tmux. *)
FairSpec == Spec /\ WF_vars(Loop) /\ WF_vars(Answers)
                 /\ WF_vars(DeadlineComesNear)

-----------------------------------------------------------------------------
(* The barrier is up whenever the pane is in copy-mode, whatever reads and
   commands have crossed: readFresh's quiet rule. *)
BarrierUp == pane.inMode => mayBeInCopyMode

(* "so tmux copy-mode never eats keys": what is typed on a touch page is
   written to a pane out of copy-mode, unless the exit before it could not
   read the pane at all. *)
KeysNotEaten ==
  [][/\ TypeNow("touch") => ~pane.inMode
     /\ WriteHeld /\ (\E k \in ToSet(Head(queue).data) : k.from = "touch")
          => ~pane.inMode \/ unread]_vars

(* "keys are never reordered", whatever page they come from. *)
KeysInOrder == \A i, j \in DOMAIN pty : i < j => pty[i] < pty[j]

(* Every input is waiting, written or counted as dropped, and only once:
   no scroll that replaces, joins or cancels others takes input with it.
   heldBytes, the bound on what waits, counts what does wait, and the exits
   that input() queues past the op bound stay bounded by the ops before them. *)
NoInputLost ==
  LET waiting == WaitingIds(queue)
  IN /\ waiting \union ToSet(pty) \union dropped = 1..typed
     /\ Cardinality(waiting) + Len(pty) + Cardinality(dropped) = typed
     /\ heldBytes = Cardinality(waiting) /\ heldBytes <= MaxHeld
     /\ Len(queue) <= MaxOps + 3

(* Every drain ends, and with it the wait of the input it holds, even if
   tmux hangs on every command: confirmedExit has one deadline for all of
   its tries and call() one for each command. *)
DrainEnds == drain # "idle" ~> drain = "idle"

(* routeTouchScroll: a pane already in copy-mode keeps scrolling copy-mode
   history; wheel reports or keys would land in copy-mode, not in the app. *)
KeysReachTheApp ==
  [][RunKeys \/ (\E saw \in Saws : TouchToKeys(saw)) => ~pane.inMode]_vars
=============================================================================
