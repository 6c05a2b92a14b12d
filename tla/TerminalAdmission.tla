-------------------------- MODULE TerminalAdmission --------------------------
(***************************************************************************)
(* Which terminals may exist: the create path of src/backend/server.ts      *)
(* (rate limiter, per-user and global cap, checks for a disabled owner)     *)
(* against the disabling of users and its two sweeps.  Caps and sweeps look *)
(* at the terminals Map; a terminal is in it only once its client has been  *)
(* spawned, and leaves it for a while when its attach dies.                 *)
(***************************************************************************)
EXTENDS Naturals, FiniteSets, FiniteSetsExt

CONSTANTS Requests,       \* POST /api/terminals requests; also the terminals
          Users,
          Instance,       \* the user with the role owner: never disabled
          Owner,          \* the user of a request
          MaxTerminals,   \* OPENCODE_WEB_MAX_TERMINALS
          MaxPerUser,     \* MAX_TERMINALS_PER_USER
          PerUserRate,    \* creates of one user in the rate window
          GlobalRate      \* creates of all users in the rate window

ASSUME AdmissionAssumption ==
  /\ Owner \in [Requests -> Users] /\ Instance \in Users
  /\ IsFiniteSet(Requests) /\ IsFiniteSet(Users)
  /\ MaxTerminals \in Nat /\ MaxPerUser \in Nat
  /\ PerUserRate \in Nat /\ GlobalRate \in Nat

VARIABLES
  state,      \* of a request and of its terminal
  recent,     \* creates in the rate window, by user
  disabled,   \* users.disabled
  pass,       \* of killUserSessions: 0 when none runs for the user
  list,       \* the terminals the pass has yet to kill
  overlapped, \* history: was a create admitted while another terminal was
              \* being spawned or had lost its attach?
  reattached  \* history: terminals restored while their owner was disabled

admissionVars == <<state, recent, disabled, pass, list, overlapped, reattached>>

States == {"new", "gated", "spawning", "live", "detached", "denied", "gone"}

AdmissionTypeOK ==
  /\ state \in [Requests -> States]
  /\ recent \in [Users -> 0..PerUserRate]
  /\ disabled \in SUBSET Users
  /\ pass \in [Users -> 0..2] /\ list \in [Users -> SUBSET Requests]
  /\ overlapped \in BOOLEAN /\ reattached \in SUBSET Requests

AdmissionInit ==
  /\ state = [r \in Requests |-> "new"]
  /\ recent = [u \in Users |-> 0]
  /\ disabled = {}
  /\ pass = [u \in Users |-> 0] /\ list = [u \in Users |-> {}]
  /\ overlapped = FALSE /\ reattached = {}

-----------------------------------------------------------------------------

\* The terminals Map, and a user's part of it.
LiveTerminals == {r \in Requests : state[r] = "live"}
LiveOf(u) == {r \in LiveTerminals : Owner[r] = u}

Becomes(r, s) == state' = [state EXCEPT ![r] = s]

\* preflightTerminalActor and the capability checks; the start directory is
\* resolved and the foundation is asked before the handler goes on.
Gate(r) ==
  /\ state[r] = "new"
  /\ Becomes(r, IF Owner[r] \in disabled THEN "denied" ELSE "gated")
  /\ UNCHANGED <<recent, disabled, pass, list, overlapped, reattached>>

\* Mutant: the last terminal below the cap counts as room for two.
HasRoomAtCap(u) ==
  /\ MapThenSumSet(LAMBDA v : recent[v], Users) < GlobalRate
  /\ recent[u] < PerUserRate
  /\ Cardinality(LiveOf(u)) <= MaxPerUser
  /\ Cardinality(LiveTerminals) <= MaxTerminals

\* getTerminalCreationError is null
HasRoom(u) ==
  /\ MapThenSumSet(LAMBDA v : recent[v], Users) < GlobalRate
  /\ recent[u] < PerUserRate
  /\ Cardinality(LiveOf(u)) < MaxPerUser
  /\ Cardinality(LiveTerminals) < MaxTerminals

\* The caps, the disabled re-check and rateLimitState.record run in one turn
\* of the event loop; then the terminal is spawned.
Admit(r) ==
  /\ state[r] = "gated"
  /\ IF HasRoom(Owner[r]) /\ Owner[r] \notin disabled
     THEN /\ Becomes(r, "spawning")
          /\ recent' = [recent EXCEPT ![Owner[r]] = @ + 1]
          /\ overlapped' = (overlapped \/ \E q \in Requests :
                              state[q] \in {"spawning", "detached"})
     ELSE Becomes(r, "denied") /\ UNCHANGED <<recent, overlapped>>
  /\ UNCHANGED <<disabled, pass, list, reattached>>

\* Mutant: no check after the registration.
SpawnedUnchecked(r) ==
  /\ state[r] = "spawning"
  /\ Becomes(r, "live")
  /\ UNCHANGED <<recent, disabled, pass, list, overlapped, reattached>>

\* The handle is registered and recorded; an owner disabled meanwhile has it
\* killed at once (killSingleTerminal removes the handle before it awaits).
Spawned(r) ==
  /\ state[r] = "spawning"
  /\ Becomes(r, IF Owner[r] \in disabled THEN "gone" ELSE "live")
  /\ UNCHANGED <<recent, disabled, pass, list, overlapped, reattached>>

\* createOwnedTerminal throws; its place in the rate window stays taken.
SpawnFails(r) ==
  /\ state[r] = "spawning"
  /\ Becomes(r, "gone")
  /\ UNCHANGED <<recent, disabled, pass, list, overlapped, reattached>>

\* Deleted, reaped, or its shell exited.
TerminalEnds(r) ==
  /\ state[r] \in {"live", "detached"}
  /\ Becomes(r, "gone")
  /\ UNCHANGED <<recent, disabled, pass, list, overlapped, reattached>>

\* The attach client dies, and the session is restored later: neither cap nor
\* owner is looked at again.
Detach(r) ==
  /\ state[r] = "live"
  /\ Becomes(r, "detached")
  /\ UNCHANGED <<recent, disabled, pass, list, overlapped, reattached>>

Reattach(r) ==
  /\ state[r] = "detached"
  /\ Becomes(r, "live")
  /\ reattached' = IF Owner[r] \in disabled THEN reattached \cup {r}
                                            ELSE reattached
  /\ UNCHANGED <<recent, disabled, pass, list, overlapped>>

\* A create leaves the rate window.
Expire(u) ==
  /\ recent[u] > 0
  /\ recent' = [recent EXCEPT ![u] = @ - 1]
  /\ UNCHANGED <<state, disabled, pass, list, overlapped, reattached>>

-----------------------------------------------------------------------------
(* Disabling a user *)

\* PATCH /api/users/:id: the mutation commits, then killUserSessions takes its first list.
Disable(u) ==
  /\ u \notin disabled /\ u # Instance
  /\ disabled' = disabled \cup {u}
  /\ pass' = [pass EXCEPT ![u] = 1]
  /\ list' = [list EXCEPT ![u] = @ \cup LiveOf(u)]
  /\ UNCHANGED <<state, recent, overlapped, reattached>>

\* killSingleTerminal, one handle at a time; a handle of the list that lost
\* its attach meanwhile has its row ended all the same.
SweepKills(u) ==
  \E r \in list[u] :
    /\ list' = [list EXCEPT ![u] = @ \ {r}]
    /\ Becomes(r, "gone")
    /\ UNCHANGED <<recent, disabled, pass, overlapped, reattached>>

\* The second pass, then the end of the sweep.
SweepGoesOn(u) ==
  /\ pass[u] # 0 /\ list[u] = {}
  /\ pass' = [pass EXCEPT ![u] = IF @ = 1 THEN 2 ELSE 0]
  /\ list' = [list EXCEPT ![u] = IF pass[u] = 1 THEN LiveOf(u) ELSE {}]
  /\ UNCHANGED <<state, recent, disabled, overlapped, reattached>>

Enable(u) ==
  /\ u \in disabled
  /\ disabled' = disabled \ {u}
  /\ UNCHANGED <<state, recent, pass, list, overlapped, reattached>>

AdmissionNext ==
  \/ \E r \in Requests :
       \/ Gate(r) \/ Admit(r) \/ Spawned(r) \/ SpawnFails(r) \/ TerminalEnds(r)
       \/ Detach(r) \/ Reattach(r)
  \/ \E u \in Users :
       \/ Expire(u) \/ Disable(u) \/ SweepKills(u) \/ SweepGoesOn(u)
       \/ Enable(u)

AdmissionSpec == AdmissionInit /\ [][AdmissionNext]_admissionVars

-----------------------------------------------------------------------------

\* "Up to 10 concurrent terminals by default": README.md:75.
AtMostMaxTerminals == Cardinality(LiveTerminals) <= MaxTerminals

\* The caps are exact as long as no create is admitted while another terminal
\* is being spawned or waits for its re-attach.
CapsHoldOneByOne ==
  ~overlapped => /\ Cardinality(LiveTerminals) <= MaxTerminals
                 /\ \A u \in Users : Cardinality(LiveOf(u)) <= MaxPerUser

\* Whatever a create awaits while its owner is disabled, no terminal of the
\* owner is left once the sweep is over; only one that was detached, and is
\* restored afterwards, is not the create path's to stop.
NoCreateOutlivesDisable ==
  \A r \in Requests :
    state[r] = "live" /\ Owner[r] \in disabled =>
      r \in list[Owner[r]] \cup reattached
=============================================================================
