--------------------------- MODULE SessionContract ---------------------------
(***************************************************************************)
(* What DeckTerm promises about a terminal session, with no mechanism:     *)
(* the catalog row, the shell behind it, whether somebody asked for it to  *)
(* be closed, and whether the service currently serves it.                 *)
(*                                                                         *)
(* The promise: the shell outlives everything but its own exit and a close *)
(* somebody asked for; the row is ended only when the shell is gone or a   *)
(* close was asked for, and an ended row stays ended; a stop of the        *)
(* service changes nothing but what is served.                             *)
(***************************************************************************)
EXTENDS Naturals

CONSTANT Terminals          \* terminal ids

VARIABLES row,              \* terminal_sessions.status, "none" before the row
          session,          \* the shell: "none", "live" or "gone"
          closed,           \* ids whose end was asked for
          served            \* ids with a handle in the running service

cvars == <<row, session, closed, served>>

CInit == /\ row = [t \in Terminals |-> "none"]
         /\ session = [t \in Terminals |-> "none"]
         /\ closed = {}
         /\ served = {}

Open(t) == /\ session[t] = "none"
           /\ session' = [session EXCEPT ![t] = "live"]
           /\ UNCHANGED <<row, closed, served>>

\* The new terminal is registered: its row appears, and it is served unless
\* its shell is already gone.
Publish(t) == /\ row[t] = "none" /\ session[t] # "none"
              /\ row' = [row EXCEPT ![t] = "active"]
              /\ \/ served' = served \cup {t}
                 \/ session[t] = "gone" /\ UNCHANGED served
              /\ UNCHANGED <<session, closed>>

Serve(t) == /\ row[t] = "active" \/ session[t] = "gone" \/ t \in closed
            /\ row[t] # "none"
            /\ served' = served \cup {t}
            /\ UNCHANGED <<row, session, closed>>

Drop(t) == /\ served' = served \ {t}
           /\ UNCHANGED <<row, session, closed>>

Exit(t) == /\ session[t] = "live"
           /\ session' = [session EXCEPT ![t] = "gone"]
           /\ UNCHANGED <<row, closed, served>>

\* A close (or a reaper) takes the terminal out of service at once.
Close(t) == /\ t \in served
            /\ closed' = closed \cup {t}
            /\ served' = served \ {t}
            /\ row' \in {row, [row EXCEPT ![t] = "ended"]}
            /\ UNCHANGED session

End(t) == /\ row[t] = "active"
          /\ session[t] = "gone" \/ t \in closed
          /\ row' = [row EXCEPT ![t] = "ended"]
          /\ served' = served \ {t}
          /\ UNCHANGED <<session, closed>>

Stop == /\ served' = {}
        /\ UNCHANGED <<row, session, closed>>

CNext == \/ \E t \in Terminals :
              \/ Open(t) \/ Publish(t) \/ Serve(t) \/ Drop(t)
              \/ Exit(t) \/ Close(t) \/ End(t)
         \/ Stop

CSpec == CInit /\ [][CNext]_cvars
=============================================================================
