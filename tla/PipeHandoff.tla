---------------------------- MODULE PipeHandoff -----------------------------
(***************************************************************************)
(* The tmux pipe log of one session and who reads it: src/backend/server.ts *)
(* drains the log into the notification and shell-integration parsers from  *)
(* two callers, the attention pump and the runtime sync of the terminal     *)
(* list, while attach clients die and handles are replaced.  The pane       *)
(* appends to the log whether or not a handle exists.                       *)
(*                                                                          *)
(* A byte is its index in the log.  A parser carry (a sequence split at the *)
(* end of a chunk) is the index it continues at.                            *)
(***************************************************************************)
EXTENDS Naturals

CONSTANTS MaxBytes,     \* bound on the bytes the pane writes
          MaxHandles    \* bound on the handles built for the session

ASSUME PipeAssumption == MaxBytes \in Nat /\ MaxHandles \in Nat

Handles == 1..MaxHandles
NoHandle == 0
Callers == {"pump", "poll"}

VARIABLES
  size,      \* bytes in the pipe log
  slot,      \* terminals.get(id), NoHandle when nothing is registered
  built,     \* handles registered so far: 1..built
  offset,    \* tmuxPipeOffset of a handle
  carry,     \* where the parser state of a handle continues
  reads,     \* readTmuxPipeDelta under way, by handle and caller
  resume,    \* tmuxPipeResume: a set of at most one record
  attach,    \* the pipeOffset of the attach under way: a set of at most one
  base,      \* history: first byte the current run of handles owns
  processed, \* history: bytes the parsers got since `base`
  twice      \* history: bytes they got more than once

pipeVars == <<size, slot, built, offset, carry, reads, resume, attach, base,
          processed, twice>>

NoRead == [phase |-> "idle", from |-> 0, to |-> 0]
ReadRecords == [phase : {"idle", "picked", "stat", "data"}, from : Nat, to : Nat]

PipeTypeOK ==
  /\ size \in 0..MaxBytes
  /\ slot \in Handles \cup {NoHandle} /\ built \in 0..MaxHandles
  /\ offset \in [Handles -> Nat] /\ carry \in [Handles -> Nat]
  /\ reads \in [Handles -> [Callers -> ReadRecords]]
  /\ resume \in SUBSET [offset : Nat, carry : Nat]
  /\ attach \in SUBSET Nat
  /\ base \in Nat /\ processed \in SUBSET Nat /\ twice \in SUBSET Nat

PipeInit ==
  /\ size = 0 /\ slot = NoHandle /\ built = 0
  /\ offset = [h \in Handles |-> 0] /\ carry = [h \in Handles |-> 0]
  /\ reads = [h \in Handles |-> [c \in Callers |-> NoRead]]
  /\ resume = {} /\ attach = {}
  /\ base = 0 /\ processed = {} /\ twice = {}

-----------------------------------------------------------------------------

\* The pane prints: `cat >> log`.
PaneWrites ==
  /\ size < MaxBytes
  /\ size' = size + 1
  /\ UNCHANGED <<slot, built, offset, carry, reads, resume, attach, base,
                 processed, twice>>

\* backend.attach looks at the end of the log before it spawns its client;
\* one attach at a time (the restore flight of SessionLifecycle).
AttachStarts ==
  /\ slot = NoHandle /\ attach = {} /\ built < MaxHandles
  /\ attach' = {size}
  /\ UNCHANGED <<size, slot, built, offset, carry, reads, resume, base,
                 processed, twice>>

AttachFails ==
  /\ attach # {} /\ attach' = {}
  /\ UNCHANGED <<size, slot, built, offset, carry, reads, resume, base,
                 processed, twice>>

Smaller(m, n) == IF m <= n THEN m ELSE n

\* Where the new handle reads on: where the dropped one stopped, never past
\* the end of the log; without a dropped one, at the end of the log with
\* fresh parsers.
StartsReading(h, end) ==
  IF resume = {}
  THEN /\ offset' = [offset EXCEPT ![h] = end]
       /\ carry' = [carry EXCEPT ![h] = end]
       /\ base' = end /\ processed' = {} /\ twice' = {}
  ELSE /\ \E r \in resume :
            /\ offset' = [offset EXCEPT ![h] = Smaller(r.offset, end)]
            /\ carry' = [carry EXCEPT ![h] = r.carry]
       /\ UNCHANGED <<base, processed, twice>>

\* createManagedTerminal: the handle enters the Map, the hand-off is used up.
AttachRegisters ==
  \E end \in attach :
    /\ attach' = {} /\ built' = built + 1 /\ slot' = built + 1
    /\ StartsReading(built + 1, end)
    /\ resume' = {}
    /\ UNCHANGED <<size, reads>>

\* The pump's pass or the terminal list picks the registered handle; there is
\* one pass of the pump at a time (tmuxPipePumpRunning).
Picks(c) ==
  /\ slot # NoHandle /\ reads[slot][c].phase = "idle"
  /\ c = "pump" => \A h \in Handles : reads[h]["pump"].phase = "idle"
  /\ reads' = [reads EXCEPT ![slot][c].phase = "picked"]
  /\ UNCHANGED <<size, slot, built, offset, carry, resume, attach, base,
                 processed, twice>>

\* tmuxPipeRead of a handle
Reading(h) == \E c \in Callers : reads[h][c].phase \in {"stat", "data"}

\* readTmuxPipeDelta: single reader per handle, the second caller gets "".
\* Other awaits come first, so the handle may have been dropped since.
ReadStarts(h, c) ==
  /\ reads[h][c].phase = "picked"
  /\ reads' = [reads EXCEPT
       ![h][c] = IF Reading(h) THEN NoRead
                 ELSE [phase |-> "stat", from |-> offset[h], to |-> 0]]
  /\ UNCHANGED <<size, slot, built, offset, carry, resume, attach, base,
                 processed, twice>>

\* readPipeDelta: the size of the log fixes the chunk, then it is read.
ReadSized(h, c) ==
  /\ reads[h][c].phase = "stat"
  /\ reads' = [reads EXCEPT ![h][c].phase = "data", ![h][c].to = size]
  /\ UNCHANGED <<size, slot, built, offset, carry, resume, attach, base,
                 processed, twice>>

\* Mutant: a chunk read for a dropped handle is processed all the same.
ReadDoneUnchecked(h, c) ==
  LET r == reads[h][c] IN
  /\ r.phase = "data"
  /\ reads' = [reads EXCEPT ![h][c] = NoRead]
  /\ offset' = [offset EXCEPT ![h] = r.to]
  /\ carry' = [carry EXCEPT ![h] = r.to]
  /\ processed' = processed \cup r.from..(r.to - 1)
  /\ twice' = twice \cup (processed \cap r.from..(r.to - 1))
  /\ UNCHANGED <<size, slot, built, resume, attach, base>>

\* Mutant: the single-reader mark of a handle is never cleared.
ReadDoneStaysMarked(h, c) ==
  LET r == reads[h][c] IN
  /\ r.phase = "data"
  /\ reads' = [reads EXCEPT ![h][c].phase = "stat"]
  /\ UNCHANGED <<size, slot, built, offset, carry, resume, attach, base,
                 processed, twice>>

\* The chunk arrives.  For the registered handle the offset moves and the
\* chunk goes to its parsers in the same turn of the event loop; a dropped
\* handle leaves bytes and offset to its successor.
ReadDone(h, c) ==
  LET r == reads[h][c] IN
  /\ r.phase = "data"
  /\ reads' = [reads EXCEPT ![h][c] = NoRead]
  /\ IF slot = h
     THEN /\ offset' = [offset EXCEPT ![h] = r.to]
          /\ carry' = [carry EXCEPT ![h] = r.to]
          /\ processed' = processed \cup r.from..(r.to - 1)
          /\ twice' = twice \cup (processed \cap r.from..(r.to - 1))
     ELSE UNCHANGED <<offset, carry, processed, twice>>
  /\ UNCHANGED <<size, slot, built, resume, attach, base>>

\* Mutant: the hand-off carries fresh parsers.
DetachForgetsCarry ==
  /\ slot # NoHandle
  /\ resume' = {[offset |-> offset[slot], carry |-> size]}
  /\ slot' = NoHandle
  /\ UNCHANGED <<size, built, offset, carry, reads, attach, base, processed,
                 twice>>

\* detachDeadAttach: rememberTmuxPipeResume, then the handle is dropped.
PipeDetach ==
  /\ slot # NoHandle
  /\ resume' = {[offset |-> offset[slot], carry |-> carry[slot]]}
  /\ slot' = NoHandle
  /\ UNCHANGED <<size, built, offset, carry, reads, attach, base, processed,
                 twice>>

\* The service restarts: handles, reads and the hand-off are lost.  What the
\* pane printed meanwhile stays unprocessed: the next attach starts afresh.
PipeRestart ==
  /\ slot' = NoHandle /\ resume' = {} /\ attach' = {}
  /\ reads' = [h \in Handles |-> [c \in Callers |-> NoRead]]
  /\ base' = size /\ processed' = {} /\ twice' = {}
  /\ UNCHANGED <<size, built, offset, carry>>

PipeNext ==
  \/ PaneWrites \/ AttachStarts \/ AttachFails \/ AttachRegisters
  \/ \E c \in Callers : Picks(c)
  \/ \E h \in Handles, c \in Callers :
       ReadStarts(h, c) \/ ReadSized(h, c) \/ ReadDone(h, c)
  \/ PipeDetach \/ PipeRestart

PipeSpec == PipeInit /\ [][PipeNext]_pipeVars

\* A read that was begun goes on.
ReadGoesOn(h, c) == ReadStarts(h, c) \/ ReadSized(h, c) \/ ReadDone(h, c)

\* The pump runs every two seconds and its reads return.
PipeFairness ==
  /\ WF_pipeVars(Picks("pump"))
  /\ \A h \in Handles, c \in Callers : WF_pipeVars(ReadGoesOn(h, c))

PipeFairSpec == PipeSpec /\ PipeFairness

-----------------------------------------------------------------------------

\* The byte the pipe is processed up to: by the registered handle, or by the
\* dropped one whose successor is still to come.
Position == IF slot # NoHandle THEN offset[slot]
            ELSE IF resume # {} THEN (CHOOSE r \in resume : TRUE).offset
            ELSE base

\* Across attach deaths, re-attaches and two concurrent readers, every byte
\* goes to the parsers once: none is skipped, none comes again.
ExactlyOnce == twice = {} /\ processed = base..(Position - 1)

\* A parser continues where the bytes it has seen end, across a hand-off: a
\* marker split by a detach is still recognised.
CarryFollows ==
  /\ slot # NoHandle => carry[slot] = offset[slot]
  /\ \A r \in resume : r.carry = r.offset

\* While a handle stays registered, what the pane printed is processed.
Drained ==
  \A b \in 0..(MaxBytes - 1) :
    b \in base..(size - 1) /\ slot # NoHandle
      ~> b \in processed \/ slot = NoHandle
=============================================================================
