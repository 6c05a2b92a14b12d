------------------------- MODULE PipeHandoffProofs -------------------------
(***************************************************************************)
(* Proofs about PipeHandoff, for any length of the log and any number of   *)
(* handles.                                                                *)
(***************************************************************************)
EXTENDS PipeHandoff, TLAPS

-----------------------------------------------------------------------------
(* The inductive invariant *)

\* A hand-off or an attach under way exists only while no handle does.
OnePlace ==
  /\ slot # NoHandle => slot = built /\ resume = {} /\ attach = {}
  /\ attach # {} => built < MaxHandles
  /\ \A r, s \in resume : r = s

\* A read under way is the only one of its handle and starts at its offset.
SingleReader ==
  \A h \in Handles : \A c \in Callers :
    /\ h > built => reads[h][c].phase = "idle"
    /\ reads[h][c].phase \in {"stat", "data"} =>
         /\ reads[h][c].from = offset[h]
         /\ \A d \in Callers : reads[h][d].phase \in {"stat", "data"} => d = c
    /\ reads[h][c].phase = "data" =>
         offset[h] <= reads[h][c].to /\ reads[h][c].to <= size

\* The position lies in the log, at or before where an attach looked.
PositionInLog ==
  /\ \A h \in Handles : offset[h] <= size
  /\ base <= Position /\ Position <= size
  /\ \A end \in attach : Position <= end /\ end <= size

PipeInv == PipeTypeOK /\ OnePlace /\ SingleReader /\ PositionInLog
           /\ ExactlyOnce /\ CarryFollows

-----------------------------------------------------------------------------

\* The first handle has nothing to resume.
LEMMA InitPipe == PipeInit => PipeInv
<1> SUFFICES ASSUME PipeInit PROVE PipeInv
  OBVIOUS
<1> USE PipeAssumption DEF PipeInit, Handles, NoHandle, Callers, NoRead
<1>1. PipeTypeOK
  BY DEF PipeTypeOK, ReadRecords
<1>2. Position = 0
  BY DEF Position
<1> QED BY <1>1, <1>2 DEF PipeInv, OnePlace, SingleReader, PositionInLog,
           ExactlyOnce, CarryFollows

\* One hand-off record: Position while nothing is registered.
LEMMA ResumePosition ==
  ASSUME OnePlace, slot = NoHandle, NEW r \in resume
  PROVE  Position = r.offset
<1>1. (CHOOSE x \in resume : TRUE) = r
  BY DEF OnePlace
<1> QED BY <1>1 DEF Position

\* A read of one handle and caller moves to a next record.
LEMMA ReadTyped ==
  ASSUME reads \in [Handles -> [Callers -> ReadRecords]], NEW h \in Handles,
         NEW c \in Callers, NEW r \in ReadRecords,
         reads' = [reads EXCEPT ![h][c] = r]
  PROVE  reads' \in [Handles -> [Callers -> ReadRecords]]
  OBVIOUS

\* A handle that registers gets an offset and a carry.
LEMMA RegisterTyped ==
  ASSUME PipeTypeOK, OnePlace, AttachRegisters
  PROVE  PipeTypeOK'
<1>1. PICK end \in attach : StartsReading(built + 1, end)
                            /\ built' = built + 1 /\ slot' = built + 1
  BY DEF AttachRegisters
<1>2. end \in Nat /\ built + 1 \in Handles /\ built' \in 0..MaxHandles
  BY <1>1, PipeAssumption DEF PipeTypeOK, OnePlace, Handles
<1>3. /\ offset' \in [Handles -> Nat] /\ carry' \in [Handles -> Nat]
      /\ base' \in Nat /\ processed' \in SUBSET Nat /\ twice' \in SUBSET Nat
  <2>1. CASE resume = {}
    BY <1>1, <1>2, <2>1 DEF StartsReading, PipeTypeOK
  <2>2. CASE resume # {}
    <3>1. PICK r \in resume :
             /\ offset' = [offset EXCEPT ![built + 1] = Smaller(r.offset, end)]
             /\ carry' = [carry EXCEPT ![built + 1] = r.carry]
      BY <1>1, <2>2 DEF StartsReading
    <3>2. r.offset \in Nat /\ r.carry \in Nat /\ Smaller(r.offset, end) \in Nat
      BY <1>2 DEF PipeTypeOK, Smaller
    <3> QED BY <1>1, <1>2, <2>2, <3>1, <3>2 DEF StartsReading, PipeTypeOK
  <2> QED BY <2>1, <2>2
<1> QED BY <1>1, <1>2, <1>3 DEF AttachRegisters, PipeTypeOK

\* Every variable keeps its type.
LEMMA TypePreserved == ASSUME PipeTypeOK, OnePlace, [PipeNext]_pipeVars PROVE PipeTypeOK'
<1>1. CASE PaneWrites
  BY <1>1, PipeAssumption DEF PaneWrites, PipeTypeOK
<1>2. CASE AttachStarts
  BY <1>2, PipeAssumption DEF AttachStarts, PipeTypeOK
<1>3. CASE AttachFails
  BY <1>3 DEF AttachFails, PipeTypeOK
<1>4. CASE AttachRegisters
  BY <1>4, RegisterTyped
<1>5. ASSUME NEW c \in Callers, Picks(c) PROVE PipeTypeOK'
  <2>1. slot \in Handles /\ reads[slot][c] \in ReadRecords
    BY <1>5 DEF Picks, PipeTypeOK
  <2>2. [reads[slot][c] EXCEPT !.phase = "picked"] \in ReadRecords
    BY <2>1 DEF ReadRecords
  <2>3. reads' = [reads EXCEPT
           ![slot][c] = [reads[slot][c] EXCEPT !.phase = "picked"]]
    BY <1>5 DEF Picks
  <2>4. reads' \in [Handles -> [Callers -> ReadRecords]]
    BY <2>1, <2>2, <2>3, ReadTyped DEF PipeTypeOK
  <2> QED BY <1>5, <2>4 DEF Picks, PipeTypeOK
<1>6. ASSUME NEW h \in Handles, NEW c \in Callers, ReadStarts(h, c)
      PROVE  PipeTypeOK'
  BY <1>6 DEF ReadStarts, NoRead, ReadRecords, PipeTypeOK
<1>7. ASSUME NEW h \in Handles, NEW c \in Callers, ReadSized(h, c)
      PROVE  PipeTypeOK'
  <2>1. reads[h][c] \in ReadRecords /\ size \in Nat
    BY DEF PipeTypeOK
  <2>2. [reads[h][c] EXCEPT !.phase = "data", !.to = size] \in ReadRecords
    BY <2>1 DEF ReadRecords
  <2>3. reads' = [reads EXCEPT
           ![h][c] = [reads[h][c] EXCEPT !.phase = "data", !.to = size]]
    BY <1>7 DEF ReadSized, PipeTypeOK
  <2>4. reads' \in [Handles -> [Callers -> ReadRecords]]
    BY <2>2, <2>3, ReadTyped DEF PipeTypeOK
  <2> QED BY <1>7, <2>4 DEF ReadSized, PipeTypeOK
<1>8. ASSUME NEW h \in Handles, NEW c \in Callers, ReadDone(h, c)
      PROVE  PipeTypeOK'
  <2> DEFINE r == reads[h][c]
  <2>1. r.from \in Nat /\ r.to \in Nat
    BY DEF PipeTypeOK, ReadRecords
  <2>2. NoRead \in ReadRecords
    BY DEF NoRead, ReadRecords
  <2>3. reads' \in [Handles -> [Callers -> ReadRecords]]
    BY <1>8, <2>2 DEF ReadDone, PipeTypeOK
  <2>4. r.from..(r.to - 1) \subseteq Nat
    BY <2>1
  <2>5. CASE slot = h
    BY <1>8, <2>1, <2>3, <2>4, <2>5 DEF ReadDone, PipeTypeOK
  <2>6. CASE slot # h
    BY <1>8, <2>3, <2>6 DEF ReadDone, PipeTypeOK
  <2> QED BY <2>5, <2>6
<1>9. CASE PipeDetach
  BY <1>9 DEF PipeDetach, PipeTypeOK
<1>10. CASE PipeRestart
  <2>1. reads' \in [Handles -> [Callers -> ReadRecords]]
    BY <1>10 DEF PipeRestart, NoRead, ReadRecords
  <2> QED BY <1>10, <2>1 DEF PipeRestart, PipeTypeOK
<1>11. CASE UNCHANGED pipeVars
  BY <1>11 DEF pipeVars, PipeTypeOK
<1> QED BY <1>1, <1>2, <1>3, <1>4, <1>5, <1>6, <1>7, <1>8, <1>9, <1>10,
           <1>11 DEF PipeNext

-----------------------------------------------------------------------------
(* Each step keeps the invariant. *)

\* A detached reader, a waiting caller: what leaves the position alone.
LEMMA SamePosition ==
  ASSUME UNCHANGED <<slot, resume, base>>,
         slot # NoHandle => offset'[slot] = offset[slot]
  PROVE  Position' = Position
  BY DEF Position

\* Where the processed bytes end is a number.
LEMMA PositionTyped == ASSUME PipeTypeOK, OnePlace PROVE Position \in Nat
<1>1. CASE slot # NoHandle
  BY <1>1 DEF Position, PipeTypeOK
<1>2. CASE slot = NoHandle /\ resume = {}
  BY <1>2 DEF Position, PipeTypeOK
<1>3. CASE slot = NoHandle /\ resume # {}
  <2>1. PICK r \in resume : TRUE
    BY <1>3
  <2> QED BY <1>3, <2>1, ResumePosition DEF PipeTypeOK
<1> QED BY <1>1, <1>2, <1>3

\* A successor carries on where its predecessor stopped.
LEMMA RegisterKeeps ==
  ASSUME PipeInv, AttachRegisters
  PROVE  OnePlace' /\ SingleReader' /\ PositionInLog' /\ ExactlyOnce'
         /\ CarryFollows'
<1> USE DEF PipeInv
<1> DEFINE h == built + 1
<1>1. PICK end \in attach : StartsReading(h, end)
  BY DEF AttachRegisters
<1>2. /\ built' = h /\ slot' = h /\ attach' = {} /\ resume' = {}
      /\ UNCHANGED <<size, reads>>
  BY DEF AttachRegisters
<1>3. /\ h \in Handles /\ h # NoHandle /\ built \in Nat /\ slot = NoHandle
      /\ end \in Nat /\ Position <= end /\ end <= size
  BY PipeAssumption DEF PipeTypeOK, OnePlace, Handles, NoHandle, PositionInLog
<1>4. /\ offset' = [offset EXCEPT ![h] = offset'[h]]
      /\ Position' = offset'[h] /\ carry'[h] = offset'[h]
      /\ base' <= offset'[h] /\ offset'[h] <= size /\ offset'[h] \in Nat
      /\ base' \in Nat
      /\ twice' = {} /\ processed' = base'..(offset'[h] - 1)
  <2>1. Position' = offset'[h]
    BY <1>2, <1>3 DEF Position
  <2>2. CASE resume = {}
    <3>1. /\ offset' = [offset EXCEPT ![h] = end]
          /\ carry' = [carry EXCEPT ![h] = end]
          /\ base' = end /\ processed' = {} /\ twice' = {}
      BY <1>1, <2>2 DEF StartsReading
    <3>2. {} = end..(end - 1)
      BY <1>3
    <3> QED BY <1>3, <2>1, <3>1, <3>2 DEF PipeTypeOK
  <2>3. CASE resume # {}
    <3>1. PICK r \in resume :
             /\ offset' = [offset EXCEPT ![h] = Smaller(r.offset, end)]
             /\ carry' = [carry EXCEPT ![h] = r.carry]
      BY <1>1, <2>3 DEF StartsReading
    <3>2. UNCHANGED <<base, processed, twice>>
      BY <1>1, <2>3 DEF StartsReading
    <3>3. r.offset \in Nat /\ Position = r.offset /\ r.carry = r.offset
      BY <1>3, ResumePosition DEF PipeTypeOK, CarryFollows
    <3>4. Smaller(r.offset, end) = r.offset
      BY <1>3, <3>3 DEF Smaller
    <3> QED BY <1>3, <2>1, <3>1, <3>2, <3>3, <3>4
            DEF PipeTypeOK, ExactlyOnce, PositionInLog
  <2> QED BY <2>2, <2>3
<1>5. OnePlace'
  BY <1>2, <1>3 DEF OnePlace
<1>6. SingleReader'
  <2>1. \A c \in Callers : reads[h][c].phase = "idle"
    BY <1>3 DEF SingleReader
  <2>2. \A g \in Handles : g # h => offset'[g] = offset[g]
    BY <1>3, <1>4 DEF PipeTypeOK
  <2>3. \A g \in Handles : g > h => g > built
    BY <1>3 DEF Handles
  <2> QED BY <1>2, <2>1, <2>2, <2>3 DEF SingleReader
<1>7. PositionInLog'
  <2>1. \A g \in Handles : offset'[g] <= size
    BY <1>3, <1>4 DEF PositionInLog, PipeTypeOK
  <2> QED BY <1>2, <1>4, <2>1 DEF PositionInLog
<1>8. ExactlyOnce' /\ CarryFollows'
  BY <1>2, <1>4 DEF ExactlyOnce, CarryFollows
<1> QED BY <1>5, <1>6, <1>7, <1>8

\* A read that ends processes what follows the processed bytes.
LEMMA ReadDoneKeeps ==
  ASSUME PipeInv, NEW h \in Handles, NEW c \in Callers, ReadDone(h, c)
  PROVE  OnePlace' /\ SingleReader' /\ PositionInLog' /\ ExactlyOnce'
         /\ CarryFollows'
<1> USE DEF PipeInv
<1> DEFINE r == reads[h][c]
<1>1. /\ r.phase = "data" /\ reads' = [reads EXCEPT ![h][c] = NoRead]
      /\ UNCHANGED <<size, slot, built, resume, attach, base>>
  BY DEF ReadDone
<1>2. /\ r.from = offset[h] /\ offset[h] <= r.to /\ r.to <= size
      /\ offset[h] \in Nat /\ r.to \in Nat
      /\ \A d \in Callers : reads[h][d].phase \in {"stat", "data"} => d = c
  BY <1>1 DEF SingleReader, PipeTypeOK, ReadRecords
<1>3. OnePlace'
  BY <1>1 DEF OnePlace
<1>4. SingleReader'
  <2>1. \A g \in Handles : \A d \in Callers :
          reads'[g][d] = IF g = h /\ d = c THEN NoRead ELSE reads[g][d]
    BY <1>1 DEF PipeTypeOK
  <2>2. \A g \in Handles : g # h => offset'[g] = offset[g]
    BY DEF ReadDone, PipeTypeOK
  <2>3. \A d \in Callers : reads'[h][d].phase \notin {"stat", "data"}
    BY <1>2, <2>1 DEF NoRead
  <2> QED BY <1>1, <2>1, <2>2, <2>3 DEF SingleReader, NoRead
<1>5. CASE slot = h
  <2>1. /\ offset' = [offset EXCEPT ![h] = r.to]
        /\ carry' = [carry EXCEPT ![h] = r.to]
        /\ processed' = processed \cup r.from..(r.to - 1)
        /\ twice' = twice \cup (processed \cap r.from..(r.to - 1))
    BY <1>5 DEF ReadDone
  <2>2. /\ Position = offset[h] /\ Position' = r.to /\ slot # NoHandle
        /\ carry'[h] = r.to /\ offset'[h] = r.to
    BY <1>1, <1>5, <2>1 DEF Position, PipeTypeOK, Handles, NoHandle
  <2>3. PositionInLog'
    <3>1. \A g \in Handles : offset'[g] <= size
      BY <1>2, <2>1 DEF PositionInLog, PipeTypeOK
    <3> QED BY <1>1, <1>2, <1>5, <2>2, <3>1
            DEF PositionInLog, OnePlace, PipeTypeOK
  <2>4. ExactlyOnce'
    <3>1. base <= offset[h] /\ base \in Nat
          /\ processed = base..(offset[h] - 1) /\ twice = {}
      BY <2>2 DEF PositionInLog, ExactlyOnce, PipeTypeOK
    <3>2. processed' = base..(r.to - 1) /\ twice' = {}
      BY <1>2, <2>1, <3>1
    <3> QED BY <1>1, <2>2, <3>2 DEF ExactlyOnce
  <2>5. CarryFollows'
    BY <1>1, <1>5, <2>2 DEF CarryFollows, OnePlace
  <2> QED BY <1>3, <1>4, <2>3, <2>4, <2>5
<1>6. CASE slot # h
  <2>1. UNCHANGED <<offset, carry, processed, twice>>
    BY <1>6 DEF ReadDone
  <2>2. Position' = Position
    BY <1>1, <2>1, SamePosition
  <2> QED BY <1>1, <1>3, <1>4, <2>1, <2>2
          DEF PositionInLog, ExactlyOnce, CarryFollows
<1> QED BY <1>5, <1>6

\* What is detached carries offset and carry to the hand-off.
LEMMA DetachKeeps ==
  ASSUME PipeInv, PipeDetach
  PROVE  OnePlace' /\ SingleReader' /\ PositionInLog' /\ ExactlyOnce'
         /\ CarryFollows'
<1> USE DEF PipeInv, PipeDetach
<1>1. OnePlace'
  BY DEF OnePlace, NoHandle
<1>2. Position' = Position
  <2>1. OnePlace' /\ slot' = NoHandle
        /\ [offset |-> offset[slot], carry |-> carry[slot]] \in resume'
    BY <1>1
  <2>2. (CHOOSE x \in resume' : TRUE)
          = [offset |-> offset[slot], carry |-> carry[slot]]
    OBVIOUS
  <2> QED BY <2>1, <2>2 DEF Position
<1> QED BY <1>1, <1>2
        DEF OnePlace, SingleReader, PositionInLog, ExactlyOnce, CarryFollows

\* Every step keeps the position and its one reader.
LEMMA NextKeeps ==
  ASSUME PipeInv, [PipeNext]_pipeVars
  PROVE  OnePlace' /\ SingleReader' /\ PositionInLog' /\ ExactlyOnce'
         /\ CarryFollows'
<1> USE DEF PipeInv
<1>1. CASE PaneWrites
  <2>1. Position' = Position
    BY <1>1, SamePosition DEF PaneWrites
  <2>2. size \in Nat /\ size' = size + 1
        /\ UNCHANGED <<slot, built, offset, carry, reads, resume, attach, base,
                       processed, twice>>
    BY <1>1 DEF PaneWrites, PipeTypeOK
  <2>3. SingleReader'
    BY <2>2 DEF SingleReader, PipeTypeOK, ReadRecords
  <2>4. PositionInLog'
    <3>1. Position \in Nat
      BY PositionTyped
    <3> QED BY <2>1, <2>2, <3>1 DEF PositionInLog, PipeTypeOK
  <2> QED BY <2>1, <2>2, <2>3, <2>4
          DEF OnePlace, ExactlyOnce, CarryFollows
<1>2. CASE AttachStarts
  <2>1. Position' = Position
    BY <1>2, SamePosition DEF AttachStarts
  <2> QED BY <1>2, <2>1 DEF AttachStarts, PipeTypeOK, OnePlace, SingleReader,
          PositionInLog, ExactlyOnce, CarryFollows
<1>3. CASE AttachFails
  <2>1. Position' = Position
    BY <1>3, SamePosition DEF AttachFails
  <2> QED BY <1>3, <2>1 DEF AttachFails, OnePlace, SingleReader,
          PositionInLog, ExactlyOnce, CarryFollows
<1>4. CASE AttachRegisters
  BY <1>4, RegisterKeeps
<1>5. ASSUME NEW c \in Callers, Picks(c)
      PROVE  OnePlace' /\ SingleReader' /\ PositionInLog' /\ ExactlyOnce'
             /\ CarryFollows'
  <2>1. Position' = Position
    BY <1>5, SamePosition DEF Picks
  <2>2. slot = built /\ slot \in Handles
    BY <1>5 DEF Picks, OnePlace, PipeTypeOK
  <2>3. \A h \in Handles : \A d \in Callers :
          reads'[h][d] = IF h = slot /\ d = c
                         THEN [reads[h][d] EXCEPT !.phase = "picked"]
                         ELSE reads[h][d]
    BY <1>5 DEF Picks, PipeTypeOK
  <2>4. \A h \in Handles : \A d \in Callers :
          reads[h][d] \in ReadRecords
    BY DEF PipeTypeOK
  <2>5. SingleReader'
    BY SMTT(30), <1>5, <2>2, <2>3, <2>4 DEF Picks, SingleReader, ReadRecords, Handles, PipeTypeOK
  <2> QED BY <1>5, <2>1, <2>5 DEF Picks, OnePlace, PositionInLog,
          ExactlyOnce, CarryFollows
<1>6. ASSUME NEW h \in Handles, NEW c \in Callers, ReadStarts(h, c)
      PROVE  OnePlace' /\ SingleReader' /\ PositionInLog' /\ ExactlyOnce'
             /\ CarryFollows'
  <2>1. Position' = Position
    BY <1>6, SamePosition DEF ReadStarts
  <2>2. \A g \in Handles : \A d \in Callers :
          reads'[g][d] =
            IF g = h /\ d = c
            THEN IF Reading(h) THEN NoRead
                 ELSE [phase |-> "stat", from |-> offset[h], to |-> 0]
            ELSE reads[g][d]
    BY <1>6 DEF ReadStarts, PipeTypeOK
  <2>3. h <= built
    BY <1>6 DEF ReadStarts, SingleReader, Handles, PipeTypeOK
  <2>4. SingleReader'
    BY <1>6, <2>2, <2>3 DEF ReadStarts, SingleReader, Reading, NoRead, Handles,
       PipeTypeOK
  <2> QED BY <1>6, <2>1, <2>4 DEF ReadStarts, OnePlace, PositionInLog,
          ExactlyOnce, CarryFollows
<1>7. ASSUME NEW h \in Handles, NEW c \in Callers, ReadSized(h, c)
      PROVE  OnePlace' /\ SingleReader' /\ PositionInLog' /\ ExactlyOnce'
             /\ CarryFollows'
  <2>1. Position' = Position
    BY <1>7, SamePosition DEF ReadSized
  <2>2. \A g \in Handles : \A d \in Callers :
          reads'[g][d] = IF g = h /\ d = c
                         THEN [reads[h][c] EXCEPT !.phase = "data", !.to = size]
                         ELSE reads[g][d]
    BY <1>7 DEF ReadSized, PipeTypeOK
  <2>3. \A g \in Handles : \A d \in Callers : reads[g][d] \in ReadRecords
    BY DEF PipeTypeOK
  <2>4. SingleReader'
    BY <1>7, <2>2, <2>3 DEF ReadSized, SingleReader, PositionInLog, ReadRecords,
       PipeTypeOK
  <2> QED BY <1>7, <2>1, <2>4 DEF ReadSized, OnePlace, PositionInLog,
          ExactlyOnce, CarryFollows
<1>8. ASSUME NEW h \in Handles, NEW c \in Callers, ReadDone(h, c)
      PROVE  OnePlace' /\ SingleReader' /\ PositionInLog' /\ ExactlyOnce'
             /\ CarryFollows'
  BY <1>8, ReadDoneKeeps
<1>9. CASE PipeDetach
  BY <1>9, DetachKeeps
<1>10. CASE PipeRestart
  <2>1. Position' = size
    BY <1>10 DEF PipeRestart, Position
  <2> QED BY <1>10, <2>1 DEF PipeRestart, PipeTypeOK, OnePlace, SingleReader, NoRead,
          PositionInLog, ExactlyOnce, CarryFollows
<1>11. CASE UNCHANGED pipeVars
  <2>1. Position' = Position
    BY <1>11, SamePosition DEF pipeVars
  <2> QED BY <1>11, <2>1 DEF pipeVars, OnePlace, SingleReader, PositionInLog,
          ExactlyOnce, CarryFollows
<1> QED BY <1>1, <1>2, <1>3, <1>4, <1>5, <1>6, <1>7, <1>8, <1>9, <1>10,
           <1>11 DEF PipeNext

\* Every step keeps types, position and reader.
LEMMA NextPipe == ASSUME PipeInv, [PipeNext]_pipeVars PROVE PipeInv'
  BY NextKeeps, TypePreserved DEF PipeInv

\* The invariant holds in every reachable state, whatever dies when.
THEOREM PipeInvariant == PipeSpec => []PipeInv
<1>1. PipeInv /\ [PipeNext]_pipeVars => PipeInv'
  BY NextPipe
<1> QED BY <1>1, InitPipe, PTL DEF PipeSpec

\* Every byte the pane printed since the first attach of this service is
\* processed once, up to where the registered handle or its successor reads on.
THEOREM PipeExactlyOnce == PipeSpec => []ExactlyOnce
<1>1. PipeInv => ExactlyOnce
  BY DEF PipeInv
<1> QED BY <1>1, PipeInvariant, PTL

\* The parser state handed over always belongs to the offset handed over.
THEOREM PipeCarryFollows == PipeSpec => []CarryFollows
<1>1. PipeInv => CarryFollows
  BY DEF PipeInv
<1> QED BY <1>1, PipeInvariant, PTL

\* Positions, bytes and reads of every handle keep their types.
THEOREM PipeTypeCorrect == PipeSpec => []PipeTypeOK
<1>1. PipeInv => PipeTypeOK
  BY DEF PipeInv
<1> QED BY <1>1, PipeInvariant, PTL
=============================================================================
