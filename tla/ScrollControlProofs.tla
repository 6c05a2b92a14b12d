------------------------- MODULE ScrollControlProofs -------------------------
(* For any limits of the queue and any number of requests, ScrollControl     *)
(* keeps its barrier up whenever the pane is in copy-mode, and its queue     *)
(* keeps every input, in order, and no typing from copy-mode.                *)
EXTENDS ScrollControl, FiniteSetTheorems, SequenceTheorems,
        WellFoundedInduction, TLAPS

ARead == [busy: BOOLEAN, quiet: BOOLEAN,
          saw: {"none", "mode", "live", "keys"}]
Reads == [Readers -> ARead]

BarrierTypes ==
  /\ mayBeInCopyMode \in BOOLEAN
  /\ pane \in [inMode: BOOLEAN, keys: BOOLEAN]
  /\ read \in Reads

(* A command that may enter copy-mode has raised the barrier already. *)
ScrollRaises == drain = "scroll" => mayBeInCopyMode

(* While a read is quiet no command is under way, and so what it saw of a
   pane out of copy-mode is still so. *)
QuietTells ==
  \A r \in Readers :
    read[r].quiet => /\ ~Commanding
                     /\ read[r].saw \in {"live", "keys"} => ~pane.inMode

BarrierInv == BarrierTypes /\ BarrierUp /\ ScrollRaises /\ QuietTells

-----------------------------------------------------------------------------
(* Nothing the invariant speaks of changes, but the drain may go to a state
   in which it waits for no command. *)
LEMMA NoCommandKeeps ==
  ASSUME BarrierInv, UNCHANGED <<mayBeInCopyMode, pane, read>>,
         drain' = drain \/ drain' \in {"idle", "loop", "wedged"}
  PROVE  BarrierInv'
BY SMT DEF BarrierInv, BarrierTypes, BarrierUp, ScrollRaises, QuietTells,
           Commanding

(* No request and no key touches the barrier, the pane or a read. *)
LEMMA RequestsKeepBarrier == ASSUME BarrierInv, Requests PROVE BarrierInv'
<1>1. ASSUME NEW by \in {1, -1}, ScrollRelative(by) \/ TouchScroll(by)
      PROVE  BarrierInv'
  BY <1>1, NoCommandKeeps
     DEF ScrollRelative, TouchScroll, ScrollRequest, StartDrain
<1>2. ASSUME NEW position \in {0, 1}, ScrollTo(position)
      PROVE  BarrierInv'
  BY <1>2, NoCommandKeeps DEF ScrollTo, ScrollRequest, StartDrain
<1>3. ASSUME NEW from \in Origins, TypeNow(from) \/ TypeHeld(from)
      PROVE  BarrierInv'
  BY <1>3, NoCommandKeeps DEF TypeNow, TypeHeld, Typing, StartDrain
<1> QED BY <1>1, <1>2, <1>3 DEF Requests

(* After a command has crossed them, no read is quiet. *)
LEMMA DisturbedIsNotQuiet ==
  ASSUME NEW rs \in Reads
  PROVE  /\ Disturbed(rs) \in Reads
         /\ \A r \in Readers : Disturbed(rs)[r].quiet = FALSE
<1>1. ASSUME NEW one \in ARead
      PROVE  /\ [one EXCEPT !.quiet = FALSE] \in ARead
             /\ [one EXCEPT !.quiet = FALSE].quiet = FALSE
  BY DEF ARead
<1>2. \A r \in Readers : rs[r] \in ARead
  BY DEF Reads
<1>3. \A r \in Readers :
        Disturbed(rs)[r] = [rs[r] EXCEPT !.quiet = FALSE]
  BY DEF Disturbed
<1>4. \A r \in Readers :
        Disturbed(rs)[r] \in ARead /\ Disturbed(rs)[r].quiet = FALSE
  BY <1>1, <1>2, <1>3, Zenon
<1> QED BY <1>4, Zenon DEF Disturbed, Reads

(* What starting or ending a command does: no read is quiet any more, and
   the barrier is up if it was, or if the command may enter copy-mode. *)
LEMMA CommandKeeps ==
  ASSUME BarrierInv, UNCHANGED pane,
         read' \in Reads, \A r \in Readers : read'[r].quiet = FALSE,
         mayBeInCopyMode' \in BOOLEAN,
         mayBeInCopyMode => mayBeInCopyMode',
         drain' = "scroll" => mayBeInCopyMode'
  PROVE  BarrierInv'
<1>1. BarrierTypes'
  BY DEF BarrierInv, BarrierTypes
<1>2. BarrierUp' /\ ScrollRaises'
  BY DEF BarrierInv, BarrierUp, ScrollRaises
<1>3. QuietTells'
  BY DEF QuietTells
<1> QED BY <1>1, <1>2, <1>3 DEF BarrierInv

(* What the loop starts keeps the barrier's invariant. *)
LEMMA LoopKeepsBarrier == ASSUME BarrierInv, Loop PROVE BarrierInv'
<1> USE DEF TmuxVars, Fixed
<1>1. ASSUME LoopEnds \/ LoopStops PROVE BarrierInv'
  BY <1>1, NoCommandKeeps DEF LoopEnds, LoopStops, Finish
<1>2. ASSUME WriteHeld \/ RunKeys PROVE BarrierInv'
  BY <1>2, NoCommandKeeps DEF WriteHeld, RunKeys
<1>3. ASSUME RunHistory \/ RunExit PROVE BarrierInv'
  <2>1. /\ read' = Disturbed(read) /\ UNCHANGED pane
        /\ mayBeInCopyMode' = (mayBeInCopyMode \/ drain' = "scroll")
    BY <1>3 DEF RunHistory, RunExit, RunScroll, Start
  <2>2. read' \in Reads /\ \A r \in Readers : read'[r].quiet = FALSE
    BY <2>1, DisturbedIsNotQuiet DEF BarrierInv, BarrierTypes
  <2> QED BY <2>1, <2>2, CommandKeeps DEF BarrierInv, BarrierTypes
<1>4. ASSUME RunTouch PROVE BarrierInv'
  <2>1. /\ read' = Reading(read, "drain", TRUE) /\ drain' = "route"
        /\ drain = "loop" /\ UNCHANGED <<pane, mayBeInCopyMode>>
    BY <1>4 DEF RunTouch, RunScroll, LoopTakes, StartRead
  <2> QED BY <2>1, SMT DEF BarrierInv, BarrierTypes, BarrierUp, ScrollRaises,
                           QuietTells, Commanding, Reading, Readers, Reads, ARead
<1> QED BY <1>1, <1>2, <1>3, <1>4 DEF Loop

(* A reader that reads nothing is not quiet. *)
LEMMA NoReadIsARead == NoRead \in ARead /\ NoRead.quiet = FALSE
BY DEF NoRead, ARead

(* A read of the drain has ended and is forgotten; no command starts. *)
LEMMA ReadEndsKeeps ==
  ASSUME BarrierInv, UNCHANGED pane, NEW r \in Readers, NEW saw,
         ReadReturns(r, saw), mayBeInCopyMode' = BarrierAfter(r, saw),
         read' = [read EXCEPT ![r] = NoRead],
         Commanding' => Commanding, drain' = "scroll" => drain = "scroll"
  PROVE  BarrierInv'
<1>1. read[r] \in ARead /\ mayBeInCopyMode \in BOOLEAN /\ read \in Reads
  BY DEF BarrierInv, BarrierTypes, Reads
<1>2. read' \in Reads
  BY <1>1, NoReadIsARead DEF Reads
<1>3. CASE read[r].quiet /\ saw # "null"
  <2>1. saw = read[r].saw /\ saw \in {"mode", "live", "keys"}
    BY <1>1, <1>3 DEF ReadReturns, ARead
  <2>2. ~Commanding /\ (saw # "mode" => ~pane.inMode)
    BY <1>3, <2>1 DEF BarrierInv, QuietTells
  <2>3. mayBeInCopyMode' = (saw = "mode")
    BY <1>3 DEF BarrierAfter
  <2>4. BarrierUp' /\ ScrollRaises' /\ mayBeInCopyMode' \in BOOLEAN
    BY <2>2, <2>3 DEF BarrierUp, ScrollRaises, Commanding
  <2> QED BY <1>2, <2>4, NoReadIsARead, SMT
          DEF BarrierInv, BarrierTypes, QuietTells, Reads
<1>4. CASE ~(read[r].quiet /\ saw # "null")
  <2>1. mayBeInCopyMode' = mayBeInCopyMode
    BY <1>4 DEF BarrierAfter
  <2>2. BarrierUp' /\ ScrollRaises' /\ mayBeInCopyMode' \in BOOLEAN
    BY <1>1, <2>1 DEF BarrierInv, BarrierUp, ScrollRaises
  <2> QED BY <1>2, <2>2, NoReadIsARead, SMT
          DEF BarrierInv, BarrierTypes, QuietTells, Reads
<1> QED BY <1>3, <1>4

(* A read starts; it is quiet only if no command is under way then. *)
LEMMA ReadStartsKeeps ==
  ASSUME BarrierInv, UNCHANGED pane, NEW r \in Readers,
         read' \in Reads, read'[r].saw = "none",
         read'[r].quiet => ~Commanding',
         \A q \in Readers \ {r} : read'[q].quiet => UNCHANGED read[q],
         mayBeInCopyMode' \in BOOLEAN,
         mayBeInCopyMode => mayBeInCopyMode',
         drain' = drain \/ ~Commanding'
  PROVE  BarrierInv'
<1>1. BarrierTypes' /\ BarrierUp'
  BY DEF BarrierInv, BarrierTypes, BarrierUp
<1>2. ScrollRaises'
  BY DEF BarrierInv, ScrollRaises, Commanding
<1>3. QuietTells'
  BY DEF BarrierInv, QuietTells, Commanding
<1> QED BY <1>1, <1>2, <1>3 DEF BarrierInv

(* A read that starts has seen nothing, and is as quiet as asked. *)
LEMMA ReadingIsARead ==
  ASSUME NEW rs \in Reads, NEW r \in Readers, NEW quiet \in BOOLEAN
  PROVE  /\ Reading(rs, r, quiet) \in Reads
         /\ Reading(rs, r, quiet)[r].saw = "none"
         /\ Reading(rs, r, quiet)[r].quiet = quiet
         /\ \A q \in Readers \ {r} : Reading(rs, r, quiet)[q] = rs[q]
BY DEF Reading, Reads, ARead

(* A read that is over leaves the reader free. *)
LEMMA ForgottenIsARead ==
  ASSUME NEW rs \in Reads, NEW r \in Readers
  PROVE  [rs EXCEPT ![r] = NoRead] \in Reads
BY NoReadIsARead DEF Reads

-----------------------------------------------------------------------------
LEMMA SettlesKeep ==
  ASSUME BarrierInv, NEW aborted \in BOOLEAN,
         ExitSettles(aborted) \/ CancelSettles(aborted)
  PROVE  BarrierInv'
<1> DEFINE step == IF drain = "exit" THEN "exitRead" ELSE "cancelRead"
<1>1. /\ UNCHANGED pane /\ ReadOrGiveUp(step)
      /\ mayBeInCopyMode' = (mayBeInCopyMode \/ drain = "scroll" \/ aborted)
  BY DEF ExitSettles, CancelSettles, Await, Fixed, Settled
<1>2. read \in Reads /\ mayBeInCopyMode' \in BOOLEAN
  BY <1>1 DEF BarrierInv, BarrierTypes
<1>3. /\ Disturbed(read) \in Reads
      /\ \A r \in Readers : Disturbed(read)[r].quiet = FALSE
  BY <1>2, DisturbedIsNotQuiet
<1>4. CASE left = "past"
  <2>1. read' = Disturbed(read) /\ drain' = "loop"
    BY <1>1, <1>4 DEF ReadOrGiveUp, GiveUp, OpDone
  <2> QED BY <1>1, <1>2, <1>3, <2>1, CommandKeeps
<1>5. CASE left # "past"
  <2>1. read' = Reading(Disturbed(read), "drain", TRUE) /\ drain' = step
    BY <1>1, <1>5 DEF ReadOrGiveUp
  <2>2. ~Commanding'
    BY <2>1 DEF Commanding
  <2>3. /\ read' \in Reads /\ read'["drain"].saw = "none"
        /\ \A q \in Readers \ {"drain"} : read'[q] = Disturbed(read)[q]
    BY <1>3, <2>1, ReadingIsARead DEF Readers
  <2>4. \A q \in Readers \ {"drain"} : ~read'[q].quiet
    BY <1>3, <2>3
  <2>5. "drain" \in Readers
    BY DEF Readers
  <2> HIDE DEF step
  <2> QED BY <1>1, <1>2, <2>2, <2>3, <2>4, <2>5, ReadStartsKeeps
<1> QED BY <1>4, <1>5

(* The drain's own reads move the barrier only as they may. *)
LEMMA ReadsOfTheDrainKeep ==
  ASSUME BarrierInv, NEW saw \in Saws,
         \/ TouchToKeys(saw) \/ LeftCopyMode(saw)
         \/ Retry(saw) \/ StopTrying(saw)
  PROVE  BarrierInv'
<1>1. /\ UNCHANGED pane /\ ReadReturns("drain", saw)
      /\ mayBeInCopyMode' = BarrierAfter("drain", saw)
      /\ read' = [read EXCEPT !["drain"] = NoRead]
      /\ drain' \in {"loop", "wait"}
  BY DEF TouchToKeys, TouchRouted, LeftCopyMode, Retry, StopTrying, NotOut,
         StateRead, Await, Fixed, GiveUp, OpDone
<1>2. "drain" \in Readers /\ ~Commanding' /\ drain' # "scroll"
  BY <1>1 DEF Readers, Commanding
<1> QED BY <1>1, <1>2, ReadEndsKeeps

(* Every answer the drain waits for keeps the barrier's invariant. *)
LEMMA AnswersKeepBarrier == ASSUME BarrierInv, Answers PROVE BarrierInv'
<1>0. read \in Reads /\ mayBeInCopyMode \in BOOLEAN /\ "drain" \in Readers
  BY DEF BarrierInv, BarrierTypes, Readers
<1>1. ASSUME NEW aborted \in BOOLEAN, ScrollSettles(aborted)
      PROVE  BarrierInv'
  <2>1. /\ UNCHANGED pane /\ read' = Disturbed(read) /\ drain' = "loop"
        /\ mayBeInCopyMode' = (mayBeInCopyMode \/ drain = "scroll" \/ aborted)
    BY <1>1 DEF ScrollSettles, Await, Fixed, Settled, OpDone
  <2> QED BY <1>0, <2>1, DisturbedIsNotQuiet, CommandKeeps
<1>2. ASSUME NEW saw \in Saws, TouchToHistory(saw)
      PROVE  BarrierInv'
  <2>1. /\ UNCHANGED pane /\ mayBeInCopyMode' = TRUE
        /\ read' = Disturbed([read EXCEPT !["drain"] = NoRead])
    BY <1>2 DEF TouchToHistory, TouchRouted, Await, Fixed
  <2> QED BY <1>0, <2>1, ForgottenIsARead, DisturbedIsNotQuiet, CommandKeeps
<1>3. ASSUME Unreadable PROVE BarrierInv'
  <2>1. /\ UNCHANGED pane /\ ReadReturns("drain", "null")
        /\ mayBeInCopyMode' = BarrierAfter("drain", "null")
        /\ read' = [read EXCEPT !["drain"] = NoRead] /\ drain' = "loop"
    BY <1>3 DEF Unreadable, StateRead, Await, Fixed, OpDone, BarrierAfter
  <2>2. ~Commanding' /\ drain' # "scroll"
    BY <2>1 DEF Commanding
  <2> QED BY <1>0, <2>1, <2>2, ReadEndsKeeps
<1>4. ASSUME TryCancel PROVE BarrierInv'
  <2>1. /\ UNCHANGED pane /\ drain' = "cancel"
        /\ read' = Disturbed([read EXCEPT !["drain"] = NoRead])
        /\ mayBeInCopyMode' = (read["drain"].quiet \/ mayBeInCopyMode)
    BY <1>0, <1>4, Zenon
       DEF TryCancel, StateRead, Await, Fixed, BarrierAfter
  <2> QED BY <1>0, <2>1, ForgottenIsARead, DisturbedIsNotQuiet, CommandKeeps
<1>5. ASSUME WaitEnds PROVE BarrierInv'
  <2>1. UNCHANGED <<pane, mayBeInCopyMode>>
    BY <1>5 DEF WaitEnds, Await, Fixed
  <2>2. CASE read' = read /\ drain' = "loop"
    BY <2>1, <2>2, NoCommandKeeps
  <2>3. CASE read' = Disturbed(read) /\ drain' = "exit"
    BY <1>0, <2>1, <2>3, DisturbedIsNotQuiet, CommandKeeps
  <2> QED BY <1>5, <2>2, <2>3 DEF WaitEnds, GiveUp, OpDone
<1> QED BY <1>1, <1>2, <1>3, <1>4, <1>5, SettlesKeep, ReadsOfTheDrainKeep
        DEF Answers

-----------------------------------------------------------------------------
LEMMA EmitsKeepBarrier ==
  ASSUME BarrierInv, EmitReads \/ \E saw \in Saws : EmitReturns(saw)
  PROVE  BarrierInv'
<1>0. /\ read \in Reads /\ mayBeInCopyMode \in BOOLEAN
      /\ "emit" \in Readers /\ Commanding \in BOOLEAN
  BY DEF BarrierInv, BarrierTypes, Readers, Commanding
<1>1. ASSUME EmitReads PROVE BarrierInv'
  <2>1. /\ read' = Reading(read, "emit", ~Commanding)
        /\ UNCHANGED <<pane, mayBeInCopyMode, drain>>
    BY <1>1 DEF EmitReads, Rest
  <2>2. Commanding' = Commanding
    BY <2>1 DEF Commanding
  <2>3. /\ read' \in Reads /\ read'["emit"].saw = "none"
        /\ read'["emit"].quiet = ~Commanding
        /\ \A q \in Readers \ {"emit"} : read'[q] = read[q]
    <3> DEFINE quiet == ~Commanding
    <3>1. quiet \in BOOLEAN /\ read' = Reading(read, "emit", quiet)
      BY <1>0, <2>1
    <3> HIDE DEF quiet
    <3>2. /\ Reading(read, "emit", quiet) \in Reads
          /\ Reading(read, "emit", quiet)["emit"].saw = "none"
          /\ Reading(read, "emit", quiet)["emit"].quiet = quiet
          /\ \A q \in Readers \ {"emit"} : Reading(read, "emit", quiet)[q] = read[q]
      <4>1. read \in Reads /\ "emit" \in Readers /\ quiet \in BOOLEAN
        BY <1>0, <3>1
      <4> QED BY ONLY <4>1, ReadingIsARead
    <3> QED BY <3>1, <3>2 DEF quiet
  <2>4. read'["emit"].quiet => ~Commanding'
    BY <2>2, <2>3
  <2> QED BY <1>0, <2>1, <2>3, <2>4, ReadStartsKeeps
<1>2. ASSUME NEW saw \in Saws, EmitReturns(saw) PROVE BarrierInv'
  <2>1. /\ ReadReturns("emit", saw) /\ UNCHANGED <<pane, drain>>
        /\ mayBeInCopyMode' = BarrierAfter("emit", saw)
        /\ read' = [read EXCEPT !["emit"] = NoRead]
    BY <1>2 DEF EmitReturns, Rest
  <2>2. Commanding' = Commanding
    BY <2>1 DEF Commanding
  <2> QED BY <1>0, <2>1, <2>2, ReadEndsKeeps
<1> QED BY <1>1, <1>2

(* So does all that tmux does by itself. *)
LEMMA TmuxKeepsBarrier ==
  ASSUME BarrierInv,
         TmuxActs \/ (\E r \in Readers : TmuxLooks(r)) \/ PaneLeaves
  PROVE  BarrierInv'
<1>0. /\ read \in Reads /\ mayBeInCopyMode \in BOOLEAN
      /\ pane \in [inMode: BOOLEAN, keys: BOOLEAN]
  BY DEF BarrierInv, BarrierTypes
<1>1. ASSUME TmuxActs PROVE BarrierInv'
  <2>1. Commanding /\ UNCHANGED <<read, mayBeInCopyMode, drain>>
    BY <1>1 DEF TmuxActs, Rest
  <2>2. PICK inMode \in Effects : pane' = [pane EXCEPT !.inMode = inMode]
    BY <1>1 DEF TmuxActs
  <2>3. inMode \in BOOLEAN /\ pane'.inMode = inMode
        /\ pane' \in [inMode: BOOLEAN, keys: BOOLEAN]
    BY <1>0, <2>2 DEF Effects
  <2>4. inMode => mayBeInCopyMode
    BY <2>2 DEF Effects, BarrierInv, BarrierUp, ScrollRaises
  <2>5. \A r \in Readers : ~read[r].quiet
    BY <2>1 DEF BarrierInv, QuietTells
  <2> QED BY <2>1, <2>3, <2>4, <2>5
          DEF BarrierInv, BarrierTypes, BarrierUp, ScrollRaises, QuietTells
<1>2. ASSUME NEW r \in Readers, TmuxLooks(r) PROVE BarrierInv'
  <2> DEFINE look == IF pane.inMode THEN "mode"
                     ELSE IF pane.keys THEN "keys" ELSE "live"
  <2>1. /\ read' = [read EXCEPT ![r].saw = look]
        /\ UNCHANGED <<pane, mayBeInCopyMode, drain>>
    BY <1>2 DEF TmuxLooks, Rest
  <2>2. look \in {"mode", "keys", "live"} /\ (look # "mode" => ~pane.inMode)
    OBVIOUS
  <2> HIDE DEF look
  <2>3. /\ read' \in Reads /\ read'[r].saw = look
        /\ read'[r].quiet = read[r].quiet
        /\ \A q \in Readers \ {r} : read'[q] = read[q]
    BY <1>0, <2>1, <2>2 DEF Reads, ARead
  <2>4. QuietTells'
    BY <2>1, <2>2, <2>3 DEF BarrierInv, QuietTells, Commanding
  <2> QED BY <2>1, <2>3, <2>4
          DEF BarrierInv, BarrierTypes, BarrierUp, ScrollRaises
<1>3. ASSUME PaneLeaves PROVE BarrierInv'
  <2>1. /\ pane' = [pane EXCEPT !.inMode = FALSE]
        /\ UNCHANGED <<read, mayBeInCopyMode, drain>>
    BY <1>3 DEF PaneLeaves, Rest, TmuxVars
  <2>2. ~pane'.inMode /\ pane' \in [inMode: BOOLEAN, keys: BOOLEAN]
    BY <1>0, <2>1
  <2> QED BY <2>1, <2>2 DEF BarrierInv, BarrierTypes, BarrierUp,
                            ScrollRaises, QuietTells, Commanding
<1> QED BY <1>1, <1>2, <1>3

-----------------------------------------------------------------------------
(* The inductive invariant, for any limits and any number of requests. *)
THEOREM BarrierInvariant == Spec => []BarrierInv
<1>1. Init => BarrierInv
  <2> SUFFICES ASSUME Init PROVE BarrierInv
    OBVIOUS
  <2>1. ~pane.inMode /\ ~mayBeInCopyMode /\ drain = "idle"
        /\ pane \in [inMode: BOOLEAN, keys: BOOLEAN]
        /\ read = [r \in Readers |-> NoRead] /\ mayBeInCopyMode \in BOOLEAN
    BY DEF Init
  <2>2. read \in Reads /\ \A r \in Readers : ~read[r].quiet
    BY <2>1, NoReadIsARead DEF Reads
  <2> QED BY <2>1, <2>2 DEF BarrierInv, BarrierTypes, BarrierUp, ScrollRaises,
                            QuietTells
<1>2. BarrierInv /\ [Next]_vars => BarrierInv'
  <2> SUFFICES ASSUME BarrierInv, [Next]_vars PROVE BarrierInv'
    OBVIOUS
  <2>1. CASE CacheExpires \/ DeadlineComesNear \/ Close \/ UNCHANGED vars
    BY <2>1, NoCommandKeeps
       DEF CacheExpires, DeadlineComesNear, Close, Rest, TmuxVars, Fixed, vars
  <2> QED BY <2>1, RequestsKeepBarrier, LoopKeepsBarrier, AnswersKeepBarrier,
             EmitsKeepBarrier, TmuxKeepsBarrier DEF Next
<1> QED BY <1>1, <1>2, PTL DEF Spec

(* Whatever reads and commands cross, the barrier in front of typed input is
   up while the pane is in copy-mode. *)
THEOREM BarrierAlwaysUp == Spec => []BarrierUp
<1>1. BarrierInv => BarrierUp
  BY DEF BarrierInv
<1> QED BY <1>1, BarrierInvariant, PTL

-----------------------------------------------------------------------------
(* A bounded set of numbers has a greatest one. *)
LEMMA GreatestNumber ==
  ASSUME NEW n \in Nat, NEW I \in SUBSET (1..n), I # {}
  PROVE  Max(I) \in I /\ \A x \in I : Max(I) >= x
<1>1. PICK m \in I : \A x \in I : m >= x
  <2> DEFINE Above == {n - x : x \in I}
  <2>1. Above \subseteq Nat /\ Above # {}
    <3>1. \A x \in I : n - x \in Nat
      OBVIOUS
    <3>2. PICK x \in I : TRUE
      OBVIOUS
    <3>3. n - x \in Above
      OBVIOUS
    <3> QED BY <3>1, <3>3, Zenon
  <2>2. PICK t \in Above : \A y \in Above : <<y, t>> \notin OpToRel(<, Nat)
    <3> HIDE DEF Above
    <3> QED BY <2>1, WFMin, NatLessThanWellFounded
  <2>3. \A y \in Above : ~(y < t)
    <3> HIDE DEF Above
    <3> QED BY <2>1, <2>2, Zenon DEF OpToRel
  <2>4. PICK m \in I : t = n - m
    OBVIOUS
  <2>5. ASSUME NEW x \in I PROVE m >= x
    <3>1. ~(n - x < n - m)
      BY <2>3, <2>4
    <3> QED BY <3>1
  <2> QED BY <2>5
<1>2. \A x \in I : m >= x
  BY <1>1
<1> QED BY <1>2, Zenon DEF Max

Turns(op) == MayEnter(op) \/ IsExit(op)

(* SelectLastInSeq for the two questions the controller asks with it. *)
LEMMA LastTurn ==
  ASSUME NEW S, NEW ops \in Seq(S), NEW last,
         last = SelectLastInSeq(ops, LAMBDA op : MayEnter(op) \/ IsExit(op))
  PROVE  /\ last \in 0..Len(ops)
         /\ last # 0 => Turns(ops[last])
         /\ \A i \in 1..Len(ops) : Turns(ops[i]) => i <= last
<1> DEFINE I == {i \in 1..Len(ops) : MayEnter(ops[i]) \/ IsExit(ops[i])}
<1>1. last = IF I # {} THEN Max(I) ELSE 0
  BY DEF SelectLastInSeq
<1>2. I \in SUBSET (1..Len(ops)) /\ Len(ops) \in Nat
  OBVIOUS
<1>3. I # {} => Max(I) \in I /\ \A x \in I : Max(I) >= x
  <2> HIDE DEF I
  <2> QED BY <1>2, GreatestNumber
<1>4. \A i : i \in I <=> i \in 1..Len(ops) /\ Turns(ops[i])
  BY DEF Turns
<1> HIDE DEF I
<1>5. \A x \in I : x \in 1..Len(ops)
  BY <1>2
<1>6. CASE I = {}
  <2>1. last = 0 /\ \A i \in 1..Len(ops) : ~Turns(ops[i])
    BY <1>1, <1>4, <1>6, Zenon
  <2>2. last \in 0..Len(ops)
    BY <1>2, <2>1
  <2> QED BY <2>1, <2>2, Zenon
<1>7. CASE I # {}
  <2>1. last \in I /\ \A x \in I : last >= x
    BY <1>1, <1>3, <1>7
  <2>2. last \in 1..Len(ops) /\ Turns(ops[last])
    BY <1>4, <2>1, Zenon
  <2>3. ASSUME NEW i \in 1..Len(ops), Turns(ops[i]) PROVE i <= last
    <3>1. last >= i
      BY <1>4, <2>1, <2>3, Zenon
    <3> QED BY <1>2, <2>2, <3>1
  <2>4. last \in 0..Len(ops)
    BY <1>2, <2>2
  <2> QED BY <2>2, <2>3, <2>4, Zenon
<1> QED BY <1>6, <1>7

(* The last input of a queue, or 0. *)
LEMMA LastInput ==
  ASSUME NEW S, NEW q \in Seq(S), NEW last,
         last = SelectLastInSeq(q, LAMBDA op : op.kind = "input")
  PROVE  /\ last \in 0..Len(q)
         /\ \A i \in 1..Len(q) : q[i].kind = "input" => i <= last
<1> DEFINE I == {i \in 1..Len(q) : q[i].kind = "input"}
<1>1. last = IF I # {} THEN Max(I) ELSE 0
  BY DEF SelectLastInSeq
<1>2. I \in SUBSET (1..Len(q)) /\ Len(q) \in Nat
  OBVIOUS
<1>3. I # {} => Max(I) \in I /\ \A x \in I : Max(I) >= x
  <2> HIDE DEF I
  <2> QED BY <1>2, GreatestNumber
<1>4. \A i : i \in I <=> i \in 1..Len(q) /\ q[i].kind = "input"
  OBVIOUS
<1> HIDE DEF I
<1>5. CASE I = {}
  BY <1>1, <1>2, <1>4, <1>5
<1>6. CASE I # {}
  <2>1. last \in I /\ \A x \in I : last >= x
    BY <1>1, <1>3, <1>6
  <2>2. last \in Nat /\ \A x \in I : x \in Nat
    BY <1>2, <2>1
  <2> QED BY <1>2, <1>4, <2>1, <2>2
<1> QED BY <1>5, <1>6

-----------------------------------------------------------------------------
Keys      == [id: Nat, from: Origins]
QueuedOps == [kind: {"relative", "touch", "absolute", "input"}, n: Int,
              data: Seq(Keys)]

IsInput(op)  == op.kind = "input"
HasTouch(op) == \E k \in ToSet(op.data) : k.from = "touch"

(* Every other op takes the pane into copy-mode or out of it, and no input
   stands next to another. *)
Alternates(q) ==
  /\ \A i \in 1..Len(q) : ~IsInput(q[i]) => Turns(q[i]) /\ q[i].data = <<>>
  /\ \A i \in 1..Len(q) : i > 1 /\ IsInput(q[i]) => ~IsInput(q[i - 1])

(* Beyond the op bound only input waits, and the one exit in front of it. *)
Bounded(q) ==
  /\ \A i \in 1..Len(q) : i > MaxOps => IsInput(q[i]) \/ IsExit(q[i])
  /\ \A i, j \in 1..Len(q) :
       i > MaxOps /\ j > MaxOps /\ IsExit(q[i]) /\ IsExit(q[j]) => i = j

(* Typing on a touch page stands behind an exit. *)
Cleared(q) == \A i \in 1..Len(q) : i > 1 /\ HasTouch(q[i]) => IsExit(q[i - 1])

Shaped(q) == q \in Seq(QueuedOps) /\ Alternates(q) /\ Bounded(q) /\ Cleared(q)

(* Taking the first op keeps the shape of the queue. *)
LEMMA TailShaped ==
  ASSUME NEW q, Shaped(q), q # <<>>
  PROVE  Shaped(Tail(q))
<1> DEFINE r == Tail(q)
<1>1. q \in Seq(QueuedOps) /\ Len(q) \in Nat
  BY DEF Shaped
<1>2. r \in Seq(QueuedOps) /\ Len(q) = Len(r) + 1 /\ Len(r) \in Nat
  BY <1>1
<1>3. \A i \in 1..Len(r) : i + 1 \in 1..Len(q) /\ r[i] = q[i + 1]
  BY <1>1
<1>4. MaxOps \in Nat /\ MaxOps > 0
  BY ScrollAssumption
<1> HIDE DEF r
<1>5. Alternates(r)
  <2>1. ASSUME NEW i \in 1..Len(r), ~IsInput(r[i])
        PROVE  Turns(r[i]) /\ r[i].data = <<>>
    BY <1>3, <2>1, Zenon DEF Shaped, Alternates
  <2>2. ASSUME NEW i \in 1..Len(r), i > 1, IsInput(r[i])
        PROVE  ~IsInput(r[i - 1])
    BY <1>2, <1>3, <2>2 DEF Shaped, Alternates
  <2> QED BY <2>1, <2>2 DEF Alternates
<1>6. Bounded(r)
  <2>1. ASSUME NEW i \in 1..Len(r), i > MaxOps
        PROVE  IsInput(r[i]) \/ IsExit(r[i])
    BY <1>2, <1>3, <1>4, <2>1 DEF Shaped, Bounded
  <2>2. ASSUME NEW i \in 1..Len(r), NEW j \in 1..Len(r),
               i > MaxOps, j > MaxOps, IsExit(r[i]), IsExit(r[j])
        PROVE  i = j
    <3>1. /\ i + 1 > MaxOps /\ j + 1 > MaxOps
          /\ i + 1 \in 1..Len(q) /\ j + 1 \in 1..Len(q)
      BY <1>2, <1>3, <1>4, <2>2
    <3>2. IsExit(q[i + 1]) /\ IsExit(q[j + 1])
      BY <1>3, <2>2, Zenon
    <3>3. i + 1 = j + 1
      BY <3>1, <3>2, Zenon DEF Shaped, Bounded
    <3> QED BY <3>3
  <2> QED BY <2>1, <2>2, Zenon DEF Bounded
<1>7. Cleared(r)
  BY SMTT(30), <1>2, <1>3 DEF Shaped, Cleared
<1>8. Shaped(r)
  BY <1>2, <1>5, <1>6, <1>7, Zenon DEF Shaped
<1> QED BY <1>8 DEF r

(* What is cut off the end was not what an input stands behind. *)
LEMMA PrefixShaped ==
  ASSUME NEW q, Shaped(q), NEW m \in 0..Len(q)
  PROVE  Shaped(SubSeq(q, 1, m))
<1> DEFINE r == SubSeq(q, 1, m)
<1>1. q \in Seq(QueuedOps) /\ Len(q) \in Nat
  BY DEF Shaped
<1>2. r \in Seq(QueuedOps) /\ Len(r) = m /\ m \in Nat
  BY <1>1
<1>3. \A i \in 1..m : i \in 1..Len(q) /\ r[i] = q[i]
  BY <1>1
<1> HIDE DEF r
<1>4. Alternates(r)
  <2>1. ASSUME NEW i \in 1..m, ~IsInput(r[i])
        PROVE  Turns(r[i]) /\ r[i].data = <<>>
    BY <1>3, <2>1, Zenon DEF Shaped, Alternates
  <2>2. ASSUME NEW i \in 1..m, i > 1, IsInput(r[i])
        PROVE  ~IsInput(r[i - 1])
    BY <1>2, <1>3, <2>2 DEF Shaped, Alternates
  <2> QED BY <1>2, <2>1, <2>2, Zenon DEF Alternates
<1>5. Bounded(r)
  BY <1>2, <1>3, Zenon DEF Shaped, Bounded
<1>6. Cleared(r)
  BY <1>2, <1>3 DEF Shaped, Cleared
<1>7. Shaped(r)
  BY <1>2, <1>4, <1>5, <1>6, Zenon DEF Shaped
<1> QED BY <1>7 DEF r

(* An op that is not input is added within the bound, or is the exit beyond
   it that no exit beyond it is before. *)
LEMMA OpAddedShaped ==
  ASSUME NEW q, Shaped(q), NEW op \in QueuedOps,
         ~IsInput(op), Turns(op), op.data = <<>>,
         \/ Len(q) < MaxOps
         \/ IsExit(op) /\ \A i \in 1..Len(q) : i > MaxOps => ~IsExit(q[i])
  PROVE  Shaped(Append(q, op))
<1> DEFINE r == Append(q, op)
           n == Len(q)
<1>1. q \in Seq(QueuedOps) /\ n \in Nat
  BY DEF Shaped
<1>2. r \in Seq(QueuedOps) /\ Len(r) = n + 1 /\ r[n + 1] = op
  BY <1>1
<1>3. \A i \in 1..Len(r) : i = n + 1 \/ (i \in 1..n /\ r[i] = q[i])
  <2>1. \A i \in 1..n : r[i] = q[i]
    BY <1>1
  <2> HIDE DEF r, n
  <2> QED BY <1>1, <1>2, <2>1
<1>4. MaxOps \in Nat /\ ~HasTouch(op)
  BY ScrollAssumption DEF HasTouch, ToSet
<1> HIDE DEF r, n
<1>5. Alternates(r)
  <2>1. ASSUME NEW i \in 1..Len(r), ~IsInput(r[i])
        PROVE  Turns(r[i]) /\ r[i].data = <<>>
    BY <1>2, <1>3, <2>1, Zenon DEF Shaped, Alternates, n
  <2>2. ASSUME NEW i \in 1..Len(r), i > 1, IsInput(r[i])
        PROVE  ~IsInput(r[i - 1])
    <3>1. i \in 1..n /\ r[i] = q[i]
      BY <1>2, <1>3, <2>2, Zenon
    <3>2. i - 1 \in 1..n /\ r[i - 1] = q[i - 1]
      BY <1>1, <1>2, <1>3, <2>2, <3>1
    <3> QED BY <2>2, <3>1, <3>2, Zenon DEF Shaped, Alternates, n
  <2> QED BY <2>1, <2>2 DEF Alternates
<1>6. Bounded(r)
  <2>1. ASSUME NEW i \in 1..Len(r), i > MaxOps
        PROVE  IsInput(r[i]) \/ IsExit(r[i])
    <3>1. CASE i \in 1..n
      BY <1>3, <2>1, <3>1, <1>1 DEF Shaped, Bounded, n
    <3>2. CASE i = n + 1
      <4>1. ~(n < MaxOps)
        BY <1>1, <1>4, <2>1, <3>2
      <4> QED BY <1>2, <3>2, <4>1, Zenon DEF n
    <3> QED BY <1>3, <3>1, <3>2
  <2>2. ASSUME NEW i \in 1..Len(r), NEW j \in 1..Len(r),
               i > MaxOps, j > MaxOps, IsExit(r[i]), IsExit(r[j])
        PROVE  i = j
    <3>1. CASE n < MaxOps
      BY <1>1, <1>2, <1>4, <2>2, <3>1
    <3>2. CASE ~(n < MaxOps)
      <4>1. \A x \in 1..n : x > MaxOps => ~IsExit(q[x])
        BY <3>2, Zenon DEF n
      <4> QED BY <1>2, <1>3, <2>2, <4>1, Zenon
    <3> QED BY <3>1, <3>2
  <2> QED BY <2>1, <2>2, Zenon DEF Bounded
<1>7. Cleared(r)
  <2> SUFFICES ASSUME NEW i \in 1..Len(r), i > 1, HasTouch(r[i])
               PROVE  IsExit(r[i - 1])
    BY Zenon DEF Cleared
  <2>1. i \in 1..n /\ r[i] = q[i]
    BY <1>2, <1>3, <1>4, Zenon
  <2>2. i - 1 \in 1..n /\ r[i - 1] = q[i - 1]
    BY <1>1, <1>2, <1>3, <2>1
  <2> QED BY <2>1, <2>2, Zenon DEF Shaped, Cleared, n
<1>8. Shaped(r)
  BY <1>2, <1>5, <1>6, <1>7, Zenon DEF Shaped
<1> QED BY <1>8 DEF r

(* A gesture joins the last op; what that op is stays. *)
LEMMA OpJoinedShaped ==
  ASSUME NEW q, Shaped(q), q # <<>>, NEW lines \in Int,
         q[Len(q)].kind \in {"relative", "touch"}
  PROVE  Shaped([q EXCEPT ![Len(q)].n = lines])
<1> DEFINE r == [q EXCEPT ![Len(q)].n = lines]
           n == Len(q)
<1>1. q \in Seq(QueuedOps) /\ n \in Nat /\ n \in 1..n
  BY DEF Shaped
<1>2. q[n] \in QueuedOps
  BY <1>1
<1>3. /\ [q[n] EXCEPT !.n = lines] \in QueuedOps
      /\ [q[n] EXCEPT !.n = lines].kind = q[n].kind
      /\ [q[n] EXCEPT !.n = lines].data = q[n].data
  BY <1>2 DEF QueuedOps
<1>4. /\ r \in Seq(QueuedOps) /\ Len(r) = n
      /\ \A i \in 1..n : r[i].kind = q[i].kind /\ r[i].data = q[i].data
      /\ \A i \in 1..n : i # n => r[i] = q[i]
  <2>1. r = [q EXCEPT ![n] = [q[n] EXCEPT !.n = lines]]
    OBVIOUS
  <2> HIDE DEF r
  <2>2. /\ r \in Seq(QueuedOps) /\ Len(r) = n
        /\ \A i \in 1..n : r[i] = IF i = n THEN [q[n] EXCEPT !.n = lines] ELSE q[i]
    BY <1>1, <1>3, <2>1, ExceptSeq
  <2>3. r[n].kind = q[n].kind /\ r[n].data = q[n].data
    BY <1>1, <1>3, <2>2, Zenon
  <2> QED BY <2>2, <2>3, Zenon
<1> HIDE DEF r
<1>5. ~IsInput(r[n]) /\ Turns(r[n]) /\ ~IsExit(r[n]) /\ ~IsExit(q[n])
  BY <1>1, <1>4 DEF IsInput, Turns, MayEnter, IsExit, Exit, Scroll, n
<1> HIDE DEF n
<1>6. Alternates(r)
  <2>0. \A i \in 1..n : IsInput(r[i]) = IsInput(q[i])
    BY <1>4 DEF IsInput
  <2>1. ASSUME NEW i \in 1..n, ~IsInput(r[i])
        PROVE  Turns(r[i]) /\ r[i].data = <<>>
    <3>1. Turns(r[i])
      BY <1>4, <1>5, <2>0, <2>1, Zenon DEF Shaped, Alternates, n
    <3>2. r[i].data = <<>>
      BY <1>4, <2>0, <2>1, Zenon DEF Shaped, Alternates, n
    <3> QED BY <3>1, <3>2
  <2>2. ASSUME NEW i \in 1..n, i > 1, IsInput(r[i])
        PROVE  ~IsInput(r[i - 1])
    <3>1. i - 1 \in 1..n
      BY <1>1, <2>2
    <3> QED BY <2>0, <2>2, <3>1, Zenon DEF Shaped, Alternates, n
  <2> QED BY <1>4, <2>1, <2>2, Zenon DEF Alternates
<1>7. n \in 1..n /\ ~IsInput(q[n]) /\ (n > MaxOps => FALSE)
  <2>1. ~IsInput(q[n])
    BY <1>1 DEF IsInput, n
  <2> QED BY <1>1, <1>5, <2>1, Zenon DEF Shaped, Bounded, n
<1>8. Bounded(r)
  <2>1. \A i \in 1..n : i > MaxOps => r[i] = q[i]
    BY <1>4, <1>7, Zenon
  <2> QED BY <1>4, <2>1, Zenon DEF Shaped, Bounded, n
<1>9. Cleared(r)
  <2> SUFFICES ASSUME NEW i \in 1..n, i > 1, HasTouch(r[i])
               PROVE  IsExit(r[i - 1])
    BY <1>4, Zenon DEF Cleared
  <2>1. HasTouch(q[i])
    BY <1>4, Zenon DEF HasTouch
  <2>2. i - 1 \in 1..n /\ i - 1 # n
    BY <1>1
  <2> QED BY <1>4, <2>1, <2>2, Zenon DEF Shaped, Cleared, n
<1>10. Shaped(r)
  BY <1>4, <1>6, <1>8, <1>9, Zenon DEF Shaped
<1> QED BY <1>10 DEF r

(* An input op is an op of the queue. *)
LEMMA KeyIsAnOp ==
  ASSUME NEW data \in Seq(Keys)
  PROVE  Input(data) \in QueuedOps /\ IsInput(Input(data))
BY DEF Input, QueuedOps, IsInput

(* An input joins the input that waits last, or waits on its own. *)
LEMMA KeyJoinedShaped ==
  ASSUME NEW q, Shaped(q), NEW k \in Keys,
         k.from = "touch" =>
           \/ q = <<>>
           \/ ~IsInput(q[Len(q)]) /\ IsExit(q[Len(q)])
           \/ IsInput(q[Len(q)])
                 /\ (Len(q) > 1 => IsExit(q[Len(q) - 1]))
  PROVE  Shaped(Joined(q, k))
<1> DEFINE n == Len(q)
<1>1. q \in Seq(QueuedOps) /\ n \in Nat /\ <<k>> \in Seq(Keys)
  BY DEF Shaped
<1>0. MaxOps \in Nat
  BY ScrollAssumption
<1>2. CASE q # <<>> /\ IsInput(q[n])
  <2> DEFINE r == Joined(q, k)
             op == [q[n] EXCEPT !.data = Append(@, k)]
  <2>1. n \in 1..n /\ q[n] \in QueuedOps /\ Last(q) = q[n]
    BY <1>1, <1>2 DEF Last
  <2>2. r = [q EXCEPT ![n] = op]
    BY <1>2, <2>1 DEF Joined, IsInput
  <2>3. op \in QueuedOps /\ IsInput(op) /\ op.data = Append(q[n].data, k)
    BY SMTT(30), <1>2, <2>1 DEF QueuedOps, IsInput
  <2> HIDE DEF op, r
  <2>4. /\ r \in Seq(QueuedOps) /\ Len(r) = n
        /\ \A i \in 1..n : r[i] = IF i = n THEN op ELSE q[i]
    BY <1>1, <2>1, <2>2, <2>3, ExceptSeq
  <2> HIDE DEF n
  <2>5. \A i \in 1..n : IsInput(r[i]) = IsInput(q[i])
    BY <1>2, <2>3, <2>4 DEF IsInput
  <2>6. \A i \in 1..n : ~IsInput(r[i]) => r[i] = q[i]
    BY <2>3, <2>4, Zenon
  <2>7. \A i \in 1..n : IsExit(q[i]) => ~IsInput(q[i])
    BY DEF IsExit, Exit, Scroll, IsInput
  <2>8. \A i \in 1..n : IsExit(r[i]) <=> IsExit(q[i])
    <3>1. \A i \in 1..n : IsExit(r[i]) => ~IsInput(r[i])
      BY DEF IsExit, Exit, Scroll, IsInput
    <3> QED BY <2>5, <2>6, <2>7, <3>1, Zenon
  <2>9. Alternates(r)
    <3>1. ASSUME NEW i \in 1..n, ~IsInput(r[i])
          PROVE  Turns(r[i]) /\ r[i].data = <<>>
      BY <2>5, <2>6, <3>1, Zenon DEF Shaped, Alternates, n
    <3>2. ASSUME NEW i \in 1..n, i > 1, IsInput(r[i])
          PROVE  ~IsInput(r[i - 1])
      <4>1. i - 1 \in 1..n
        BY <1>1, <3>2
      <4> QED BY <2>5, <3>2, <4>1, Zenon DEF Shaped, Alternates, n
    <3> QED BY <2>4, <3>1, <3>2, Zenon DEF Alternates
  <2>10. Bounded(r)
    BY <2>4, <2>5, <2>8, Zenon DEF Shaped, Bounded, n
  <2>11. Cleared(r)
    <3> SUFFICES ASSUME NEW i \in 1..n, i > 1, HasTouch(r[i])
                 PROVE  IsExit(q[i - 1])
      <4>1. \A i \in 1..n : i > 1 => i - 1 \in 1..n
        BY <1>1
      <4> QED BY <2>4, <2>8, <4>1, Zenon DEF Cleared
    <3>1. CASE HasTouch(q[i])
      BY <3>1, Zenon DEF Shaped, Cleared, n
    <3>2. CASE ~HasTouch(q[i])
      <4>1. i = n
        BY <2>4, <3>2, Zenon
      <4>2. k.from = "touch"
        <5>1. r[i].data = Append(q[i].data, k) /\ q[i].data \in Seq(Keys)
          BY <2>1, <2>3, <2>4, <4>1 DEF QueuedOps
        <5>2. PICK x \in ToSet(r[i].data) : x.from = "touch"
          BY Zenon DEF HasTouch
        <5>3. x \in ToSet(q[i].data) \/ x = k
          BY <5>1, <5>2 DEF ToSet
        <5> QED BY <3>2, <5>2, <5>3, Zenon DEF HasTouch
      <4> QED BY <1>2, <4>1, <4>2, Zenon DEF n
    <3> QED BY <3>1, <3>2
  <2>12. Shaped(r)
    BY <2>4, <2>9, <2>10, <2>11, Zenon DEF Shaped
  <2> QED BY <2>12 DEF r
<1>3. CASE ~(q # <<>> /\ IsInput(q[n]))
  <2> DEFINE op == Input(<<k>>)
             r == Append(q, op)
  <2>1. Joined(q, k) = r
    BY <1>1, <1>3 DEF Joined, IsInput, Last
  <2>2. op \in QueuedOps /\ IsInput(op) /\ op.data = <<k>>
    BY <1>1, KeyIsAnOp DEF Input
  <2>3. ~IsExit(op)
    BY <2>2 DEF IsInput, IsExit, Exit, Scroll
  <2> HIDE DEF op
  <2>4. r \in Seq(QueuedOps) /\ Len(r) = n + 1 /\ r[n + 1] = op
    BY <1>1, <2>2
  <2>5. \A i \in 1..n : r[i] = q[i]
    BY <1>1
  <2>5a. n = 0 <=> q = <<>>
    BY <1>1
  <2> HIDE DEF r, n
  <2>6. \A i \in 1..Len(r) : i = n + 1 \/ (i \in 1..n /\ r[i] = q[i])
    BY <1>1, <2>4, <2>5
  <2>7. Alternates(r)
    <3>1. ASSUME NEW i \in 1..Len(r), ~IsInput(r[i])
          PROVE  Turns(r[i]) /\ r[i].data = <<>>
      BY <2>2, <2>4, <2>6, <3>1, Zenon DEF Shaped, Alternates, n
    <3>2. ASSUME NEW i \in 1..Len(r), i > 1, IsInput(r[i])
          PROVE  ~IsInput(r[i - 1])
      <4>1. i - 1 \in 1..n /\ r[i - 1] = q[i - 1]
        BY <1>1, <2>4, <2>5, <3>2
      <4>2. CASE i = n + 1
        <5>1. i - 1 = n /\ n # 0
          BY <1>1, <3>2, <4>2
        <5> QED BY <1>3, <2>5a, <4>1, <5>1, Zenon
      <4>3. CASE i \in 1..n
        BY <2>5, <3>2, <4>1, <4>3, Zenon DEF Shaped, Alternates, n
      <4> QED BY <2>6, <4>2, <4>3
    <3> QED BY <3>1, <3>2, Zenon DEF Alternates
  <2>8. Bounded(r)
    <3>1. \A i \in 1..Len(r) : IsExit(r[i]) => i \in 1..n /\ r[i] = q[i]
      BY <2>3, <2>4, <2>6, Zenon
    <3> QED BY <2>2, <2>4, <2>6, <3>1, Zenon DEF Shaped, Bounded, n
  <2>9. Cleared(r)
    <3> SUFFICES ASSUME NEW i \in 1..Len(r), i > 1, HasTouch(r[i])
                 PROVE  IsExit(r[i - 1])
      BY Zenon DEF Cleared
    <3>1. i - 1 \in 1..n /\ r[i - 1] = q[i - 1]
      BY <1>1, <2>4, <2>5
    <3>2. CASE i \in 1..n
      BY <2>5, <3>1, <3>2, Zenon DEF Shaped, Cleared, n
    <3>3. CASE i = n + 1
      <4>1. i - 1 = n /\ n # 0
        BY <1>1, <3>1, <3>3
      <4>2. k.from = "touch"
        <5>1. ToSet(<<k>>) = {k}
          BY DEF ToSet
        <5> QED BY <2>2, <2>4, <3>3, <5>1, Zenon DEF HasTouch
      <4> QED BY <1>3, <2>5a, <3>1, <4>1, <4>2, Zenon DEF n
    <3> QED BY <2>6, <3>2, <3>3
  <2>10. Shaped(r)
    BY <2>4, <2>7, <2>8, <2>9, Zenon DEF Shaped
  <2> QED BY <2>1, <2>10
<1> QED BY <1>2, <1>3

-----------------------------------------------------------------------------
(* What waits in a queue: the inputs of its ops, in the order of the ops. *)
Increasing(data) ==
  \A a, b \in 1..Len(data) : a < b => data[a].id < data[b].id

Ordered(q) ==
  /\ \A i \in 1..Len(q) : Increasing(q[i].data)
  /\ \A i, j \in 1..Len(q) :
       i < j => \A x \in Ids(q[i].data), y \in Ids(q[j].data) : x < y

(* The ids of an op are those at its places. *)
LEMMA IdsAt ==
  ASSUME NEW data \in Seq(Keys)
  PROVE  /\ \A x : x \in Ids(data) <=> \E a \in 1..Len(data) : x = data[a].id
         /\ Ids(data) \subseteq Nat
<1>1. \A a \in 1..Len(data) : data[a].id \in Nat
  <2>1. \A a \in 1..Len(data) : data[a] \in Keys
    BY ElementOfSeq, Zenon
  <2>2. \A k \in Keys : k.id \in Nat
    BY DEF Keys
  <2> QED BY <2>1, <2>2, Zenon
<1>2. DOMAIN data = 1..Len(data)
  OBVIOUS
<1>3. \A x : x \in Ids(data) <=> \E a \in 1..Len(data) : x = data[a].id
  BY <1>2, Zenon DEF Ids, ToSet
<1> QED BY <1>1, <1>3, Zenon

(* An id waits in a queue when it is one of some op's. *)
LEMMA WaitingAt ==
  ASSUME NEW q \in Seq(QueuedOps)
  PROVE  /\ \A x : x \in WaitingIds(q) <=> \E i \in 1..Len(q) : x \in Ids(q[i].data)
         /\ \A i \in 1..Len(q) : q[i].data \in Seq(Keys)
         /\ WaitingIds(q) \subseteq Nat
<1>1. DOMAIN q = 1..Len(q)
  OBVIOUS
<1>2. \A i \in 1..Len(q) : q[i].data \in Seq(Keys)
  <2>1. \A i \in 1..Len(q) : q[i] \in QueuedOps
    BY ElementOfSeq, Zenon
  <2>2. \A op \in QueuedOps : op.data \in Seq(Keys)
    BY DEF QueuedOps
  <2> QED BY <2>1, <2>2, Zenon
<1>3. \A x : x \in WaitingIds(q) <=> \E i \in 1..Len(q) : x \in Ids(q[i].data)
  BY <1>1, Zenon DEF WaitingIds
<1> QED BY <1>2, <1>3, IdsAt, Zenon

(* An op without input holds no id. *)
LEMMA NoIds == Ids(<<>>) = {} /\ Increasing(<<>>)
BY DEF Ids, ToSet, Increasing

(* Ops without input may come and go. *)
LEMMA SameInputs ==
  ASSUME NEW q \in Seq(QueuedOps), NEW r \in Seq(QueuedOps), Ordered(q),
         \A i \in 1..Len(q) :
           (i \in 1..Len(r) /\ r[i].data = q[i].data) \/ q[i].data = <<>>,
         \A i \in 1..Len(r) :
           (i \in 1..Len(q) /\ r[i].data = q[i].data) \/ r[i].data = <<>>
  PROVE  Ordered(r) /\ WaitingIds(r) = WaitingIds(q)
<1>1. \A x : x \in WaitingIds(r) <=> x \in WaitingIds(q)
  BY WaitingAt, NoIds, Zenon
<1>2. \A i \in 1..Len(r) : Increasing(r[i].data)
  BY NoIds, Zenon DEF Ordered
<1>3. ASSUME NEW i \in 1..Len(r), NEW j \in 1..Len(r), i < j,
             NEW x \in Ids(r[i].data), NEW y \in Ids(r[j].data)
      PROVE  x < y
  BY <1>3, NoIds, Zenon DEF Ordered
<1> QED BY <1>1, <1>2, <1>3, Zenon DEF Ordered

(* A new input is behind all that wait. *)
LEMMA KeyJoinedOrdered ==
  ASSUME NEW q \in Seq(QueuedOps), Ordered(q), NEW k \in Keys,
         \A x \in WaitingIds(q) : x < k.id
  PROVE  /\ Ordered(Joined(q, k))
         /\ WaitingIds(Joined(q, k)) = WaitingIds(q) \union {k.id}
<1> DEFINE n == Len(q)
<1>1. n \in Nat /\ <<k>> \in Seq(Keys) /\ k.id \in Nat
  BY DEF Keys
<1>2. CASE q # <<>> /\ IsInput(q[n])
  <2> DEFINE r == Joined(q, k)
             op == [q[n] EXCEPT !.data = Append(@, k)]
             data == q[n].data
  <2>1. n \in 1..n /\ q[n] \in QueuedOps /\ Last(q) = q[n]
    BY <1>1, <1>2 DEF Last
  <2>2. r = [q EXCEPT ![n] = op]
    BY <1>2, <2>1 DEF Joined, IsInput
  <2>3. op \in QueuedOps /\ op.data = Append(data, k) /\ data \in Seq(Keys)
    <3>1. data \in Seq(Keys) /\ Append(data, k) \in Seq(Keys)
      BY <2>1 DEF QueuedOps
    <3> QED BY <2>1, <3>1 DEF QueuedOps
  <2> HIDE DEF op, r
  <2>4. /\ r \in Seq(QueuedOps) /\ Len(r) = n
        /\ \A i \in 1..n : r[i] = IF i = n THEN op ELSE q[i]
    BY <1>1, <2>1, <2>2, <2>3, ExceptSeq
  <2>5. \A i \in 1..n : i # n => r[i].data = q[i].data
    BY <2>4, Zenon
  <2>6. r[n].data = Append(data, k)
    BY <2>1, <2>3, <2>4, Zenon
  <2>7. /\ Len(Append(data, k)) = Len(data) + 1 /\ Len(data) \in Nat
        /\ Append(data, k)[Len(data) + 1] = k
        /\ \A a \in 1..Len(data) : Append(data, k)[a] = data[a]
        /\ Append(data, k) \in Seq(Keys)
    BY <2>3
  <2>8. \A x : x \in Ids(Append(data, k)) <=> x \in Ids(data) \/ x = k.id
    <3>1. Ids(Append(data, k)) = Ids(data) \union {k.id}
      <4>1. ToSet(Append(data, k)) = ToSet(data) \union {k}
        <5>1. \A s \in Seq(Keys) : ToSet(s) = {s[a] : a \in 1..Len(s)}
          BY DEF ToSet
        <5> HIDE DEF data
        <5>2. /\ ToSet(data) = {data[a] : a \in 1..Len(data)}
              /\ ToSet(Append(data, k))
                   = {Append(data, k)[a] : a \in 1..(Len(data) + 1)}
          BY <2>3, <2>7, <5>1, Zenon
        <5>3. ASSUME NEW x \in ToSet(Append(data, k))
              PROVE  x \in ToSet(data) \/ x = k
          <6>1. PICK a \in 1..(Len(data) + 1) : x = Append(data, k)[a]
            BY <5>2, Zenon
          <6>2. a \in 1..Len(data) \/ a = Len(data) + 1
            BY <2>7
          <6> QED BY <2>7, <5>2, <6>1, <6>2, Zenon
        <5>4. ASSUME NEW x \in ToSet(data)
              PROVE  x \in ToSet(Append(data, k))
          <6>1. PICK a \in 1..Len(data) : x = data[a]
            BY <5>2, Zenon
          <6>2. a \in 1..(Len(data) + 1)
            BY <2>7
          <6> QED BY <2>7, <5>2, <6>1, <6>2, Zenon
        <5>5. k \in ToSet(Append(data, k))
          <6>1. Len(data) + 1 \in 1..(Len(data) + 1)
            BY <2>7
          <6> QED BY <2>7, <5>2, <6>1, Zenon
        <5> QED BY <5>3, <5>4, <5>5
      <4>2. \A x : x \in Ids(Append(data, k)) <=> x \in Ids(data) \/ x = k.id
        BY <4>1 DEF Ids
      <4> QED BY <4>2
    <3> QED BY <3>1
  <2>9. \A x : x \in WaitingIds(r) <=> x \in WaitingIds(q) \/ x = k.id
    <3>1. ASSUME NEW x, x \in WaitingIds(r)
          PROVE  x \in WaitingIds(q) \/ x = k.id
      <4>1. PICK i \in 1..n : x \in Ids(r[i].data)
        BY <2>4, <3>1, WaitingAt, Zenon
      <4>2. x \in Ids(q[i].data) \/ x = k.id
        BY <2>5, <2>6, <2>8, <4>1, Zenon
      <4> QED BY <4>2, WaitingAt, Zenon
    <3>2. ASSUME NEW x, x \in WaitingIds(q) PROVE x \in WaitingIds(r)
      <4>1. PICK i \in 1..n : x \in Ids(q[i].data)
        BY <3>2, WaitingAt, Zenon
      <4>2. x \in Ids(r[i].data)
        BY <2>5, <2>6, <2>8, <4>1, Zenon
      <4> QED BY <2>4, <4>2, WaitingAt, Zenon
    <3>3. k.id \in WaitingIds(r)
      BY <2>1, <2>4, <2>6, <2>8, WaitingAt, Zenon
    <3> QED BY <3>1, <3>2, <3>3
  <2>10. \A i \in 1..n : \A x \in Ids(q[i].data) : x < k.id
    BY WaitingAt, Zenon
  <2>11. Increasing(Append(data, k))
    <3>1. \A a \in 1..Len(data) : data[a].id \in Ids(data)
      BY <2>3, IdsAt, Zenon
    <3>2. \A a \in 1..Len(data) : data[a].id < k.id
      BY <2>1, <2>10, <3>1, Zenon
    <3>3. Increasing(data)
      BY <2>1, Zenon DEF Ordered
    <3> HIDE DEF data
    <3> SUFFICES ASSUME NEW a \in 1..(Len(data) + 1),
                        NEW b \in 1..(Len(data) + 1), a < b
                 PROVE  Append(data, k)[a].id < Append(data, k)[b].id
      BY <2>7 DEF Increasing
    <3>4. a \in 1..Len(data)
      BY <2>7
    <3>5. CASE b \in 1..Len(data)
      <4>1. data[a].id < data[b].id
        BY <3>3, <3>4, <3>5, Zenon DEF Increasing
      <4> QED BY <2>7, <3>4, <3>5, <4>1, Zenon
    <3>6. CASE b = Len(data) + 1
      BY <2>7, <3>2, <3>4, <3>6, Zenon
    <3> QED BY <2>7, <3>5, <3>6
  <2>12. \A i \in 1..n : Increasing(r[i].data)
    BY <2>5, <2>6, <2>11, Zenon DEF Ordered
  <2>13. ASSUME NEW i \in 1..n, NEW j \in 1..n, i < j,
               NEW x \in Ids(r[i].data), NEW y \in Ids(r[j].data)
         PROVE  x < y
    <3>1. i # n
      BY <1>1, <2>13
    <3>2. x \in Ids(q[i].data)
      BY <2>5, <2>13, <3>1, Zenon
    <3>3. y \in Ids(q[j].data) \/ y = k.id
      BY <2>5, <2>6, <2>8, <2>13, Zenon
    <3> QED BY <2>10, <2>13, <3>2, <3>3, Zenon DEF Ordered
  <2>14. Ordered(r)
    BY <2>4, <2>12, <2>13, Zenon DEF Ordered
  <2> QED BY <2>9, <2>14 DEF r
<1>3. CASE ~(q # <<>> /\ IsInput(q[n]))
  <2> DEFINE op == Input(<<k>>)
             r == Append(q, op)
  <2>1. Joined(q, k) = r
    BY <1>1, <1>3 DEF Joined, IsInput, Last
  <2>2. op \in QueuedOps /\ op.data = <<k>>
    BY <1>1, KeyIsAnOp DEF Input
  <2>3. Ids(<<k>>) = {k.id} /\ Increasing(<<k>>)
    <3>1. ToSet(<<k>>) = {k}
      BY DEF ToSet
    <3>2. Increasing(<<k>>)
      BY DEF Increasing
    <3> QED BY <3>1, <3>2 DEF Ids
  <2> HIDE DEF op
  <2>4. r \in Seq(QueuedOps) /\ Len(r) = n + 1 /\ r[n + 1] = op
    BY <1>1, <2>2
  <2>5. \A i \in 1..n : r[i] = q[i]
    BY <1>1
  <2> HIDE DEF r, n
  <2>6. \A i \in 1..Len(r) : i = n + 1 \/ (i \in 1..n /\ r[i] = q[i])
    BY <1>1, <2>4, <2>5
  <2>7. Ids(r[n + 1].data) = {k.id} /\ n + 1 \in 1..Len(r)
    BY SMTT(30), <1>1, <2>2, <2>3, <2>4
  <2>8. \A i \in 1..n : i \in 1..Len(r)
    BY <1>1, <2>4
  <2>9. \A x : x \in WaitingIds(r) <=> x \in WaitingIds(q) \/ x = k.id
    <3>1. ASSUME NEW x, x \in WaitingIds(r)
          PROVE  x \in WaitingIds(q) \/ x = k.id
      <4>1. PICK i \in 1..Len(r) : x \in Ids(r[i].data)
        BY <2>4, <3>1, WaitingAt, Zenon
      <4>2. CASE i = n + 1
        BY <2>7, <4>1, <4>2
      <4>3. CASE i \in 1..n /\ r[i] = q[i]
        BY <4>1, <4>3, WaitingAt, Zenon DEF n
      <4> QED BY <2>6, <4>2, <4>3
    <3>2. ASSUME NEW x, x \in WaitingIds(q) PROVE x \in WaitingIds(r)
      <4>1. PICK i \in 1..n : x \in Ids(q[i].data)
        BY <3>2, WaitingAt, Zenon DEF n
      <4> QED BY <2>4, <2>5, <2>8, <4>1, WaitingAt, Zenon
    <3>3. k.id \in WaitingIds(r)
      <4>1. k.id \in Ids(r[n + 1].data)
        BY <2>7
      <4> QED BY <2>4, <2>7, <4>1, WaitingAt, Zenon
    <3> QED BY <3>1, <3>2, <3>3
  <2>10. \A i \in 1..Len(r) : Increasing(r[i].data)
    BY <2>2, <2>3, <2>4, <2>6, Zenon DEF Ordered, n
  <2>11. ASSUME NEW i \in 1..Len(r), NEW j \in 1..Len(r), i < j,
               NEW x \in Ids(r[i].data), NEW y \in Ids(r[j].data)
         PROVE  x < y
    <3>1. i \in 1..n /\ r[i] = q[i]
      BY <1>1, <2>4, <2>5, <2>11
    <3>2. x \in Ids(q[i].data)
      BY <2>11, <3>1, Zenon
    <3>3. CASE j = n + 1
      <4>1. x \in WaitingIds(q)
        BY <3>1, <3>2, WaitingAt, Zenon DEF n
      <4>2. y = k.id
        BY <2>7, <2>11, <3>3
      <4> QED BY <4>1, <4>2, Zenon
    <3>4. CASE j \in 1..n /\ r[j] = q[j]
      BY <2>11, <3>1, <3>2, <3>4, Zenon DEF Ordered, n
    <3> QED BY <2>6, <3>3, <3>4
  <2>12. Ordered(r)
    BY <2>10, <2>11, Zenon DEF Ordered
  <2> QED BY <2>1, <2>9, <2>12
<1> QED BY <1>2, <1>3

(* The first op's input comes before all that waits behind it. *)
LEMMA TailOrdered ==
  ASSUME NEW q \in Seq(QueuedOps), q # <<>>, Ordered(q)
  PROVE  /\ Ordered(Tail(q))
         /\ Head(q).data \in Seq(Keys) /\ Increasing(Head(q).data)
         /\ WaitingIds(q) = Ids(Head(q).data) \union WaitingIds(Tail(q))
         /\ \A x \in Ids(Head(q).data), y \in WaitingIds(Tail(q)) : x < y
<1> DEFINE r == Tail(q)
<1>1. /\ r \in Seq(QueuedOps) /\ Len(q) = Len(r) + 1 /\ Len(r) \in Nat
      /\ Head(q) = q[1] /\ 1 \in 1..Len(q)
  OBVIOUS
<1>2. \A i \in 1..Len(r) : i + 1 \in 1..Len(q) /\ 1 < i + 1 /\ r[i] = q[i + 1]
  OBVIOUS
<1> HIDE DEF r
<1>3. \A i \in 1..Len(q) : i # 1 => i - 1 \in 1..Len(r) /\ r[i - 1] = q[i]
  BY <1>1, <1>2
<1>4. \A i \in 1..Len(r) : Increasing(r[i].data)
  BY <1>2, Zenon DEF Ordered
<1>5. ASSUME NEW i \in 1..Len(r), NEW j \in 1..Len(r), i < j,
             NEW x \in Ids(r[i].data), NEW y \in Ids(r[j].data)
      PROVE  x < y
  <2>1. i + 1 < j + 1
    BY <1>1, <1>5
  <2> QED BY <1>2, <1>5, <2>1, Zenon DEF Ordered
<1>6. Ordered(r)
  BY <1>4, <1>5, Zenon DEF Ordered
<1>7. \A x : x \in WaitingIds(q) <=> x \in Ids(q[1].data) \/ x \in WaitingIds(r)
  <2>1. ASSUME NEW x, x \in WaitingIds(q)
        PROVE  x \in Ids(q[1].data) \/ x \in WaitingIds(r)
    <3>1. PICK i \in 1..Len(q) : x \in Ids(q[i].data)
      BY <2>1, WaitingAt, Zenon
    <3> QED BY <1>1, <1>3, <3>1, WaitingAt, Zenon
  <2>2. ASSUME NEW x, x \in Ids(q[1].data) \/ x \in WaitingIds(r)
        PROVE  x \in WaitingIds(q)
    <3>1. CASE x \in WaitingIds(r)
      <4>1. PICK i \in 1..Len(r) : x \in Ids(r[i].data)
        BY <1>1, <3>1, WaitingAt, Zenon
      <4> QED BY <1>2, <4>1, WaitingAt, Zenon
    <3>2. CASE x \in Ids(q[1].data)
      BY <1>1, <3>2, WaitingAt, Zenon
    <3> QED BY <2>2, <3>1, <3>2
  <2> QED BY <2>1, <2>2
<1>8. ASSUME NEW x \in Ids(q[1].data), NEW y \in WaitingIds(r) PROVE x < y
  <2>1. PICK j \in 1..Len(r) : y \in Ids(r[j].data)
    BY <1>1, WaitingAt, Zenon
  <2> QED BY <1>1, <1>2, <2>1, Zenon DEF Ordered
<1>9. q[1].data \in Seq(Keys) /\ Increasing(q[1].data)
  BY <1>1, WaitingAt, Zenon DEF Ordered
<1>10. WaitingIds(q) = Ids(q[1].data) \union WaitingIds(r)
  BY <1>7
<1>11. /\ Ordered(r) /\ q[1].data \in Seq(Keys) /\ Increasing(q[1].data)
       /\ WaitingIds(q) = Ids(q[1].data) \union WaitingIds(r)
       /\ \A x \in Ids(q[1].data), y \in WaitingIds(r) : x < y
  BY <1>6, <1>8, <1>9, <1>10, Zenon
<1> QED BY <1>1, <1>11, Zenon DEF r

-----------------------------------------------------------------------------
(* Increasing numbers are as many as their places. *)
LEMMA NumbersCounted ==
  ASSUME NEW n \in Nat, NEW S, NEW f \in [1..n -> S],
         \A a, b \in 1..n : a < b => f[a] < f[b],
         S \subseteq Nat, \A x \in S : \E a \in 1..n : f[a] = x
  PROVE  IsFiniteSet(S) /\ Cardinality(S) = n
<1>1. ASSUME NEW a \in 1..n, NEW b \in 1..n, f[a] = f[b] PROVE a = b
  <2>1. f[a] \in Nat /\ f[b] \in Nat
    BY Zenon
  <2>2. ~(f[a] < f[b]) /\ ~(f[b] < f[a])
    BY <1>1, <2>1
  <2>3. ~(a < b) /\ ~(b < a)
    BY <2>2, Zenon
  <2> QED BY <2>3
<1>2. DOMAIN f = 1..n
  OBVIOUS
<1>3. f \in Bijection(1..n, S)
  BY <1>1, <1>2, Zenon DEF Bijection, Injection, Surjection, IsInjective
<1>4. ExistsBijection(1..n, S)
  BY <1>3, Zenon DEF ExistsBijection
<1> QED BY <1>4, FS_CountingElements, FS_NatBijection, Zenon

(* An op of increasing input holds as many ids as inputs. *)
LEMMA IdsCounted ==
  ASSUME NEW data \in Seq(Keys), Increasing(data)
  PROVE  IsFiniteSet(Ids(data)) /\ Cardinality(Ids(data)) = Len(data)
<1> DEFINE f == [a \in 1..Len(data) |-> data[a].id]
           n == Len(data)
<1>1. \A a \in 1..n : f[a] = data[a].id
  OBVIOUS
<1>2. \A a \in 1..n : data[a].id \in Ids(data)
  BY IdsAt, Zenon
<1>3. f \in [1..n -> Ids(data)]
  BY <1>2
<1>4. n \in Nat
  OBVIOUS
<1>5. \A a, b \in 1..n : a < b => f[a] < f[b]
  BY Zenon DEF Increasing
<1>6. \A x \in Ids(data) : \E a \in 1..n : f[a] = x
  <2> SUFFICES ASSUME NEW x \in Ids(data) PROVE \E a \in 1..n : f[a] = x
    OBVIOUS
  <2>1. PICK a \in 1..n : x = data[a].id
    BY IdsAt, ZenonT(40)
  <2> QED BY <2>1
<1> HIDE DEF f
<1> QED BY <1>3, <1>4, <1>5, <1>6, IdsAt, NumbersCounted

PtyOrdered(s) == s \in Seq(Nat) /\ \A i, j \in 1..Len(s) : i < j => s[i] < s[j]

(* As many ids are written as the pty has got. *)
LEMMA PtyCounted ==
  ASSUME NEW s, PtyOrdered(s)
  PROVE  /\ IsFiniteSet(ToSet(s)) /\ Cardinality(ToSet(s)) = Len(s)
         /\ ToSet(s) \subseteq Nat
<1> DEFINE n == Len(s)
<1>1. s \in Seq(Nat) /\ n \in Nat /\ DOMAIN s = 1..n
  BY DEF PtyOrdered
<1>2. s \in [1..n -> ToSet(s)]
  <2>1. s = [i \in 1..n |-> s[i]]
    BY <1>1
  <2>2. \A i \in 1..n : s[i] \in ToSet(s)
    BY <1>1, Zenon DEF ToSet
  <2> QED BY <2>1, <2>2, Zenon
<1>3. \A x \in ToSet(s) : \E a \in 1..n : s[a] = x
  BY <1>1, Zenon DEF ToSet
<1>4. ToSet(s) \subseteq Nat
  BY <1>1, <1>3, ElementOfSeq, Zenon
<1>5. \A a, b \in 1..n : a < b => s[a] < s[b]
  BY Zenon DEF PtyOrdered
<1> HIDE DEF n
<1>6. IsFiniteSet(ToSet(s)) /\ Cardinality(ToSet(s)) = n
  BY <1>1, <1>2, <1>3, <1>4, <1>5, NumbersCounted
<1> QED BY <1>4, <1>6 DEF n

(* A function on 1..n is a sequence of that length. *)
LEMMA NumbersAreASeq ==
  ASSUME NEW n \in Nat, NEW f \in [1..n -> Nat]
  PROVE  f \in Seq(Nat) /\ Len(f) = n
<1>1. f \in Seq(Nat)
  OBVIOUS
<1> QED BY <1>1

(* What Write does to what has been written. *)
LEMMA WrittenInOrder ==
  ASSUME NEW s, PtyOrdered(s), NEW data \in Seq(Keys), Increasing(data),
         \A x \in ToSet(s), y \in Ids(data) : x < y,
         NEW t, t = s \o [i \in DOMAIN data |-> data[i].id]
  PROVE  PtyOrdered(t) /\ ToSet(t) = ToSet(s) \union Ids(data)
<1> DEFINE d == [i \in DOMAIN data |-> data[i].id]
           m == Len(s)
           n == Len(data)
<1>1. /\ s \in Seq(Nat) /\ m \in Nat /\ n \in Nat
      /\ DOMAIN data = 1..n /\ DOMAIN s = 1..m
  BY DEF PtyOrdered
<1>2. \A a \in 1..n : data[a].id \in Ids(data) /\ data[a].id \in Nat
  BY IdsAt, Zenon
<1>3. d \in Seq(Nat) /\ Len(d) = n /\ \A a \in 1..n : d[a] = data[a].id
  <2>1. d \in [1..n -> Nat]
    BY <1>1, <1>2
  <2>3. d \in Seq(Nat) /\ Len(d) = n
    <3> HIDE DEF d, n
    <3> QED BY <1>1, <2>1, NumbersAreASeq
  <2> QED BY <1>1, <2>3
<1> HIDE DEF d
<1>4. /\ t \in Seq(Nat) /\ Len(t) = m + n
      /\ \A i \in 1..(m + n) : t[i] = IF i <= m THEN s[i] ELSE d[i - m]
  <2>1. t = s \o d
    BY DEF d
  <2>2. /\ s \o d \in Seq(Nat) /\ Len(s \o d) = Len(s) + Len(d)
        /\ \A i \in 1..(Len(s) + Len(d)) :
             (s \o d)[i] = IF i <= Len(s) THEN s[i] ELSE d[i - Len(s)]
    BY <1>1, <1>3, ConcatProperties
  <2> QED BY <1>3, <2>1, <2>2, Zenon
<1>5. \A i \in 1..m : i \in 1..(m + n) /\ t[i] = s[i]
  BY <1>1, <1>4
<1>6. \A a \in 1..n : m + a \in 1..(m + n) /\ t[m + a] = data[a].id
  <2> SUFFICES ASSUME NEW a \in 1..n
               PROVE  m + a \in 1..(m + n) /\ t[m + a] = data[a].id
    OBVIOUS
  <2>1. m + a \in 1..(m + n) /\ ~(m + a <= m) /\ (m + a) - m = a
    BY <1>1
  <2> QED BY <1>3, <1>4, <2>1
<1>7. \A i \in 1..(m + n) : i \in 1..m \/ \E a \in 1..n : i = m + a
  <2> SUFFICES ASSUME NEW i \in 1..(m + n), i \notin 1..m
               PROVE  \E a \in 1..n : i = m + a
    OBVIOUS
  <2>1. i - m \in 1..n /\ i = m + (i - m)
    BY <1>1
  <2> QED BY <2>1, Zenon
<1>8. \A i \in 1..m : s[i] \in ToSet(s)
  BY <1>1 DEF ToSet
<1>9. ASSUME NEW i \in 1..(m + n), NEW j \in 1..(m + n), i < j
      PROVE  t[i] < t[j]
  <2>1. CASE i \in 1..m /\ j \in 1..m
    BY <1>5, <1>9, <2>1, Zenon DEF PtyOrdered
  <2>2. ASSUME i \in 1..m, NEW b \in 1..n, j = m + b PROVE t[i] < t[j]
    BY <1>2, <1>5, <1>6, <1>8, <2>2, Zenon
  <2>3. ASSUME NEW a \in 1..n, i = m + a, NEW b \in 1..n, j = m + b
        PROVE  t[i] < t[j]
    <3>1. a < b
      BY <1>1, <1>9, <2>3
    <3> QED BY <1>6, <2>3, <3>1, Zenon DEF Increasing
  <2>4. ASSUME NEW a \in 1..n, i = m + a, j \in 1..m PROVE FALSE
    BY <1>1, <1>9, <2>4
  <2> QED BY <1>7, <2>1, <2>2, <2>3, <2>4, Zenon
<1>10. PtyOrdered(t)
  BY <1>4, <1>9, Zenon DEF PtyOrdered
<1>11. DOMAIN t = 1..(m + n)
  BY <1>4
<1>12. ASSUME NEW x, x \in ToSet(t) PROVE x \in ToSet(s) \/ x \in Ids(data)
  <2>1. PICK i \in 1..(m + n) : x = t[i]
    BY <1>11, <1>12, Zenon DEF ToSet
  <2> QED BY <1>2, <1>5, <1>6, <1>7, <1>8, <2>1, Zenon
<1>13. ASSUME NEW x, x \in ToSet(s) \/ x \in Ids(data) PROVE x \in ToSet(t)
  <2>1. CASE x \in ToSet(s)
    <3>1. PICK i \in 1..m : x = s[i]
      BY <1>1, <2>1, Zenon DEF ToSet
    <3> QED BY <1>5, <1>11, <3>1, Zenon DEF ToSet
  <2>2. CASE x \in Ids(data)
    <3>1. PICK a \in 1..n : x = data[a].id
      BY <2>2, IdsAt, ZenonT(40)
    <3> QED BY <1>6, <1>11, <3>1, Zenon DEF ToSet
  <2> QED BY <1>13, <2>1, <2>2
<1> QED BY <1>10, <1>12, <1>13

-----------------------------------------------------------------------------
(* What waits comes after what has been written. *)
InOrder ==
  /\ Ordered(queue) /\ PtyOrdered(pty)
  /\ \A x \in ToSet(pty), y \in WaitingIds(queue) : x < y

(* Every input is in one place. *)
Accounted ==
  /\ typed \in Nat
  /\ WaitingIds(queue) \union ToSet(pty) \union dropped = 1..typed
  /\ dropped \cap WaitingIds(queue) = {} /\ dropped \cap ToSet(pty) = {}
  /\ heldBytes = Cardinality(WaitingIds(queue)) /\ heldBytes <= MaxHeld

Ledger == Shaped(queue) /\ InOrder /\ Accounted

(* As long as the same input waits, the account stays right. *)
LEMMA SameLedger ==
  ASSUME Ledger, Shaped(queue)', Ordered(queue)',
         WaitingIds(queue)' = WaitingIds(queue),
         UNCHANGED <<pty, dropped, heldBytes, typed>>
  PROVE  Ledger'
<1>1. InOrder'
  BY DEF Ledger, InOrder
<1>2. Accounted'
  BY DEF Ledger, Accounted
<1> QED BY <1>1, <1>2 DEF Ledger

(* No id in the account is beyond the inputs typed so far. *)
LEMMA LedgerNumbers ==
  ASSUME Ledger
  PROVE  /\ IsFiniteSet(WaitingIds(queue)) /\ heldBytes \in Nat
         /\ queue \in Seq(QueuedOps)
         /\ \A x \in WaitingIds(queue) \union ToSet(pty) \union dropped :
              x \in Nat /\ x <= typed
<1>1. typed \in Nat /\ WaitingIds(queue) \subseteq 1..typed
  BY DEF Ledger, Accounted
<1>2. IsFiniteSet(WaitingIds(queue))
  <2>1. IsFiniteSet(1..typed)
    BY <1>1, FS_Interval
  <2> QED BY <1>1, <2>1, FS_Subset
<1>3. heldBytes \in Nat
  BY <1>2, FS_CardinalityType, Zenon DEF Ledger, Accounted
<1>4. queue \in Seq(QueuedOps)
  BY Zenon DEF Ledger, Shaped
<1>5. \A x \in 1..typed : x \in Nat /\ x <= typed
  BY <1>1
<1> QED BY <1>2, <1>3, <1>4, <1>5, Zenon DEF Ledger, Accounted

(* The next input, as an op's data. *)
LEMMA NewKey ==
  ASSUME NEW n \in Nat, NEW from \in Origins
  PROVE  /\ [id |-> n + 1, from |-> from] \in Keys
         /\ <<[id |-> n + 1, from |-> from]>> \in Seq(Keys)
         /\ Increasing(<<[id |-> n + 1, from |-> from]>>)
         /\ Ids(<<[id |-> n + 1, from |-> from]>>) = {n + 1}
<1> DEFINE k == [id |-> n + 1, from |-> from]
<1>1. k \in Keys /\ k.id = n + 1
  BY DEF Keys
<1> HIDE DEF k
<1>2. <<k>> \in Seq(Keys) /\ Increasing(<<k>>)
  BY <1>1 DEF Increasing
<1>3. ToSet(<<k>>) = {k}
  BY DEF ToSet
<1>4. Ids(<<k>>) = {n + 1}
  BY <1>1, <1>3 DEF Ids
<1>5. k \in Keys /\ <<k>> \in Seq(Keys) /\ Increasing(<<k>>) /\ Ids(<<k>>) = {n + 1}
  BY <1>1, <1>2, <1>4
<1> QED BY <1>5 DEF k

(* Input is written at once only when none waits. *)
LEMMA LedgerOfTypeNow ==
  ASSUME Ledger, NEW from \in Origins, WaitingIds(queue) = {},
         Write(<<[id |-> typed + 1, from |-> from]>>), typed' = typed + 1,
         UNCHANGED <<queue, heldBytes, dropped>>
  PROVE  Ledger'
<1> DEFINE data == <<[id |-> typed + 1, from |-> from]>>
<1>1. typed \in Nat
  BY Zenon DEF Ledger, Accounted
<1>2. data \in Seq(Keys) /\ Increasing(data) /\ Ids(data) = {typed + 1}
  BY <1>1, NewKey
<1>3. \A x \in ToSet(pty) \union dropped : x \in Nat /\ x <= typed
  BY LedgerNumbers, Zenon
<1>4. \A x \in ToSet(pty), y \in Ids(data) : x < y
  <2> HIDE DEF data
  <2> QED BY <1>1, <1>2, <1>3
<1>5. PtyOrdered(pty)
  BY Zenon DEF Ledger, InOrder
<1>6. pty' = pty \o [i \in DOMAIN data |-> data[i].id]
  BY DEF Write
<1> HIDE DEF data
<1>7. PtyOrdered(pty') /\ ToSet(pty') = ToSet(pty) \union Ids(data)
  BY <1>2, <1>4, <1>5, <1>6, WrittenInOrder
<1>8. InOrder'
  BY <1>7 DEF Ledger, InOrder
<1>9. Accounted'
  <2>1. WaitingIds(queue)' = {} /\ WaitingIds(queue)' = WaitingIds(queue)
    BY Zenon
  <2>2. ToSet(pty)' \union dropped' = 1..(typed + 1)
    <3>1. ToSet(pty) \union dropped = 1..typed
      BY DEF Ledger, Accounted
    <3> QED BY <1>1, <1>2, <1>7, <3>1
  <2>3. dropped' \cap ToSet(pty)' = {}
    <3>1. dropped \cap ToSet(pty) = {}
      BY Zenon DEF Ledger, Accounted
    <3>2. typed + 1 \notin dropped
      BY <1>1, <1>3
    <3> QED BY <1>2, <1>7, <3>1, <3>2
  <2> QED BY <1>1, <2>1, <2>2, <2>3 DEF Ledger, Accounted
<1>10. Shaped(queue)'
  BY DEF Ledger
<1> QED BY <1>8, <1>9, <1>10 DEF Ledger

(* Input that has to wait waits, or is counted as dropped. *)
LEMMA LedgerOfHeld ==
  ASSUME Ledger, NEW q, Shaped(q), Ordered(q),
         WaitingIds(q) = WaitingIds(queue), NEW from \in Origins,
         HoldInput(q, [id |-> typed + 1, from |-> from]),
         Shaped(Joined(q, [id |-> typed + 1, from |-> from])),
         typed' = typed + 1, UNCHANGED pty
  PROVE  Ledger'
<1> DEFINE k == [id |-> typed + 1, from |-> from]
<1>1. typed \in Nat /\ q \in Seq(QueuedOps)
  BY Zenon DEF Ledger, Accounted, Shaped
<1>2. k \in Keys /\ k.id = typed + 1
  BY <1>1, NewKey
<1>3. /\ \A x \in WaitingIds(queue) : x \in Nat /\ x <= typed
      /\ \A x \in ToSet(pty) : x \in Nat /\ x <= typed
      /\ \A x \in dropped : x \in Nat /\ x <= typed
      /\ IsFiniteSet(WaitingIds(queue)) /\ heldBytes \in Nat
  BY LedgerNumbers, Zenon
<1>4. HoldInput(q, k) /\ Shaped(Joined(q, k))
  OBVIOUS
<1> HIDE DEF k
<1>5. /\ WaitingIds(queue) \union ToSet(pty) \union dropped = 1..typed
      /\ dropped \cap WaitingIds(queue) = {} /\ dropped \cap ToSet(pty) = {}
      /\ heldBytes = Cardinality(WaitingIds(queue)) /\ heldBytes <= MaxHeld
      /\ PtyOrdered(pty)
      /\ \A x \in ToSet(pty), y \in WaitingIds(queue) : x < y
  BY Zenon DEF Ledger, Accounted, InOrder
<1>6. 1..(typed + 1) = 1..typed \union {k.id}
  BY <1>1, <1>2
<1>7. k.id \notin WaitingIds(queue) /\ k.id \notin ToSet(pty) /\ k.id \notin dropped
  BY <1>1, <1>2, <1>3
<1>8. CASE heldBytes + 1 > MaxHeld
  <2>1. queue' = q /\ dropped' = dropped \union {k.id} /\ UNCHANGED heldBytes
    BY <1>4, <1>8 DEF HoldInput
  <2>2. WaitingIds(queue)' = WaitingIds(queue) /\ ToSet(pty)' = ToSet(pty)
    BY <2>1, Zenon
  <2>3. Accounted'
    <3>1. typed' \in Nat
      BY <1>1
    <3>2. WaitingIds(queue)' \union ToSet(pty)' \union dropped' = 1..typed'
      BY <1>5, <1>6, <2>1, <2>2
    <3>3. dropped' \cap WaitingIds(queue)' = {} /\ dropped' \cap ToSet(pty)' = {}
      BY <1>5, <1>7, <2>1, <2>2
    <3>4. heldBytes' = Cardinality(WaitingIds(queue)') /\ heldBytes' <= MaxHeld
      BY <1>5, <2>1, <2>2, Zenon
    <3> QED BY <3>1, <3>2, <3>3, <3>4, Zenon DEF Accounted
  <2>4. InOrder'
    <3>1. Ordered(queue)' /\ PtyOrdered(pty)'
      BY <1>5, <2>1, Zenon
    <3> QED BY <1>5, <2>2, <3>1, Zenon DEF InOrder
  <2>5. Shaped(queue)'
    BY <2>1, Zenon
  <2> QED BY <2>3, <2>4, <2>5 DEF Ledger
<1>9. CASE ~(heldBytes + 1 > MaxHeld)
  <2>1. queue' = Joined(q, k) /\ heldBytes' = heldBytes + 1 /\ UNCHANGED dropped
    BY <1>4, <1>9 DEF HoldInput
  <2>2. \A x \in WaitingIds(q) : x < k.id
    BY <1>1, <1>2, <1>3
  <2>3. Ordered(Joined(q, k)) /\ WaitingIds(Joined(q, k)) = WaitingIds(q) \union {k.id}
    BY <1>1, <1>2, <2>2, KeyJoinedOrdered
  <2>4. /\ WaitingIds(queue)' = WaitingIds(queue) \union {k.id}
        /\ ToSet(pty)' = ToSet(pty)
    BY <2>1, <2>3, Zenon
  <2>5. Accounted'
    <3>1. typed' \in Nat
      BY <1>1
    <3>2. WaitingIds(queue)' \union ToSet(pty)' \union dropped' = 1..typed'
      BY <1>5, <1>6, <2>1, <2>4
    <3>3. dropped' \cap WaitingIds(queue)' = {} /\ dropped' \cap ToSet(pty)' = {}
      BY <1>5, <1>7, <2>1, <2>4
    <3>4. Cardinality(WaitingIds(queue)') = Cardinality(WaitingIds(queue)) + 1
      BY <1>3, <1>7, <2>4, FS_AddElement
    <3>5. heldBytes' <= MaxHeld
      BY <1>3, <1>9, <2>1, ScrollAssumption
    <3> QED BY <1>5, <2>1, <3>1, <3>2, <3>3, <3>4, <3>5, Zenon DEF Accounted
  <2>6. InOrder'
    <3>1. Ordered(queue)' /\ PtyOrdered(pty)'
      BY <1>5, <2>1, <2>3, Zenon
    <3>2. \A x \in ToSet(pty) : x < k.id
      BY <1>1, <1>2, <1>3
    <3>3. \A x \in ToSet(pty)', y \in WaitingIds(queue)' : x < y
      BY <1>5, <2>4, <3>2
    <3> QED BY <3>1, <3>3, Zenon DEF InOrder
  <2>7. Shaped(queue)'
    BY <1>4, <2>1, Zenon
  <2> QED BY <2>5, <2>6, <2>7 DEF Ledger
<1> QED BY <1>8, <1>9

(* The first op is taken: its input is written, or counted as dropped. *)
LEMMA LedgerOfTaken ==
  ASSUME Ledger, queue # <<>>, queue' = Tail(queue), UNCHANGED typed,
         heldBytes' = heldBytes - Len(Head(queue).data),
         \/ Write(Head(queue).data) /\ UNCHANGED dropped
         \/ dropped' = dropped \union Ids(Head(queue).data) /\ UNCHANGED pty
  PROVE  Ledger'
<1> DEFINE data == Head(queue).data
           rest == Tail(queue)
<1>1. /\ Shaped(queue) /\ queue \in Seq(QueuedOps) /\ Ordered(queue) /\ typed \in Nat
      /\ WaitingIds(queue) \union ToSet(pty) \union dropped = 1..typed
      /\ dropped \cap WaitingIds(queue) = {} /\ dropped \cap ToSet(pty) = {}
      /\ heldBytes = Cardinality(WaitingIds(queue)) /\ heldBytes <= MaxHeld
      /\ PtyOrdered(pty)
      /\ \A x \in ToSet(pty), y \in WaitingIds(queue) : x < y
  BY Zenon DEF Ledger, Accounted, InOrder, Shaped
<1>2. Shaped(rest)
  BY <1>1, TailShaped
<1>3. /\ Ordered(rest) /\ data \in Seq(Keys) /\ Increasing(data)
      /\ WaitingIds(queue) = Ids(data) \union WaitingIds(rest)
      /\ \A x \in Ids(data), y \in WaitingIds(rest) : x < y
  BY <1>1, TailOrdered
<1>4. \A x \in WaitingIds(queue) : x \in Nat
  BY LedgerNumbers, Zenon
<1> HIDE DEF data, rest
<1>5. Ids(data) \cap WaitingIds(rest) = {}
  BY <1>3, <1>4
<1>6. IsFiniteSet(Ids(data)) /\ Cardinality(Ids(data)) = Len(data)
  BY <1>3, IdsCounted
<1>7. IsFiniteSet(WaitingIds(rest))
  <2>1. IsFiniteSet(WaitingIds(queue))
    BY LedgerNumbers, Zenon
  <2> QED BY <1>3, <2>1, FS_Subset
<1>8. Cardinality(WaitingIds(queue)) = Len(data) + Cardinality(WaitingIds(rest))
  <2>1. Cardinality(Ids(data) \union WaitingIds(rest))
          = Cardinality(Ids(data)) + Cardinality(WaitingIds(rest))
              - Cardinality(Ids(data) \cap WaitingIds(rest))
    BY <1>6, <1>7, FS_Union
  <2>2. Cardinality(Ids(data) \cap WaitingIds(rest)) = 0
    BY <1>5, FS_EmptySet
  <2>3. Cardinality(WaitingIds(rest)) \in Nat /\ Cardinality(Ids(data)) \in Nat
    BY <1>6, <1>7, FS_CardinalityType
  <2> QED BY <1>3, <1>6, <2>1, <2>2, <2>3
<1>9. /\ queue' = rest /\ heldBytes' = heldBytes - Len(data)
      /\ (Write(data) /\ UNCHANGED dropped)
           \/ (dropped' = dropped \union Ids(data) /\ UNCHANGED pty)
  BY DEF data, rest
<1>10. heldBytes' = Cardinality(WaitingIds(queue)') /\ heldBytes' <= MaxHeld
  <2>1. /\ Cardinality(WaitingIds(rest)) \in Nat /\ Len(data) \in Nat
        /\ MaxHeld \in Nat
    BY <1>3, <1>7, FS_CardinalityType, ScrollAssumption
  <2>2. heldBytes' = Cardinality(WaitingIds(rest)) /\ heldBytes' <= MaxHeld
    BY <1>1, <1>8, <1>9, <2>1
  <2> QED BY <1>9, <2>2, Zenon
<1>11. CASE Write(data) /\ UNCHANGED dropped
  <2>1. \A x \in ToSet(pty), y \in Ids(data) : x < y
    BY <1>1, <1>3
  <2>2. PtyOrdered(pty') /\ ToSet(pty') = ToSet(pty) \union Ids(data)
    BY <1>1, <1>3, <1>11, <2>1, WrittenInOrder DEF Write
  <2>3. \A x \in ToSet(pty'), y \in WaitingIds(rest) : x < y
    BY <1>1, <1>3, <2>2
  <2>4. InOrder'
    BY <1>3, <1>9, <2>2, <2>3, Zenon DEF InOrder
  <2>5. /\ WaitingIds(rest) \union ToSet(pty') \union dropped' = 1..typed'
        /\ dropped' \cap WaitingIds(rest) = {} /\ dropped' \cap ToSet(pty') = {}
    BY <1>1, <1>3, <1>11, <2>2
  <2>6. Accounted'
    BY <1>1, <1>9, <1>10, <2>5, Zenon DEF Accounted
  <2> QED BY <1>2, <1>9, <2>4, <2>6, Zenon DEF Ledger
<1>12. CASE dropped' = dropped \union Ids(data) /\ UNCHANGED pty
  <2>1. \A x \in ToSet(pty), y \in WaitingIds(rest) : x < y
    BY <1>1, <1>3
  <2>2. InOrder'
    BY <1>1, <1>3, <1>9, <1>12, <2>1, Zenon DEF InOrder
  <2>3. Ids(data) \cap ToSet(pty) = {}
    <3>1. \A x \in Ids(data) : ~(x < x)
      BY <1>3, <1>4
    <3> QED BY <1>1, <1>3, <3>1
  <2>4. /\ WaitingIds(rest) \union ToSet(pty) \union dropped' = 1..typed'
        /\ dropped' \cap WaitingIds(rest) = {} /\ dropped' \cap ToSet(pty) = {}
    BY <1>1, <1>3, <1>5, <1>12, <2>3
  <2>5. Accounted'
    BY <1>1, <1>9, <1>10, <1>12, <2>4, Zenon DEF Accounted
  <2> QED BY <1>2, <1>9, <2>2, <2>5, Zenon DEF Ledger
<1> QED BY <1>9, <1>11, <1>12

(* In the empty queue nothing waits. *)
LEMMA NothingWaits ==
  /\ WaitingIds(<<>>) = {} /\ Ordered(<<>>) /\ Shaped(<<>>)
  /\ Cardinality({}) = 0
<1>1. <<>> \in Seq(QueuedOps) /\ Len(<<>>) = 0 /\ DOMAIN <<>> = {}
  OBVIOUS
<1>2. WaitingIds(<<>>) = {}
  BY <1>1, Zenon DEF WaitingIds
<1>3. Ordered(<<>>)
  BY <1>1 DEF Ordered
<1>4. Alternates(<<>>) /\ Cleared(<<>>)
  BY <1>1 DEF Alternates, Cleared
<1>5. Bounded(<<>>)
  BY <1>1 DEF Bounded
<1> QED BY <1>1, <1>2, <1>3, <1>4, <1>5, FS_EmptySet DEF Shaped

(* The terminal is gone, and what waits is counted as dropped. *)
LEMMA LedgerOfStop ==
  ASSUME Ledger, queue' = <<>>, heldBytes' = 0,
         dropped' = dropped \union WaitingIds(queue), UNCHANGED <<pty, typed>>
  PROVE  Ledger'
<1>1. /\ typed \in Nat
      /\ WaitingIds(queue) \union ToSet(pty) \union dropped = 1..typed
      /\ dropped \cap ToSet(pty) = {} /\ PtyOrdered(pty)
      /\ \A x \in ToSet(pty), y \in WaitingIds(queue) : x < y
      /\ \A x \in WaitingIds(queue) : x \in Nat
  BY LedgerNumbers, Zenon DEF Ledger, Accounted, InOrder
<1>2. WaitingIds(queue') = {} /\ Ordered(queue') /\ Shaped(queue')
  BY NothingWaits, Zenon
<1>3. dropped' \cap ToSet(pty) = {}
  BY <1>1
<1>4. WaitingIds(queue)' \union ToSet(pty)' \union dropped' = 1..typed'
  BY <1>1, <1>2
<1>5. heldBytes' = Cardinality(WaitingIds(queue)') /\ heldBytes' <= MaxHeld
  <2>1. Cardinality(WaitingIds(queue)') = 0
    BY <1>2, NothingWaits, Zenon
  <2>2. 0 <= MaxHeld
    BY ScrollAssumption
  <2> QED BY <2>1, <2>2, Zenon
<1>6. Accounted'
  BY <1>1, <1>2, <1>3, <1>4, <1>5 DEF Accounted
<1>7. InOrder'
  BY <1>1, <1>2 DEF InOrder
<1> QED BY <1>2, <1>6, <1>7 DEF Ledger

-----------------------------------------------------------------------------
(* Where the drain is and what it runs. *)
DrainFits ==
  /\ drain \in {"idle", "loop", "wedged", "scroll", "route"}
               \union {"exit", "cancel", "wait"} \union ExitReads
  /\ drain \in {"idle", "loop", "wedged"} => inFlight = NoOp
  /\ drain \in {"scroll", "route"} => MayEnter(inFlight)
  /\ drain \in {"exit", "cancel", "wait"} \union ExitReads => IsExit(inFlight)
  /\ drain \in ExitReads => read["drain"].quiet

(* Typing on a touch page that is the next to be written waits for an exit,
   or for the drain to write it to a pane out of copy-mode. *)
TouchFirst(q) == q # <<>> /\ HasTouch(q[1])

HeadClear ==
  TouchFirst(queue) => \/ IsExit(inFlight)
                       \/ inFlight = NoOp /\ (pane.inMode => unread)

QueueInv == Ledger /\ DrainFits /\ HeadClear

(* An op is input, an exit or one that may enter copy-mode. *)
LEMMA KindsExclude ==
  /\ \A op : IsExit(op) => ~MayEnter(op) /\ ~IsInput(op) /\ op # NoOp
  /\ \A op : MayEnter(op) => ~IsInput(op) /\ op # NoOp /\ ~IsExit(op)
  /\ MayEnter(NoOp) = FALSE /\ IsExit(NoOp) = FALSE
BY DEF IsExit, Exit, Scroll, MayEnter, IsInput, NoOp

(* While the pane cannot be in copy-mode once all that is queued has run,
   the last op that turns it is an exit, and if there is none it is not in
   copy-mode now. *)
LEMMA NotProjected ==
  ASSUME Shaped(queue), ~Projected
  PROVE  /\ queue # <<>> /\ ~IsInput(queue[Len(queue)])
              => IsExit(queue[Len(queue)])
         /\ Len(queue) > 1 /\ IsInput(queue[Len(queue)])
              => IsExit(queue[Len(queue) - 1])
         /\ queue = <<>> \/ (Len(queue) = 1 /\ IsInput(queue[1]))
              => IsExit(inFlight) \/ (~MayEnter(inFlight) /\ ~mayBeInCopyMode)
<1> DEFINE ops == <<inFlight>> \o queue
           n == Len(queue)
           last == SelectLastInSeq(ops, LAMBDA op : MayEnter(op) \/ IsExit(op))
<1>1. queue \in Seq(QueuedOps) /\ n \in Nat
  BY DEF Shaped
<1>2. /\ ops \in Seq(QueuedOps \union {inFlight}) /\ Len(ops) = n + 1
      /\ ops[1] = inFlight /\ \A i \in 1..n : ops[i + 1] = queue[i]
  <2>1. /\ queue \in Seq(QueuedOps \union {inFlight})
        /\ <<inFlight>> \in Seq(QueuedOps \union {inFlight})
        /\ Len(<<inFlight>>) = 1 /\ <<inFlight>>[1] = inFlight
    BY <1>1
  <2>2. /\ ops \in Seq(QueuedOps \union {inFlight}) /\ Len(ops) = 1 + n
        /\ \A i \in 1..(1 + n) : ops[i] = IF i <= 1 THEN <<inFlight>>[i]
                                          ELSE queue[i - 1]
    BY <2>1, ConcatProperties
  <2> HIDE DEF ops, n
  <2> QED BY <1>1, <2>1, <2>2
<1>3. /\ last \in 0..Len(ops) /\ (last # 0 => Turns(ops[last]))
      /\ \A i \in 1..Len(ops) : Turns(ops[i]) => i <= last
  <2> HIDE DEF ops
  <2> QED BY <1>2, LastTurn
<1>4. IF last = 0 THEN ~mayBeInCopyMode ELSE ~MayEnter(ops[last])
  BY DEF Projected
<1> HIDE DEF ops, n, last
<1>5. last # 0 => IsExit(ops[last])
  BY <1>3, <1>4, Zenon DEF Turns
<1>6. \A i \in 1..n : Turns(queue[i]) => i + 1 <= last
  <2>1. \A i \in 1..n : i + 1 \in 1..Len(ops)
    BY <1>1, <1>2
  <2> QED BY <1>2, <1>3, <2>1, Zenon
<1>7. \A i \in 1..n : i + 1 = last => IsExit(queue[i])
  <2>1. ASSUME NEW i \in 1..n, i + 1 = last PROVE IsExit(queue[i])
    <3>1. last # 0
      BY <1>1, <2>1
    <3>2. ops[last] = queue[i]
      BY <1>2, <2>1, Zenon
    <3> QED BY <1>5, <3>1, <3>2, Zenon
  <2> QED BY <2>1
<1>8. \A i \in 1..n : ~IsInput(queue[i]) => Turns(queue[i])
  BY Zenon DEF Shaped, Alternates, n
<1>9. ASSUME queue # <<>>, ~IsInput(queue[n]) PROVE IsExit(queue[n])
  <2>1. n \in 1..n
    BY <1>1, <1>9 DEF n
  <2>2. n + 1 <= last
    BY <1>6, <1>8, <1>9, <2>1, Zenon
  <2>3. n + 1 = last
    BY <1>1, <1>2, <1>3, <2>2
  <2> QED BY <1>7, <2>1, <2>3, Zenon
<1>10. ASSUME n > 1, IsInput(queue[n]) PROVE IsExit(queue[n - 1])
  <2>1. n \in 1..n /\ n - 1 \in 1..n
    BY <1>1, <1>10
  <2>2. ~IsInput(queue[n - 1])
    BY <1>10, <2>1, Zenon DEF Shaped, Alternates, n
  <2>3. (n - 1) + 1 <= last
    BY <1>6, <1>8, <2>1, <2>2, Zenon
  <2>4. last # n + 1
    <3>1. ~IsExit(queue[n])
      BY <1>10, KindsExclude, Zenon
    <3> QED BY <1>7, <2>1, <3>1, Zenon
  <2>5. (n - 1) + 1 = last
    BY <1>1, <1>2, <1>3, <2>3, <2>4
  <2> QED BY <1>7, <2>1, <2>5, Zenon
<1>11. ASSUME queue = <<>> \/ (n = 1 /\ IsInput(queue[1]))
       PROVE  IsExit(inFlight) \/ (~MayEnter(inFlight) /\ ~mayBeInCopyMode)
  <2>1. \A i \in 1..n : ~IsExit(queue[i])
    <3>1. CASE queue = <<>>
      <4>1. n = 0
        BY <3>1 DEF n
      <4> QED BY <4>1
    <3>2. CASE n = 1 /\ IsInput(queue[1])
      <4>1. \A i \in 1..n : i = 1
        BY <3>2
      <4> QED BY <3>2, <4>1, KindsExclude, Zenon
    <3> QED BY <1>11, <3>1, <3>2
  <2>2. last \in {0, 1}
    <3>1. \A i \in 1..n : i + 1 # last
      BY <1>7, <2>1, Zenon
    <3>2. last - 1 \in 1..n => FALSE
      <4>1. last \in Int
        BY <1>1, <1>2, <1>3
      <4>2. (last - 1) + 1 = last
        BY <4>1
      <4> QED BY <3>1, <4>2, Zenon
    <3> QED BY <1>1, <1>2, <1>3, <3>2
  <2>3. CASE last = 1
    BY <1>2, <1>5, <2>3
  <2>4. CASE last = 0
    <3>1. 1 \in 1..Len(ops) /\ ~(1 <= last)
      BY <1>1, <1>2, <2>4
    <3>2. ~Turns(inFlight)
      BY <1>2, <1>3, <3>1, Zenon
    <3> QED BY <1>4, <2>4, <3>2, Zenon DEF Turns
  <2> QED BY <2>2, <2>3, <2>4
<1> QED BY <1>9, <1>10, <1>11, Zenon DEF n

(* An exit that waits beyond the op bound is the last op that turns the
   pane: input() adds no second one. *)
LEMMA ProjectedAddsOne ==
  ASSUME Shaped(queue), Projected
  PROVE  \A i \in 1..Len(queue) : i > MaxOps => ~IsExit(queue[i])
<1> DEFINE ops == <<inFlight>> \o queue
           n == Len(queue)
           last == SelectLastInSeq(ops, LAMBDA op : MayEnter(op) \/ IsExit(op))
<1>1. queue \in Seq(QueuedOps) /\ n \in Nat /\ MaxOps \in Nat
  BY ScrollAssumption DEF Shaped
<1>2. /\ ops \in Seq(QueuedOps \union {inFlight}) /\ Len(ops) = n + 1
      /\ \A i \in 1..n : ops[i + 1] = queue[i]
  <2>1. /\ queue \in Seq(QueuedOps \union {inFlight})
        /\ <<inFlight>> \in Seq(QueuedOps \union {inFlight})
        /\ Len(<<inFlight>>) = 1
    BY <1>1
  <2>2. /\ ops \in Seq(QueuedOps \union {inFlight}) /\ Len(ops) = 1 + n
        /\ \A i \in 1..(1 + n) : ops[i] = IF i <= 1 THEN <<inFlight>>[i]
                                          ELSE queue[i - 1]
    BY <2>1, ConcatProperties
  <2> HIDE DEF ops, n
  <2> QED BY <1>1, <2>1, <2>2
<1>3. /\ last \in 0..Len(ops)
      /\ \A i \in 1..Len(ops) : Turns(ops[i]) => i <= last
  <2> HIDE DEF ops
  <2> QED BY <1>2, LastTurn
<1>4. last # 0 => MayEnter(ops[last])
  BY DEF Projected
<1> HIDE DEF ops, last
<1> SUFFICES ASSUME NEW i \in 1..n, i > MaxOps, IsExit(queue[i]) PROVE FALSE
  OBVIOUS
<1> HIDE DEF n
<1>5. i + 1 <= last
  <2>1. i + 1 \in 1..Len(ops) /\ Turns(ops[i + 1])
    BY <1>1, <1>2 DEF Turns
  <2> QED BY <1>3, <2>1, Zenon
<1>6. last - 1 \in 1..n /\ last - 1 > MaxOps /\ (last - 1) + 1 = last /\ last # 0
  BY <1>1, <1>2, <1>3, <1>5
<1>7. ops[last] = queue[last - 1]
  BY <1>2, <1>6, Zenon
<1>8. MayEnter(queue[last - 1])
  BY <1>4, <1>6, <1>7, Zenon
<1> QED BY <1>6, <1>8, KindsExclude, Zenon DEF Shaped, Bounded, n

-----------------------------------------------------------------------------
(* Two queues that hold the same input: ops without any come and go. *)
Alike(q, r) ==
  /\ \A i \in 1..Len(q) :
       (i \in 1..Len(r) /\ r[i].data = q[i].data) \/ q[i].data = <<>>
  /\ \A i \in 1..Len(r) :
       (i \in 1..Len(q) /\ r[i].data = q[i].data) \/ r[i].data = <<>>

(* Queues with the same input hold the same ids in the same order. *)
LEMMA AlikeKeeps ==
  ASSUME NEW q, Shaped(q), Ordered(q), NEW r, Shaped(r), Alike(q, r)
  PROVE  /\ Ordered(r) /\ WaitingIds(r) = WaitingIds(q)
         /\ TouchFirst(r) => TouchFirst(q)
<1>1. q \in Seq(QueuedOps) /\ r \in Seq(QueuedOps)
  BY Zenon DEF Shaped
<1>2. Ordered(r) /\ WaitingIds(r) = WaitingIds(q)
  BY <1>1, SameInputs DEF Alike
<1>3. ASSUME TouchFirst(r) PROVE TouchFirst(q)
  <2>1. 1 \in 1..Len(r) /\ HasTouch(r[1])
    BY <1>1, <1>3 DEF TouchFirst
  <2>2. r[1].data # <<>>
    BY <2>1 DEF HasTouch, ToSet
  <2>3. 1 \in 1..Len(q) /\ r[1].data = q[1].data
    BY <2>1, <2>2, Zenon DEF Alike
  <2>4. q # <<>>
    BY <2>3
  <2> QED BY <2>1, <2>3, <2>4, Zenon DEF TouchFirst, HasTouch
<1> QED BY <1>2, <1>3

(* Adding an op without input. *)
LEMMA AlikeWithOp ==
  ASSUME NEW q, Shaped(q), NEW op, op.data = <<>>
  PROVE  Alike(q, Append(q, op))
<1> DEFINE n == Len(q)
<1>1. q \in Seq(QueuedOps \union {op}) /\ n \in Nat
  BY DEF Shaped
<1>2. /\ Len(Append(q, op)) = n + 1 /\ Append(q, op)[n + 1] = op
      /\ \A i \in 1..n : Append(q, op)[i] = q[i]
  BY <1>1
<1> HIDE DEF n
<1>3. \A i \in 1..n : i \in 1..(n + 1)
  BY <1>1
<1>4. \A i \in 1..(n + 1) : i \in 1..n \/ i = n + 1
  BY <1>1
<1> QED BY <1>2, <1>3, <1>4, Zenon DEF Alike, n

(* Cutting off ops without input. *)
LEMMA AlikePrefix ==
  ASSUME NEW q, Shaped(q), NEW m \in 0..Len(q),
         \A i \in 1..Len(q) : i > m => ~IsInput(q[i])
  PROVE  Alike(q, SubSeq(q, 1, m))
<1>1. q \in Seq(QueuedOps) /\ Len(q) \in Nat /\ m \in Nat
  BY DEF Shaped
<1>2. Len(SubSeq(q, 1, m)) = m /\ \A i \in 1..m : SubSeq(q, 1, m)[i] = q[i]
  BY <1>1
<1>3. \A i \in 1..m : i \in 1..Len(q)
  BY <1>1
<1>4. \A i \in 1..Len(q) : i \in 1..m \/ q[i].data = <<>>
  <2>1. \A i \in 1..Len(q) : i \in 1..m \/ i > m
    BY <1>1
  <2> QED BY <2>1, Zenon DEF Shaped, Alternates
<1> QED BY <1>2, <1>3, <1>4, Zenon DEF Alike

(* Having the same input is transitive. *)
LEMMA AlikeChain ==
  ASSUME NEW q, NEW r, NEW s, Alike(q, r), Alike(r, s)
  PROVE  Alike(q, s)
BY Zenon DEF Alike

(* And reflexive. *)
LEMMA AlikeItself == ASSUME NEW q PROVE Alike(q, q)
BY DEF Alike

(* Gestures and absolute targets are ops that turn the pane. *)
LEMMA ScrollIsAnOp ==
  /\ \A kind \in {"relative", "touch"}, n \in Int :
       /\ Scroll(kind, n) \in QueuedOps /\ Scroll(kind, n).data = <<>>
       /\ Turns(Scroll(kind, n)) /\ ~IsInput(Scroll(kind, n))
  /\ \A n \in Nat :
       /\ Scroll("absolute", n) \in QueuedOps /\ Scroll("absolute", n).data = <<>>
       /\ Turns(Scroll("absolute", n)) /\ ~IsInput(Scroll("absolute", n))
<1>1. <<>> \in Seq(Keys)
  OBVIOUS
<1> QED BY <1>1, SMT
        DEF Scroll, QueuedOps, Turns, MayEnter, IsExit, Exit, IsInput

(* A scroll op is added within the bound, or not at all. *)
LEMMA WithScrollKeeps ==
  ASSUME NEW q, Shaped(q), NEW op \in QueuedOps,
         Turns(op), ~IsInput(op), op.data = <<>>
  PROVE  Shaped(WithScroll(q, op)) /\ Alike(q, WithScroll(q, op))
<1>1. CASE Len(q) < MaxOps
  <2>1. WithScroll(q, op) = Append(q, op)
    BY <1>1 DEF WithScroll
  <2>2. Shaped(Append(q, op))
    BY <1>1, OpAddedShaped
  <2> QED BY <2>1, <2>2, AlikeWithOp
<1>2. CASE ~(Len(q) < MaxOps)
  <2>1. WithScroll(q, op) = q
    BY <1>2 DEF WithScroll
  <2> QED BY <2>1, AlikeItself
<1> QED BY <1>1, <1>2

(* A gesture joins, ends or follows the last op, and leaves the input. *)
LEMMA CoalescedKeeps ==
  ASSUME Shaped(queue), NEW kind \in {"relative", "touch"}, NEW by \in {1, -1}
  PROVE  Shaped(Coalesced(kind, by)) /\ Alike(queue, Coalesced(kind, by))
<1> DEFINE n == Len(queue)
           sum == Clamp(queue[n].n + by)
<1>1. queue \in Seq(QueuedOps) /\ n \in Nat
  BY DEF Shaped
<1>2. CASE n = 0 \/ queue[n].kind # kind
  <2>1. Coalesced(kind, by) = WithScroll(queue, Scroll(kind, by))
    BY <1>2 DEF Coalesced
  <2> QED BY <2>1, ScrollIsAnOp, WithScrollKeeps
<1>3. CASE ~(n = 0 \/ queue[n].kind # kind)
  <2>1. n \in 1..n /\ queue # <<>> /\ queue[n].kind = kind /\ ~IsInput(queue[n])
    BY <1>1, <1>3 DEF IsInput
  <2>2. queue[n] \in QueuedOps
    BY <1>1, <2>1
  <2>3. sum \in Int
    BY <2>2, ScrollAssumption DEF Clamp, QueuedOps
  <2>4. CASE sum = 0
    <3>1. Coalesced(kind, by) = Front(queue)
      BY <1>3, <2>4 DEF Coalesced
    <3>2. Front(queue) = SubSeq(queue, 1, n - 1)
      BY DEF Front
    <3>3. n - 1 \in 0..n /\ \A i \in 1..n : i > n - 1 => ~IsInput(queue[i])
      <4>1. \A i \in 1..n : i > n - 1 => i = n
        BY <1>1
      <4> QED BY <1>1, <2>1, <4>1
    <3> QED BY <3>1, <3>2, <3>3, PrefixShaped, AlikePrefix
  <2>5. CASE sum # 0
    <3> DEFINE r == [queue EXCEPT ![n].n = sum]
    <3>1. Coalesced(kind, by) = r
      BY <1>3, <2>5 DEF Coalesced
    <3>2. Shaped(r)
      BY <2>1, <2>3, OpJoinedShaped
    <3>3. Alike(queue, r)
      <4>1. Len(r) = n /\ \A i \in 1..n : r[i].data = queue[i].data
        BY <1>1, <2>1, <2>2 DEF QueuedOps
      <4> HIDE DEF r
      <4> QED BY <4>1, Zenon DEF Alike, n
    <3> QED BY <3>1, <3>2, <3>3
  <2> QED BY <2>4, <2>5
<1> QED BY <1>2, <1>3

(* What an absolute target replaces is no input. *)
LEMMA UpToLastInputKeeps ==
  ASSUME NEW q, Shaped(q)
  PROVE  Shaped(UpToLastInput(q)) /\ Alike(q, UpToLastInput(q))
<1> DEFINE m == SelectLastInSeq(q, LAMBDA op : op.kind = "input")
<1>1. q \in Seq(QueuedOps) /\ Len(q) \in Nat
  BY DEF Shaped
<1>2. m \in 0..Len(q) /\ \A i \in 1..Len(q) : q[i].kind = "input" => i <= m
  BY <1>1, LastInput
<1>3. UpToLastInput(q) = SubSeq(q, 1, m)
  BY DEF UpToLastInput
<1> HIDE DEF m
<1>4. \A i \in 1..Len(q) : i > m => ~IsInput(q[i])
  BY <1>1, <1>2 DEF IsInput
<1> QED BY <1>2, <1>3, <1>4, PrefixShaped, AlikePrefix

-----------------------------------------------------------------------------
(* Requests and typing. *)
LEMMA StartFits ==
  ASSUME DrainFits, StartDrain, UNCHANGED <<inFlight, read>>
  PROVE  DrainFits'
<1>1. CASE drain = "idle"
  BY <1>1 DEF StartDrain, DrainFits, ExitReads
<1>2. CASE drain # "idle"
  BY <1>2 DEF StartDrain, DrainFits
<1> QED BY <1>1, <1>2

(* A queue with the same input keeps the account and its first op. *)
LEMMA AlikeLedger ==
  ASSUME Ledger, Shaped(queue'), Alike(queue, queue'),
         UNCHANGED <<pty, dropped, heldBytes, typed>>
  PROVE  Ledger' /\ (TouchFirst(queue') => TouchFirst(queue))
<1>1. Shaped(queue) /\ Ordered(queue)
  BY Zenon DEF Ledger, InOrder
<1>2. /\ Ordered(queue') /\ WaitingIds(queue') = WaitingIds(queue)
      /\ TouchFirst(queue') => TouchFirst(queue)
  BY <1>1, AlikeKeeps
<1>3. Shaped(queue)' /\ Ordered(queue)' /\ WaitingIds(queue)' = WaitingIds(queue)
  BY <1>2, Zenon
<1> QED BY <1>2, <1>3, SameLedger

(* A scroll request that leaves the input keeps the invariant. *)
LEMMA ScrollsKeep ==
  ASSUME QueueInv, ScrollRequest, Shaped(queue'), Alike(queue, queue')
  PROVE  QueueInv'
<1>1. /\ UNCHANGED <<pty, dropped, heldBytes, typed, inFlight, read, pane, unread>>
      /\ StartDrain
  BY DEF ScrollRequest
<1>2. Ledger' /\ (TouchFirst(queue') => TouchFirst(queue))
  BY <1>1, AlikeLedger DEF QueueInv
<1>3. DrainFits'
  BY <1>1, StartFits DEF QueueInv
<1>4. HeadClear'
  BY <1>1, <1>2 DEF QueueInv, HeadClear
<1> QED BY <1>2, <1>3, <1>4 DEF QueueInv

(* An absolute target keeps the invariant. *)
LEMMA ScrollToKeeps ==
  ASSUME QueueInv, NEW position \in {0, 1}, ScrollTo(position)
  PROVE  QueueInv'
<1> DEFINE rest == UpToLastInput(queue)
<1>1. Shaped(rest) /\ Alike(queue, rest)
  BY UpToLastInputKeeps DEF QueueInv, Ledger
<1>2. /\ ScrollRequest
      /\ queue' = IF position = 0 /\ IsExit(LastScrollOp(rest)) THEN rest
                  ELSE WithScroll(rest, Scroll("absolute", position))
  BY DEF ScrollTo
<1> HIDE DEF rest
<1>3. CASE queue' = rest
  BY <1>1, <1>2, <1>3, ScrollsKeep
<1>4. CASE queue' = WithScroll(rest, Scroll("absolute", position))
  <2>1. Shaped(queue') /\ Alike(rest, queue')
    BY <1>1, <1>4, ScrollIsAnOp, WithScrollKeeps
  <2> QED BY <1>1, <1>2, <2>1, AlikeChain, ScrollsKeep
<1> QED BY <1>2, <1>3, <1>4

(* Without an input op nothing waits. *)
LEMMA NoInputNoIds ==
  ASSUME Shaped(queue), ~HasQueuedInput
  PROVE  WaitingIds(queue) = {} /\ ~TouchFirst(queue)
<1>1. queue \in Seq(QueuedOps) /\ DOMAIN queue = 1..Len(queue)
  BY DEF Shaped
<1>2. \A i \in 1..Len(queue) : queue[i].data = <<>>
  BY <1>1, Zenon DEF HasQueuedInput, Shaped, Alternates, IsInput
<1>3. WaitingIds(queue) = {}
  BY <1>1, <1>2, NoIds, WaitingAt, Zenon
<1>4. ~TouchFirst(queue)
  <2> SUFFICES ASSUME TouchFirst(queue) PROVE FALSE
    OBVIOUS
  <2>1. 1 \in 1..Len(queue)
    BY <1>1 DEF TouchFirst
  <2>2. queue[1].data = <<>> /\ HasTouch(queue[1])
    BY <1>2, <2>1, Zenon DEF TouchFirst
  <2> QED BY <2>2 DEF HasTouch, ToSet
<1> QED BY <1>3, <1>4

(* Input that need not wait overtakes none. *)
LEMMA TypeNowKeeps ==
  ASSUME QueueInv, NEW from \in Origins, TypeNow(from)
  PROVE  QueueInv'
<1>1. /\ UNCHANGED <<queue, heldBytes, dropped, drain, inFlight, read, pane, unread>>
      /\ Write(<<[id |-> typed + 1, from |-> from]>>) /\ typed' = typed + 1
      /\ ~HasQueuedInput
  BY DEF TypeNow, Typing, MustWait, queueVars
<1>2. WaitingIds(queue) = {}
  BY <1>1, NoInputNoIds DEF QueueInv, Ledger
<1>3. Ledger'
  BY <1>1, <1>2, LedgerOfTypeNow DEF QueueInv
<1>4. DrainFits' /\ HeadClear'
  BY <1>1 DEF QueueInv, DrainFits, HeadClear, TouchFirst
<1> QED BY <1>3, <1>4 DEF QueueInv

(* An exit is an op of the queue without input. *)
LEMMA ExitIsAnOp ==
  /\ Exit \in QueuedOps /\ Exit.data = <<>> /\ Turns(Exit) /\ ~IsInput(Exit)
  /\ IsExit(Exit)
BY ScrollIsAnOp DEF Exit, IsExit

(* The exit input() puts in front of itself. *)
LEMMA BehindExitKeeps ==
  ASSUME Shaped(queue), NEW from \in Origins
  PROVE  Shaped(BehindExit(from)) /\ Alike(queue, BehindExit(from))
<1>1. CASE Barrier(from)
  <2>1. BehindExit(from) = Append(queue, Exit) /\ Projected
    BY <1>1 DEF BehindExit, Barrier
  <2>2. \A i \in 1..Len(queue) : i > MaxOps => ~IsExit(queue[i])
    BY <2>1, ProjectedAddsOne
  <2>3. Shaped(Append(queue, Exit))
    BY <2>2, ExitIsAnOp, OpAddedShaped
  <2> QED BY <2>1, <2>3, ExitIsAnOp, AlikeWithOp
<1>2. CASE ~Barrier(from)
  BY <1>2, AlikeItself DEF BehindExit
<1> QED BY <1>1, <1>2

(* What is typed on a touch page stands behind an exit. *)
LEMMA TouchIsBehindExit ==
  ASSUME Shaped(queue), NEW from \in Origins, from = "touch", MustWait(from),
         NEW q, q = BehindExit(from)
  PROVE  /\ \/ q = <<>>
            \/ ~IsInput(q[Len(q)]) /\ IsExit(q[Len(q)])
            \/ IsInput(q[Len(q)]) /\ (Len(q) > 1 => IsExit(q[Len(q) - 1]))
         /\ q = <<>> \/ (Len(q) = 1 /\ IsInput(q[1]))
              => IsExit(inFlight) \/ (~MayEnter(inFlight) /\ ~mayBeInCopyMode)
<1>1. queue \in Seq(QueuedOps) /\ Len(queue) \in Nat
  BY DEF Shaped
<1>2. CASE Projected
  <2>1. q = Append(queue, Exit)
    BY <1>2 DEF BehindExit, Barrier
  <2>2. /\ q # <<>> /\ q[Len(q)] = Exit
        /\ Len(q) = 1 => q[1] = Exit
    BY <1>1, <2>1, ExitIsAnOp
  <2> QED BY <2>2, ExitIsAnOp, Zenon
<1>3. CASE ~Projected
  <2>1. q = queue
    BY <1>3 DEF BehindExit, Barrier
  <2> QED BY <1>3, <2>1, NotProjected, Zenon
<1> QED BY <1>2, <1>3

(* The first op of a queue that an input joins. *)
LEMMA JoinedFirst ==
  ASSUME NEW q, Shaped(q), NEW k \in Keys, TouchFirst(Joined(q, k))
  PROVE  \/ TouchFirst(q)
         \/ k.from = "touch" /\ (q = <<>> \/ (Len(q) = 1 /\ IsInput(q[1])))
<1>1. q \in Seq(QueuedOps) /\ Len(q) \in Nat
  BY DEF Shaped
<1>2. PICK x \in ToSet(Joined(q, k)[1].data) : x.from = "touch"
  BY Zenon DEF TouchFirst, HasTouch
<1>3. CASE q = <<>>
  <2>1. Joined(q, k)[1].data = <<k>>
    BY <1>3 DEF Joined, Input
  <2>2. x = k
    BY <1>2, <2>1 DEF ToSet
  <2> QED BY <1>2, <1>3, <2>2
<1>4. CASE q # <<>> /\ Len(q) = 1 /\ IsInput(q[1])
  <2>1. q[1] \in QueuedOps /\ Last(q) = q[1] /\ 1 \in DOMAIN q
    BY <1>1, <1>4 DEF Last
  <2>2. Joined(q, k) = [q EXCEPT ![1].data = Append(@, k)]
    BY <1>4, <2>1 DEF Joined, IsInput
  <2>3. Joined(q, k)[1].data = Append(q[1].data, k) /\ q[1].data \in Seq(Keys)
    BY <2>1, <2>2 DEF QueuedOps
  <2>4. x \in ToSet(q[1].data) \/ x = k
    BY <1>2, <2>3 DEF ToSet
  <2>5. CASE x = k
    BY <1>2, <1>4, <2>5
  <2>6. CASE x \in ToSet(q[1].data)
    BY <1>2, <1>4, <2>6, Zenon DEF TouchFirst, HasTouch
  <2> QED BY <2>4, <2>5, <2>6
<1>5. CASE q # <<>> /\ ~(Len(q) = 1 /\ IsInput(q[1]))
  <2>1. Joined(q, k)[1] = q[1]
    <3>1. CASE IsInput(q[Len(q)])
      <4>1. Len(q) # 1 /\ 1 \in DOMAIN q
        BY <1>1, <1>5, <3>1
      <4>2. Joined(q, k) = [q EXCEPT ![Len(q)].data = Append(@, k)]
        BY <1>5, <3>1 DEF Joined, IsInput, Last
      <4> QED BY <1>1, <4>1, <4>2
    <3>2. CASE ~IsInput(q[Len(q)])
      <4>1. Joined(q, k) = Append(q, Input(<<k>>))
        BY <1>5, <3>2 DEF Joined, IsInput, Last
      <4> QED BY <1>1, <1>5, <4>1
    <3> QED BY <3>1, <3>2
  <2> QED BY <1>2, <1>5, <2>1, Zenon DEF TouchFirst, HasTouch
<1> QED BY <1>3, <1>4, <1>5

(* Input that has to wait keeps the invariant. *)
LEMMA TypeHeldKeeps ==
  ASSUME BarrierInv, QueueInv, NEW from \in Origins, TypeHeld(from)
  PROVE  QueueInv'
<1> DEFINE k == [id |-> typed + 1, from |-> from]
           q == BehindExit(from)
<1>1. /\ UNCHANGED <<inFlight, read, pane, unread, pty>> /\ typed' = typed + 1
      /\ StartDrain /\ HoldInput(q, k) /\ MustWait(from)
  BY DEF TypeHeld, Typing
<1>2. typed \in Nat /\ Shaped(queue) /\ Ordered(queue)
  BY Zenon DEF QueueInv, Ledger, Accounted, InOrder
<1>3. k \in Keys /\ k.from = from
  BY <1>2, NewKey
<1>4. Shaped(q) /\ Alike(queue, q)
  BY <1>2, BehindExitKeeps
<1>5. /\ Ordered(q) /\ WaitingIds(q) = WaitingIds(queue)
      /\ TouchFirst(q) => TouchFirst(queue)
  BY <1>2, <1>4, AlikeKeeps
<1>6. k.from = "touch" =>
        /\ \/ q = <<>>
           \/ ~IsInput(q[Len(q)]) /\ IsExit(q[Len(q)])
           \/ IsInput(q[Len(q)]) /\ (Len(q) > 1 => IsExit(q[Len(q) - 1]))
        /\ q = <<>> \/ (Len(q) = 1 /\ IsInput(q[1]))
             => IsExit(inFlight) \/ (~MayEnter(inFlight) /\ ~mayBeInCopyMode)
  BY <1>1, <1>2, <1>3, TouchIsBehindExit
<1> HIDE DEF k, q
<1>7. Shaped(Joined(q, k))
  BY <1>3, <1>4, <1>6, KeyJoinedShaped
<1>8. Ledger'
  BY <1>1, <1>4, <1>5, <1>7, LedgerOfHeld DEF QueueInv, k
<1>9. DrainFits'
  BY <1>1, StartFits DEF QueueInv
<1>10. HeadClear'
  <2>1. queue' = q \/ queue' = Joined(q, k)
    BY <1>1 DEF HoldInput
  <2>2. TouchFirst(queue') =>
          \/ TouchFirst(queue)
          \/ k.from = "touch" /\ (q = <<>> \/ (Len(q) = 1 /\ IsInput(q[1])))
    BY <1>3, <1>4, <1>5, <2>1, JoinedFirst, Zenon
  <2>3. CASE TouchFirst(queue)
    BY <1>1, <2>3 DEF QueueInv, HeadClear
  <2>4. CASE k.from = "touch" /\ (q = <<>> \/ (Len(q) = 1 /\ IsInput(q[1])))
    <3>1. IsExit(inFlight) \/ (~MayEnter(inFlight) /\ ~mayBeInCopyMode)
      BY <1>6, <2>4, Zenon
    <3>2. IsExit(inFlight) \/ (inFlight = NoOp /\ ~pane.inMode)
      BY <3>1 DEF BarrierInv, BarrierUp, QueueInv, DrainFits
    <3> QED BY <1>1, <3>2 DEF HeadClear
  <2> QED BY <2>2, <2>3, <2>4 DEF HeadClear
<1> QED BY <1>8, <1>9, <1>10 DEF QueueInv

(* All that the sockets send keeps the invariant. *)
LEMMA RequestsKeepQueue ==
  ASSUME BarrierInv, QueueInv, Requests PROVE QueueInv'
<1>0. Shaped(queue)
  BY Zenon DEF QueueInv, Ledger
<1>1. ASSUME NEW by \in {1, -1}, ScrollRelative(by) \/ TouchScroll(by)
      PROVE  QueueInv'
  <2>1. PICK kind \in {"relative", "touch"} : queue' = Coalesced(kind, by)
    BY <1>1 DEF ScrollRelative, TouchScroll
  <2>2. ScrollRequest
    BY <1>1 DEF ScrollRelative, TouchScroll
  <2>3. Shaped(Coalesced(kind, by)) /\ Alike(queue, Coalesced(kind, by))
    BY <1>0, CoalescedKeeps
  <2>4. Shaped(queue') /\ Alike(queue, queue')
    BY <2>1, <2>3, Zenon
  <2> QED BY <2>2, <2>4, ScrollsKeep
<1> QED BY <1>1, ScrollToKeeps, TypeNowKeeps, TypeHeldKeeps DEF Requests

-----------------------------------------------------------------------------
(* The loop. *)
LEMMA EmptyHasNoTouch == ASSUME NEW op, op.data = <<>> PROVE ~HasTouch(op)
BY DEF HasTouch, ToSet

(* Only input is typed on a touch page. *)
LEMMA NoInputNoTouch ==
  ASSUME NEW q, Shaped(q), NEW i \in 1..Len(q), HasTouch(q[i])
  PROVE  IsInput(q[i])
BY EmptyHasNoTouch, Zenon DEF Shaped, Alternates

(* The second op becomes the first: if it is typing on a touch page, an exit
   was taken. *)
LEMMA SecondOp ==
  ASSUME NEW q, Shaped(q), q # <<>>, TouchFirst(Tail(q))
  PROVE  IsExit(Head(q)) /\ ~IsInput(Head(q))
<1>1. q \in Seq(QueuedOps) /\ Len(q) \in Nat /\ Head(q) = q[1]
  BY DEF Shaped
<1>2. Len(q) > 1 /\ Tail(q)[1] = q[2]
  BY <1>1 DEF TouchFirst
<1>3. 2 \in 1..Len(q) /\ 2 > 1 /\ 2 - 1 = 1
  BY <1>1, <1>2
<1>4. HasTouch(q[2])
  BY <1>2, Zenon DEF TouchFirst
<1>5. IsExit(q[1])
  BY <1>3, <1>4, Zenon DEF Shaped, Cleared
<1> QED BY <1>1, <1>5, KindsExclude, Zenon

(* An op without input is taken. *)
LEMMA TakenLedger ==
  ASSUME Ledger, queue # <<>>, ~IsInput(Head(queue)), queue' = Tail(queue),
         UNCHANGED <<pty, dropped, heldBytes, typed>>
  PROVE  Ledger'
<1>1. Shaped(queue) /\ Ordered(queue) /\ queue \in Seq(QueuedOps)
  BY Zenon DEF Ledger, InOrder, Shaped
<1>2. Head(queue).data = <<>>
  <2>1. 1 \in 1..Len(queue) /\ Head(queue) = queue[1]
    BY <1>1
  <2> QED BY <1>1, <2>1, Zenon DEF Shaped, Alternates
<1>3. Ordered(Tail(queue)) /\ Shaped(Tail(queue))
  BY <1>1, TailOrdered, TailShaped
<1>4. WaitingIds(Tail(queue)) = WaitingIds(queue)
  <2>1. WaitingIds(queue) = Ids(Head(queue).data) \union WaitingIds(Tail(queue))
    BY <1>1, TailOrdered
  <2> QED BY <1>2, <2>1, NoIds
<1>5. Shaped(queue)' /\ Ordered(queue)' /\ WaitingIds(queue)' = WaitingIds(queue)
  BY <1>3, <1>4, Zenon
<1> QED BY <1>5, SameLedger

(* All that the loop does keeps the invariant. *)
LEMMA LoopKeepsQueue == ASSUME QueueInv, Loop PROVE QueueInv'
<1>0. Ledger /\ Shaped(queue) /\ queue \in Seq(QueuedOps)
  BY Zenon DEF QueueInv, Ledger, Shaped
<1>1. ASSUME LoopEnds PROVE QueueInv'
  <2>1. /\ drain = "loop" /\ queue = <<>> /\ drain' \in {"idle", "wedged"}
        /\ UNCHANGED <<queue, heldBytes, dropped, pty, typed, inFlight, read>>
    BY <1>1 DEF LoopEnds, Finish, queueVars, TmuxVars, Fixed
  <2>2. Ledger'
    <3>1. /\ Shaped(queue)' /\ Ordered(queue)'
          /\ WaitingIds(queue)' = WaitingIds(queue)
      BY <1>0, <2>1, Zenon DEF Ledger, InOrder
    <3> QED BY <1>0, <2>1, <3>1, SameLedger
  <2>3. DrainFits' /\ HeadClear'
    BY <2>1 DEF QueueInv, DrainFits, HeadClear, TouchFirst, ExitReads
  <2> QED BY <2>2, <2>3 DEF QueueInv
<1>2. ASSUME LoopStops PROVE QueueInv'
  <2>1. /\ drain = "loop" /\ queue' = <<>> /\ drain' \in {"idle", "wedged"}
        /\ heldBytes' = 0 /\ dropped' = dropped \union WaitingIds(queue)
        /\ UNCHANGED <<pty, typed, inFlight, read>>
    BY <1>2 DEF LoopStops, Finish, TmuxVars, Fixed
  <2>2. Ledger'
    BY <1>0, <2>1, LedgerOfStop
  <2>3. DrainFits' /\ HeadClear'
    BY <2>1 DEF QueueInv, DrainFits, HeadClear, TouchFirst, ExitReads
  <2> QED BY <2>2, <2>3 DEF QueueInv
<1>3. ASSUME WriteHeld PROVE QueueInv'
  <2>1. /\ drain = "loop" /\ queue # <<>> /\ queue' = Tail(queue)
        /\ heldBytes' = heldBytes - Len(Head(queue).data)
        /\ Write(Head(queue).data) /\ IsInput(Head(queue))
        /\ UNCHANGED <<dropped, typed, inFlight, drain, read>>
    BY <1>3 DEF WriteHeld, LoopTakes, TmuxVars, Fixed, IsInput
  <2>2. Ledger'
    BY <1>0, <2>1, LedgerOfTaken
  <2>3. ~TouchFirst(queue')
    BY <1>0, <2>1, SecondOp, Zenon
  <2>4. DrainFits' /\ HeadClear'
    BY <2>1, <2>3 DEF QueueInv, DrainFits, HeadClear
  <2> QED BY <2>2, <2>4 DEF QueueInv
<1>4. ASSUME RunHistory \/ RunExit \/ RunTouch PROVE QueueInv'
  <2>1. /\ RunScroll
        /\ \/ drain' = "scroll" /\ MayEnter(Head(queue))
           \/ drain' = "route" /\ MayEnter(Head(queue))
           \/ drain' = "exit" /\ IsExit(Head(queue))
    BY <1>4 DEF RunHistory, RunExit, RunTouch, Start, StartRead, MayEnter
  <2>2. /\ queue # <<>> /\ queue' = Tail(queue) /\ ~IsInput(Head(queue))
        /\ inFlight' = Head(queue)
        /\ UNCHANGED <<pty, dropped, heldBytes, typed>>
    BY <2>1 DEF RunScroll, LoopTakes, Fixed, IsInput
  <2>3. Ledger'
    BY <1>0, <2>2, TakenLedger
  <2>4. TouchFirst(queue') => IsExit(inFlight')
    BY <1>0, <2>2, SecondOp, Zenon
  <2>5. DrainFits'
    BY <2>1, <2>2 DEF DrainFits, ExitReads
  <2> QED BY <2>3, <2>4, <2>5 DEF QueueInv, HeadClear
<1>5. ASSUME RunKeys PROVE QueueInv'
  <2>1. /\ drain = "loop" /\ queue # <<>> /\ queue' = Tail(queue)
        /\ MayEnter(Head(queue))
        /\ UNCHANGED <<pty, dropped, heldBytes, typed, inFlight, drain, read>>
    BY <1>5 DEF RunKeys, LoopTakes, TmuxVars, Fixed, MayEnter
  <2>2. ~IsInput(Head(queue)) /\ ~IsExit(Head(queue))
    BY <2>1, KindsExclude, Zenon
  <2>3. Ledger'
    BY <1>0, <2>1, <2>2, TakenLedger
  <2>4. ~TouchFirst(queue')
    BY <1>0, <2>1, <2>2, SecondOp, Zenon
  <2>5. DrainFits' /\ HeadClear'
    BY <2>1, <2>4 DEF QueueInv, DrainFits, HeadClear
  <2> QED BY <2>3, <2>5 DEF QueueInv
<1> QED BY <1>1, <1>2, <1>3, <1>4, <1>5 DEF Loop

-----------------------------------------------------------------------------
(* Answers. *)
LEMMA QueueUntouched ==
  ASSUME QueueInv, UNCHANGED <<queue, heldBytes, dropped, pty, typed>>
  PROVE  Ledger' /\ (TouchFirst(queue') = TouchFirst(queue))
<1>1. Ledger /\ Shaped(queue) /\ Ordered(queue)
  BY Zenon DEF QueueInv, Ledger, InOrder
<1>2. /\ Shaped(queue)' /\ Ordered(queue)'
      /\ WaitingIds(queue)' = WaitingIds(queue)
  BY <1>1, Zenon
<1> QED BY <1>1, <1>2, SameLedger

(* A scroll op that is no exit has run: no typing on a touch page is next. *)
LEMMA ScrollEndsKeeps ==
  ASSUME QueueInv, drain \in {"scroll", "route"},
         UNCHANGED <<queue, heldBytes, dropped, pty, typed>>,
         inFlight' = NoOp, drain' = "loop"
  PROVE  QueueInv'
<1>1. MayEnter(inFlight)
  BY DEF QueueInv, DrainFits
<1>2. ~TouchFirst(queue)
  BY <1>1, KindsExclude, Zenon DEF QueueInv, HeadClear
<1>3. Ledger' /\ ~TouchFirst(queue')
  BY <1>2, QueueUntouched
<1>4. DrainFits'
  BY DEF DrainFits, ExitReads
<1> QED BY <1>3, <1>4 DEF QueueInv, HeadClear

(* The drain goes on with the op it runs. *)
LEMMA OpGoesOnKeeps ==
  ASSUME QueueInv, UNCHANGED <<queue, heldBytes, dropped, pty, typed>>,
         UNCHANGED <<inFlight, pane, unread>>, DrainFits'
  PROVE  QueueInv'
<1>1. Ledger' /\ (TouchFirst(queue') = TouchFirst(queue))
  BY QueueUntouched
<1>2. HeadClear'
  BY <1>1 DEF QueueInv, HeadClear
<1> QED BY <1>1, <1>2 DEF QueueInv

(* An exit was given up: what waits right behind it is dropped. *)
LEMMA GiveUpKeepsQueue ==
  ASSUME QueueInv, NEW rs, GiveUp(rs), UNCHANGED <<pty, typed>>
  PROVE  QueueInv'
<1>0. Ledger /\ Shaped(queue) /\ queue \in Seq(QueuedOps)
  BY Zenon DEF QueueInv, Ledger, Shaped
<1>1. /\ inFlight' = NoOp /\ drain' = "loop"
      /\ queue' = IF HeldAtHead = <<>> THEN queue ELSE Tail(queue)
      /\ heldBytes' = heldBytes - Len(HeldAtHead)
      /\ dropped' = dropped \union Ids(HeldAtHead)
  BY DEF GiveUp, OpDone
<1>2. DrainFits'
  BY <1>1 DEF DrainFits, ExitReads
<1>3. CASE HeldAtHead = <<>>
  <2>1. heldBytes \in Nat
    BY <1>0, LedgerNumbers
  <2>2. UNCHANGED <<queue, heldBytes, dropped>>
    BY <1>1, <1>3, <2>1, NoIds
  <2>3. ~TouchFirst(queue)
    <3> SUFFICES ASSUME TouchFirst(queue) PROVE FALSE
      OBVIOUS
    <3>1. 1 \in 1..Len(queue) /\ Head(queue) = queue[1] /\ queue # <<>>
      BY <1>0 DEF TouchFirst
    <3>2. IsInput(queue[1]) /\ HasTouch(queue[1])
      BY <1>0, <3>1, NoInputNoTouch, Zenon DEF TouchFirst
    <3>3. queue[1].data = <<>>
      BY <1>3, <3>1, <3>2 DEF HeldAtHead, IsInput
    <3> QED BY <3>2, <3>3, EmptyHasNoTouch, Zenon
  <2>4. Ledger' /\ ~TouchFirst(queue')
    BY <2>2, <2>3, QueueUntouched
  <2> QED BY <1>2, <2>4 DEF QueueInv, HeadClear
<1>4. CASE HeldAtHead # <<>>
  <2>1. queue # <<>> /\ IsInput(Head(queue)) /\ HeldAtHead = Head(queue).data
    BY <1>4 DEF HeldAtHead, IsInput
  <2>2. queue' = Tail(queue)
    BY <1>1, <1>4
  <2>3. Ledger'
    BY <1>0, <1>1, <2>1, <2>2, LedgerOfTaken
  <2>4. ~TouchFirst(queue')
    BY <1>0, <2>1, <2>2, SecondOp, Zenon
  <2> QED BY <1>2, <2>3, <2>4 DEF QueueInv, HeadClear
<1> QED BY <1>3, <1>4

(* Every answer the drain waits for keeps the invariant. *)
LEMMA AnswersKeepQueue ==
  ASSUME BarrierInv, QueueInv, Answers PROVE QueueInv'
<1> USE DEF Fixed, queueVars
<1>0. read \in Reads /\ "drain" \in Readers
  BY DEF BarrierInv, BarrierTypes, Readers
<1>1. ASSUME NEW aborted \in BOOLEAN, ScrollSettles(aborted) PROVE QueueInv'
  BY <1>1, ScrollEndsKeeps DEF ScrollSettles, Await, OpDone
<1>2. ASSUME NEW aborted \in BOOLEAN, ExitSettles(aborted) \/ CancelSettles(aborted)
      PROVE  QueueInv'
  <2> DEFINE step == IF drain = "exit" THEN "exitRead" ELSE "cancelRead"
  <2>1. /\ ReadOrGiveUp(step) /\ drain \in {"exit", "cancel"}
        /\ UNCHANGED <<pty, typed, pane, unread>>
    BY <1>2 DEF ExitSettles, CancelSettles, Await
  <2>2. CASE left = "past"
    BY <2>1, <2>2, GiveUpKeepsQueue DEF ReadOrGiveUp
  <2>3. CASE left # "past"
    <3>1. /\ drain' = step /\ read' = Reading(Disturbed(read), "drain", TRUE)
          /\ UNCHANGED <<queue, heldBytes, dropped, inFlight>>
      BY <2>1, <2>3 DEF ReadOrGiveUp
    <3>2. read'["drain"].quiet
      BY <1>0, <3>1, DisturbedIsNotQuiet, ReadingIsARead
    <3>3. IsExit(inFlight)
      BY <2>1 DEF QueueInv, DrainFits
    <3>4. DrainFits'
      BY <3>1, <3>2, <3>3 DEF DrainFits, ExitReads
    <3> QED BY <2>1, <3>1, <3>4, OpGoesOnKeeps
  <2> QED BY <2>2, <2>3
<1>3. ASSUME NEW saw \in Saws, TouchToHistory(saw) PROVE QueueInv'
  <2>1. /\ drain = "route" /\ drain' = "scroll"
        /\ UNCHANGED <<queue, heldBytes, dropped, pty, typed, inFlight, pane, unread>>
    BY <1>3 DEF TouchToHistory, TouchRouted, Await
  <2>2. DrainFits'
    BY <2>1 DEF QueueInv, DrainFits, ExitReads
  <2> QED BY <2>1, <2>2, OpGoesOnKeeps
<1>4. ASSUME NEW saw \in Saws, TouchToKeys(saw) PROVE QueueInv'
  BY <1>4, ScrollEndsKeeps DEF TouchToKeys, TouchRouted, Await
<1>5. ASSUME NEW saw \in Saws, LeftCopyMode(saw) \/ (saw = "null" /\ Unreadable)
      PROVE  QueueInv'
  <2>1. /\ drain \in ExitReads /\ ReadReturns("drain", saw)
        /\ inFlight' = NoOp /\ drain' = "loop"
        /\ UNCHANGED <<queue, heldBytes, dropped, pty, typed, pane>>
    BY <1>5 DEF LeftCopyMode, Unreadable, StateRead, Await, OpDone
  <2>2. saw \in {"live", "keys"} \/ unread'
    BY <1>5 DEF LeftCopyMode, Unreadable
  <2>3. saw \in {"live", "keys"} => ~pane.inMode
    <3>1. read["drain"].quiet
      BY <2>1 DEF QueueInv, DrainFits
    <3>2. saw \in {"live", "keys"} => read["drain"].saw = saw
      BY <2>1 DEF ReadReturns
    <3> QED BY <1>0, <3>1, <3>2 DEF BarrierInv, QuietTells
  <2>4. Ledger'
    BY <2>1, QueueUntouched
  <2>5. DrainFits' /\ HeadClear'
    BY <2>1, <2>2, <2>3 DEF DrainFits, HeadClear, ExitReads
  <2> QED BY <2>4, <2>5 DEF QueueInv
<1>6. ASSUME TryCancel PROVE QueueInv'
  <2>1. /\ drain \in ExitReads /\ drain' = "cancel"
        /\ UNCHANGED <<queue, heldBytes, dropped, pty, typed, inFlight, pane, unread>>
    BY <1>6 DEF TryCancel, StateRead, Await
  <2>2. DrainFits'
    BY <2>1 DEF QueueInv, DrainFits, ExitReads
  <2> QED BY <2>1, <2>2, OpGoesOnKeeps
<1>7. ASSUME NEW saw \in Saws, Retry(saw) PROVE QueueInv'
  <2>1. /\ drain \in ExitReads /\ drain' = "wait"
        /\ UNCHANGED <<queue, heldBytes, dropped, pty, typed, inFlight, pane, unread>>
    BY <1>7 DEF Retry, NotOut, StateRead, Await
  <2>2. DrainFits'
    BY <2>1 DEF QueueInv, DrainFits, ExitReads
  <2> QED BY <2>1, <2>2, OpGoesOnKeeps
<1>8. ASSUME NEW saw \in Saws, StopTrying(saw) PROVE QueueInv'
  BY <1>8, GiveUpKeepsQueue DEF StopTrying, NotOut, StateRead, Await
<1>9. ASSUME WaitEnds PROVE QueueInv'
  <2>1. drain = "wait" /\ UNCHANGED <<pty, typed, pane, unread>>
    BY <1>9 DEF WaitEnds, Await
  <2>2. CASE left = "past"
    BY <1>9, <2>1, <2>2, GiveUpKeepsQueue DEF WaitEnds
  <2>3. CASE left # "past"
    <3>1. drain' = "exit" /\ UNCHANGED <<queue, heldBytes, dropped, inFlight>>
      BY <1>9, <2>3 DEF WaitEnds
    <3>2. DrainFits'
      BY <2>1, <3>1 DEF QueueInv, DrainFits, ExitReads
    <3> QED BY <2>1, <3>1, <3>2, OpGoesOnKeeps
  <2> QED BY <2>2, <2>3
<1>10. Unreadable => "null" \in Saws
  BY DEF Saws
<1> QED BY <1>1, <1>2, <1>3, <1>4, <1>5, <1>6, <1>7, <1>8, <1>9, <1>10
        DEF Answers

-----------------------------------------------------------------------------
(* The emit chain, time and tmux keep the invariant. *)
LEMMA OthersKeepQueue ==
  ASSUME BarrierInv, QueueInv,
         \/ EmitReads \/ \E saw \in Saws : EmitReturns(saw)
         \/ CacheExpires \/ DeadlineComesNear \/ Close
         \/ TmuxActs \/ (\E r \in Readers : TmuxLooks(r)) \/ PaneLeaves
         \/ UNCHANGED vars
  PROVE  QueueInv'
<1> USE DEF Fixed, queueVars, Rest, TmuxVars
<1>0. /\ read \in Reads /\ {"drain", "emit"} \subseteq Readers
      /\ pane \in [inMode: BOOLEAN, keys: BOOLEAN]
  BY DEF BarrierInv, BarrierTypes, Readers
<1>1. /\ UNCHANGED <<queue, heldBytes, dropped, pty, typed>>
      /\ UNCHANGED <<inFlight, drain, unread>>
  BY DEF EmitReads, EmitReturns, CacheExpires, DeadlineComesNear, Close,
         TmuxActs, TmuxLooks, PaneLeaves, vars
<1>2. read' \in Reads => read'["drain"].quiet = read["drain"].quiet
  <2>1. ASSUME EmitReads \/ \E saw \in Saws : EmitReturns(saw)
        PROVE  read'["drain"] = read["drain"]
    BY <1>0, <2>1 DEF EmitReads, EmitReturns, Reading, Reads
  <2>2. ASSUME NEW r \in Readers, TmuxLooks(r)
        PROVE  read'["drain"].quiet = read["drain"].quiet
    BY <1>0, <2>2 DEF TmuxLooks, Reads, ARead
  <2>3. ASSUME \/ CacheExpires \/ DeadlineComesNear \/ Close
               \/ TmuxActs \/ PaneLeaves \/ UNCHANGED vars
        PROVE  UNCHANGED read
    BY <2>3 DEF CacheExpires, DeadlineComesNear, Close, TmuxActs, PaneLeaves, vars
  <2> QED BY <2>1, <2>2, <2>3
<1>3. pane'.inMode => pane.inMode \/ MayEnter(inFlight)
  <2>1. CASE TmuxActs
    <3>1. PICK inMode \in Effects : pane' = [pane EXCEPT !.inMode = inMode]
      BY <2>1 DEF TmuxActs
    <3>2. pane'.inMode = inMode
      BY <1>0, <3>1
    <3>3. inMode => pane.inMode \/ drain = "scroll"
      BY <3>1 DEF Effects
    <3> QED BY <3>2, <3>3 DEF QueueInv, DrainFits
  <2>2. CASE PaneLeaves
    BY <1>0, <2>2 DEF PaneLeaves
  <2>3. CASE ~TmuxActs /\ ~PaneLeaves
    BY <2>3 DEF EmitReads, EmitReturns, CacheExpires, DeadlineComesNear,
                Close, TmuxLooks, vars
  <2> QED BY <2>1, <2>2, <2>3
<1>4. read' \in Reads
  <2>1. BarrierInv'
    BY EmitsKeepBarrier, TmuxKeepsBarrier, NoCommandKeeps
       DEF CacheExpires, DeadlineComesNear, Close, vars
  <2> QED BY <2>1 DEF BarrierInv, BarrierTypes
<1>5. Ledger' /\ TouchFirst(queue') = TouchFirst(queue)
  BY <1>1, QueueUntouched
<1>6. DrainFits'
  BY <1>1, <1>2, <1>4 DEF QueueInv, DrainFits
<1>7. HeadClear'
  <2>1. ASSUME TouchFirst(queue), inFlight = NoOp PROVE ~MayEnter(inFlight)
    BY <2>1, KindsExclude, Zenon
  <2> QED BY <1>1, <1>3, <1>5, <2>1 DEF QueueInv, HeadClear
<1> QED BY <1>5, <1>6, <1>7 DEF QueueInv

-----------------------------------------------------------------------------
(* The inductive invariant of the queue, for any limits. *)
THEOREM QueueInvariant == Spec => []QueueInv
<1>1. Init => QueueInv
  <2> SUFFICES ASSUME Init PROVE QueueInv
    OBVIOUS
  <2>1. /\ queue = <<>> /\ inFlight = NoOp /\ drain = "idle" /\ heldBytes = 0
        /\ typed = 0 /\ pty = <<>> /\ dropped = {}
    BY DEF Init
  <2>2. WaitingIds(queue) = {} /\ Ordered(queue) /\ Shaped(queue)
    BY <2>1, NothingWaits, Zenon
  <2>3. PtyOrdered(pty) /\ ToSet(pty) = {}
    BY <2>1 DEF PtyOrdered, ToSet
  <2>4. InOrder
    BY <2>2, <2>3, Zenon DEF InOrder
  <2>5. Accounted
    <3>1. heldBytes = Cardinality(WaitingIds(queue)) /\ heldBytes <= MaxHeld
      <4>1. Cardinality(WaitingIds(queue)) = 0
        BY <2>2, NothingWaits, Zenon
      <4>2. 0 <= MaxHeld
        BY ScrollAssumption
      <4> QED BY <2>1, <4>1, <4>2, Zenon
    <3>2. typed \in Nat /\ 1..typed = {}
      BY <2>1
    <3> QED BY <2>1, <2>2, <2>3, <3>1, <3>2 DEF Accounted
  <2>6. DrainFits
    BY <2>1 DEF DrainFits, ExitReads
  <2>7. HeadClear
    BY <2>1 DEF HeadClear, TouchFirst
  <2> QED BY <2>2, <2>4, <2>5, <2>6, <2>7 DEF QueueInv, Ledger
<1>2. BarrierInv /\ QueueInv /\ [Next]_vars => QueueInv'
  BY RequestsKeepQueue, LoopKeepsQueue, AnswersKeepQueue, OthersKeepQueue
     DEF Next
<1> QED BY <1>1, <1>2, BarrierInvariant, PTL DEF Spec

(* The pty gets the inputs in the order they were typed, whatever page each
   came from and however long it had to wait. *)
THEOREM ScrollKeysInOrder == Spec => []KeysInOrder
<1>1. QueueInv => KeysInOrder
  <2> SUFFICES ASSUME QueueInv PROVE KeysInOrder
    OBVIOUS
  <2>1. PtyOrdered(pty)
    BY Zenon DEF QueueInv, Ledger, InOrder
  <2>2. DOMAIN pty = 1..Len(pty)
    BY <2>1 DEF PtyOrdered
  <2> QED BY <2>1, <2>2, Zenon DEF PtyOrdered, KeysInOrder
<1> QED BY <1>1, QueueInvariant, PTL

(* input() queues exits past the op bound; no more than three ops stand
   there. *)
LEMMA ShapedIsShort == ASSUME NEW q, Shaped(q) PROVE Len(q) <= MaxOps + 3
<1>1. q \in Seq(QueuedOps) /\ Len(q) \in Nat /\ MaxOps \in Nat
  BY ScrollAssumption DEF Shaped
<1> SUFFICES ASSUME Len(q) > MaxOps + 3 PROVE FALSE
  BY <1>1
<1>2. ASSUME NEW i \in {MaxOps + 1, MaxOps + 3}
      PROVE  IsExit(q[i]) \/ IsExit(q[i + 1])
  <2>1. /\ i \in 1..Len(q) /\ i + 1 \in 1..Len(q) /\ i > MaxOps
        /\ i + 1 > MaxOps /\ i + 1 > 1 /\ (i + 1) - 1 = i
    BY <1>1
  <2>2. IsInput(q[i + 1]) => ~IsInput(q[i])
    BY <2>1, Zenon DEF Shaped, Alternates
  <2> QED BY <2>1, <2>2, Zenon DEF Shaped, Bounded
<1>3. PICK i \in {MaxOps + 1, MaxOps + 2} : IsExit(q[i])
  <2>1. IsExit(q[MaxOps + 1]) \/ IsExit(q[(MaxOps + 1) + 1])
    BY <1>2
  <2>2. (MaxOps + 1) + 1 = MaxOps + 2
    BY <1>1
  <2> QED BY <2>1, <2>2, Zenon
<1>4. PICK j \in {MaxOps + 3, MaxOps + 4} : IsExit(q[j])
  <2>1. IsExit(q[MaxOps + 3]) \/ IsExit(q[(MaxOps + 3) + 1])
    BY <1>2
  <2>2. (MaxOps + 3) + 1 = MaxOps + 4
    BY <1>1
  <2> QED BY <2>1, <2>2, Zenon
<1>5. i \in 1..Len(q) /\ j \in 1..Len(q) /\ i > MaxOps /\ j > MaxOps /\ i # j
  BY <1>1
<1> QED BY <1>3, <1>4, <1>5, Zenon DEF Shaped, Bounded

(* No scroll op that joins, replaces or cancels others takes input with it:
   every input is waiting, written or counted as dropped, and heldBytes and
   the queue stay within their bounds. *)
THEOREM ScrollNoInputLost == Spec => []NoInputLost
<1>1. QueueInv => NoInputLost
  <2> SUFFICES ASSUME QueueInv PROVE NoInputLost
    OBVIOUS
  <2> DEFINE W == WaitingIds(queue)
             P == ToSet(pty)
  <2>1. /\ Ledger /\ Shaped(queue) /\ PtyOrdered(pty) /\ typed \in Nat
        /\ W \union P \union dropped = 1..typed
        /\ dropped \cap W = {} /\ dropped \cap P = {}
        /\ heldBytes = Cardinality(W) /\ heldBytes <= MaxHeld
        /\ \A x \in P, y \in W : x < y
    BY Zenon DEF QueueInv, Ledger, InOrder, Accounted
  <2>2. /\ IsFiniteSet(W) /\ IsFiniteSet(P) /\ Cardinality(P) = Len(pty)
        /\ P \subseteq Nat
    BY <2>1, LedgerNumbers, PtyCounted
  <2> HIDE DEF W, P
  <2>3. W \cap P = {}
    <3>1. \A x \in P : ~(x < x)
      BY <2>2
    <3> QED BY <2>1, <3>1, Zenon
  <2>4. IsFiniteSet(1..typed) /\ Cardinality(1..typed) = typed
    BY <2>1, FS_Interval
  <2>5. IsFiniteSet(dropped)
    BY <2>1, <2>4, FS_Subset
  <2>6. Cardinality({}) = 0
    BY FS_EmptySet
  <2>7. IsFiniteSet(W \union P) /\ Cardinality(W \union P) = Cardinality(W) + Len(pty)
    <3>1. /\ IsFiniteSet(W \union P)
          /\ Cardinality(W \union P)
               = Cardinality(W) + Cardinality(P) - Cardinality(W \cap P)
      BY <2>2, FS_Union
    <3>2. Cardinality(W) \in Nat /\ Cardinality(P) \in Nat
      BY <2>2, FS_CardinalityType
    <3>3. Cardinality(W \cap P) = 0
      BY <2>3, <2>6, Zenon
    <3> QED BY <2>2, <3>1, <3>2, <3>3
  <2>8. (W \union P) \cap dropped = {}
    BY <2>1
  <2>9. typed = Cardinality(W) + Len(pty) + Cardinality(dropped)
    <3>1. Cardinality((W \union P) \union dropped)
            = Cardinality(W \union P) + Cardinality(dropped)
                - Cardinality((W \union P) \cap dropped)
      BY <2>5, <2>7, FS_Union
    <3>2. /\ Cardinality(W \union P) \in Nat /\ Cardinality(dropped) \in Nat
      BY <2>5, <2>7, FS_CardinalityType
    <3>3. Cardinality((W \union P) \union dropped) = typed
      BY <2>1, <2>4, Zenon
    <3>4. Cardinality((W \union P) \cap dropped) = 0
      BY <2>6, <2>8, Zenon
    <3>5. typed = Cardinality(W \union P) + Cardinality(dropped)
      BY <3>1, <3>2, <3>3, <3>4
    <3> QED BY <2>7, <3>5, Zenon
  <2>10. Len(queue) <= MaxOps + 3
    BY <2>1, ShapedIsShort
  <2>11. Cardinality(W) + Len(pty) + Cardinality(dropped) = typed
    BY <2>9, Zenon
  <2> QED BY <2>1, <2>10, <2>11, Zenon DEF NoInputLost, W, P
<1> QED BY <1>1, QueueInvariant, PTL

(* tmux copy-mode never eats what a touch page types, whatever is scrolled
   before or meanwhile and whichever commands and reads fail: it is written
   to a pane out of copy-mode, or to one that could not be read at all. *)
THEOREM ScrollKeysNotEaten == Spec => KeysNotEaten
<1>1. ASSUME BarrierInv, QueueInv, TypeNow("touch") PROVE ~pane.inMode
  <2>1. /\ ~Projected /\ ~ExitPending /\ ~HasQueuedInput /\ Shaped(queue)
    BY <1>1, Zenon DEF TypeNow, MustWait, Barrier, QueueInv, Ledger
  <2>2. queue \in Seq(QueuedOps) /\ DOMAIN queue = 1..Len(queue)
    BY <2>1 DEF Shaped
  <2>3. queue = <<>>
    <3> SUFFICES ASSUME queue # <<>> PROVE FALSE
      OBVIOUS
    <3>1. Len(queue) \in DOMAIN queue
      BY <2>2
    <3>2. ~IsInput(queue[Len(queue)]) /\ ~IsExit(queue[Len(queue)])
      BY <2>1, <3>1, Zenon DEF HasQueuedInput, ExitPending, IsInput
    <3> QED BY <2>1, <3>2, NotProjected
  <2>4. ~mayBeInCopyMode
    BY <2>1, <2>3, NotProjected, Zenon DEF ExitPending
  <2> QED BY <1>1, <2>4 DEF BarrierInv, BarrierUp
<1>2. ASSUME QueueInv, WriteHeld,
             \E k \in ToSet(Head(queue).data) : k.from = "touch"
      PROVE  ~pane.inMode \/ unread
  <2>1. queue \in Seq(QueuedOps)
    BY <1>2, Zenon DEF QueueInv, Ledger, Shaped
  <2>2. drain = "loop" /\ queue # <<>>
    BY <1>2 DEF WriteHeld, LoopTakes
  <2>3. Head(queue) = queue[1]
    BY <2>1, <2>2
  <2>4. TouchFirst(queue)
    BY <1>2, <2>2, <2>3, Zenon DEF TouchFirst, HasTouch
  <2>5. inFlight = NoOp
    BY <1>2, <2>2 DEF QueueInv, DrainFits
  <2>6. ~IsExit(inFlight)
    BY <2>5, KindsExclude, Zenon
  <2> QED BY <1>2, <2>4, <2>6 DEF QueueInv, HeadClear
<1>3. BarrierInv /\ QueueInv =>
        [/\ TypeNow("touch") => ~pane.inMode
         /\ WriteHeld /\ (\E k \in ToSet(Head(queue).data) : k.from = "touch")
              => ~pane.inMode \/ unread]_vars
  BY <1>1, <1>2
<1> QED BY <1>3, BarrierInvariant, QueueInvariant, PTL DEF KeysNotEaten
=============================================================================
