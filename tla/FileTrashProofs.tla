-------------------------- MODULE FileTrashProofs --------------------------
(***************************************************************************)
(* Proofs about FileTrash: for any items and files, any number of restarts *)
(* and failures, and helpers that outlive the service or die with it.      *)
(***************************************************************************)
EXTENDS FileTrash, TLAPS

-----------------------------------------------------------------------------
(* Types *)

Ops == [pc : {"idle", "insert", "look", "wait", "verify"},
        goal : {"none", "restore", "purge"},
        seen : [from : Looks, to : Looks], result : Results]

HelperStates == [job : Jobs \cup {"none"}, phase : {"start", "delete"}]

\* What is at rest has its types.
LEMMA IdleTyped == Idle \in Ops /\ NoHelper \in HelperStates
BY DEF Idle, Ops, NoHelper, HelperStates, Unread, Looks, Results, Jobs

\* What a request sees of a path has its types.
LEMMA LookTyped == ASSUME NEW p, NEW i PROVE Look(p, i) \in Looks
BY DEF Look, Looks

\* So has the place that a helper works on.
LEMMA PlaceTyped ==
  ASSUME NEW job, NEW i \in Items
  PROVE  From(job, i) \in Paths /\ To(job, i) \in Paths
BY DEF From, To, Paths

\* Nothing was trashed.
LEMMA InitTyped == Init => TypeOK
<1> SUFFICES ASSUME Init PROVE TypeOK
  OBVIOUS
<1>1. /\ at \in [Paths -> Files \cup {None}] /\ half \in SUBSET Files
      /\ made \in SUBSET Files /\ ident \in [Items -> Files \cup {None}]
  BY TrashAssumption DEF Init
<1>2. /\ op \in [Items -> Ops]
      /\ helper \in [Items -> [{"own", "survivor"} -> HelperStates]]
  BY IdleTyped DEF Init
<1>3. /\ row \in [Items -> Statuses] /\ faults \in 0..MaxFaults
      /\ discarded = {} /\ purgeAsked = {} /\ meddled = {} /\ outlived = {}
  BY TrashAssumption DEF Init, Statuses
<1> QED BY <1>1, <1>2, <1>3 DEF TypeOK, Ops, HelperStates

\* A step of a request changes the fields of one record within their types.
LEMMA OpTyped ==
  ASSUME op \in [Items -> Ops], NEW i \in Items
  PROVE  /\ \A pc \in {"idle", "insert", "look", "wait", "verify"} :
              [op EXCEPT ![i].pc = pc] \in [Items -> Ops]
         /\ \A goal \in {"none", "restore", "purge"} :
              [op EXCEPT ![i].pc = "look", ![i].goal = goal]
                \in [Items -> Ops]
         /\ \A side \in {"from", "to"}, look \in Looks :
              [op EXCEPT ![i].seen[side] = look] \in [Items -> Ops]
         /\ \A result \in Results :
              /\ [op EXCEPT ![i].result = result] \in [Items -> Ops]
              /\ [op EXCEPT ![i].pc = "verify", ![i].seen = Unread,
                            ![i].result = result] \in [Items -> Ops]
         /\ [op EXCEPT ![i] = Idle] \in [Items -> Ops]
         /\ [op EXCEPT ![i] = [Idle EXCEPT !.pc = "look"]] \in [Items -> Ops]
<1>1. [from |-> "unread", to |-> "unread"] \in [from : Looks, to : Looks]
  BY DEF Looks
<1>2. \A seen \in [from : Looks, to : Looks], side \in {"from", "to"},
         look \in Looks :
        [seen EXCEPT ![side] = look] \in [from : Looks, to : Looks]
  OBVIOUS
<1>3. [Idle EXCEPT !.pc = "look"] \in Ops
  BY IdleTyped DEF Ops
<1> QED BY ZenonT(60), <1>1, <1>2, <1>3, IdleTyped DEF Ops, Unread

\* Settling a row keeps the types.
LEMMA SettleTyped ==
  ASSUME TypeOK, NEW i \in Items, NEW status \in Statuses, NEW threw,
         Settle(i, status, threw)
  PROVE  row' \in [Items -> Statuses] /\ op' \in [Items -> Ops]
<1>1. op \in [Items -> Ops]
  BY DEF TypeOK, Ops
<1>2. {"pending_restore", "pending_purge"} \subseteq Statuses
  BY DEF Statuses, Pending
<1>3. row \in [Items -> Statuses]
  BY DEF TypeOK
<1>4. \E value \in Statuses : row' = [row EXCEPT ![i] = value]
  BY <1>2 DEF Settle
<1>5. \/ op' = [op EXCEPT ![i] = Idle]
      \/ op' = [op EXCEPT ![i] = [Idle EXCEPT !.pc = "look"]]
  BY DEF Settle
<1>6. op' \in [Items -> Ops]
  <2>1. /\ [op EXCEPT ![i] = Idle] \in [Items -> Ops]
        /\ [op EXCEPT ![i] = [Idle EXCEPT !.pc = "look"]] \in [Items -> Ops]
    BY <1>1, OpTyped, Zenon
  <2> QED BY <1>5, <2>1, Zenon
<1>7. row' \in [Items -> Statuses]
  BY <1>3, <1>4
<1> QED BY <1>6, <1>7

Helpers == [Items -> [Workers -> HelperStates]]

\* A helper that moves on keeps the types of all.
LEMMA HelperTyped ==
  ASSUME helper \in Helpers, NEW i \in Items, NEW w \in Workers
  PROVE  /\ [helper EXCEPT ![i][w] = NoHelper] \in Helpers
         /\ [helper EXCEPT ![i][w].phase = "delete"] \in Helpers
         /\ \A job \in Jobs :
              [helper EXCEPT ![i]["own"] = [NoHelper EXCEPT !.job = job]]
                \in Helpers
<1>1. \A job \in Jobs : [NoHelper EXCEPT !.job = job] \in HelperStates
  BY IdleTyped DEF HelperStates
<1>2. helper[i] \in [Workers -> HelperStates]
  BY DEF Helpers
<1>3. [helper[i][w] EXCEPT !.phase = "delete"] \in HelperStates
  BY <1>2 DEF HelperStates
<1>4. [helper EXCEPT ![i][w] = NoHelper] \in Helpers
  BY <1>2, IdleTyped DEF Helpers
<1>5. [helper EXCEPT ![i][w].phase = "delete"] \in Helpers
  BY <1>2, <1>3 DEF Helpers
<1>6. \A job \in Jobs :
        [helper EXCEPT ![i]["own"] = [NoHelper EXCEPT !.job = job]]
          \in Helpers
  BY <1>1, <1>2 DEF Helpers, Workers
<1> QED BY <1>4, <1>5, <1>6

\* So does one that ends.
LEMMA EndsTyped ==
  ASSUME TypeOK, NEW i \in Items, NEW w \in Workers, NEW result \in Results,
         Ends(i, w, result)
  PROVE  op' \in [Items -> Ops] /\ helper' \in Helpers
<1>1. op \in [Items -> Ops] /\ helper \in Helpers
  BY DEF TypeOK, Ops, Helpers, HelperStates, Workers
<1>2. [op EXCEPT ![i].pc = "verify", ![i].seen = Unread,
                 ![i].result = result] \in [Items -> Ops]
  BY <1>1, OpTyped, Zenon
<1>3. [helper EXCEPT ![i][w] = NoHelper] \in Helpers
  BY <1>1, HelperTyped
<1> QED BY <1>1, <1>2, <1>3 DEF Ends

\* So does one that starts.
LEMMA StartsTyped ==
  ASSUME TypeOK, NEW i \in Items, HelperStarts(i)
  PROVE  op' \in [Items -> Ops] /\ helper' \in Helpers
<1>1. op \in [Items -> Ops] /\ helper \in Helpers
  BY DEF TypeOK, Ops, Helpers, HelperStates, Workers
<1>2. [op EXCEPT ![i].pc = "wait"] \in [Items -> Ops]
  BY <1>1, OpTyped, Zenon
<1>3. Job(i) \in Jobs
  BY DEF Job, Jobs
<1>4. "own" \in Workers
  BY DEF Workers
<1>5. [helper EXCEPT ![i]["own"] = [NoHelper EXCEPT !.job = Job(i)]]
        \in Helpers
  BY <1>1, <1>3, <1>4, HelperTyped
<1> QED BY <1>1, <1>2, <1>5 DEF HelperStarts

\* What a step has to keep of the types, by groups of variables.
FilesTyped == at \in [Paths -> Files \cup {None}] /\ half \in SUBSET Files

RowsTyped ==
  row \in [Items -> Statuses] /\ ident \in [Items -> Files \cup {None}]

RequestsTyped == op \in [Items -> Ops] /\ helper \in Helpers

HistoryTyped ==
  /\ made \in SUBSET Files /\ discarded \in SUBSET (Files \cup {None})
  /\ purgeAsked \in SUBSET Items /\ meddled \in SUBSET Items
  /\ outlived \in SUBSET Items /\ faults \in 0..MaxFaults

\* The types, in four groups.
LEMMA TypeGroups ==
  TypeOK <=> FilesTyped /\ RowsTyped /\ RequestsTyped /\ HistoryTyped
BY DEF TypeOK, FilesTyped, RowsTyped, RequestsTyped, HistoryTyped, Ops,
       Helpers, HelperStates, Workers

\* The same after a step.
LEMMA TypeGroupsNext ==
  FilesTyped' /\ RowsTyped' /\ RequestsTyped' /\ HistoryTyped' => TypeOK'
BY DEF TypeOK, FilesTyped, RowsTyped, RequestsTyped, HistoryTyped, Ops,
       Helpers, HelperStates, Workers

\* What a request decides keeps the types.
LEMMA DecideTyped ==
  ASSUME TypeOK, NEW i \in Items, Decide(i) PROVE TypeOK'
<1>1. {"ready", "error", "restored", "purged"} \subseteq Statuses
  BY DEF Statuses
<1>2. row \in [Items -> Statuses] /\ helper \in Helpers
  BY DEF TypeOK, Helpers, HelperStates, Workers
<1>3. \/ /\ \E status \in Statuses : Settle(i, status, FALSE)
         /\ UNCHANGED helper
      \/ HelperStarts(i)
  BY <1>1 DEF Decide, DecideMove, DecideRestore, DecidePurge
<1>4. RequestsTyped' /\ row' \in [Items -> Statuses]
  <2>1. CASE HelperStarts(i)
    BY <1>2, <2>1, StartsTyped DEF HelperStarts, RequestsTyped
  <2>2. ASSUME NEW status \in Statuses, Settle(i, status, FALSE),
               UNCHANGED helper
        PROVE RequestsTyped' /\ row' \in [Items -> Statuses]
    BY <1>2, <2>2, SettleTyped DEF RequestsTyped
  <2> QED BY <1>3, <2>1, <2>2
<1>5. FilesTyped' /\ HistoryTyped' /\ ident' \in [Items -> Files \cup {None}]
  BY DEF Decide, files, history, TypeOK, FilesTyped, HistoryTyped
<1> QED BY <1>4, <1>5, TypeGroupsNext DEF RowsTyped, RequestsTyped

\* So does what it verifies.
LEMMA VerifyTyped ==
  ASSUME TypeOK, NEW i \in Items, Verify(i) PROVE TypeOK'
<1>1. {"ready", "error", "restored", "purged"} \subseteq Statuses
  BY DEF Statuses
<1>2. /\ row \in [Items -> Statuses] /\ helper \in Helpers
      /\ op \in [Items -> Ops]
  BY DEF TypeOK, Helpers, HelperStates, Workers, Ops
<1>3. \/ \E status \in Statuses, threw \in BOOLEAN : Settle(i, status, threw)
      \/ GivesUp(i)
  BY <1>1 DEF Verify, VerifyMove, VerifyRestore, VerifyPurge
<1>4. op' \in [Items -> Ops] /\ row' \in [Items -> Statuses]
  <2>1. CASE GivesUp(i)
    <3>1. [op EXCEPT ![i] = Idle] \in [Items -> Ops]
      BY <1>2, OpTyped, Zenon
    <3> QED BY <1>2, <2>1, <3>1 DEF GivesUp
  <2>2. ASSUME NEW status \in Statuses, NEW threw \in BOOLEAN,
               Settle(i, status, threw)
        PROVE op' \in [Items -> Ops] /\ row' \in [Items -> Statuses]
    BY <2>2, SettleTyped
  <2> QED BY <1>3, <2>1, <2>2
<1>5. /\ FilesTyped' /\ HistoryTyped' /\ helper' \in Helpers
      /\ ident' \in [Items -> Files \cup {None}]
  BY <1>2 DEF Verify, files, history, TypeOK, FilesTyped, HistoryTyped
<1> QED BY <1>4, <1>5, TypeGroupsNext DEF RowsTyped, RequestsTyped

\* So does every step of a request.
LEMMA RequestTyped ==
  ASSUME TypeOK, NEW i \in Items,
         \/ Identify(i) \/ Insert(i) \/ Reconcile(i) \/ LooksTo(i)
         \/ LooksFrom(i) \/ LookFails(i) \/ AnswerLost(i)
         \/ \E goal \in {"restore", "purge"} : Request(i, goal)
  PROVE  TypeOK'
<1> USE TrashAssumption
<1>1. FilesTyped /\ RowsTyped /\ RequestsTyped /\ HistoryTyped
  BY TypeGroups
<1>2. op \in [Items -> Ops]
  BY <1>1 DEF RequestsTyped
<1>3. \A pc \in {"insert", "look"} :
        [op EXCEPT ![i].pc = pc] \in [Items -> Ops]
  BY <1>2, OpTyped
<1>4. CASE Identify(i)
  <2>1. at[Original] \in Files
    BY <1>4, <1>1 DEF Identify, FilesTyped, Paths
  <2> QED BY <1>1, <1>3, <1>4, <2>1, TypeGroupsNext DEF Identify, files,
            history, FilesTyped, RowsTyped, RequestsTyped, HistoryTyped
<1>5. CASE Insert(i)
  <2>1. "pending_move" \in Statuses
    BY DEF Statuses, Pending
  <2> QED BY <1>1, <1>3, <1>5, <2>1, TypeGroupsNext DEF Insert, files,
            history, FilesTyped, RowsTyped, RequestsTyped, HistoryTyped
<1>6. CASE Reconcile(i)
  BY <1>1, <1>3, <1>6, TypeGroupsNext DEF Reconcile, files, rows,
     history, FilesTyped, RowsTyped, RequestsTyped, HistoryTyped
<1>7. ASSUME NEW goal \in {"restore", "purge"}, Request(i, goal)
      PROVE TypeOK'
  <2>1. {"pending_restore", "pending_purge"} \subseteq Statuses
    BY DEF Statuses, Pending
  <2>2. [op EXCEPT ![i].pc = "look", ![i].goal = goal] \in [Items -> Ops]
    BY <1>2, OpTyped
  <2>3. op' \in [Items -> Ops] /\ row' \in [Items -> Statuses]
    BY <1>1, <1>3, <1>7, <2>1, <2>2 DEF Request, RowsTyped
  <2>4. purgeAsked' \in SUBSET Items
    BY <1>1, <1>7 DEF Request, HistoryTyped
  <2> QED BY <1>1, <1>7, <2>3, <2>4, TypeGroupsNext DEF Request, files,
            FilesTyped, RowsTyped, RequestsTyped, HistoryTyped
<1>8. CASE LooksTo(i)
  <2>1. PICK look \in Looks : op' = [op EXCEPT ![i].seen["to"] = look]
    BY <1>8, LookTyped DEF LooksTo, Sees
  <2>2. op' \in [Items -> Ops]
    BY <1>2, <2>1, OpTyped
  <2> QED BY <1>1, <1>8, <2>2, TypeGroupsNext DEF LooksTo, files, rows,
            history, FilesTyped, RowsTyped, RequestsTyped, HistoryTyped
<1>9. CASE LooksFrom(i)
  <2>1. PICK look \in Looks : op' = [op EXCEPT ![i].seen["from"] = look]
    BY <1>9, LookTyped DEF LooksFrom, Sees
  <2>2. op' \in [Items -> Ops]
    BY <1>2, <2>1, OpTyped
  <2> QED BY <1>1, <1>9, <2>2, TypeGroupsNext DEF LooksFrom, files, rows,
            history, FilesTyped, RowsTyped, RequestsTyped, HistoryTyped
<1>10. CASE LookFails(i)
  <2>1. [op EXCEPT ![i] = Idle] \in [Items -> Ops]
    BY <1>2, OpTyped, Zenon
  <2> QED BY <1>1, <1>10, <2>1, TypeGroupsNext DEF LookFails, GivesUp, Fault,
            files, history, FilesTyped, RowsTyped, RequestsTyped, HistoryTyped
<1>11. CASE AnswerLost(i)
  <2>1. [op EXCEPT ![i].result = "io"] \in [Items -> Ops]
    BY <1>2, OpTyped DEF Results
  <2> QED BY <1>1, <1>11, <2>1, TypeGroupsNext DEF AnswerLost, Fault, files,
            rows, history, FilesTyped, RowsTyped, RequestsTyped, HistoryTyped
<1> QED BY <1>4, <1>5, <1>6, <1>7, <1>8, <1>9, <1>10, <1>11

\* So does every step of a helper.
LEMMA HelperStepTyped ==
  ASSUME TypeOK, NEW i \in Items, NEW w \in Workers,
         \/ Resumes(i, w) \/ HelperMoves(i, w) \/ Empties(i, w)
         \/ Deletes(i, w) \/ HelperFails(i, w)
  PROVE  TypeOK'
<1> USE TrashAssumption
<1>1. FilesTyped /\ RowsTyped /\ RequestsTyped /\ HistoryTyped
  BY TypeGroups
<1>2. {"ok", "exists", "identity_changed", "not_found", "io"} = Results
  BY DEF Results
<1>3. ASSUME \E result \in Results : Ends(i, w, result)
      PROVE RequestsTyped'
  BY <1>3, EndsTyped DEF RequestsTyped
<1>4. ASSUME helper' = [helper EXCEPT ![i][w].phase = "delete"], UNCHANGED op
      PROVE RequestsTyped'
  BY <1>1, <1>4, HelperTyped DEF RequestsTyped
<1>5. Quarantine(i) \in Paths
  BY DEF Paths
<1>6. CASE Resumes(i, w)
  <2>1. RequestsTyped'
    BY <1>2, <1>3, <1>4, <1>6 DEF Resumes
  <2> QED BY <1>1, <1>6, <2>1, TypeGroupsNext DEF Resumes, files, rows,
            history, FilesTyped, RowsTyped, HistoryTyped
<1>7. CASE HelperMoves(i, w)
  <2> DEFINE from == From(helper[i][w].job, i)
             to == To(helper[i][w].job, i)
  <2>1. from \in Paths /\ to \in Paths
    BY PlaceTyped
  <2>2. RequestsTyped'
    BY <1>2, <1>3, <1>4, <1>7 DEF HelperMoves, Moves
  <2>3. at' = at \/ at' = [at EXCEPT ![from] = None, ![to] = at[from]]
    BY <1>7 DEF HelperMoves, Moves
  <2>4. FilesTyped'
    BY <1>1, <1>7, <2>1, <2>3 DEF HelperMoves, FilesTyped
  <2> QED BY <1>1, <1>7, <2>2, <2>4, TypeGroupsNext DEF HelperMoves, rows,
            history, RowsTyped, HistoryTyped
<1>8. CASE Empties(i, w)
  BY <1>1, <1>5, <1>8, TypeGroupsNext DEF Empties, rows, history,
     FilesTyped, RowsTyped, RequestsTyped, HistoryTyped
<1>9. CASE Deletes(i, w)
  <2>1. RequestsTyped'
    BY <1>2, <1>3, <1>9 DEF Deletes
  <2>2. FilesTyped'
    BY <1>1, <1>9 DEF Deletes, FilesTyped
  <2> QED BY <1>1, <1>9, <2>1, <2>2, TypeGroupsNext DEF Deletes, rows,
            history, RowsTyped, HistoryTyped
<1>10. CASE HelperFails(i, w)
  <2>1. RequestsTyped'
    BY <1>2, <1>3, <1>10 DEF HelperFails
  <2> QED BY <1>1, <1>10, <2>1, TypeGroupsNext DEF HelperFails, Fault, files,
            rows, history, FilesTyped, RowsTyped, HistoryTyped
<1> QED BY <1>6, <1>7, <1>8, <1>9, <1>10

\* So does a restart.
LEMMA RestartTyped == ASSUME TypeOK, Restart PROVE TypeOK'
<1> USE TrashAssumption
<1>1. FilesTyped /\ RowsTyped /\ RequestsTyped /\ HistoryTyped
  BY TypeGroups
<1>2. op' \in [Items -> Ops]
  BY IdleTyped DEF Restart
<1>3. helper' \in Helpers
  BY <1>1, IdleTyped DEF Restart, RequestsTyped, Helpers, Workers
<1> QED BY <1>1, <1>2, <1>3, TypeGroupsNext DEF Restart, Fault, files, rows,
          history, FilesTyped, RowsTyped, RequestsTyped, HistoryTyped

\* So does what a user does to files.
LEMMA UserTyped ==
  ASSUME TypeOK,
         \/ \E p \in Paths, f \in Files : UserWrites(p, f)
         \/ UserRemoves
  PROVE  TypeOK'
<1> USE TrashAssumption
<1>1. FilesTyped /\ RowsTyped /\ RequestsTyped /\ HistoryTyped
  BY TypeGroups
<1>2. ASSUME NEW p \in Paths, NEW f \in Files, UserWrites(p, f)
      PROVE TypeOK'
  BY <1>1, <1>2, TypeGroupsNext DEF UserWrites, rows, FilesTyped, RowsTyped,
     RequestsTyped, HistoryTyped
<1>3. CASE UserRemoves
  <2>1. Original \in Paths
    BY DEF Paths
  <2> QED BY <1>1, <1>3, <2>1, TypeGroupsNext DEF UserRemoves, rows,
            FilesTyped, RowsTyped, RequestsTyped, HistoryTyped
<1> QED BY <1>2, <1>3

\* Every step keeps the types.
LEMMA NextTyped == ASSUME TypeOK, [Next]_vars PROVE TypeOK'
<1>1. CASE Next
  BY <1>1, RequestTyped, DecideTyped, VerifyTyped, HelperStepTyped,
     RestartTyped, UserTyped DEF Next, Work
<1>2. CASE UNCHANGED vars
  BY <1>2 DEF vars, files, rows, history, TypeOK
<1> QED BY <1>1, <1>2

\* Every variable keeps the values the code gives it.
THEOREM TrashTypeCorrect == Spec => []TypeOK
<1>1. Init => TypeOK
  BY InitTyped
<1>2. TypeOK /\ [Next]_vars => TypeOK'
  BY NextTyped
<1> QED BY <1>1, <1>2, PTL DEF Spec

-----------------------------------------------------------------------------
(* The paths, and what a step on one item leaves of the others *)

\* Items share no path of their own.
LEMMA PathsDistinct ==
  ASSUME NEW i, NEW j
  PROVE  /\ Original # Trash(i) /\ Original # Quarantine(i)
         /\ Trash(i) # Quarantine(j)
         /\ i # j => Trash(i) # Trash(j) /\ Quarantine(i) # Quarantine(j)
BY DEF Original, Trash, Quarantine

\* An item's paths are paths of the model.
LEMMA PathsKnown ==
  ASSUME NEW i \in Items
  PROVE  Original \in Paths /\ Trash(i) \in Paths /\ Quarantine(i) \in Paths
BY DEF Paths

ItemInv(i) == RowComesFirst(i) /\ PurgeIsAskedFor(i)

FilesInv == OnePlaceEach /\ NothingLost /\ HalfStaysHidden

\* The invariant is types, files and each item's own part.
LEMMA IInvParts == IInv <=> TypeOK /\ FilesInv /\ \A i \in Items : ItemInv(i)
BY DEF IInv, FilesInv, ItemInv

\* The same after a step.
LEMMA IInvPartsNext ==
  TypeOK' /\ FilesInv' /\ (\A i \in Items : ItemInv(i)') => IInv'
BY DEF IInv, FilesInv, ItemInv

SameItem(j) ==
  /\ row'[j] = row[j] /\ ident'[j] = ident[j] /\ op'[j] = op[j]
  /\ helper'[j] = helper[j] /\ at'[Quarantine(j)] = at[Quarantine(j)]
  /\ j \in purgeAsked' <=> j \in purgeAsked

\* An item that nothing happens to keeps its part.
LEMMA SameItemStays ==
  ASSUME NEW j \in Items, ItemInv(j), SameItem(j) PROVE ItemInv(j)'
BY DEF ItemInv, RowComesFirst, PurgeIsAskedFor, SameItem, Quarantine

\* A step of one item that leaves the files alone.
LEMMA FilesStay ==
  ASSUME FilesInv, UNCHANGED <<at, half, made, discarded, ident>>,
         purgeAsked \subseteq purgeAsked'
  PROVE  FilesInv'
BY DEF FilesInv, OnePlaceEach, NothingLost, HalfStaysHidden, Quarantine

\* A step of one item leaves the others' parts.
LEMMA OneItemStep ==
  ASSUME IInv, TypeOK', NEW i \in Items, ItemInv(i)',
         UNCHANGED <<at, half, made, discarded, ident>>,
         purgeAsked \subseteq purgeAsked', purgeAsked' \subseteq purgeAsked \cup {i},
         \A j \in Items \ {i} :
           row'[j] = row[j] /\ op'[j] = op[j] /\ helper'[j] = helper[j]
  PROVE  IInv'
<1>1. FilesInv'
  BY IInvParts, FilesStay
<1>2. ASSUME NEW j \in Items, j # i PROVE ItemInv(j)'
  <2>1. SameItem(j)
    BY <1>2 DEF SameItem
  <2> QED BY <2>1, IInvParts, SameItemStays
<1> QED BY <1>1, <1>2, IInvPartsNext

\* What is known of an item before a step of its own.
LEMMA ItemTypes ==
  ASSUME TypeOK, NEW i \in Items
  PROVE  /\ op \in [Items -> Ops] /\ op[i] \in Ops
         /\ row \in [Items -> Statuses]
         /\ helper \in Helpers /\ helper[i] \in [Workers -> HelperStates]
BY DEF TypeOK, Ops, Helpers, HelperStates, Workers

-----------------------------------------------------------------------------
(* Steps that leave the files alone *)

\* The outcome of a reconciliation is written for a request of a pending row
\* that has no helper at work.
LEMMA SettleKeeps ==
  ASSUME IInv, TypeOK', NEW i \in Items,
         NEW status \in Statuses \ (Pending \cup {"none"}), NEW threw,
         op[i].pc \in {"look", "verify"}, Settle(i, status, threw),
         UNCHANGED <<at, half, made, discarded, ident, helper, purgeAsked>>
  PROVE  IInv'
<1>1. TypeOK /\ ItemInv(i)
  BY IInvParts
<1>2. helper[i]["own"].job = "none"
  BY <1>1 DEF ItemInv, RowComesFirst
<1>3. \/ row'[i] = status /\ op'[i] = Idle
      \/ /\ op'[i] = [Idle EXCEPT !.pc = "look"]
         /\ \/ row'[i] = "pending_restore"
            \/ row'[i] = "pending_purge" /\ op[i].goal = "purge"
  BY <1>1, ItemTypes DEF Settle, Ops
<1>4. RowComesFirst(i)'
  BY <1>2, <1>3, <1>1 DEF ItemInv, RowComesFirst, Idle, Pending, Quarantine
<1>5. PurgeIsAskedFor(i)'
  BY <1>3, <1>1 DEF ItemInv, PurgeIsAskedFor, Idle, Pending, Quarantine
<1>6. \A j \in Items \ {i} : row'[j] = row[j] /\ op'[j] = op[j]
  BY <1>1, ItemTypes DEF Settle
<1> QED BY <1>4, <1>5, <1>6, OneItemStep DEF ItemInv

\* A request that gives up changes no file.
LEMMA GivesUpKeeps ==
  ASSUME IInv, TypeOK', NEW i \in Items,
         op[i].pc \in {"look", "verify"}, GivesUp(i),
         UNCHANGED <<at, half, made, discarded, ident, helper, purgeAsked>>
  PROVE  IInv'
<1>1. TypeOK /\ ItemInv(i)
  BY IInvParts
<1>2. op'[i] = Idle /\ \A j \in Items \ {i} : op'[j] = op[j]
  BY <1>1, ItemTypes DEF GivesUp
<1>3. ItemInv(i)'
  BY <1>1, <1>2 DEF GivesUp, ItemInv, RowComesFirst, PurgeIsAskedFor, Idle,
     Quarantine
<1> QED BY <1>2, <1>3, OneItemStep DEF GivesUp

\* A helper starts behind its row.
LEMMA HelperStartsKeeps ==
  ASSUME IInv, TypeOK', NEW i \in Items, op[i].pc = "look", HelperStarts(i),
         UNCHANGED <<at, half, made, discarded, ident, purgeAsked>>
  PROVE  IInv'
<1>1. TypeOK /\ ItemInv(i) /\ row[i] \in Pending
  BY IInvParts DEF ItemInv, RowComesFirst
<1>2. Job(i) = "purge" => i \in purgeAsked
  BY <1>1 DEF Job, Pending, ItemInv, PurgeIsAskedFor
<1>3. /\ op'[i].pc = "wait" /\ op'[i].goal = op[i].goal
      /\ \A j \in Items \ {i} : op'[j] = op[j]
  BY <1>1, ItemTypes DEF HelperStarts, Ops
<1>4. /\ helper'[i]["own"] = [NoHelper EXCEPT !.job = Job(i)]
      /\ helper'[i]["survivor"] = helper[i]["survivor"]
      /\ \A j \in Items \ {i} : helper'[j] = helper[j]
  BY <1>1, ItemTypes DEF HelperStarts, Helpers, Workers
<1>5. RowComesFirst(i)'
  BY <1>1, <1>3 DEF HelperStarts, RowComesFirst, Pending
<1>6. PurgeIsAskedFor(i)'
  BY <1>1, <1>2, <1>3, <1>4 DEF HelperStarts, ItemInv, PurgeIsAskedFor,
     NoHelper, Workers, Quarantine
<1> QED BY <1>1, <1>3, <1>4, <1>5, <1>6, OneItemStep DEF HelperStarts, ItemInv

\* The request's own steps keep the invariant.
LEMMA RequestKeeps ==
  ASSUME IInv, TypeOK', NEW i \in Items,
         \/ Insert(i) \/ Reconcile(i) \/ LooksTo(i) \/ LooksFrom(i)
         \/ LookFails(i) \/ AnswerLost(i)
         \/ \E goal \in {"restore", "purge"} : Request(i, goal)
  PROVE  IInv'
<1>1. TypeOK /\ ItemInv(i)
  BY IInvParts
<1>2. /\ op \in [Items -> Ops] /\ op[i] \in Ops
      /\ row \in [Items -> Statuses]
      /\ op[i].seen \in [from : Looks, to : Looks]
  BY <1>1, ItemTypes DEF Ops
<1>3. CASE Insert(i)
  <2>1. /\ op'[i].pc = "look" /\ op'[i].goal = op[i].goal
        /\ row'[i] = "pending_move" /\ helper[i]["own"].job = "none"
        /\ \A j \in Items \ {i} : op'[j] = op[j] /\ row'[j] = row[j]
    BY <1>1, <1>2, <1>3 DEF Insert, Ops, ItemInv, RowComesFirst
  <2>2. ItemInv(i)'
    BY <1>1, <1>3, <2>1 DEF Insert, files, ItemInv, RowComesFirst, history,
       PurgeIsAskedFor, Pending, Quarantine
  <2> QED BY <1>3, <2>1, <2>2, OneItemStep DEF Insert, files, history
<1>4. CASE Reconcile(i)
  <2>1. /\ op'[i].pc = "look" /\ op'[i].goal = op[i].goal
        /\ row[i] \in Pending /\ helper[i]["own"].job = "none"
        /\ \A j \in Items \ {i} : op'[j] = op[j]
    BY <1>1, <1>2, <1>4 DEF Reconcile, Ops, ItemInv, RowComesFirst
  <2>2. ItemInv(i)'
    BY <1>1, <1>4, <2>1 DEF Reconcile, files, rows, history, ItemInv,
       RowComesFirst, PurgeIsAskedFor, Pending, Quarantine
  <2> QED BY <1>4, <2>1, <2>2, OneItemStep DEF Reconcile, files, rows, history
<1>5. ASSUME NEW goal \in {"restore", "purge"}, Request(i, goal)
      PROVE IInv'
  <2>1. /\ op'[i].pc = "look" /\ op'[i].goal \in {op[i].goal, goal}
        /\ helper[i]["own"].job = "none" /\ row'[i] \in Pending
        /\ row'[i] = "pending_purge" => goal = "purge" \/ row'[i] = row[i]
        /\ \A j \in Items \ {i} : op'[j] = op[j] /\ row'[j] = row[j]
    BY <1>1, <1>2, <1>5 DEF Request, Ops, Pending, ItemInv, RowComesFirst
  <2>2. goal = "purge" => i \in purgeAsked'
    BY <1>5 DEF Request
  <2>3. RowComesFirst(i)'
    BY <1>5, <2>1 DEF Request, RowComesFirst, Pending
  <2>4. PurgeIsAskedFor(i)'
    BY <1>1, <1>5, <2>1, <2>2 DEF Request, files, ItemInv, PurgeIsAskedFor,
       Quarantine
  <2> QED BY <1>5, <2>1, <2>3, <2>4, OneItemStep DEF Request, files, ItemInv
<1>6. ASSUME NEW side \in {"from", "to"}, NEW p, Sees(i, side, p),
             UNCHANGED <<files, rows, helper, history, faults>>
      PROVE IInv'
  <2>1. /\ op'[i].pc = op[i].pc /\ op'[i].goal = op[i].goal
        /\ \A j \in Items \ {i} : op'[j] = op[j]
    BY <1>2, <1>6 DEF Sees, Ops
  <2>2. ItemInv(i)'
    BY <1>1, <1>6, <2>1 DEF files, rows, history, ItemInv, RowComesFirst,
       PurgeIsAskedFor, Quarantine
  <2> QED BY <1>6, <2>1, <2>2, OneItemStep DEF files, rows, history
<1>7. CASE LooksTo(i) \/ LooksFrom(i)
  BY <1>6, <1>7 DEF LooksTo, LooksFrom
<1>8. CASE LookFails(i)
  BY <1>8, GivesUpKeeps DEF LookFails, files, history
<1>9. CASE AnswerLost(i)
  <2>1. /\ op'[i].pc = op[i].pc /\ op'[i].goal = op[i].goal
        /\ \A j \in Items \ {i} : op'[j] = op[j]
    BY <1>2, <1>9 DEF AnswerLost, Ops
  <2>2. ItemInv(i)'
    BY <1>1, <1>9, <2>1 DEF AnswerLost, files, rows, history, ItemInv,
       RowComesFirst, PurgeIsAskedFor, Quarantine
  <2> QED BY <1>9, <2>1, <2>2, OneItemStep DEF AnswerLost, files, rows, history
<1> QED BY <1>3, <1>4, <1>5, <1>7, <1>8, <1>9

\* So does its decision.
LEMMA DecideKeeps ==
  ASSUME IInv, TypeOK', NEW i \in Items, Decide(i) PROVE IInv'
<1> DEFINE Outcomes == Statuses \ (Pending \cup {"none"})
<1>1. {"ready", "error", "restored", "purged"} \subseteq Outcomes
  BY DEF Statuses, Pending
<1>2. \/ /\ \E status \in Outcomes, threw \in BOOLEAN :
              Settle(i, status, threw)
         /\ UNCHANGED helper
      \/ HelperStarts(i)
  BY <1>1 DEF Decide, DecideMove, DecideRestore, DecidePurge
<1>3. /\ op[i].pc = "look"
      /\ UNCHANGED <<at, half, made, discarded, ident, purgeAsked>>
  BY DEF Decide, files, history
<1>4. CASE HelperStarts(i)
  BY <1>3, <1>4, HelperStartsKeeps
<1>5. ASSUME NEW status \in Outcomes, NEW threw \in BOOLEAN,
             Settle(i, status, threw), UNCHANGED helper
      PROVE IInv'
  BY <1>3, <1>5, SettleKeeps
<1> QED BY <1>2, <1>4, <1>5

\* So does what it verifies.
LEMMA VerifyKeeps ==
  ASSUME IInv, TypeOK', NEW i \in Items, Verify(i) PROVE IInv'
<1> DEFINE Outcomes == Statuses \ (Pending \cup {"none"})
<1>1. {"ready", "error", "restored", "purged"} \subseteq Outcomes
  BY DEF Statuses, Pending
<1>2. \/ \E status \in Outcomes, threw \in BOOLEAN : Settle(i, status, threw)
      \/ GivesUp(i)
  BY <1>1 DEF Verify, VerifyMove, VerifyRestore, VerifyPurge
<1>3. /\ op[i].pc = "verify"
      /\ UNCHANGED <<at, half, made, discarded, ident, helper, purgeAsked>>
  BY DEF Verify, files, history
<1> QED BY <1>2, <1>3, SettleKeeps, GivesUpKeeps

\* A new item takes the identity of the file; nothing of it is there yet.
LEMMA IdentifyKeeps ==
  ASSUME IInv, TypeOK', NEW i \in Items, Identify(i) PROVE IInv'
<1>1. TypeOK /\ ItemInv(i) /\ FilesInv
  BY IInvParts
<1>2. /\ i \notin purgeAsked /\ at[Quarantine(i)] = None
      /\ \A w \in Workers : helper[i][w].job = "none"
  BY <1>1 DEF Identify, ItemInv, RowComesFirst
<1>3. \A j \in Items \ {i} : ident'[j] = ident[j] /\ op'[j] = op[j]
  BY <1>1, ItemTypes DEF Identify, TypeOK
<1>4. FilesInv'
  <2>1. NothingLost'
    BY SMTT(30), <1>1, <1>2, <1>3 DEF Identify, files, history, FilesInv, NothingLost,
       TypeOK
  <2> QED BY <1>1, <2>1 DEF Identify, files, history, FilesInv, OnePlaceEach,
            HalfStaysHidden, Quarantine
<1>5. op'[i].pc = "insert" /\ op'[i].goal = op[i].goal
  BY <1>1, ItemTypes DEF Identify, Ops
<1>6. ItemInv(i)'
  BY <1>1, <1>2, <1>5 DEF Identify, files, history, ItemInv, RowComesFirst,
     PurgeIsAskedFor, Quarantine
<1>7. ASSUME NEW j \in Items, j # i PROVE ItemInv(j)'
  <2>1. SameItem(j)
    BY <1>3, <1>7 DEF Identify, files, history, SameItem
  <2> QED BY <2>1, IInvParts, SameItemStays
<1> QED BY <1>4, <1>6, <1>7, IInvPartsNext

-----------------------------------------------------------------------------
(* Steps of a helper *)

\* An item after its helper ended, with what the step did in quarantine.
LEMMA EndsKeeps ==
  ASSUME IInv, NEW i \in Items, NEW w \in Workers, NEW result \in Results,
         helper[i][w].job # "none", Ends(i, w, result),
         UNCHANGED <<rows, purgeAsked>>,
         at'[Quarantine(i)] \in {None, ident[i]}
  PROVE  /\ ItemInv(i)'
         /\ \A j \in Items \ {i} : op'[j] = op[j] /\ helper'[j] = helper[j]
<1>1. TypeOK /\ ItemInv(i)
  BY IInvParts
<1>2. row[i] # "none" /\ (w = "own" => row[i] \in Pending)
  BY <1>1 DEF ItemInv, RowComesFirst
<1>3. /\ helper'[i][w] = NoHelper
      /\ \A v \in Workers \ {w} : helper'[i][v] = helper[i][v]
      /\ \A j \in Items \ {i} : helper'[j] = helper[j]
  BY <1>1, ItemTypes DEF Ends, Helpers
<1>4. /\ \A j \in Items \ {i} : op'[j] = op[j]
      /\ op'[i].goal = op[i].goal
      /\ w = "own" => op'[i].pc = "verify"
      /\ w # "own" => op'[i].pc = op[i].pc
  BY <1>1, ItemTypes DEF Ends, Ops
<1>5. "own" \in Workers
  BY DEF Workers
<1>6. RowComesFirst(i)'
  BY <1>1, <1>2, <1>3, <1>4, <1>5 DEF rows, ItemInv, RowComesFirst, NoHelper
<1>7. PurgeIsAskedFor(i)'
  BY <1>1, <1>3, <1>4 DEF rows, ItemInv, PurgeIsAskedFor, NoHelper, Quarantine
<1> QED BY <1>3, <1>4, <1>6, <1>7 DEF ItemInv

\* A purge that has its file in quarantine goes on to delete it.
LEMMA ToDeleteKeeps ==
  ASSUME IInv, NEW i \in Items, NEW w \in Workers,
         helper[i][w].job = "purge",
         helper' = [helper EXCEPT ![i][w].phase = "delete"],
         UNCHANGED <<op, rows, purgeAsked>>,
         at'[Quarantine(i)] \in {None, ident[i]}
  PROVE  /\ ItemInv(i)'
         /\ \A j \in Items \ {i} : helper'[j] = helper[j]
<1>1. TypeOK /\ ItemInv(i)
  BY IInvParts
<1>2. row[i] # "none"
  BY <1>1 DEF ItemInv, RowComesFirst
<1>3. /\ helper'[i][w].job = "purge" /\ helper'[i][w].phase = "delete"
      /\ \A v \in Workers \ {w} : helper'[i][v] = helper[i][v]
      /\ \A j \in Items \ {i} : helper'[j] = helper[j]
  BY <1>1, ItemTypes DEF Helpers, HelperStates
<1>4. "own" \in Workers
  BY DEF Workers
<1>5. RowComesFirst(i)'
  BY <1>1, <1>2, <1>3, <1>4 DEF rows, ItemInv, RowComesFirst
<1>6. PurgeIsAskedFor(i)'
  BY <1>1, <1>3 DEF rows, ItemInv, PurgeIsAskedFor, Quarantine
<1> QED BY <1>3, <1>5, <1>6 DEF ItemInv

\* A helper that resumes works on what it was given.
LEMMA ResumesKeeps ==
  ASSUME IInv, TypeOK', NEW i \in Items, NEW w \in Workers, Resumes(i, w)
  PROVE  IInv'
<1>1. /\ helper[i][w].job = "purge" /\ "identity_changed" \in Results
      /\ UNCHANGED <<rows, purgeAsked, at, half, made, discarded, ident, row>>
  BY DEF Resumes, files, rows, history, Results
<1>2. at'[Quarantine(i)] \in {None, ident[i]}
  BY <1>1, IInvParts DEF ItemInv, PurgeIsAskedFor
<1>3. CASE Ends(i, w, "identity_changed")
  <2>1. /\ ItemInv(i)'
        /\ \A j \in Items \ {i} : op'[j] = op[j] /\ helper'[j] = helper[j]
    BY <1>1, <1>2, <1>3, EndsKeeps
  <2> QED BY <1>1, <2>1, OneItemStep
<1>4. CASE /\ helper' = [helper EXCEPT ![i][w].phase = "delete"]
           /\ UNCHANGED op
  <2>1. /\ ItemInv(i)'
        /\ \A j \in Items \ {i} : helper'[j] = helper[j]
    BY <1>1, <1>2, <1>4, ToDeleteKeeps
  <2> QED BY <1>1, <1>4, <2>1, OneItemStep
<1> QED BY <1>3, <1>4 DEF Resumes

\* One that fails changes no file.
LEMMA HelperFailsKeeps ==
  ASSUME IInv, TypeOK', NEW i \in Items, NEW w \in Workers, HelperFails(i, w)
  PROVE  IInv'
<1>1. /\ helper[i][w].job # "none" /\ "io" \in Results /\ Ends(i, w, "io")
      /\ UNCHANGED <<rows, purgeAsked, at, half, made, discarded, ident, row>>
  BY DEF HelperFails, files, rows, history, Results
<1>2. at'[Quarantine(i)] \in {None, ident[i]}
  BY <1>1, IInvParts DEF ItemInv, PurgeIsAskedFor
<1>3. /\ ItemInv(i)'
      /\ \A j \in Items \ {i} : op'[j] = op[j] /\ helper'[j] = helper[j]
  BY <1>1, <1>2, EndsKeeps
<1> QED BY <1>1, <1>3, OneItemStep

\* A file that moves to a free path is still in one place, and whole.
LEMMA MoveKeepsFiles ==
  ASSUME TypeOK, FilesInv, NEW from \in Paths, NEW to \in Paths,
         at[from] \notin half, at[to] = None, from # to,
         at' = [at EXCEPT ![from] = None, ![to] = at[from]],
         UNCHANGED <<half, ident, made, discarded, purgeAsked>>
  PROVE  FilesInv'
<1>1. /\ at'[to] = at[from] /\ at'[from] = None
      /\ \A p \in Paths \ {from, to} : at'[p] = at[p]
  BY DEF TypeOK
<1>2. None \notin half
  BY TrashAssumption DEF TypeOK
<1>3. OnePlaceEach'
  BY ZenonT(60), <1>1 DEF FilesInv, OnePlaceEach
<1>4. NothingLost'
  <2> SUFFICES ASSUME NEW f \in made
               PROVE \/ \E p \in Paths : at'[p] = f
                     \/ f \in discarded
                     \/ \E i \in purgeAsked : ident[i] = f
    BY DEF NothingLost
  <2>1. CASE \E p \in Paths : at[p] = f
    <3>1. f # None
      BY TrashAssumption DEF TypeOK
    <3> QED BY <1>1, <2>1, <3>1
  <2>2. CASE ~ \E p \in Paths : at[p] = f
    BY <2>2 DEF FilesInv, NothingLost
  <2> QED BY <2>1, <2>2
<1>5. HalfStaysHidden'
  BY <1>1, <1>2 DEF FilesInv, HalfStaysHidden, Quarantine
<1> QED BY <1>3, <1>4, <1>5 DEF FilesInv

\* A rename to a free path neither copies nor loses.
LEMMA HelperMovesKeeps ==
  ASSUME IInv, TypeOK', NEW i \in Items, NEW w \in Workers, HelperMoves(i, w)
  PROVE  IInv'
<1> DEFINE job == helper[i][w].job
           from == From(job, i)
           to == To(job, i)
<1>1. TypeOK /\ FilesInv /\ ItemInv(i)
  BY IInvParts
<1>2. /\ job \in Jobs /\ job # "none"
      /\ from \in Paths /\ to \in Paths /\ from # to
  <2>1. job \in Jobs
    BY <1>1, ItemTypes DEF HelperMoves, HelperStates
  <2>2. from # to
    BY PathsDistinct DEF From, To
  <2> QED BY <2>1, <2>2, PlaceTyped DEF HelperMoves
<1>3. /\ UNCHANGED <<rows, purgeAsked, half, made, discarded, ident, row>>
      /\ {"ok", "exists", "identity_changed", "not_found"} \subseteq Results
      /\ Moves(i, w, from, to)
  BY DEF HelperMoves, rows, history, Results
<1>4. CASE at' = at
  <2>1. \E result \in Results : Ends(i, w, result)
    <3>1. CASE at[from] = None
      BY <1>3, <3>1 DEF Moves
    <3>2. CASE at[from] # None /\ Look(from, i) \in {"other", "core"}
      BY <1>3, <3>2 DEF Moves
    <3>3. CASE at[from] # None /\ Look(from, i) = "same" /\ at[to] # None
      BY <1>3, <3>3 DEF Moves
    <3>4. CASE at[from] # None /\ at[to] = None
               /\ Look(from, i) \notin {"other", "core"}
      BY <1>1, <1>2, <1>3, <1>4, <3>4 DEF Moves, TypeOK
    <3> QED BY <3>1, <3>2, <3>3, <3>4 DEF Look
  <2>2. at'[Quarantine(i)] \in {None, ident[i]}
    BY <1>1, <1>4 DEF ItemInv, PurgeIsAskedFor
  <2>3. /\ ItemInv(i)'
        /\ \A j \in Items \ {i} : op'[j] = op[j] /\ helper'[j] = helper[j]
    BY <1>2, <1>3, <2>1, <2>2, EndsKeeps
  <2> QED BY <1>3, <1>4, <2>3, OneItemStep
<1>5. CASE at' # at
  <2>1. /\ at' = [at EXCEPT ![from] = None, ![to] = at[from]]
        /\ at[from] # None /\ Look(from, i) \notin {"other", "core"}
        /\ ~(Look(from, i) = "same" /\ at[to] # None)
        /\ IF job = "purge"
           THEN helper' = [helper EXCEPT ![i][w].phase = "delete"]
                /\ UNCHANGED op
           ELSE Ends(i, w, "ok")
    BY <1>3, <1>5 DEF Moves
  <2>2. at[from] = ident[i] /\ at[from] \notin half /\ at[to] = None
    BY <2>1 DEF Look
  <2>3. FilesInv'
    BY <1>1, <1>2, <1>3, <2>1, <2>2, MoveKeepsFiles
  <2>4. /\ at'[Quarantine(i)] \in {None, ident[i]}
        /\ \A j \in Items \ {i} : at'[Quarantine(j)] = at[Quarantine(j)]
    <3>1. at'[to] = ident[i] /\ \A p \in Paths \ {from, to} : at'[p] = at[p]
      BY <1>1, <1>2, <2>1, <2>2 DEF TypeOK
    <3>2. \A j \in Items : Quarantine(j) # from /\ (j # i => Quarantine(j) # to)
      BY PathsDistinct DEF From, To
    <3>3. at[Quarantine(i)] \in {None, ident[i]}
      BY <1>1 DEF ItemInv, PurgeIsAskedFor
    <3> QED BY <3>1, <3>2, <3>3, PathsKnown
  <2>5. /\ ItemInv(i)'
        /\ \A j \in Items \ {i} : op'[j] = op[j] /\ helper'[j] = helper[j]
    <3>1. CASE job = "purge"
      BY <1>3, <2>1, <2>4, <3>1, ToDeleteKeeps
    <3>2. CASE job # "purge"
      BY <1>2, <1>3, <2>1, <2>4, <3>2, EndsKeeps
    <3> QED BY <3>1, <3>2
  <2>6. ASSUME NEW j \in Items, j # i PROVE ItemInv(j)'
    <3>1. SameItem(j)
      BY <1>3, <2>4, <2>5, <2>6 DEF SameItem, rows
    <3> QED BY <3>1, IInvParts, SameItemStays
  <2> QED BY <2>3, <2>5, <2>6, IInvPartsNext
<1> QED BY <1>4, <1>5

\* Only what is in quarantine is taken away.
LEMMA EmptiesKeeps ==
  ASSUME IInv, TypeOK', NEW i \in Items, NEW w \in Workers, Empties(i, w)
  PROVE  IInv'
<1>1. TypeOK /\ FilesInv
  BY IInvParts
<1>2. OnePlaceEach' /\ NothingLost'
  BY <1>1, PathsKnown DEF Empties, rows, history, FilesInv, OnePlaceEach,
     NothingLost
<1>3. HalfStaysHidden'
  <2> SUFFICES ASSUME NEW p \in Paths, at'[p] \in half'
               PROVE \E j \in Items : p = Quarantine(j)
    BY DEF HalfStaysHidden, Quarantine
  <2>1. CASE at[p] \in half
    BY <1>1, <2>1 DEF FilesInv, HalfStaysHidden
  <2>2. CASE at[p] = at[Quarantine(i)]
    <3>1. p = Quarantine(i)
      BY <1>1, <2>2, PathsKnown DEF Empties, FilesInv, OnePlaceEach
    <3> QED BY <3>1
  <2> QED BY <2>1, <2>2 DEF Empties
<1>4. ASSUME NEW j \in Items PROVE ItemInv(j)'
  <2>1. SameItem(j)
    BY DEF Empties, rows, history, SameItem
  <2> QED BY <2>1, IInvParts, SameItemStays
<1> QED BY <1>2, <1>3, <1>4, IInvPartsNext DEF FilesInv

\* What goes for good was in quarantine, so somebody asked for it.
LEMMA DeletesKeeps ==
  ASSUME IInv, TypeOK', NEW i \in Items, NEW w \in Workers, Deletes(i, w)
  PROVE  IInv'
<1>1. TypeOK /\ FilesInv /\ ItemInv(i)
  BY IInvParts
<1>2. /\ helper[i][w].job = "purge" /\ i \in purgeAsked
      /\ at[Quarantine(i)] \in {None, ident[i]}
  BY <1>1 DEF Deletes, ItemInv, PurgeIsAskedFor
<1>3. /\ at'[Quarantine(i)] = None
      /\ \A p \in Paths \ {Quarantine(i)} : at'[p] = at[p]
  BY <1>1, PathsKnown DEF Deletes, TypeOK
<1>4. OnePlaceEach'
  BY <1>1, <1>3 DEF Deletes, history, FilesInv, OnePlaceEach
<1>5. NothingLost'
  <2> SUFFICES ASSUME NEW f \in made
               PROVE \/ \E p \in Paths : at'[p] = f
                     \/ f \in discarded
                     \/ \E j \in purgeAsked : ident[j] = f
    BY DEF NothingLost, Deletes, rows, history
  <2>1. f # None
    BY <1>1, TrashAssumption DEF TypeOK
  <2>2. CASE at[Quarantine(i)] = f
    BY <1>2, <2>1, <2>2
  <2>3. CASE at[Quarantine(i)] # f /\ \E p \in Paths : at[p] = f
    BY <1>3, <2>3
  <2>4. CASE ~ \E p \in Paths : at[p] = f
    BY <1>1, <2>4 DEF FilesInv, NothingLost
  <2> QED BY <2>2, <2>3, <2>4
<1>6. HalfStaysHidden'
  BY <1>1, <1>3, <1>2 DEF Deletes, FilesInv, HalfStaysHidden, Quarantine
<1>7. /\ ItemInv(i)'
      /\ \A j \in Items \ {i} : op'[j] = op[j] /\ helper'[j] = helper[j]
  <2>1. \E result \in Results : Ends(i, w, result)
    BY DEF Deletes, Results
  <2>2. UNCHANGED <<rows, purgeAsked>>
    BY DEF Deletes, history
  <2> QED BY <1>2, <1>3, <2>1, <2>2, EndsKeeps
<1>8. ASSUME NEW j \in Items, j # i PROVE ItemInv(j)'
  <2>1. at'[Quarantine(j)] = at[Quarantine(j)]
    BY <1>3, <1>8, PathsKnown, PathsDistinct
  <2>2. SameItem(j)
    BY <1>7, <1>8, <2>1 DEF Deletes, rows, history, SameItem
  <2> QED BY <2>2, IInvParts, SameItemStays
<1> QED BY <1>4, <1>5, <1>6, <1>7, <1>8, IInvPartsNext DEF FilesInv

-----------------------------------------------------------------------------
(* The service and the user *)

\* A restart changes no file and no row.
LEMMA RestartKeeps == ASSUME IInv, TypeOK', Restart PROVE IInv'
<1>1. FilesInv'
  BY IInvParts, FilesStay DEF Restart, files, rows, history
<1>2. ASSUME NEW i \in Items PROVE ItemInv(i)'
  <2>1. TypeOK /\ ItemInv(i)
    BY IInvParts
  <2>2. op'[i] = Idle
    BY DEF Restart
  <2>3. /\ helper'[i]["own"] = NoHelper
        /\ helper'[i]["survivor"] \in {NoHelper, helper[i]["own"],
                                      helper[i]["survivor"]}
    BY DEF Restart
  <2>4. RowComesFirst(i)'
    BY <2>1, <2>2, <2>3 DEF Restart, files, rows, history, ItemInv,
       RowComesFirst, Idle, NoHelper, Workers, Quarantine
  <2>5. PurgeIsAskedFor(i)'
    BY <2>1, <2>2, <2>3 DEF Restart, files, rows, history, ItemInv,
       PurgeIsAskedFor, Idle, NoHelper, Workers, Quarantine
  <2> QED BY <2>4, <2>5 DEF ItemInv
<1> QED BY <1>1, <1>2, IInvPartsNext

\* What a user writes is a file that lies nowhere else.
LEMMA UserWritesKeeps ==
  ASSUME IInv, TypeOK', NEW p \in Paths, NEW f \in Files, UserWrites(p, f)
  PROVE  IInv'
<1>1. TypeOK /\ FilesInv
  BY IInvParts
<1>2. \A i \in Items : p # Quarantine(i)
  BY PathsDistinct DEF UserWrites
<1>3. at'[p] = f /\ \A q \in Paths \ {p} : at'[q] = at[q]
  BY <1>1 DEF UserWrites, TypeOK
<1>4. f # None /\ \A q \in Paths : at[q] # f
  BY <1>1, TrashAssumption DEF UserWrites, FilesInv, OnePlaceEach
<1>5. OnePlaceEach'
  BY <1>1, <1>3, <1>4 DEF UserWrites, FilesInv, OnePlaceEach
<1>6. NothingLost'
  <2> SUFFICES ASSUME NEW g \in made \cup {f}
               PROVE \/ \E q \in Paths : at'[q] = g
                     \/ g \in discarded \cup {at[p]}
                     \/ \E i \in purgeAsked : ident[i] = g
    BY DEF NothingLost, UserWrites, rows
  <2>1. CASE g = f
    BY <1>3, <2>1
  <2>2. CASE g # f /\ \E q \in Paths : at[q] = g
    BY <1>3, <2>2
  <2>3. CASE g # f /\ ~ \E q \in Paths : at[q] = g
    BY <1>1, <2>3 DEF FilesInv, NothingLost
  <2> QED BY <2>1, <2>2, <2>3
<1>7. HalfStaysHidden'
  <2>1. f \notin half
    BY <1>1 DEF UserWrites, FilesInv, OnePlaceEach
  <2> QED BY <1>1, <1>3, <2>1 DEF UserWrites, FilesInv, HalfStaysHidden,
            Quarantine
<1>8. ASSUME NEW i \in Items PROVE ItemInv(i)'
  <2>1. SameItem(i)
    BY <1>2, <1>3, PathsKnown DEF UserWrites, rows, SameItem
  <2> QED BY <2>1, IInvParts, SameItemStays
<1> QED BY <1>5, <1>6, <1>7, <1>8, IInvPartsNext DEF FilesInv

\* What a user removes is gone at the user's will.
LEMMA UserRemovesKeeps == ASSUME IInv, TypeOK', UserRemoves PROVE IInv'
<1>1. TypeOK /\ FilesInv /\ Original \in Paths
  BY IInvParts DEF Paths
<1>2. at'[Original] = None /\ \A q \in Paths \ {Original} : at'[q] = at[q]
  BY <1>1 DEF UserRemoves, TypeOK
<1>3. OnePlaceEach'
  BY <1>1, <1>2 DEF UserRemoves, FilesInv, OnePlaceEach
<1>4. NothingLost'
  <2> SUFFICES ASSUME NEW g \in made
               PROVE \/ \E q \in Paths : at'[q] = g
                     \/ g \in discarded \cup {at[Original]}
                     \/ \E i \in purgeAsked : ident[i] = g
    BY DEF NothingLost, UserRemoves, rows
  <2>1. CASE \E q \in Paths : at[q] = g
    BY <1>2, <2>1
  <2>2. CASE ~ \E q \in Paths : at[q] = g
    BY <1>1, <2>2 DEF FilesInv, NothingLost
  <2> QED BY <2>1, <2>2
<1>5. HalfStaysHidden'
  <2>1. None \notin half
    BY <1>1, TrashAssumption DEF TypeOK
  <2> QED BY <1>1, <1>2, <2>1 DEF UserRemoves, FilesInv, HalfStaysHidden,
            Quarantine
<1>6. ASSUME NEW i \in Items PROVE ItemInv(i)'
  <2>1. SameItem(i)
    BY <1>2, PathsKnown, PathsDistinct DEF UserRemoves, rows, SameItem
  <2> QED BY <2>1, IInvParts, SameItemStays
<1> QED BY <1>3, <1>4, <1>5, <1>6, IInvPartsNext DEF FilesInv

-----------------------------------------------------------------------------
(* The theorems *)

\* At the start the trash is empty.
LEMMA InitTrash == Init => IInv
<1> SUFFICES ASSUME Init PROVE IInv
  OBVIOUS
<1>1. TypeOK
  BY InitTyped
<1>2. at[Original] = FirstFile /\ \A p \in Paths \ {Original} : at[p] = None
  BY DEF Init, Paths
<1>3. OnePlaceEach
  BY <1>2, TrashAssumption DEF Init, OnePlaceEach
<1>4. NothingLost /\ HalfStaysHidden
  BY <1>2 DEF Init, NothingLost, HalfStaysHidden, Paths
<1>5. ASSUME NEW i \in Items
      PROVE  RowComesFirst(i) /\ PurgeIsAskedFor(i)
  <2>1. at[Quarantine(i)] = None
    BY <1>2, PathsKnown, PathsDistinct
  <2> QED BY <2>1 DEF Init, RowComesFirst, PurgeIsAskedFor, Idle, NoHelper,
            Workers
<1> QED BY <1>1, <1>3, <1>4, <1>5 DEF IInv

\* Every step keeps the invariant.
LEMMA NextTrash == ASSUME IInv, [Next]_vars PROVE IInv'
<1>1. TypeOK'
  BY IInvParts, NextTyped
<1>2. CASE UNCHANGED vars
  <2>1. FilesInv'
    BY <1>2, IInvParts, FilesStay DEF vars, files, rows, history
  <2>2. \A i \in Items : SameItem(i)
    BY <1>2 DEF vars, files, rows, history, SameItem
  <2> QED BY <1>1, <2>1, <2>2, IInvParts, SameItemStays, IInvPartsNext
<1>3. CASE Next
  BY <1>1, <1>3, RequestKeeps, IdentifyKeeps, DecideKeeps, VerifyKeeps,
     ResumesKeeps, HelperMovesKeeps, EmptiesKeeps, DeletesKeeps,
     HelperFailsKeeps, RestartKeeps, UserWritesKeeps, UserRemovesKeeps
  DEF Next, Work
<1> QED BY <1>2, <1>3

\* The inductive invariant of the trash: types, one place for each file, the
\* row before everything else, the purge asked for before quarantine.
THEOREM TrashInvariant == Spec => []IInv
<1>1. Init => IInv
  BY InitTrash
<1>2. IInv /\ [Next]_vars => IInv'
  BY NextTrash
<1> QED BY <1>1, <1>2, PTL DEF Spec

\* No collision, crash, lost answer or repeated request loses a file: it
\* takes the user or a purge that was asked for (file-trash.ts, and
\* RENAME_NOREPLACE in deckterm-fs-helper).
THEOREM TrashNothingLost == Spec => []NothingLost
<1>1. IInv => NothingLost
  BY DEF IInv
<1> QED BY <1>1, TrashInvariant, PTL

\* A directory that a purge has begun to empty is only ever in quarantine
\* (op_delete_exact renames before it removes).
THEOREM TrashHalfStaysHidden == Spec => []HalfStaysHidden
<1>1. IInv => HalfStaysHidden
  BY DEF IInv
<1> QED BY <1>1, TrashInvariant, PTL

-----------------------------------------------------------------------------
(* The list tells the truth *)

\* Nobody else has a hand in item i: no user in the trash, no old helper.
Alone(i) == i \notin meddled /\ i \notin outlived

InTrash(i) == at[Trash(i)] # None
InQuarantine(i) == at[Quarantine(i)] # None

\* What is in the trash is the recorded file, what is in quarantine is being
\* purged, a helper does what the row says, and a settled row is true.
PlaceTold(i) ==
  /\ helper[i]["survivor"].job = "none"
  /\ helper[i]["own"].job \in {"none", Job(i)}
  /\ at[Trash(i)] \in {None, ident[i]}
  /\ InQuarantine(i) => row[i] = "pending_purge"
  /\ row[i] \notin Pending => (row[i] = "ready" <=> InTrash(i))
  /\ op[i].pc = "insert" => row[i] = "none"

\* What a request has seen of the trash and of quarantine is still so: its own
\* helper is the only one to change it, and it does not run meanwhile.
SeesTrash(i, look) == look = "unread" \/ look = (IF InTrash(i) THEN "same" ELSE "none")

LooksTold(i) ==
  /\ op[i].pc \in {"idle", "insert"} => op[i].seen = Unread
  /\ op[i].pc \in {"look", "verify"} =>
       /\ Job(i) = "move" => SeesTrash(i, op[i].seen.to)
       /\ Job(i) # "move" => SeesTrash(i, op[i].seen.from)
       /\ Job(i) = "restore" /\ op[i].seen.to = "same" => ~InTrash(i)
       /\ Job(i) = "purge" =>
            op[i].seen.to \in {"unread"} \cup (IF InQuarantine(i) THEN {"same", "core"} ELSE {"none"})

\* What the helper said of a restore or a purge is so.
ResultTold(i) ==
  op[i].pc = "verify" =>
    /\ Job(i) = "restore" /\ op[i].result = "ok" => ~InTrash(i)
    /\ Job(i) = "restore" /\ op[i].result = "exists" => InTrash(i)
    /\ Job(i) = "purge" => op[i].result # "identity_changed"
    /\ Job(i) = "purge" /\ op[i].result = "ok" => ~InQuarantine(i)

Told(i) == Alone(i) => PlaceTold(i) /\ LooksTold(i) /\ ResultTold(i)

\* What is told of an item binds only while it is left alone.
LEMMA AloneNeeded ==
  ASSUME NEW i, Alone(i)' => PlaceTold(i)' /\ LooksTold(i)' /\ ResultTold(i)'
  PROVE  Told(i)'
BY DEF Told

SameTold(j) ==
  /\ row'[j] = row[j] /\ ident'[j] = ident[j] /\ op'[j] = op[j]
  /\ helper'[j] = helper[j]
  /\ at'[Trash(j)] = at[Trash(j)] /\ at'[Quarantine(j)] = at[Quarantine(j)]
  /\ Alone(j)' => Alone(j)

\* Where nothing changes, what was told is so.
LEMMA SameToldStays == ASSUME NEW j, Told(j), SameTold(j) PROVE Told(j)'
BY DEF Told, SameTold, PlaceTold, LooksTold, ResultTold, SeesTrash, InTrash,
   InQuarantine, Job, Trash, Quarantine

\* The jobs of pending rows.
LEMMA JobOfRow ==
  ASSUME NEW i
  PROVE  /\ Job(i) = "move" <=> row[i] = "pending_move"
         /\ Job(i) = "restore" <=> row[i] = "pending_restore"
         /\ row[i] \in Pending => (Job(i) = "purge" <=> row[i] = "pending_purge")
         /\ Job(i) \in Jobs
BY DEF Job, Jobs, Pending

\* What is known of an item that nobody else has a hand in.
LEMMA AloneFacts ==
  ASSUME IInv, NEW i \in Items, Told(i), Alone(i)
  PROVE  /\ PlaceTold(i) /\ LooksTold(i) /\ ResultTold(i)
         /\ TypeOK /\ ItemInv(i)
         /\ op[i].pc # "wait" => helper[i]["own"].job = "none"
         /\ op[i].pc \in {"look", "wait", "verify"} => row[i] \in Pending
         /\ helper[i]["survivor"].job = "none"
         /\ InQuarantine(i) => ~InTrash(i) /\ row[i] = "pending_purge"
         /\ at[Trash(i)] \notin half
<1>1. TypeOK /\ ItemInv(i) /\ FilesInv /\ PlaceTold(i) /\ LooksTold(i) /\ ResultTold(i)
  BY IInvParts DEF Told
<1>2. ASSUME InQuarantine(i) PROVE ~InTrash(i) /\ row[i] = "pending_purge"
  <2>1. at[Quarantine(i)] = ident[i]
    BY <1>1, <1>2 DEF InQuarantine, ItemInv, PurgeIsAskedFor
  <2>2. at[Trash(i)] \in {None, ident[i]} /\ row[i] = "pending_purge"
    BY <1>1, <1>2 DEF PlaceTold
  <2>3. at[Trash(i)] = at[Quarantine(i)] /\ at[Trash(i)] # None
          => Trash(i) = Quarantine(i)
    BY <1>1, PathsKnown DEF FilesInv, OnePlaceEach
  <2> QED BY <2>1, <2>2, <2>3, PathsDistinct DEF InTrash
<1>3. at[Trash(i)] \notin half
  BY <1>1, PathsKnown, PathsDistinct DEF FilesInv, HalfStaysHidden
<1>4. /\ op[i].pc # "wait" => helper[i]["own"].job = "none"
      /\ op[i].pc \in {"look", "wait", "verify"} => row[i] \in Pending
  BY <1>1 DEF ItemInv, RowComesFirst
<1> QED BY <1>1, <1>2, <1>3, <1>4 DEF PlaceTold

\* A request that has not looked yet, and one that is over.
LEMMA FreshTold ==
  ASSUME IInv, NEW i \in Items, Told(i),
         op[i].pc # "wait",
         at'[Trash(i)] = at[Trash(i)], at'[Quarantine(i)] = at[Quarantine(i)],
         helper'[i] = helper[i], Alone(i)' => Alone(i),
         Alone(i) /\ InTrash(i) => ident'[i] = ident[i],
         op'[i].seen = Unread, op'[i].pc \in {"idle", "insert", "look"},
         op'[i].pc = "insert" => row'[i] = "none",
         Alone(i) /\ InQuarantine(i) => row'[i] = "pending_purge",
         Alone(i) /\ row'[i] \notin Pending => (row'[i] = "ready" <=> InTrash(i))
  PROVE  Told(i)'
<1> SUFFICES ASSUME Alone(i)' PROVE PlaceTold(i)' /\ LooksTold(i)' /\ ResultTold(i)'
  BY AloneNeeded
<1>1. /\ PlaceTold(i) /\ Alone(i) /\ helper[i]["own"].job = "none"
      /\ helper[i]["survivor"].job = "none"
  BY AloneFacts
<1>2. PlaceTold(i)'
  BY <1>1 DEF PlaceTold, InTrash, InQuarantine, Trash, Quarantine
<1>3. LooksTold(i)'
  BY DEF LooksTold, SeesTrash, Unread
<1>4. ResultTold(i)'
  BY DEF ResultTold
<1> QED BY <1>2, <1>3, <1>4

\* The request's own steps keep what is told.
LEMMA RequestTold ==
  ASSUME IInv, NEW i \in Items, Told(i),
         \/ Identify(i) \/ Insert(i) \/ Reconcile(i) \/ LookFails(i)
         \/ \E goal \in {"restore", "purge"} : Request(i, goal)
  PROVE  Told(i)'
<1>1. TypeOK /\ op[i] \in Ops /\ op \in [Items -> Ops] /\ row \in [Items -> Statuses]
      /\ ident \in [Items -> Files \cup {None}]
  BY IInvParts, ItemTypes DEF TypeOK
<1>2. SUFFICES ASSUME Alone(i)' PROVE Told(i)'
  BY AloneNeeded
<1>3. Alone(i)
  BY <1>2 DEF Alone, Identify, Insert, Reconcile, LookFails, Request, history
<1>4. /\ op[i].pc \in {"idle", "insert"} => op[i].seen = Unread
      /\ op[i].pc = "insert" => row[i] = "none"
      /\ op[i].pc \in {"look", "wait", "verify"} => row[i] \in Pending
      /\ InQuarantine(i) => row[i] = "pending_purge"
      /\ row[i] \notin Pending => (row[i] = "ready" <=> InTrash(i))
  BY <1>3, AloneFacts DEF LooksTold, PlaceTold
<1>5. CASE Identify(i)
  <2>1. op'[i].pc = "insert" /\ op'[i].seen = op[i].seen /\ row' = row
    BY <1>1, <1>5 DEF Identify, Ops
  <2>2. row[i] = "none" /\ op[i].pc = "idle" /\ UNCHANGED <<at, helper>>
    BY <1>5 DEF Identify, files
  <2>3. ~InTrash(i) /\ ~InQuarantine(i)
    BY <1>4, <2>2 DEF Pending
  <2> QED BY <1>3, <1>4, <2>1, <2>2, <2>3, FreshTold DEF Pending
<1>6. CASE Insert(i)
  <2>1. /\ op'[i].pc = "look" /\ op'[i].seen = op[i].seen /\ row'[i] = "pending_move"
        /\ op[i].pc = "insert" /\ UNCHANGED <<at, helper, ident>>
    BY <1>1, <1>6 DEF Insert, Ops, files
  <2>2. ~InQuarantine(i)
    BY <1>4, <2>1
  <2> QED BY <1>3, <1>4, <2>1, <2>2, FreshTold DEF Pending
<1>7. CASE Reconcile(i)
  <2>1. /\ op'[i].pc = "look" /\ op'[i].seen = op[i].seen /\ row' = row
        /\ op[i].pc = "idle" /\ UNCHANGED <<at, helper, ident>>
    BY <1>1, <1>7 DEF Reconcile, Ops, files, rows
  <2> QED BY <1>3, <1>4, <2>1, FreshTold
<1>8. CASE LookFails(i)
  <2>1. /\ op'[i] = Idle /\ row' = row
        /\ op[i].pc \in {"look", "verify"} /\ UNCHANGED <<at, helper, ident>>
    BY <1>1, <1>8 DEF LookFails, GivesUp, files
  <2>2. Idle.pc = "idle" /\ Idle.seen = Unread
    BY DEF Idle
  <2> QED BY <1>3, <1>4, <2>1, <2>2, FreshTold
<1>9. ASSUME NEW goal \in {"restore", "purge"}, Request(i, goal) PROVE Told(i)'
  <2>1. /\ op'[i].pc = "look" /\ op'[i].seen = op[i].seen
        /\ op[i].pc = "idle" /\ UNCHANGED <<at, helper, ident>>
        /\ row[i] \in Pending => row'[i] = row[i]
        /\ row[i] \notin Pending => row[i] = "ready" /\ row'[i] \in Pending
    BY <1>1, <1>9 DEF Request, Ops, files, Pending
  <2>2. InQuarantine(i) => row[i] \in Pending
    BY <1>4 DEF Pending
  <2> QED BY <1>3, <1>4, <2>1, <2>2, FreshTold
<1> QED BY <1>5, <1>6, <1>7, <1>8, <1>9

\* The outcome that is written is the truth.
LEMMA SettleTold ==
  ASSUME IInv, NEW i \in Items, Told(i), Alone(i)' => Alone(i),
         NEW status \in {"ready", "error", "restored", "purged"}, NEW threw,
         op[i].pc \in {"look", "verify"}, Settle(i, status, threw),
         UNCHANGED <<at, ident, helper>>,
         Alone(i) => (status = "ready" <=> InTrash(i)) /\ ~InQuarantine(i)
  PROVE  Told(i)'
<1>1. op \in [Items -> Ops] /\ row \in [Items -> Statuses]
  BY IInvParts, ItemTypes
<1>2. Idle.pc = "idle" /\ Idle.seen = Unread
      /\ [Idle EXCEPT !.pc = "look"].pc = "look" /\ [Idle EXCEPT !.pc = "look"].seen = Unread
  BY DEF Idle
<1>3. CASE status = "ready" /\ ~threw /\ op[i].goal # "none"
  <2>1. row'[i] \in Pending /\ op'[i] = [Idle EXCEPT !.pc = "look"]
    BY <1>1, <1>3 DEF Settle, Pending
  <2> QED BY <1>2, <2>1, FreshTold
<1>4. CASE ~(status = "ready" /\ ~threw /\ op[i].goal # "none")
  <2>1. row'[i] = status /\ op'[i] = Idle /\ status \notin Pending
    BY <1>1, <1>4 DEF Settle, Pending
  <2> QED BY <1>2, <2>1, FreshTold
<1> QED BY <1>3, <1>4

\* Nothing is written: the row stays pending.
LEMMA GivesUpTold ==
  ASSUME IInv, NEW i \in Items, Told(i), Alone(i)' => Alone(i),
         op[i].pc \in {"look", "verify"}, GivesUp(i), UNCHANGED <<at, ident, helper>>
  PROVE  Told(i)'
<1>1. op'[i] = Idle /\ row' = row
  BY IInvParts, ItemTypes DEF GivesUp
<1>2. Idle.pc = "idle" /\ Idle.seen = Unread
  BY DEF Idle
<1>3. Alone(i) => /\ row[i] \in Pending
                  /\ InQuarantine(i) => row[i] = "pending_purge"
  BY AloneFacts
<1> QED BY <1>1, <1>2, <1>3, FreshTold

\* A helper starts with what the request saw.
LEMMA StartsTold ==
  ASSUME IInv, NEW i \in Items, Told(i), Alone(i)' => Alone(i),
         op[i].pc = "look", HelperStarts(i), UNCHANGED <<at, ident>>
  PROVE  Told(i)'
<1> SUFFICES ASSUME Alone(i)' PROVE PlaceTold(i)' /\ LooksTold(i)' /\ ResultTold(i)'
  BY AloneNeeded
<1>1. PlaceTold(i) /\ helper \in Helpers /\ op \in [Items -> Ops] /\ op[i] \in Ops
  BY IInvParts, AloneFacts, ItemTypes
<1>2. /\ helper'[i]["own"].job = Job(i) /\ helper'[i]["survivor"] = helper[i]["survivor"]
      /\ op'[i].pc = "wait" /\ row' = row
  BY <1>1 DEF HelperStarts, NoHelper, Helpers, Workers, Ops
<1>3. Job(i)' = Job(i)
  BY <1>2 DEF Job
<1>4. PlaceTold(i)'
  BY <1>1, <1>2, <1>3 DEF PlaceTold, InTrash, InQuarantine, Trash, Quarantine
<1> QED BY <1>2, <1>4 DEF LooksTold, ResultTold

\* What it decides rests on what was told.
LEMMA DecideTold ==
  ASSUME IInv, NEW i \in Items, Told(i), Decide(i) PROVE Told(i)'
<1> DEFINE from == op[i].seen.from
           to == op[i].seen.to
<1>1. /\ op[i].pc = "look" /\ UNCHANGED <<at, ident, meddled, outlived>>
      /\ to # "unread" /\ (from # "unread" \/ (Job(i) = "move" /\ to # "none"))
  BY DEF Decide, files, history
<1>2. Alone(i)' => Alone(i)
  BY <1>1 DEF Alone
<1>3. Alone(i) => /\ Job(i) = "move" => SeesTrash(i, to) /\ ~InQuarantine(i)
                  /\ Job(i) # "move" => SeesTrash(i, from)
                  /\ Job(i) = "restore" => ~InQuarantine(i)
                  /\ Job(i) = "restore" /\ to = "same" => ~InTrash(i)
                  /\ Job(i) = "purge" =>
                       to \in IF InQuarantine(i) THEN {"same", "core"} ELSE {"none"}
                  /\ InQuarantine(i) => ~InTrash(i)
  BY <1>1, AloneFacts, JobOfRow DEF LooksTold
<1>4. \/ HelperStarts(i)
      \/ \E status \in {"ready", "error", "restored", "purged"}, threw \in BOOLEAN :
           /\ Settle(i, status, threw) /\ UNCHANGED helper
           /\ Alone(i) => (status = "ready" <=> InTrash(i)) /\ ~InQuarantine(i)
  <2>1. CASE Job(i) = "move"
    <3>1. DecideMove(i, from, to)
      BY <2>1 DEF Decide
    <3>2. CASE to = "same"
      <4>1. Settle(i, "ready", FALSE) /\ UNCHANGED helper
        BY <3>1, <3>2 DEF DecideMove
      <4> QED BY <1>3, <2>1, <3>2, <4>1 DEF SeesTrash
    <3>3. CASE to # "same" /\ (to # "none" \/ from # "same")
      BY <1>1, <1>3, <2>1, <3>1, <3>3 DEF DecideMove, SeesTrash
    <3>4. CASE to = "none" /\ from = "same"
      BY <3>1, <3>4 DEF DecideMove
    <3> QED BY <3>2, <3>3, <3>4
  <2>2. CASE Job(i) = "restore"
    <3>1. DecideRestore(i, from, to)
      BY <2>2 DEF Decide
    <3>2. CASE to = "same" /\ from = "none"
      <4>1. Settle(i, "restored", FALSE) /\ UNCHANGED helper
        BY <3>1, <3>2 DEF DecideRestore
      <4> QED BY <1>3, <2>2, <3>2, <4>1
    <3>3. CASE ~(to = "same" /\ from = "none") /\ from # "same"
      <4>1. Settle(i, "error", FALSE) /\ UNCHANGED helper
        BY <3>1, <3>3 DEF DecideRestore
      <4>2. to # "same" \/ from # "none"
        BY <3>3
      <4> QED BY <1>1, <1>3, <2>2, <3>3, <4>1 DEF SeesTrash
    <3>4. CASE from = "same" /\ to # "none"
      BY <1>3, <2>2, <3>1, <3>4 DEF DecideRestore, SeesTrash
    <3>5. CASE from = "same" /\ to = "none"
      BY <3>1, <3>5 DEF DecideRestore
    <3> QED BY <3>2, <3>3, <3>4, <3>5
  <2>3. CASE Job(i) = "purge"
    <3>1. DecidePurge(i, from, to)
      BY <2>3 DEF Decide
    <3>2. CASE from = "none" /\ to = "none"
      BY <1>3, <2>3, <3>1, <3>2 DEF DecidePurge, SeesTrash
    <3>3. CASE to = "other" \/ (to = "none" /\ from \notin {"none", "same"})
      BY <1>1, <1>3, <2>3, <3>1, <3>3 DEF DecidePurge, SeesTrash
    <3>4. CASE ~(from = "none" /\ to = "none") /\ to # "other"
               /\ ~(to = "none" /\ from # "same")
      BY <3>1, <3>4 DEF DecidePurge
    <3> QED BY <3>2, <3>3, <3>4
  <2> QED BY <2>1, <2>2, <2>3, JobOfRow DEF Jobs
<1>5. CASE HelperStarts(i)
  BY <1>1, <1>2, <1>5, StartsTold
<1>6. ASSUME NEW status \in {"ready", "error", "restored", "purged"}, NEW threw \in BOOLEAN,
             Settle(i, status, threw), UNCHANGED helper,
             Alone(i) => (status = "ready" <=> InTrash(i)) /\ ~InQuarantine(i)
      PROVE  Told(i)'
  <2>1. UNCHANGED <<at, ident, helper>> /\ op[i].pc \in {"look", "verify"}
    BY <1>1, <1>6
  <2> QED BY <1>2, <1>6, <2>1, SettleTold
<1> QED BY <1>4, <1>5, <1>6

\* So does what is verified.
LEMMA VerifyTold ==
  ASSUME IInv, NEW i \in Items, Told(i), Verify(i) PROVE Told(i)'
<1> DEFINE from == op[i].seen.from
           to == op[i].seen.to
           result == op[i].result
<1>1. /\ op[i].pc = "verify" /\ UNCHANGED <<at, ident, helper, meddled, outlived>>
      /\ to # "unread" /\ (Job(i) = "purge" => from # "unread")
  BY DEF Verify, files, history
<1>2. Alone(i)' => Alone(i)
  BY <1>1 DEF Alone
<1>3. Alone(i) => /\ Job(i) = "move" => SeesTrash(i, to) /\ ~InQuarantine(i)
                  /\ Job(i) = "purge" => SeesTrash(i, from)
                  /\ Job(i) = "restore" => ~InQuarantine(i)
                  /\ Job(i) = "restore" /\ (to = "same" \/ result = "ok") => ~InTrash(i)
                  /\ Job(i) = "restore" /\ result = "exists" => InTrash(i)
                  /\ Job(i) = "purge" =>
                       /\ to \in IF InQuarantine(i) THEN {"same", "core"} ELSE {"none"}
                       /\ result # "identity_changed"
                       /\ result = "ok" => ~InQuarantine(i)
                  /\ InQuarantine(i) => ~InTrash(i)
  BY <1>1, AloneFacts, JobOfRow DEF LooksTold, ResultTold
<1>4. \/ GivesUp(i)
      \/ \E status \in {"ready", "error", "restored", "purged"}, threw \in BOOLEAN :
           /\ Settle(i, status, threw)
           /\ Alone(i) => (status = "ready" <=> InTrash(i)) /\ ~InQuarantine(i)
  <2>1. CASE Job(i) = "move"
    <3>1. VerifyMove(i, result, to)
      BY <2>1 DEF Verify
    <3>2. CASE to = "same"
      BY <1>3, <2>1, <3>1, <3>2 DEF VerifyMove, SeesTrash
    <3>3. CASE to # "same" /\ result \in {"ok", "exists", "identity_changed"}
      BY <1>1, <1>3, <2>1, <3>1, <3>3 DEF VerifyMove, SeesTrash
    <3>4. CASE to # "same" /\ result \notin {"ok", "exists", "identity_changed"}
      BY <3>1, <3>4 DEF VerifyMove
    <3> QED BY <3>2, <3>3, <3>4
  <2>2. CASE Job(i) = "restore"
    <3>1. VerifyRestore(i, result, to)
      BY <2>2 DEF Verify
    <3>2. CASE to = "same"
      BY <1>3, <2>2, <3>1, <3>2 DEF VerifyRestore
    <3>3. CASE to # "same" /\ result = "ok"
      BY <1>3, <2>2, <3>1, <3>3 DEF VerifyRestore
    <3>4. CASE to # "same" /\ result = "exists"
      BY <1>3, <2>2, <3>1, <3>4 DEF VerifyRestore
    <3>5. CASE to # "same" /\ result \notin {"ok", "exists"}
      BY <3>1, <3>5 DEF VerifyRestore
    <3> QED BY <3>2, <3>3, <3>4, <3>5
  <2>3. CASE Job(i) = "purge"
    <3>1. VerifyPurge(i, result, from, to)
      BY <2>3 DEF Verify
    <3>2. CASE from = "none" /\ to = "none"
      BY <1>3, <2>3, <3>1, <3>2 DEF VerifyPurge, SeesTrash
    <3>3. CASE from = "same" /\ to = "none" /\ result = "ok"
      BY <1>3, <2>3, <3>1, <3>3 DEF VerifyPurge, SeesTrash
    <3>4. CASE from = "same" /\ to = "none" /\ result \notin {"ok", "identity_changed"}
      BY <1>3, <2>3, <3>1, <3>4 DEF VerifyPurge, SeesTrash
    <3>5. CASE /\ from \in {"none", "same"} /\ to \in {"same", "core"}
               /\ result \notin {"ok", "identity_changed"}
      BY <3>1, <3>5 DEF VerifyPurge
    <3>6. CASE /\ ~(from = "none" /\ to = "none")
               /\ ~(from = "same" /\ to = "none" /\ result # "identity_changed")
               /\ ~(/\ from \in {"none", "same"} /\ to \in {"same", "core"}
                    /\ result \notin {"ok", "identity_changed"})
      <4>1. ~Alone(i)
        BY <1>1, <1>3, <2>3, <3>6 DEF SeesTrash
      <4>2. Settle(i, "error", FALSE)
        BY <3>1, <3>6 DEF VerifyPurge
      <4> QED BY <4>1, <4>2
    <3> QED BY <3>2, <3>3, <3>4, <3>5, <3>6
  <2> QED BY <2>1, <2>2, <2>3, JobOfRow DEF Jobs
<1>5. CASE GivesUp(i)
  BY <1>1, <1>2, <1>5, GivesUpTold
<1>6. ASSUME NEW status \in {"ready", "error", "restored", "purged"}, NEW threw \in BOOLEAN,
             Settle(i, status, threw),
             Alone(i) => (status = "ready" <=> InTrash(i)) /\ ~InQuarantine(i)
      PROVE  Told(i)'
  BY <1>1, <1>2, <1>6, SettleTold
<1> QED BY <1>4, <1>5, <1>6

\* A look changes one side of what was seen, and nothing else.
LEMMA SeesChanges ==
  ASSUME TypeOK, NEW i \in Items, NEW side \in {"from", "to"}, NEW look \in Looks,
         op' = [op EXCEPT ![i].seen[side] = look]
  PROVE  /\ op'[i].pc = op[i].pc /\ op'[i].result = op[i].result
         /\ op'[i].seen[side] = look
         /\ \A other \in {"from", "to"} \ {side} : op'[i].seen[other] = op[i].seen[other]
         /\ \A j \in Items \ {i} : op'[j] = op[j]
<1>1. op \in [Items -> Ops] /\ op[i] \in Ops
  BY ItemTypes
<1>2. op'[i] = [op[i] EXCEPT !.seen = [op[i].seen EXCEPT ![side] = look]]
  BY <1>1
<1>3. op[i].seen \in [from : Looks, to : Looks]
  BY <1>1 DEF Ops
<1>4. /\ op'[i].pc = op[i].pc /\ op'[i].result = op[i].result
      /\ op'[i].seen = [op[i].seen EXCEPT ![side] = look]
  BY <1>1, <1>2 DEF Ops
<1> QED BY <1>1, <1>3, <1>4

\* What a request sees of the trash and of quarantine.
LEMMA LookAlone ==
  ASSUME IInv, NEW i \in Items, Told(i), Alone(i)
  PROVE  /\ SeesTrash(i, Look(Trash(i), i))
         /\ Look(Quarantine(i), i) \in IF InQuarantine(i) THEN {"same", "core"} ELSE {"none"}
         /\ Look(Original, i) = "same" => ~InTrash(i)
<1>1. /\ at[Trash(i)] \in {None, ident[i]} /\ at[Trash(i)] \notin half
      /\ at[Quarantine(i)] \in {None, ident[i]} /\ OnePlaceEach
  BY AloneFacts, IInvParts DEF PlaceTold, ItemInv, PurgeIsAskedFor, FilesInv
<1>2. SeesTrash(i, Look(Trash(i), i))
  BY <1>1 DEF SeesTrash, InTrash, Look
<1>3. Look(Quarantine(i), i) \in IF InQuarantine(i) THEN {"same", "core"} ELSE {"none"}
  BY <1>1 DEF InQuarantine, Look
<1>4. ASSUME Look(Original, i) = "same" PROVE ~InTrash(i)
  <2>1. at[Original] = ident[i] /\ at[Original] # None
    BY <1>4 DEF Look
  <2>2. at[Trash(i)] # ident[i]
    BY <1>1, <2>1, PathsKnown, PathsDistinct DEF OnePlaceEach
  <2> QED BY <1>1, <2>2 DEF InTrash
<1> QED BY <1>2, <1>3, <1>4

\* A look sees what is there.
LEMMA LooksKeepTold ==
  ASSUME IInv, NEW i \in Items, Told(i), LooksTo(i) \/ LooksFrom(i)
  PROVE  Told(i)'
<1>1. SUFFICES ASSUME Alone(i)' PROVE PlaceTold(i)' /\ LooksTold(i)' /\ ResultTold(i)'
  BY AloneNeeded
<1>2. /\ UNCHANGED <<at, half, row, ident, helper, meddled, outlived>>
      /\ op[i].pc \in {"look", "verify"} /\ TypeOK
  BY IInvParts DEF LooksTo, LooksFrom, files, rows, history
<1>3. Alone(i) /\ PlaceTold(i) /\ LooksTold(i) /\ ResultTold(i)
  BY <1>1, <1>2, AloneFacts DEF Alone
<1>4. \/ /\ LooksTo(i) /\ op'[i].pc = op[i].pc /\ op'[i].result = op[i].result
         /\ op'[i].seen.to = Look(To(Job(i), i), i) /\ op'[i].seen.from = op[i].seen.from
      \/ /\ LooksFrom(i) /\ op'[i].pc = op[i].pc /\ op'[i].result = op[i].result
         /\ op'[i].seen.from = Look(From(Job(i), i), i) /\ op'[i].seen.to = op[i].seen.to
  <2>1. CASE LooksTo(i)
    BY <1>2, <2>1, SeesChanges, LookTyped DEF LooksTo, Sees
  <2>2. CASE LooksFrom(i)
    <3> DEFINE look == Look(From(Job(i), i), i)
    <3>1. op' = [op EXCEPT ![i].seen["from"] = look] /\ look \in Looks
      BY <2>2, LookTyped DEF LooksFrom, Sees
    <3> HIDE DEF look
    <3>2. /\ op'[i].pc = op[i].pc /\ op'[i].result = op[i].result /\ op'[i].seen.from = look
          /\ op'[i].seen.to = op[i].seen.to
      BY ZenonT(60), <1>2, <3>1, SeesChanges
    <3> QED BY <2>2, <3>2 DEF look
  <2> QED BY <2>1, <2>2
<1>5. Job(i)' = Job(i) /\ InTrash(i)' = InTrash(i) /\ InQuarantine(i)' = InQuarantine(i)
  BY <1>2 DEF Job, InTrash, InQuarantine, Trash, Quarantine
<1>6. PlaceTold(i)'
  BY <1>2, <1>3, <1>4, <1>5 DEF PlaceTold, Trash
<1>7. ResultTold(i)'
  BY <1>3, <1>4, <1>5 DEF ResultTold
<1>8. LooksTold(i)'
  <2>1. /\ SeesTrash(i, Look(Trash(i), i))
        /\ Look(Quarantine(i), i) \in IF InQuarantine(i) THEN {"same", "core"} ELSE {"none"}
        /\ Look(Original, i) = "same" => ~InTrash(i)
    BY <1>3, LookAlone
  <2>2. /\ Job(i) = "move" => To(Job(i), i) = Trash(i)
        /\ Job(i) = "restore" => To(Job(i), i) = Original
        /\ Job(i) = "purge" => To(Job(i), i) = Quarantine(i)
        /\ Job(i) # "move" => From(Job(i), i) = Trash(i)
    BY DEF To, From
  <2> QED BY <1>2, <1>3, <1>4, <1>5, <2>1, <2>2 DEF LooksTold, SeesTrash
<1> QED BY <1>6, <1>7, <1>8

\* A lost answer settles nothing.
LEMMA AnswerLostTold ==
  ASSUME IInv, NEW i \in Items, Told(i), AnswerLost(i) PROVE Told(i)'
<1>1. SUFFICES ASSUME Alone(i)' PROVE PlaceTold(i)' /\ LooksTold(i)' /\ ResultTold(i)'
  BY AloneNeeded
<1>2. /\ UNCHANGED <<at, row, ident, helper, meddled, outlived>>
      /\ op \in [Items -> Ops] /\ op[i] \in Ops
  BY IInvParts, ItemTypes DEF AnswerLost, files, rows, history
<1>3. Alone(i) /\ PlaceTold(i) /\ LooksTold(i)
  BY <1>1, <1>2, AloneFacts DEF Alone
<1>4. op'[i].pc = op[i].pc /\ op'[i].seen = op[i].seen /\ op'[i].result = "io"
  BY <1>2 DEF AnswerLost, Ops
<1>5. Job(i)' = Job(i) /\ InTrash(i)' = InTrash(i) /\ InQuarantine(i)' = InQuarantine(i)
  BY <1>2 DEF Job, InTrash, InQuarantine, Trash, Quarantine
<1>6. PlaceTold(i)' /\ ResultTold(i)'
  BY <1>2, <1>3, <1>4, <1>5 DEF PlaceTold, ResultTold, Trash
<1>7. LooksTold(i)'
  BY <1>3, <1>4, <1>5 DEF LooksTold, SeesTrash
<1> QED BY <1>6, <1>7

\* What the last step of a helper leaves, and what it says of it.
LEMMA EndsTold ==
  ASSUME IInv, NEW i \in Items, NEW w \in Workers, NEW result \in Results, Told(i),
         Alone(i)' => Alone(i),
         helper[i][w].job # "none", Ends(i, w, result), UNCHANGED rows,
         Alone(i) =>
           /\ at'[Trash(i)] \in {None, ident[i]}
           /\ at'[Quarantine(i)] # None => row[i] = "pending_purge"
           /\ Job(i) = "restore" /\ result = "ok" => at'[Trash(i)] = None
           /\ Job(i) = "restore" /\ result = "exists" => at'[Trash(i)] # None
           /\ Job(i) = "purge" => result # "identity_changed"
           /\ Job(i) = "purge" /\ result = "ok" => at'[Quarantine(i)] = None
  PROVE  Told(i)'
<1>1. SUFFICES ASSUME Alone(i)' PROVE PlaceTold(i)' /\ LooksTold(i)' /\ ResultTold(i)'
  BY AloneNeeded
<1>2. /\ Alone(i) /\ PlaceTold(i) /\ helper[i]["survivor"].job = "none"
      /\ op[i].pc # "wait" => helper[i]["own"].job = "none"
      /\ op[i].pc = "wait" => row[i] \in Pending
  BY <1>1, AloneFacts
<1>3. w = "own" /\ row[i] \in Pending /\ op[i].pc = "wait"
  BY <1>2 DEF Workers
<1>4. /\ op \in [Items -> Ops] /\ op[i] \in Ops /\ helper \in Helpers
  BY IInvParts, ItemTypes
<1>5. /\ helper'[i]["own"] = NoHelper /\ helper'[i]["survivor"] = helper[i]["survivor"]
      /\ op'[i].pc = "verify" /\ op'[i].seen = Unread /\ op'[i].result = result
  BY <1>3, <1>4 DEF Ends, Helpers, Workers, Ops
<1>6. Job(i)' = Job(i) /\ row' = row /\ ident' = ident
  BY DEF Job, rows
<1>7. PlaceTold(i)'
  BY <1>2, <1>3, <1>5, <1>6 DEF PlaceTold, InTrash, InQuarantine, Trash, Quarantine, NoHelper
<1>8. LooksTold(i)'
  BY <1>5 DEF LooksTold, SeesTrash, Unread
<1>9. ResultTold(i)'
  BY <1>2, <1>5, <1>6 DEF ResultTold, InTrash, InQuarantine, Trash, Quarantine
<1> QED BY <1>7, <1>8, <1>9

\* The helper goes on.
LEMMA GoesOnTold ==
  ASSUME IInv, NEW i \in Items, NEW w \in Workers, Told(i), Alone(i)' => Alone(i),
         helper[i][w].job # "none",
         helper' = [helper EXCEPT ![i][w].phase = "delete"], UNCHANGED <<op, rows>>,
         Alone(i) =>
           /\ at'[Trash(i)] \in {None, ident[i]}
           /\ at'[Quarantine(i)] # None => row[i] = "pending_purge"
  PROVE  Told(i)'
<1>1. SUFFICES ASSUME Alone(i)' PROVE PlaceTold(i)' /\ LooksTold(i)' /\ ResultTold(i)'
  BY AloneNeeded
<1>2. /\ Alone(i) /\ PlaceTold(i) /\ helper[i]["survivor"].job = "none"
      /\ op[i].pc # "wait" => helper[i]["own"].job = "none"
      /\ op[i].pc = "wait" => row[i] \in Pending
  BY <1>1, AloneFacts
<1>3. w = "own" /\ row[i] \in Pending /\ op[i].pc = "wait"
  BY <1>2 DEF Workers
<1>4. helper \in Helpers /\ helper[i] \in [Workers -> HelperStates]
  BY IInvParts, ItemTypes
<1>5. /\ helper'[i]["own"].job = helper[i]["own"].job
      /\ helper'[i]["survivor"] = helper[i]["survivor"]
  BY <1>3, <1>4 DEF Helpers, Workers, HelperStates
<1>6. Job(i)' = Job(i) /\ row' = row /\ ident' = ident /\ op' = op
  BY DEF Job, rows
<1>7. PlaceTold(i)'
  BY <1>2, <1>3, <1>5, <1>6 DEF PlaceTold, InTrash, InQuarantine, Trash, Quarantine
<1> QED BY <1>3, <1>6, <1>7 DEF LooksTold, ResultTold

\* A helper's rename keeps what is told of its item.
LEMMA HelperMovesTold ==
  ASSUME IInv, NEW i \in Items, NEW w \in Workers, Told(i), HelperMoves(i, w)
  PROVE  Told(i)'
<1> DEFINE job == helper[i][w].job
           from == From(job, i)
           to == To(job, i)
<1>1. /\ job # "none" /\ UNCHANGED <<rows, row, ident, meddled, outlived>>
      /\ Moves(i, w, from, to) /\ (job = "purge" => at[Quarantine(i)] = None)
      /\ TypeOK /\ from \in Paths /\ to \in Paths
  BY IInvParts, PlaceTyped DEF HelperMoves, rows, history
<1>2. Alone(i)' => Alone(i)
  BY <1>1 DEF Alone
<1>3. Alone(i) => /\ job = Job(i) /\ w = "own" /\ row[i] \in Pending
                  /\ at[Trash(i)] \in {None, ident[i]}
                  /\ at[Quarantine(i)] # None => row[i] = "pending_purge"
                  /\ SeesTrash(i, Look(Trash(i), i))
                  /\ Job(i) = "purge" => row[i] = "pending_purge"
  BY <1>1, AloneFacts, LookAlone, JobOfRow DEF PlaceTold, InQuarantine, Workers
<1>4. /\ job # "move" => from = Trash(i)
      /\ job = "move" => from = Original /\ to = Trash(i)
      /\ job = "restore" => to = Original
      /\ job \notin {"move", "restore"} => to = Quarantine(i)
      /\ Original # Trash(i) /\ Original # Quarantine(i) /\ Trash(i) # Quarantine(i)
  BY PathsDistinct DEF From, To
<1>5. job \in Jobs
  BY <1>1, ItemTypes DEF HelperStates
<1>6. CASE at[from] = None
  <2>1. Ends(i, w, "not_found") /\ at' = at
    BY <1>1, <1>6 DEF Moves, Look
  <2> QED BY <1>1, <1>2, <1>3, <2>1, EndsTold DEF Results
<1>7. CASE at[from] # None /\ Look(from, i) \in {"other", "core"}
  <2>1. Ends(i, w, "identity_changed") /\ at' = at
    BY <1>1, <1>7 DEF Moves, Look
  <2>2. Alone(i) => job # "purge"
    BY <1>3, <1>4, <1>7 DEF SeesTrash
  <2> QED BY <1>1, <1>2, <1>3, <2>1, <2>2, EndsTold DEF Results
<1>8. CASE at[from] # None /\ Look(from, i) = "same" /\ at[to] # None
  <2>1. Ends(i, w, "exists") /\ at' = at
    BY <1>1, <1>8 DEF Moves
  <2>2. Alone(i) => (Job(i) = "restore" => at'[Trash(i)] # None)
    BY <1>3, <1>4, <1>8, <2>1
  <2> QED BY <1>1, <1>2, <1>3, <2>1, <2>2, EndsTold DEF Results
<1>9. CASE at[from] # None /\ Look(from, i) = "same" /\ at[to] = None
  <2>1. /\ at' = [at EXCEPT ![from] = None, ![to] = at[from]]
        /\ job = "purge" => /\ helper' = [helper EXCEPT ![i][w].phase = "delete"]
                            /\ UNCHANGED op
        /\ job # "purge" => Ends(i, w, "ok")
    BY <1>1, <1>9 DEF Moves
  <2>2. at[from] = ident[i]
    BY <1>9 DEF Look
  <2>3. from # to
    BY <1>9
  <2>4. /\ at'[from] = None /\ at'[to] = ident[i]
        /\ \A p \in Paths \ {from, to} : at'[p] = at[p]
    BY <1>1, <2>1, <2>2, <2>3 DEF TypeOK
  <2>5. Trash(i) \in Paths /\ Quarantine(i) \in Paths
    BY PathsKnown
  <2>6. CASE job = "purge"
    <3>1. Alone(i) => /\ at'[Trash(i)] \in {None, ident[i]}
                      /\ at'[Quarantine(i)] # None => row[i] = "pending_purge"
      BY <1>3, <1>4, <2>4, <2>6
    <3> QED BY <1>1, <1>2, <2>1, <2>6, <3>1, GoesOnTold
  <2>7. CASE job \in {"move", "restore"}
    <3>1. at'[Quarantine(i)] = at[Quarantine(i)]
      BY <1>4, <2>4, <2>5, <2>7
    <3>2. /\ job = "restore" => at'[Trash(i)] = None
          /\ job = "move" => at'[Trash(i)] = ident[i]
      BY <1>4, <2>4, <2>7
    <3> QED BY <1>1, <1>2, <1>3, <2>1, <2>7, <3>1, <3>2, EndsTold DEF Results
  <2> QED BY <1>5, <1>1, <2>6, <2>7 DEF Jobs
<1> QED BY <1>6, <1>7, <1>8, <1>9 DEF Look

\* So do its other steps.
LEMMA HelperTold ==
  ASSUME IInv, NEW i \in Items, NEW w \in Workers, Told(i),
         Resumes(i, w) \/ Deletes(i, w) \/ HelperFails(i, w)
  PROVE  Told(i)'
<1>1. /\ UNCHANGED <<rows, row, ident, meddled, outlived>> /\ helper[i][w].job # "none"
      /\ TypeOK /\ ItemInv(i)
  <2>1. TypeOK /\ ItemInv(i)
    BY IInvParts
  <2>2. helper[i][w].phase = "delete" => helper[i][w].job = "purge"
    BY <2>1 DEF ItemInv, PurgeIsAskedFor
  <2> QED BY <2>1, <2>2 DEF Resumes, Deletes, HelperFails, rows, history
<1>2. Alone(i)' => Alone(i)
  BY <1>1 DEF Alone
<1>3. Alone(i) => /\ at[Trash(i)] \in {None, ident[i]}
                  /\ at[Quarantine(i)] # None => row[i] = "pending_purge"
  BY AloneFacts DEF PlaceTold, InQuarantine
<1>4. at[Quarantine(i)] \in {None, ident[i]}
  BY <1>1 DEF ItemInv, PurgeIsAskedFor
<1>5. CASE Resumes(i, w)
  <2>1. /\ helper' = [helper EXCEPT ![i][w].phase = "delete"] /\ UNCHANGED <<op, at>>
    BY <1>4, <1>5 DEF Resumes, files
  <2> QED BY <1>1, <1>2, <1>3, <2>1, GoesOnTold
<1>6. CASE Deletes(i, w)
  <2>1. at'[Quarantine(i)] = None /\ at'[Trash(i)] = at[Trash(i)]
    BY <1>1, <1>6, PathsKnown, PathsDistinct DEF Deletes, TypeOK
  <2>2. \E result \in {"ok", "not_found"} : Ends(i, w, result)
    BY <1>6 DEF Deletes
  <2>3. Alone(i) => (Job(i) # "restore")
    <3>1. helper[i][w].job = "purge"
      BY <1>1, <1>6 DEF Deletes, ItemInv, PurgeIsAskedFor
    <3> QED BY <1>1, <3>1, AloneFacts DEF PlaceTold, Workers
  <2> QED BY <1>1, <1>2, <1>3, <2>1, <2>2, <2>3, EndsTold DEF Results
<1>7. CASE HelperFails(i, w)
  <2>1. Ends(i, w, "io") /\ at' = at
    BY <1>7 DEF HelperFails, files
  <2> QED BY <1>1, <1>2, <1>3, <2>1, EndsTold DEF Results
<1> QED BY <1>5, <1>6, <1>7

\* A restart leaves rows and files; an item whose helper lives on is not
\* spoken of any more.
LEMMA RestartTold ==
  ASSUME IInv, NEW i \in Items, Told(i), Restart PROVE Told(i)'
<1>1. SUFFICES ASSUME Alone(i)' PROVE PlaceTold(i)' /\ LooksTold(i)' /\ ResultTold(i)'
  BY AloneNeeded
<1>2. /\ UNCHANGED <<at, row, ident, meddled>> /\ op'[i] = Idle
      /\ outlived \subseteq outlived'
  BY DEF Restart, files, rows
<1>3. Alone(i) /\ PlaceTold(i) /\ LooksTold(i) /\ helper[i]["survivor"].job = "none"
  BY <1>1, <1>2, AloneFacts DEF Alone
<1>4. helper'[i]["own"].job = "none" /\ helper'[i]["survivor"].job = "none"
  BY <1>1, <1>3 DEF Restart, NoHelper, Alone
<1>5. PlaceTold(i)'
  BY <1>2, <1>3, <1>4 DEF PlaceTold, InTrash, InQuarantine, Trash, Quarantine, Idle
<1> QED BY <1>2, <1>5 DEF LooksTold, ResultTold, Idle

-----------------------------------------------------------------------------
ToldInv == \A i \in Items : Told(i)

\* A step for one item leaves what is said of the others.
LEMMA OthersTold ==
  ASSUME IInv, NEW i \in Items, NEW j \in Items, i # j,
         \/ Identify(i) \/ Reconcile(i) \/ AnswerLost(i) \/ LookFails(i) \/ Work(i)
         \/ \E goal \in {"restore", "purge"} : Request(i, goal)
         \/ \E w \in Workers : Empties(i, w) \/ HelperFails(i, w)
  PROVE  SameTold(j)
<1>1. TypeOK /\ op \in [Items -> Ops] /\ row \in [Items -> Statuses] /\ helper \in Helpers
      /\ ident \in [Items -> Files \cup {None}] /\ at \in [Paths -> Files \cup {None}]
  BY IInvParts, ItemTypes DEF TypeOK
<1>2. UNCHANGED <<meddled, outlived>>
  BY DEF Identify, Reconcile, AnswerLost, LookFails, Work, Request, Empties, HelperFails,
     Insert, LooksTo, LooksFrom, Decide, Verify, Resumes, HelperMoves, Deletes, history
<1>3. row'[j] = row[j] /\ ident'[j] = ident[j]
  <2>1. ASSUME NEW status, NEW threw, Settle(i, status, threw) PROVE row'[j] = row[j]
    BY <1>1, <2>1 DEF Settle
  <2> QED BY <1>1, <2>1 DEF Identify, Reconcile, AnswerLost, LookFails, Work, Request, Empties,
            HelperFails, Insert, LooksTo, LooksFrom, Decide, Verify, Resumes, HelperMoves,
            Deletes, rows, GivesUp, HelperStarts, DecideMove, DecideRestore, DecidePurge,
            VerifyMove, VerifyRestore, VerifyPurge
<1>4. op'[j] = op[j]
  <2>1. ASSUME NEW status, NEW threw, Settle(i, status, threw) PROVE op'[j] = op[j]
    BY <1>1, <2>1 DEF Settle
  <2>2. ASSUME NEW w, NEW result, Ends(i, w, result) PROVE op'[j] = op[j]
    BY <1>1, <2>2 DEF Ends
  <2>3. GivesUp(i) \/ HelperStarts(i) => op'[j] = op[j]
    BY <1>1 DEF GivesUp, HelperStarts
  <2> QED BY <1>1, <2>1, <2>2, <2>3 DEF Identify, Reconcile, AnswerLost, LookFails, Work,
            Request, Empties, HelperFails, Insert, LooksTo, LooksFrom, Sees, Decide, Verify,
            Resumes, HelperMoves, Moves, Deletes, DecideMove, DecideRestore,
            DecidePurge, VerifyMove, VerifyRestore, VerifyPurge
<1>5. helper'[j] = helper[j]
  <2>1. ASSUME NEW w \in Workers, NEW result, Ends(i, w, result) PROVE helper'[j] = helper[j]
    BY <1>1, <2>1 DEF Ends, Helpers
  <2>2. HelperStarts(i) => helper'[j] = helper[j]
    BY <1>1 DEF HelperStarts, Helpers
  <2> QED BY <1>1, <2>1, <2>2 DEF Identify, Reconcile, AnswerLost, LookFails, Work, Request,
            Empties, HelperFails, Insert, LooksTo, LooksFrom, Decide, Verify, Resumes,
            HelperMoves, Moves, Deletes, DecideMove, DecideRestore, DecidePurge, Helpers
<1>6. at'[Trash(j)] = at[Trash(j)] /\ at'[Quarantine(j)] = at[Quarantine(j)]
  <2>1. /\ Trash(j) \in Paths /\ Quarantine(j) \in Paths
        /\ \A p \in {Original, Trash(i), Quarantine(i)} : p # Trash(j) /\ p # Quarantine(j)
    BY PathsKnown, PathsDistinct
  <2>2. \A job : From(job, i) \in {Original, Trash(i), Quarantine(i)}
                 /\ To(job, i) \in {Original, Trash(i), Quarantine(i)}
    BY DEF From, To
  <2>3. ASSUME NEW w, HelperMoves(i, w)
        PROVE  at'[Trash(j)] = at[Trash(j)] /\ at'[Quarantine(j)] = at[Quarantine(j)]
    BY <1>1, <2>1, <2>2, <2>3 DEF HelperMoves, Moves
  <2> QED BY <1>1, <2>1, <2>3 DEF Identify, Reconcile, AnswerLost, LookFails, Work, Request,
            Empties, HelperFails, Insert, LooksTo, LooksFrom, Decide, Verify, Resumes,
            Deletes, files
<1> QED BY <1>2, <1>3, <1>4, <1>5, <1>6 DEF SameTold, Alone

\* Files in the trash change only where the user meddles.
LEMMA UserTold ==
  ASSUME IInv, ToldInv,
         UserRemoves \/ (\E p \in Paths, f \in Files : UserWrites(p, f)) \/ UNCHANGED vars
  PROVE  ToldInv'
<1> SUFFICES ASSUME NEW j \in Items, Alone(j)' PROVE Told(j)'
  BY AloneNeeded DEF ToldInv, Told
<1>1. at \in [Paths -> Files \cup {None}]
  BY IInvParts DEF TypeOK
<1>2. Trash(j) \in Paths /\ Quarantine(j) \in Paths /\ Original # Trash(j)
      /\ Original # Quarantine(j) /\ \A i \in Items : Trash(i) # Quarantine(j)
  BY PathsKnown, PathsDistinct
<1>3. SameTold(j)
  <2>1. CASE UserRemoves
    BY <1>1, <1>2, <2>1 DEF UserRemoves, rows, SameTold, Alone
  <2>2. ASSUME NEW p \in Paths, NEW f \in Files, UserWrites(p, f) PROVE SameTold(j)
    <3>1. p # Trash(j) /\ p # Quarantine(j)
      BY <1>2, <2>2 DEF UserWrites, Alone
    <3> QED BY <1>1, <1>2, <2>2, <3>1 DEF UserWrites, rows, SameTold, Alone
  <2>3. CASE UNCHANGED vars
    BY <2>3 DEF vars, files, rows, history, SameTold, Alone
  <2> QED BY <2>1, <2>2, <2>3
<1> QED BY <1>3, SameToldStays DEF ToldInv

\* Every step keeps what is told true.
LEMMA NextTold == ASSUME IInv, ToldInv, [Next]_vars PROVE ToldInv'
<1>1. CASE UserRemoves \/ (\E p \in Paths, f \in Files : UserWrites(p, f)) \/ UNCHANGED vars
  BY <1>1, UserTold
<1>2. CASE Restart
  BY <1>2, RestartTold DEF ToldInv
<1>3. ASSUME NEW i \in Items,
             \/ Identify(i) \/ Reconcile(i) \/ AnswerLost(i) \/ LookFails(i) \/ Work(i)
             \/ \E goal \in {"restore", "purge"} : Request(i, goal)
             \/ \E w \in Workers : Empties(i, w) \/ HelperFails(i, w)
      PROVE  ToldInv'
  <2>1. ASSUME NEW j \in Items, j # i PROVE Told(j)'
    BY <1>3, <2>1, OthersTold, SameToldStays DEF ToldInv
  <2>2. ASSUME NEW w \in Workers, Empties(i, w) PROVE Told(i)'
    <3>1. SameTold(i)
      BY <2>2 DEF Empties, rows, history, SameTold, Alone
    <3> QED BY <3>1, SameToldStays DEF ToldInv
  <2>3. Told(i)'
    BY <1>3, <2>2, RequestTold, LooksKeepTold, AnswerLostTold, DecideTold, VerifyTold,
       HelperMovesTold, HelperTold DEF ToldInv, Work
  <2> QED BY <2>1, <2>3 DEF ToldInv
<1> QED BY <1>1, <1>2, <1>3 DEF Next

\* At the start there is nothing to tell.
LEMMA InitTold == Init => ToldInv
<1> SUFFICES ASSUME Init, NEW i \in Items PROVE Told(i)
  BY DEF ToldInv
<1>1. at[Trash(i)] = None /\ at[Quarantine(i)] = None
  BY PathsKnown, PathsDistinct DEF Init
<1>2. row[i] = "none" /\ op[i] = Idle /\ helper[i]["own"] = NoHelper
      /\ helper[i]["survivor"] = NoHelper
  BY DEF Init
<1>3. PlaceTold(i)
  BY <1>1, <1>2 DEF PlaceTold, InTrash, InQuarantine, Idle, NoHelper, Pending
<1> QED BY <1>2, <1>3 DEF Told, LooksTold, ResultTold, Idle

\* Once the requests for an item are over its row says where the item is, for
\* any items, faults and users; only a helper that outlived the service or a
\* hand in the trash directory makes it wrong (file-trash.ts, reconcileRow).
THEOREM TrashListTellsTheTruth == Spec => []ListTellsTheTruth
<1>1. Init => ToldInv
  BY InitTold
<1>2. IInv /\ ToldInv /\ [Next]_vars => ToldInv'
  BY NextTold
<1>3. IInv /\ ToldInv => ListTellsTheTruth
  <2> SUFFICES ASSUME IInv, ToldInv, NEW i \in Items, i \notin outlived, Settled(i),
                      i \notin meddled
               PROVE  (row[i] = "ready" <=> at[Trash(i)] # None) /\ at[Quarantine(i)] = None
    BY DEF ListTellsTheTruth, Truthful
  <2>1. PlaceTold(i) /\ row[i] \notin Pending
    BY DEF ToldInv, Told, Alone, Settled
  <2> QED BY <2>1 DEF PlaceTold, InTrash, InQuarantine, Pending
<1> QED BY <1>1, <1>2, <1>3, TrashInvariant, PTL DEF Spec
=============================================================================
