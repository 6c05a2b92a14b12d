------------------------------ MODULE FileTrash ------------------------------
(***************************************************************************)
(* The trash of src/backend/services/file-trash.ts: a delete, a restore or *)
(* a purge first writes its intention into the row of the item, then lets  *)
(* a helper process rename or remove, looks where the file is, and writes  *)
(* the outcome.  What a crash leaves half-done is finished by the next     *)
(* request (reconcileTrashItems, reconcileRow).                            *)
(*                                                                         *)
(* A file is what its recorded identity says: a write by the user makes    *)
(* another file.  All items share one original path, where they can get    *)
(* into each other's way.  One action of a helper is one rename (checked   *)
(* before and after, no-replace), one removal, or one look at a path.      *)
(***************************************************************************)
EXTENDS Naturals

CONSTANTS Items,         \* trash item ids
          Files,         \* file identities
          None,          \* nothing at a path
          FirstFile,     \* the file that is there at first
          MaxFaults      \* bound on restarts and failed helper calls

ASSUME TrashAssumption ==
  /\ None \notin Files /\ FirstFile \in Files
  /\ MaxFaults \in Nat

VARIABLES
  at,        \* the file at a path
  half,      \* directories a purge has begun to empty
  row,       \* file_trash_items.status
  ident,     \* the identity the row records
  op,        \* the request that holds the item lock
  helper,    \* helper processes of an item: the request's, and a survivor
  made,      \* history: files that have existed
  discarded, \* history: files the user wrote over or removed
  purgeAsked,\* history: items somebody asked to purge, or that expired
  meddled,   \* history: items the user wrote to inside the trash directory
  outlived,  \* history: items of which a helper outlived the service
  faults     \* bound on the environment

files == <<at, half>>
rows == <<row, ident>>
history == <<made, discarded, purgeAsked, meddled, outlived>>
vars == <<files, rows, op, helper, history, faults>>

Original == <<"original", None>>
Trash(i) == <<"trash", i>>
Quarantine(i) == <<"purge", i>>
Paths == {Original} \cup {Trash(i) : i \in Items}
                    \cup {Quarantine(i) : i \in Items}

Jobs == {"move", "restore", "purge"}
Pending == {"pending_move", "pending_restore", "pending_purge"}
Statuses == {"none", "ready", "restored", "purged", "error"} \cup Pending
Looks == {"unread", "none", "same", "core", "other"}
Results == {"ok", "exists", "identity_changed", "not_found", "io"}

Unread == [from |-> "unread", to |-> "unread"]
Idle == [pc |-> "idle", goal |-> "none", seen |-> Unread, result |-> "ok"]
NoHelper == [job |-> "none", phase |-> "start"]

TypeOK ==
  /\ at \in [Paths -> Files \cup {None}] /\ half \in SUBSET Files
  /\ row \in [Items -> Statuses] /\ ident \in [Items -> Files \cup {None}]
  /\ op \in [Items ->
       [pc : {"idle", "insert", "look", "wait", "verify"},
        goal : {"none", "restore", "purge"},
        seen : [from : Looks, to : Looks], result : Results]]
  /\ helper \in [Items -> [{"own", "survivor"} ->
       [job : Jobs \cup {"none"}, phase : {"start", "delete"}]]]
  /\ made \in SUBSET Files /\ discarded \in SUBSET (Files \cup {None})
  /\ purgeAsked \in SUBSET Items /\ meddled \in SUBSET Items
  /\ outlived \in SUBSET Items
  /\ faults \in 0..MaxFaults

Init ==
  /\ at = [p \in Paths |-> IF p = Original THEN FirstFile ELSE None]
  /\ half = {}
  /\ row = [i \in Items |-> "none"] /\ ident = [i \in Items |-> None]
  /\ op = [i \in Items |-> Idle]
  /\ helper = [i \in Items |-> [w \in {"own", "survivor"} |-> NoHelper]]
  /\ made = {FirstFile} /\ discarded = {}
  /\ purgeAsked = {} /\ meddled = {} /\ outlived = {} /\ faults = 0

-----------------------------------------------------------------------------
(* Helpers *)

Fault == faults < MaxFaults /\ faults' = faults + 1

Job(i) == CASE row[i] = "pending_move" -> "move"
            [] row[i] = "pending_restore" -> "restore"
            [] OTHER -> "purge"

\* Where a job takes the file from, and where it puts it.
From(job, i) == IF job = "move" THEN Original ELSE Trash(i)
To(job, i) == CASE job = "move" -> Trash(i)
                [] job = "restore" -> Original
                [] OTHER -> Quarantine(i)

\* maybeIdentity compared with the row: sameIdentity, sameCoreIdentity.
Look(p, i) == CASE at[p] = None -> "none"
                [] at[p] \notin {None, ident[i]} -> "other"
                [] at[p] = ident[i] /\ at[p] \in half \ {None} -> "core"
                [] OTHER -> "same"

\* casStatus: the outcome of a reconciliation.  A restore or purge that had
\* to reconcile first goes on when the outcome is "ready" and no error came.
Settle(i, status, threw) ==
  IF status = "ready" /\ ~threw /\ op[i].goal # "none"
  THEN /\ row' = [row EXCEPT ![i] = IF op[i].goal = "restore"
                                    THEN "pending_restore"
                                    ELSE "pending_purge"]
       /\ op' = [op EXCEPT ![i] = [Idle EXCEPT !.pc = "look"]]
  ELSE /\ row' = [row EXCEPT ![i] = status]
       /\ op' = [op EXCEPT ![i] = Idle]

\* The error is passed on and the row stays pending.
GivesUp(i) == op' = [op EXCEPT ![i] = Idle] /\ UNCHANGED row

-----------------------------------------------------------------------------
(* Requests: one at a time for an item (withItemLock) *)

\* trashPath looks at the file ...
Identify(i) ==
  /\ row[i] = "none" /\ op[i].pc = "idle" /\ at[Original] # None
  /\ ident' = [ident EXCEPT ![i] = at[Original]]
  /\ op' = [op EXCEPT ![i].pc = "insert"]
  /\ UNCHANGED <<files, row, helper, history, faults>>

\* ... and inserts the row once the answer is there.
Insert(i) ==
  /\ op[i].pc = "insert"
  /\ row' = [row EXCEPT ![i] = "pending_move"]
  /\ op' = [op EXCEPT ![i].pc = "look"]
  /\ UNCHANGED <<files, ident, helper, history, faults>>

\* Mutant: an interrupted purge is not taken up again.
ReconcileSparesPurge(i) ==
  /\ row[i] \in Pending \ {"pending_purge"} /\ op[i].pc = "idle"
  /\ op' = [op EXCEPT ![i].pc = "look"]
  /\ UNCHANGED <<files, rows, helper, history, faults>>

\* listTrashItems: reconcileTrashItems for each pending row.
Reconcile(i) ==
  /\ row[i] \in Pending /\ op[i].pc = "idle"
  /\ op' = [op EXCEPT ![i].pc = "look"]
  /\ UNCHANGED <<files, rows, helper, history, faults>>

\* restoreTrashItem, purgeTrashItem (asked for, or expired): a pending row is
\* reconciled first, any other but "ready" is refused.
Request(i, goal) ==
  /\ row[i] \in Pending \cup {"ready"} /\ op[i].pc = "idle"
  /\ IF row[i] = "ready"
     THEN /\ row' = [row EXCEPT ![i] = IF goal = "restore"
                                       THEN "pending_restore"
                                       ELSE "pending_purge"]
          /\ op' = [op EXCEPT ![i].pc = "look"]
     ELSE /\ op' = [op EXCEPT ![i].pc = "look", ![i].goal = goal]
          /\ UNCHANGED row
  /\ purgeAsked' = IF goal = "purge" THEN purgeAsked \cup {i} ELSE purgeAsked
  /\ UNCHANGED <<files, ident, helper, made, discarded, meddled, outlived,
                 faults>>

-----------------------------------------------------------------------------
(* Looking before and after the helper *)

Sees(i, side, p) == op' = [op EXCEPT ![i].seen[side] = Look(p, i)]

\* A move looks at its source only when the trash is empty; a restore and a
\* purge look at both sides at once, in either order.
LooksTo(i) ==
  /\ op[i].pc \in {"look", "verify"} /\ op[i].seen.to = "unread"
  /\ Sees(i, "to", To(Job(i), i))
  /\ UNCHANGED <<files, rows, helper, history, faults>>

LooksFrom(i) ==
  /\ op[i].seen.from = "unread"
  /\ \/ op[i].pc = "look" /\ (Job(i) = "move" => op[i].seen.to = "none")
     \/ op[i].pc = "verify" /\ Job(i) = "purge"
  /\ Sees(i, "from", From(Job(i), i))
  /\ UNCHANGED <<files, rows, helper, history, faults>>

\* An identity call that fails with anything but not_found ends the request.
LookFails(i) ==
  /\ op[i].pc \in {"look", "verify"} /\ Fault
  /\ GivesUp(i)
  /\ UNCHANGED <<files, ident, helper, history>>

HelperStarts(i) ==
  /\ helper' = [helper EXCEPT ![i]["own"] = [NoHelper EXCEPT !.job = Job(i)]]
  /\ op' = [op EXCEPT ![i].pc = "wait"]
  /\ UNCHANGED row

\* Mutant: only the source tells whether there is something to move.
DecideMoveBySource(i, from, to) ==
  CASE from # "same" -> Settle(i, "error", FALSE) /\ UNCHANGED helper
    [] OTHER -> HelperStarts(i)

\* reconcilePendingMove, up to the helper
DecideMove(i, from, to) ==
  CASE to = "same" -> Settle(i, "ready", FALSE) /\ UNCHANGED helper
    [] to # "same" /\ (to # "none" \/ from # "same") ->
         Settle(i, "error", FALSE) /\ UNCHANGED helper
    [] OTHER -> HelperStarts(i)

\* reconcilePendingRestore
DecideRestore(i, from, to) ==
  CASE to = "same" /\ from = "none" ->
         Settle(i, "restored", FALSE) /\ UNCHANGED helper
    [] from # "same" /\ ~(to = "same" /\ from = "none") ->
         Settle(i, "error", FALSE) /\ UNCHANGED helper
    [] from = "same" /\ to # "none" -> Settle(i, "ready", FALSE) /\ UNCHANGED helper
    [] OTHER -> HelperStarts(i)

\* reconcilePendingPurge
DecidePurge(i, from, to) ==
  CASE from = "none" /\ to = "none" ->
         Settle(i, "purged", FALSE) /\ UNCHANGED helper
    [] to = "other" \/ (to = "none" /\ from \notin {"none", "same"}) ->
         Settle(i, "error", FALSE) /\ UNCHANGED helper
    [] OTHER -> HelperStarts(i)

Decide(i) ==
  LET seen == op[i].seen IN
  /\ op[i].pc = "look" /\ seen.to # "unread"
  /\ seen.from # "unread" \/ (Job(i) = "move" /\ seen.to # "none")
  /\ CASE Job(i) = "move" -> DecideMove(i, seen.from, seen.to)
       [] Job(i) = "restore" -> DecideRestore(i, seen.from, seen.to)
       [] OTHER -> DecidePurge(i, seen.from, seen.to)
  /\ UNCHANGED <<files, ident, history, faults>>

\* The file is where the job puts it, whatever the helper said.
VerifyMove(i, result, to) ==
  CASE to = "same" -> Settle(i, "ready", FALSE)
    [] to # "same" /\ result \in {"ok", "exists", "identity_changed"} ->
         Settle(i, "error", result # "ok")
    [] OTHER -> GivesUp(i)

VerifyRestore(i, result, to) ==
  CASE to = "same" -> Settle(i, "restored", FALSE)
    [] to # "same" /\ result = "ok" -> Settle(i, "error", FALSE)
    [] to # "same" /\ result = "exists" -> Settle(i, "ready", TRUE)
    [] OTHER -> GivesUp(i)

VerifyPurge(i, result, from, to) ==
  CASE from = "none" /\ to = "none" -> Settle(i, "purged", FALSE)
    [] result = "ok" /\ from = "same" /\ to = "none" ->
         Settle(i, "ready", FALSE)
    [] result # "ok" /\ result # "identity_changed"
       /\ from = "same" /\ to = "none" -> Settle(i, "ready", TRUE)
    [] result # "ok" /\ result # "identity_changed"
       /\ from \in {"none", "same"} /\ to \in {"same", "core"} -> GivesUp(i)
    [] OTHER -> Settle(i, "error", FALSE)

Verify(i) ==
  LET seen == op[i].seen result == op[i].result IN
  /\ op[i].pc = "verify" /\ seen.to # "unread"
  /\ Job(i) = "purge" => seen.from # "unread"
  /\ CASE Job(i) = "move" -> VerifyMove(i, result, seen.to)
       [] Job(i) = "restore" -> VerifyRestore(i, result, seen.to)
       [] OTHER -> VerifyPurge(i, result, seen.from, seen.to)
  /\ UNCHANGED <<files, ident, helper, history, faults>>

-----------------------------------------------------------------------------
(* The helper processes (src/scripts/broker/deckterm-fs-helper) *)

\* A helper ends; the request that waits for it goes on, nobody reads what a
\* survivor says.
Ends(i, w, result) ==
  /\ helper' = [helper EXCEPT ![i][w] = NoHelper]
  /\ op' = IF w = "own"
           THEN [op EXCEPT ![i].pc = "verify", ![i].seen = Unread,
                           ![i].result = result]
           ELSE op

\* A purge whose quarantine is there already goes on with it.
Resumes(i, w) ==
  /\ helper[i][w].job = "purge" /\ helper[i][w].phase = "start"
  /\ at[Quarantine(i)] # None
  /\ IF at[Quarantine(i)] = ident[i]
     THEN /\ helper' = [helper EXCEPT ![i][w].phase = "delete"]
          /\ UNCHANGED op
     ELSE Ends(i, w, "identity_changed")
  /\ UNCHANGED <<files, rows, history, faults>>

\* Mutant: rename without RENAME_NOREPLACE.
MovesOver(i, w, from, to) ==
  CASE at[from] = None -> Ends(i, w, "not_found") /\ UNCHANGED at
    [] Look(from, i) \in {"other", "core"} ->
         Ends(i, w, "identity_changed") /\ UNCHANGED at
    [] OTHER ->
         /\ at' = [at EXCEPT ![from] = None, ![to] = at[from]]
         /\ IF helper[i][w].job = "purge"
            THEN helper' = [helper EXCEPT ![i][w].phase = "delete"]
                 /\ UNCHANGED op
            ELSE Ends(i, w, "ok")

\* _atomic_move_checked
Moves(i, w, from, to) ==
  CASE at[from] = None -> Ends(i, w, "not_found") /\ UNCHANGED at
    [] Look(from, i) \in {"other", "core"} ->
         Ends(i, w, "identity_changed") /\ UNCHANGED at
    [] Look(from, i) = "same" /\ at[to] # None ->
         Ends(i, w, "exists") /\ UNCHANGED at
    [] OTHER ->
         /\ at' = [at EXCEPT ![from] = None, ![to] = at[from]]
         /\ IF helper[i][w].job = "purge"
            THEN helper' = [helper EXCEPT ![i][w].phase = "delete"]
                 /\ UNCHANGED op
            ELSE Ends(i, w, "ok")

HelperMoves(i, w) ==
  LET job == helper[i][w].job IN
  /\ job # "none" /\ helper[i][w].phase = "start"
  /\ job = "purge" => at[Quarantine(i)] = None
  /\ Moves(i, w, From(job, i), To(job, i))
  /\ UNCHANGED <<half, rows, history, faults>>

\* Mutant: the directory is emptied where it lies.
EmptiesInPlace(i, w) ==
  /\ helper[i][w].phase = "start" /\ helper[i][w].job = "purge"
  /\ at[Trash(i)] # None
  /\ half' = half \cup {at[Trash(i)]}
  /\ UNCHANGED <<at, rows, op, helper, history, faults>>

\* _recursive_delete: the first entries are gone.
Empties(i, w) ==
  /\ helper[i][w].phase = "delete" /\ at[Quarantine(i)] # None
  /\ half' = half \cup {at[Quarantine(i)]}
  /\ UNCHANGED <<at, rows, op, helper, history, faults>>

\* The last of it: rmdir or unlink.
Deletes(i, w) ==
  /\ helper[i][w].phase = "delete"
  /\ at' = [at EXCEPT ![Quarantine(i)] = None]
  /\ half' = half \ {at[Quarantine(i)]}
  /\ Ends(i, w, IF at[Quarantine(i)] = None THEN "not_found" ELSE "ok")
  /\ UNCHANGED <<rows, history, faults>>

\* The helper fails or is killed after 30 seconds, at any of its steps; its
\* answer is lost too when the rename or the removal was its last step.
HelperFails(i, w) ==
  /\ helper[i][w].job # "none" /\ Fault
  /\ Ends(i, w, "io")
  /\ UNCHANGED <<files, rows, history>>

AnswerLost(i) ==
  /\ op[i].pc = "verify" /\ op[i].seen = Unread /\ op[i].result = "ok"
  /\ Fault
  /\ op' = [op EXCEPT ![i].result = "io"]
  /\ UNCHANGED <<files, rows, helper, history>>

-----------------------------------------------------------------------------
(* The service and the user *)

\* A restart: requests and their locks are gone, rows and files stay.  A
\* helper dies with a reboot and outlives a stop (KillMode=process).
Restart ==
  /\ Fault
  /\ op' = [i \in Items |-> Idle]
  /\ \/ /\ helper' = [i \in Items |-> [w \in {"own", "survivor"} |-> NoHelper]]
        /\ UNCHANGED outlived
     \/ /\ helper' = [i \in Items |->
             [w \in {"own", "survivor"} |->
                IF w = "own" THEN NoHelper
                ELSE IF helper[i]["own"].job # "none" THEN helper[i]["own"]
                ELSE helper[i]["survivor"]]]
        /\ outlived' = outlived \cup
                         {i \in Items : helper[i]["own"].job # "none"}
  /\ UNCHANGED <<files, rows, made, discarded, purgeAsked, meddled>>

\* The user saves or creates a file, at the original path or, from a shell,
\* in the trash directory.
UserWrites(p, f) ==
  /\ p = Original \/ \E i \in Items : p = Trash(i)
  /\ f \notin made /\ made' = made \cup {f}
  /\ at' = [at EXCEPT ![p] = f]
  /\ discarded' = discarded \cup {at[p]}
  /\ meddled' = meddled \cup {i \in Items : p = Trash(i)}
  /\ UNCHANGED <<half, rows, op, helper, purgeAsked, outlived, faults>>

UserRemoves ==
  /\ at[Original] # None
  /\ at' = [at EXCEPT ![Original] = None]
  /\ discarded' = discarded \cup {at[Original]}
  /\ UNCHANGED <<half, rows, op, helper, made, purgeAsked, meddled, outlived,
                 faults>>

Workers == {"own", "survivor"}

Work(i) ==
  \/ Insert(i) \/ LooksTo(i) \/ LooksFrom(i) \/ Decide(i) \/ Verify(i)
  \/ \E w \in Workers : Resumes(i, w) \/ HelperMoves(i, w) \/ Deletes(i, w)

Next ==
  \/ \E i \in Items :
       \/ Identify(i) \/ Reconcile(i)
       \/ \E goal \in {"restore", "purge"} : Request(i, goal)
       \/ Work(i)
       \/ \E w \in Workers : Empties(i, w) \/ HelperFails(i, w)
       \/ AnswerLost(i) \/ LookFails(i)
  \/ Restart
  \/ \E p \in Paths, f \in Files : UserWrites(p, f)
  \/ UserRemoves

Spec == Init /\ [][Next]_vars

\* What was begun goes on, and somebody looks into the trash now and then.
Fairness == \A i \in Items : WF_vars(Work(i)) /\ WF_vars(Reconcile(i))

FairSpec == Spec /\ Fairness

-----------------------------------------------------------------------------

\* Whatever collides, crashes or is repeated: a file is somewhere, unless the
\* user wrote over it or an item that recorded it was to be purged.
NothingLost ==
  \A f \in made :
    \/ \E p \in Paths : at[p] = f
    \/ f \in discarded
    \/ \E i \in purgeAsked : ident[i] = f

\* A directory a purge has begun to empty stays in quarantine: it is never
\* where the trash is listed from or where a restore puts it back.
HalfStaysHidden ==
  \A p \in Paths : at[p] \in half => \E i \in Items : p = Quarantine(i)

Settled(i) ==
  /\ op[i].pc = "idle" /\ row[i] \notin Pending \cup {"none"}
  /\ \A w \in Workers : helper[i][w].job = "none"

\* Whatever fails or crashes in between: once the requests for an item are
\* over, its row tells the truth.  The item is offered for restore exactly if
\* it lies in the trash, and nothing is left in quarantine.
Truthful(i) ==
  Settled(i) /\ i \notin meddled =>
    /\ row[i] = "ready" <=> at[Trash(i)] # None
    /\ at[Quarantine(i)] = None

ListTellsTheTruth == \A i \in Items : i \notin outlived => Truthful(i)

\* "Use crash-recoverable metadata transitions plus no-overwrite rename"
\* (docs/plans/2026-09-05-audit-repairs.md:35), whatever becomes of a helper.
RecoversFromRestart == \A i \in Items : Truthful(i)

\* What a crash or a failed helper left pending is settled by looking into
\* the trash often enough.
PendingSettles ==
  \A i \in Items : row[i] \in Pending ~> row[i] \notin Pending

-----------------------------------------------------------------------------
(* What the safety properties rest on *)

\* Files do not come from nowhere and are not copied.
OnePlaceEach ==
  /\ half \subseteq made
  /\ \A p \in Paths : at[p] \in made \cup {None}
  /\ \A p, q \in Paths : at[p] = at[q] /\ at[p] # None => p = q

\* A request beyond its INSERT works on a pending row, and waits while its
\* helper runs; before the INSERT there is nothing of the item.
RowComesFirst(i) ==
  /\ op[i].pc \in {"look", "wait", "verify"} => row[i] \in Pending
  /\ helper[i]["own"].job # "none" => op[i].pc = "wait"
  /\ row[i] = "none" => /\ i \notin purgeAsked /\ at[Quarantine(i)] = None
                        /\ \A w \in Workers : helper[i][w].job = "none"

\* Only what was to be purged comes into quarantine and is deleted there.
PurgeIsAskedFor(i) ==
  /\ row[i] = "pending_purge" => i \in purgeAsked
  /\ op[i].goal = "purge" => i \in purgeAsked
  /\ \A w \in Workers :
       /\ helper[i][w].job = "purge" => i \in purgeAsked
       /\ helper[i][w].phase = "delete" => helper[i][w].job = "purge"
  /\ at[Quarantine(i)] \in {None, ident[i]}

IInv == /\ TypeOK
        /\ OnePlaceEach /\ NothingLost /\ HalfStaysHidden
        /\ \A i \in Items : RowComesFirst(i) /\ PurgeIsAskedFor(i)
=============================================================================
