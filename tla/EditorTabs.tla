----------------------------- MODULE EditorTabs -----------------------------
(***************************************************************************)
(* The tabs of the web editor (web/editor-tabs.js): a list of open tabs    *)
(* with one preview slot and one active tab, and the controller that gives *)
(* each tab a body element and mounts its content with an await.  A body   *)
(* is cached per tab, hidden when another tab is active, and dropped when  *)
(* its tab is gone; the tabs may have changed when a mount answers.        *)
(***************************************************************************)
EXTENDS Naturals, Sequences, FiniteSets, SequencesExt

CONSTANTS
  Keys,     \* the files a tab may show
  NoKey,    \* no tab
  Saved     \* the files of the stored layout.editorTabs, in order

\* The stored layout is one that serializeTabs wrote: each file once, one preview.
ASSUME TabsAssumption ==
  /\ NoKey \notin Keys /\ Saved \in Seq([key : Keys, preview : BOOLEAN])
  /\ \A i, j \in DOMAIN Saved :
       Saved[i].key = Saved[j].key \/ (Saved[i].preview /\ Saved[j].preview) => i = j

VARIABLES
  tabs,     \* the open tabs, in order: [key, preview]
  active,   \* activeKey of the model
  page,     \* the controller: the cached bodies, the mounts under way
            \* (pendingMounts) and whether the body of each is in the page,
            \* mountedKey, and the body the user sees
  restore   \* restoreEditorTabs: "no", "probing", "done"

tabVars == <<tabs, active, page, restore>>

Tab(k, preview) == [key |-> k, preview |-> preview]
OpenKeys(ts) == {ts[i].key : i \in DOMAIN ts}
IndexOfTab(ts, k) == CHOOSE i \in DOMAIN ts : ts[i].key = k
HasPreview(ts) == \E i \in DOMAIN ts : ts[i].preview

TabsInit ==
  /\ tabs = <<>> /\ active = NoKey /\ restore = "no"
  /\ page = [bodies |-> {}, mounting |-> [k \in Keys |-> "none"],
             mounted |-> NoKey, shown |-> NoKey]

-----------------------------------------------------------------------------
(* The reducers.                                                           *)

Promote(ts, k) ==
  [i \in DOMAIN ts |-> IF ts[i].key = k THEN Tab(k, FALSE) ELSE ts[i]]

\* openTab: an open file is focused, a pinned one is appended, a preview takes
\* the preview slot.
OpenTab(ts, k, preview) ==
  CASE k \in OpenKeys(ts) -> IF preview THEN ts ELSE Promote(ts, k)
    [] k \notin OpenKeys(ts) /\ preview /\ HasPreview(ts) ->
         [ts EXCEPT ![CHOOSE i \in DOMAIN ts : ts[i].preview] = Tab(k, TRUE)]
    [] OTHER -> Append(ts, Tab(k, preview))

CloseTab(ts, k) ==
  IF k \in OpenKeys(ts) THEN RemoveAt(ts, IndexOfTab(ts, k)) ELSE ts

\* closeTab's new active tab: the next tab, else the last one.
ActiveAfter(ts, k) ==
  LET left == CloseTab(ts, k)
      i == IndexOfTab(ts, k) IN
  IF active # k \/ k \notin OpenKeys(ts) THEN active
  ELSE IF left = <<>> THEN NoKey
  ELSE left[IF i <= Len(left) THEN i ELSE Len(left)].key

-----------------------------------------------------------------------------
(* The controller: what each method makes of the page p.                   *)

DropBodies(p, ks) ==
  [bodies |-> p.bodies \ ks,
   mounting |-> [k \in Keys |-> IF k \in ks /\ p.mounting[k] = "attached"
                                THEN "detached" ELSE p.mounting[k]],
   mounted |-> IF p.mounted \in ks THEN NoKey ELSE p.mounted,
   shown |-> IF p.shown \in ks THEN NoKey ELSE p.shown]

\* renderActiveBody up to its await.  The body of a mount under way is shown
\* as it fills; a mount whose body was dropped is waited for.
RenderActiveBody(p, a) ==
  CASE a = NoKey \/ p.mounted = a -> p
    [] a \notin {NoKey, p.mounted} /\ a \in p.bodies -> [p EXCEPT !.mounted = a, !.shown = a]
    [] a \notin p.bodies \cup {NoKey, p.mounted} /\ p.mounting[a] # "none" ->
         [p EXCEPT !.shown = NoKey]
    [] OTHER ->
         [p EXCEPT !.bodies = @ \cup {a}, !.mounting[a] = "attached", !.shown = a]

\* render: the bodies of tabs that are gone are torn down (pruneOrphanBodies,
\* clearBodies), then the active body is rendered.
Render(p, ts, a) ==
  IF ts = <<>> THEN [DropBodies(p, p.bodies) EXCEPT !.mounted = NoKey]
  ELSE RenderActiveBody(DropBodies(p, p.bodies \ OpenKeys(ts)), a)

ClosePage(p, k) ==
  LET left == DropBodies(p, {k} \cap p.bodies) IN
  Render([left EXCEPT !.mounted = IF @ = k THEN NoKey ELSE @],
         CloseTab(tabs, k), ActiveAfter(tabs, k))

SetState(ts, a) == tabs' = ts /\ active' = a /\ page' = Render(page, ts, a)

OpenFile(k, preview) == SetState(OpenTab(tabs, k, preview), k) /\ UNCHANGED restore

Activate(k) == k \in OpenKeys(tabs) /\ SetState(tabs, k) /\ UNCHANGED restore

\* A double click, or the first edit of a preview.
Pin(k) ==
  k \in OpenKeys(tabs) /\ SetState(Promote(tabs, k), active) /\ UNCHANGED restore

\* requestCloseKey where the user did not decline.
CloseFile(k) ==
  /\ k \in OpenKeys(tabs)
  /\ tabs' = CloseTab(tabs, k) /\ active' = ActiveAfter(tabs, k)
  /\ page' = ClosePage(page, k)
  /\ UNCHANGED restore

\* Mutant: what became of the tab during the mount is not asked.
MountedUnasked(k) ==
  /\ page.mounting[k] # "none"
  /\ page' = [page EXCEPT !.mounting[k] = "none", !.mounted = k,
                          !.shown = IF page.mounting[k] = "attached" THEN k ELSE NoKey]
  /\ UNCHANGED <<tabs, active, restore>>

\* The mount of k answers: its body is dropped unless its tab is still there
\* and still active; then what is active by now is rendered.
Mounted(k) ==
  /\ page.mounting[k] # "none"
  /\ LET here == page.mounting[k] = "attached"
         p == [page EXCEPT !.mounting[k] = "none"] IN
     page' = IF active = k
             THEN [p EXCEPT !.mounted = k, !.shown = IF here THEN k ELSE @]
             ELSE RenderActiveBody(
                    [p EXCEPT !.bodies = IF here THEN @ \ {k} ELSE @,
                              !.shown = IF here /\ @ = k THEN NoKey ELSE @], active)
  /\ UNCHANGED <<tabs, active, restore>>

\* The load failed: mountEditorFileTab closes the tab, and the controller's
\* own re-check finds it gone.
MountFails(k) ==
  /\ page.mounting[k] # "none"
  /\ tabs' = CloseTab(tabs, k) /\ active' = ActiveAfter(tabs, k)
  /\ page' = RenderActiveBody([ClosePage(page, k) EXCEPT !.mounting[k] = "none"],
                              active')
  /\ UNCHANGED restore

\* restoreEditorTabs: every stored tab is probed, and the survivors become the
\* state, whatever was opened meanwhile; the stored active tab is one of them
\* or else the first.
RestoreStarts ==
  /\ restore = "no" /\ restore' = "probing"
  /\ UNCHANGED <<tabs, active, page>>

RestoreEnds ==
  /\ restore = "probing" /\ restore' = "done"
  /\ \E n \in 0..Len(Saved) : \E at \in [1..n -> DOMAIN Saved] :
       /\ \A i, j \in 1..n : i < j => at[i] < at[j]
       /\ LET survivors == [i \in 1..n |-> Saved[at[i]]] IN
          \E a \in IF n = 0 THEN {NoKey} ELSE OpenKeys(survivors) : SetState(survivors, a)

-----------------------------------------------------------------------------
TabsNext ==
  \/ \E k \in Keys :
       \/ \E preview \in BOOLEAN : OpenFile(k, preview)
       \/ Activate(k) \/ Pin(k) \/ CloseFile(k) \/ Mounted(k) \/ MountFails(k)
  \/ RestoreStarts \/ RestoreEnds

TabsSpec == TabsInit /\ [][TabsNext]_tabVars

-----------------------------------------------------------------------------
TabsTypeOK ==
  /\ active \in OpenKeys(tabs) \cup {NoKey}
  /\ page.bodies \subseteq Keys
  /\ page.mounting \in [Keys -> {"none", "attached", "detached"}]
  /\ page.mounted \in Keys \cup {NoKey} /\ page.shown \in Keys \cup {NoKey}

\* What the user sees is the active tab's body or one that is still filling,
\* every cached body is an open tab's, and one tab at most is the preview,
\* also when a mount answers after its tab was replaced, closed or left: the
\* body is discarded "instead of revealing a tab that no longer exists / isn't
\* active" (renderActiveBody).
NoStaleBody ==
  /\ page.shown \notin {NoKey, active} => page.mounting[page.shown] = "attached"
  /\ page.bodies \subseteq OpenKeys(tabs) /\ page.shown \in page.bodies \cup {NoKey}
  /\ Cardinality({i \in DOMAIN tabs : tabs[i].preview}) <= 1

\* The active tab's content is in front of the user once its mount is done:
\* a mount under way is not started again because "the pending mount's own
\* post-await re-check reveals the correct body when it resolves".
ActiveTabShows ==
  active # NoKey /\ page.mounting[active] = "none" => page.shown = active
=============================================================================
