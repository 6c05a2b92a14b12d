---------------------------- MODULE MCEditorTabs ----------------------------
(* EditorTabs for TLC: three files, of which two were open before. *)
EXTENDS EditorTabs

CONSTANTS f1, f2, f3

SavedTabs == <<Tab(f1, FALSE), Tab(f2, TRUE)>>
=============================================================================
