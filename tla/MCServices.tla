----------------------------- MODULE MCServices -----------------------------
(* The components that share no state in their models, for TLC, side by      *)
(* side: each behaviour is one of the part it chose at its start, and the    *)
(* other parts stay as they are.                                             *)
EXTENDS ClientConnection, AgentResume, TaskRunner, EditorTabs, EditorSave,
        PipeCapture, PipeHandoff, TerminalAdmission, LinkedViews, FileTrash, TLC

CONSTANTS Parts, f1, f2, f3, i1, create, attach1, attach2,
          member, owner, r1, r2, r3, v1, v2

VARIABLE part

SavedTabs == <<Tab(f1, FALSE), Tab(f2, TRUE)>>
OwnerOf == (r1 :> member) @@ (r2 :> member) @@ (r3 :> owner)

\* Every part's variables, but its own name for those of FileTrash.
trashVars == vars

ServicesInit ==
  /\ part \in Parts
  /\ IF part = "connection" THEN ConnectionInit
     ELSE ConnectionFrom("closed") /\ behavior = "auto" /\ ~hadSocketConnection
  /\ ResumeInit /\ TaskInit /\ TabsInit /\ SaveInit
  /\ PipeInit /\ AdmissionInit /\ ViewsInit /\ Init
  /\ CaptureInit /\ (part # "capture" => pipe = "closed" /\ ~file)

servicesVars ==
  <<part, connectionVars, resumeVars, taskVars, tabVars, saveVars, captureVars,
    pipeVars, admissionVars, viewVars, trashVars>>

ServicesNext ==
  /\ UNCHANGED part
  /\ \/ /\ part = "connection" /\ ConnectionNext
        /\ UNCHANGED <<resumeVars, taskVars, tabVars, saveVars, captureVars,
                       pipeVars, admissionVars, viewVars, trashVars>>
     \/ /\ part = "resume" /\ ResumeNext
        /\ UNCHANGED <<connectionVars, taskVars, tabVars, saveVars, captureVars,
                       pipeVars, admissionVars, viewVars, trashVars>>
     \/ /\ part = "task" /\ TaskNext
        /\ UNCHANGED <<connectionVars, resumeVars, tabVars, saveVars, captureVars,
                       pipeVars, admissionVars, viewVars, trashVars>>
     \/ /\ part = "tabs" /\ TabsNext
        /\ UNCHANGED <<connectionVars, resumeVars, taskVars, saveVars, captureVars,
                       pipeVars, admissionVars, viewVars, trashVars>>
     \/ /\ part = "save" /\ SaveNext
        /\ UNCHANGED <<connectionVars, resumeVars, taskVars, tabVars, captureVars,
                       pipeVars, admissionVars, viewVars, trashVars>>
     \/ /\ part = "capture" /\ CaptureNext
        /\ UNCHANGED <<connectionVars, resumeVars, taskVars, tabVars, saveVars,
                       pipeVars, admissionVars, viewVars, trashVars>>
     \/ /\ part = "pipe" /\ PipeNext
        /\ UNCHANGED <<connectionVars, resumeVars, taskVars, tabVars, saveVars,
                       captureVars, admissionVars, viewVars, trashVars>>
     \/ /\ part = "admission" /\ AdmissionNext
        /\ UNCHANGED <<connectionVars, resumeVars, taskVars, tabVars, saveVars,
                       captureVars, pipeVars, viewVars, trashVars>>
     \/ /\ part = "views" /\ ViewsNext
        /\ UNCHANGED <<connectionVars, resumeVars, taskVars, tabVars, saveVars,
                       captureVars, pipeVars, admissionVars, trashVars>>
     \/ /\ part = "trash" /\ Next
        /\ UNCHANGED <<connectionVars, resumeVars, taskVars, tabVars, saveVars,
                       captureVars, pipeVars, admissionVars, viewVars>>

\* The fairness of each part's own specification, for the part that runs.
ServicesSpec ==
  /\ ServicesInit /\ [][ServicesNext]_servicesVars
  /\ WF_connectionVars(part = "connection" /\ ConnectionWork)
  /\ WF_taskVars(part = "task" /\ TaskWork)
  /\ WF_saveVars(part = "save" /\ SaveWork)
  /\ \A c \in Calls : WF_captureVars(part = "capture" /\ CaptureWork(c))
  /\ WF_pipeVars(part = "pipe" /\ Picks("pump"))
  /\ \A h \in Handles, c \in Callers :
       WF_pipeVars(part = "pipe" /\ ReadGoesOn(h, c))
  /\ \A i \in Items : /\ WF_vars(part = "trash" /\ Work(i))
                       /\ WF_vars(part = "trash" /\ Reconcile(i))

\* Every variable of the part that runs has its type.
ServicesTypeOK ==
  /\ part = "connection" => ConnectionTypeOK
  /\ part = "resume" => ResumeTypeOK
  /\ part = "task" => TaskTypeOK
  /\ part = "tabs" => TabsTypeOK
  /\ part = "save" => SaveTypeOK
  /\ part = "pipe" => PipeTypeOK
  /\ part = "admission" => AdmissionTypeOK
  /\ part = "views" => ViewsTypeOK
=============================================================================
