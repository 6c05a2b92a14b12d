--------------------------- MODULE ServicesProofs ---------------------------
(***************************************************************************)
(* The parts that MCServices runs side by side: the part that runs keeps   *)
(* its types, as each does by itself.                                      *)
(***************************************************************************)
EXTENDS MCServices, PipeHandoffProofs, ServerProofs, WebProofs

\* What each part's types rest on; a part that does not run is not looked at.
ServicesInv ==
  /\ part = "connection" => ConnectionTyped /\ KeysInv /\ ReplayInv
  /\ part = "resume" => ResumeTypesInv
  /\ part = "task" => TaskTypesInv
  /\ part = "tabs" => TabsInv
  /\ part = "save" => SaveTypesInv
  /\ part = "pipe" => PipeInv
  /\ part = "admission" => AdmissionTypeOK
  /\ part = "views" => ViewsTypeOK

\* The part that runs starts with its own invariant.
LEMMA InitServices == ServicesInit => ServicesInv
<1> SUFFICES ASSUME ServicesInit PROVE ServicesInv
  OBVIOUS
<1>1. part = "connection" => ConnectionInit
  BY DEF ServicesInit
<1>2. part = "connection" => ConnectionTyped /\ KeysInv /\ ReplayInv
  BY <1>1, InitConnectionTyped, InitKeys, InitReplay
<1>3. ResumeTypesInv /\ TaskTypesInv /\ TabsInv
  BY InitResumeTypes, InitTaskTypes, InitTabs DEF ServicesInit
<1>4. SaveTypesInv /\ PipeInv /\ AdmissionTypeOK /\ ViewsTypeOK
  BY InitSaveTypes, InitPipe, InitTyped, InitViewTypes DEF ServicesInit
<1> QED BY <1>2, <1>3, <1>4 DEF ServicesInv

\* A step of the composition is one of the part that runs, or none of it.
LEMMA PartSteps ==
  ASSUME [ServicesNext]_servicesVars
  PROVE  /\ part' = part
         /\ part = "connection" => [ConnectionNext]_connectionVars
         /\ part = "resume" => [ResumeNext]_resumeVars
         /\ part = "task" => [TaskNext]_taskVars
         /\ part = "tabs" => [TabsNext]_tabVars
         /\ part = "save" => [SaveNext]_saveVars
         /\ part = "pipe" => [PipeNext]_pipeVars
         /\ part = "admission" => [AdmissionNext]_admissionVars
         /\ part = "views" => [ViewsNext]_viewVars
  BY DEF ServicesNext, servicesVars

\* Every step keeps the invariant of the part that runs.
LEMMA NextServices ==
  ASSUME ServicesInv, [ServicesNext]_servicesVars PROVE ServicesInv'
<1>1. part' = part
  BY PartSteps
<1>2. part = "connection" => (ConnectionTyped /\ KeysInv /\ ReplayInv)'
  BY PartSteps, NextConnectionTyped, NextKeys, NextReplay DEF ServicesInv
<1>3. /\ part = "resume" => ResumeTypesInv'
      /\ part = "task" => TaskTypesInv'
  BY PartSteps, NextResumeTypes, NextTaskTypes DEF ServicesInv
<1>4. /\ part = "tabs" => TabsInv'
      /\ part = "save" => SaveTypesInv'
  BY PartSteps, NextTabs, NextSaveTypes DEF ServicesInv
<1>5. /\ part = "pipe" => PipeInv'
      /\ part = "admission" => AdmissionTypeOK'
      /\ part = "views" => ViewsTypeOK'
  BY PartSteps, NextPipe, NextTyped, NextViewTypes DEF ServicesInv
<1> QED BY <1>1, <1>2, <1>3, <1>4, <1>5 DEF ServicesInv

\* Whichever part runs, every variable of it keeps its type (the two runs of
\* MCServices, for any constants).
THEOREM ServicesTypeCorrect == ServicesSpec => []ServicesTypeOK
<1>1. ServicesInv /\ [ServicesNext]_servicesVars => ServicesInv'
  BY NextServices
<1>2. ServicesInv => ServicesTypeOK
  BY ConnectionTypes, TabsShow, SaveTypes, TaskTypes
     DEF ServicesInv, ServicesTypeOK, ResumeTypesInv, PipeInv
<1> QED BY <1>1, <1>2, InitServices, PTL DEF ServicesSpec
=============================================================================
