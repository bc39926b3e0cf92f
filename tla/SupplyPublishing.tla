-------------------------- MODULE SupplyPublishing --------------------------
(***************************************************************************)
(* The publication of one Workspace beside the lifecycle of its images:    *)
(* WorkspacePublishingService.publish locks the Workspace row before its   *)
(* first read, as the media commands do, but finalizations and workers do  *)
(* not wait for it.                                                        *)
(***************************************************************************)
EXTENDS MediaLifecycle

VARIABLES
  status,  \* Workspace.status
  late     \* history: images that were there, not READY, at publication

supplyVars == <<vars, status, late>>

SupplyInit == Init /\ status = "DRAFT" /\ late = {}

(* Mutant: an image that is being processed does not stop the checklist. *)
ChecklistIgnoresProcessing == \A m \in MediaIds : media[m].status # "PENDING_UPLOAD"

(* buildChecklist: the details of the Salon and a priced RentalOption are  *)
(* there from the creation on, what can be missing is the media check.     *)
Checklist == \A m \in MediaIds : media[m].status \notin {"PENDING_UPLOAD", "PROCESSING"}

(* A second publication returns before it writes. *)
Publish ==
  /\ Checklist
  /\ status = "DRAFT" /\ status' = "PUBLISHED"
  /\ late' = {m \in MediaIds : media[m].status \notin {"NONE", "READY"}}
  /\ UNCHANGED vars

SupplyNext == Publish \/ (Next /\ UNCHANGED <<status, late>>)

SupplySpec == SupplyInit /\ [][SupplyNext]_supplyVars
FairSupplySpec == SupplySpec /\ Fairness

-----------------------------------------------------------------------------
(* The checklist is a barrier: no image that was there and not READY when  *)
(* the Workspace was published appears in public later, whatever           *)
(* finalizations, releases and recoveries were under way.                  *)
ChecklistIsFinal == \A m \in late : media[m].status # "READY"
=============================================================================
