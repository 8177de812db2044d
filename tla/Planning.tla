------------------------------ MODULE Planning ------------------------------
(***************************************************************************)
(* Versions of bills of materials and the manufacturing orders planned     *)
(* from them, ivadoo/manufacturing.  Activation, archiving and planning    *)
(* lock the version.  A PATCH compares the status of a row it read without *)
(* a lock, then saves every column of that row and rewrites the lines; the *)
(* check of a planned order comes before the transaction that makes it.    *)
(***************************************************************************)
EXTENDS FiniteSets

CONSTANTS Boms, Materials, Planned,   \* primary keys; Planned of the orders
          None

VARIABLES
    bom,        \* status and lines of BillOfMaterials rows, or None
    editing,    \* status in the row that the PATCH of each version will save
    checked,    \* the version and sales order each new order was checked for
    plan        \* ManufacturingOrder rows with their material requirements

planning == <<bom, editing, checked, plan>>

BomStatuses == {"draft", "active", "archived"}
BomRow == [status: BomStatuses, lines: SUBSET Materials]

ASSUME NoneIsNoPlan == None \notin BomStatuses \union BomRow

\* lines are the snapshots that the requirements of an order keep.
PlannedOrder(orders) ==
    [bom: Boms, for: orders \union {None}, lines: SUBSET Materials]

PlanningInit ==
    /\ bom = [b \in Boms |-> None]
    /\ editing = [b \in Boms |-> None]
    /\ checked = [m \in Planned |-> None]
    /\ plan = [m \in Planned |-> None]

CreateBom(b, lines) ==
    /\ bom[b] = None
    /\ lines # {}
    /\ bom' = [bom EXCEPT ![b] = [status |-> "draft", lines |-> lines]]
    /\ UNCHANGED <<editing, checked, plan>>

\* BillOfMaterialsSerializer.validate.
ReadBom(b) ==
    /\ bom[b] # None /\ bom[b].status = "draft"
    /\ editing[b] = None
    /\ editing' = [editing EXCEPT ![b] = bom[b].status]
    /\ UNCHANGED <<bom, checked, plan>>

\* ManufacturingMaterialRequirement.source_bom_line is PROTECT.
Rewritable(b) == \A m \in Planned : plan[m] # None => plan[m].bom # b

\* Fault: the PATCH leaves the status alone.
SaveBomColumns(b, lines) ==
    /\ editing[b] # None
    /\ lines # None => Rewritable(b) \/ bom[b].lines = {}
    /\ bom' = IF lines = None THEN bom ELSE [bom EXCEPT ![b].lines = lines]
    /\ editing' = [editing EXCEPT ![b] = None]
    /\ UNCHANGED <<checked, plan>>

\* BillOfMaterialsSerializer.update, with lines, perhaps empty, or without.
SaveBom(b, lines) ==
    /\ editing[b] # None
    /\ lines # None => Rewritable(b) \/ bom[b].lines = {}
    /\ bom' = [bom EXCEPT ![b] =
         [status |-> editing[b],
          lines |-> IF lines = None THEN bom[b].lines ELSE lines]]
    /\ editing' = [editing EXCEPT ![b] = None]
    /\ UNCHANGED <<checked, plan>>

AbandonEdit(b) ==
    /\ editing[b] # None
    /\ editing' = [editing EXCEPT ![b] = None]
    /\ UNCHANGED <<bom, checked, plan>>

ActivateBom(b) ==
    /\ bom[b] # None /\ bom[b].status = "draft"
    /\ bom[b].lines # {}
    /\ bom' = [bom EXCEPT ![b].status = "active"]
    /\ UNCHANGED <<editing, checked, plan>>

ArchiveBom(b) ==
    /\ bom[b] # None /\ bom[b].status # "archived"
    /\ bom' = [bom EXCEPT ![b].status = "archived"]
    /\ UNCHANGED <<editing, checked, plan>>

\* ManufacturingOrderSerializer.validate, for a sales order or none.
CheckPlan(m, b, o) ==
    /\ plan[m] = None /\ checked[m] = None
    /\ bom[b] # None /\ bom[b].status = "active"
    /\ checked' = [checked EXCEPT ![m] = [bom |-> b, for |-> o]]
    /\ UNCHANGED <<bom, editing, plan>>

\* create_manufacturing_order: the version is locked and compared again.
CreatePlan(m) ==
    /\ checked[m] # None
    /\ bom[checked[m].bom].status = "active"
    /\ plan' = [plan EXCEPT ![m] =
         [bom |-> checked[m].bom, for |-> checked[m].for,
          lines |-> bom[checked[m].bom].lines]]
    /\ checked' = [checked EXCEPT ![m] = None]
    /\ UNCHANGED <<bom, editing>>

AbandonPlan(m) ==
    /\ checked[m] # None
    /\ checked' = [checked EXCEPT ![m] = None]
    /\ UNCHANGED <<bom, editing, plan>>

\* Everything but the check of a plan, which reads the sales order.
PlanProduction ==
    \/ \E b \in Boms :
          \/ \E lines \in SUBSET Materials : CreateBom(b, lines)
          \/ ReadBom(b) \/ AbandonEdit(b) \/ ActivateBom(b) \/ ArchiveBom(b)
          \/ \E lines \in (SUBSET Materials) \union {None} : SaveBom(b, lines)
    \/ \E m \in Planned : CreatePlan(m) \/ AbandonPlan(m)

-----------------------------------------------------------------------------
(* Properties.                                                             *)

PlanningTypeOK(orders) ==
    /\ bom \in [Boms -> BomRow \union {None}]
    /\ editing \in [Boms -> BomStatuses \union {None}]
    /\ checked \in [Planned -> [bom: Boms, for: orders \union {None}]
                                 \union {None}]
    /\ plan \in [Planned -> PlannedOrder(orders) \union {None}]

\* An order is planned from at least one material, and the lines it was planned
\* from stay those of its version; an active version has lines.  An edit that
\* was checked before an activation may still be saved after it, even without
\* any lines, but takes the activation back.
PlansKeepTheirLines ==
    /\ \A b \in Boms : bom[b] # None /\ bom[b].status = "active" =>
          bom[b].lines # {}
    /\ \A m \in Planned : plan[m] # None =>
          plan[m].lines # {} /\ plan[m].lines = bom[plan[m].bom].lines

=============================================================================
