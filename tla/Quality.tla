------------------------------- MODULE Quality -------------------------------
(***************************************************************************)
(* Inspections and rework, ivadoo/quality, of the things in Subjects.  An  *)
(* inspection is created with its criteria and defects, which nothing      *)
(* changes later; it is completed once.  Its subject passes the gate when  *)
(* the blocking inspection completed last accepted it.                     *)
(***************************************************************************)
EXTENDS Integers, Sequences

CONSTANTS
    Inspections,   \* QualityInspection primary keys
    Subjects,      \* what is inspected
    NoInspection

ASSUME NoInspectionIsNone == NoInspection \notin Inspections

VARIABLES
    inspection,   \* QualityInspection rows with what was found
    completed,    \* the completed inspections by completed_at
    rework        \* status of the QualityRework of each inspection, if any

quality == <<inspection, completed, rework>>

InspectionDecisions == {"accept", "reject", "rework"}

\* findings: a criterion still pending, one failed or a defect, or neither.
InspectionRow ==
    [subject: Subjects, blocking: BOOLEAN,
     findings: {"none", "faults", "pending"},
     decision: InspectionDecisions \union {"pending"},
     parent: Inspections \union {NoInspection}]

NoRow == [decision |-> "none"]

QualityInit ==
    /\ inspection = [n \in Inspections |-> NoRow]
    /\ completed = <<>>
    /\ rework = [n \in Inspections |-> "none"]

Created == {n \in Inspections : inspection[n] # NoRow}

\* A reinspection follows a rework decision on the same subject, carried out.
FollowsRework(parent, subject) ==
    /\ parent \in Created
    /\ inspection[parent].decision = "rework"
    /\ inspection[parent].subject = subject
    /\ rework[parent] = "done"

CreateInspection(n, subject, blocking, findings, parent) ==
    /\ n \notin Created
    /\ parent # NoInspection => FollowsRework(parent, subject)
    /\ inspection' = [inspection EXCEPT ![n] =
         [subject |-> subject, blocking |-> blocking, findings |-> findings,
          decision |-> "pending", parent |-> parent]]
    /\ UNCHANGED <<completed, rework>>

\* complete_inspection.
CompleteInspection(n, decision) ==
    /\ n \in Created
    /\ inspection[n].decision = "pending"
    /\ inspection[n].findings # "pending"
    /\ decision = "accept" => inspection[n].findings = "none"
    /\ inspection' = [inspection EXCEPT ![n].decision = decision]
    /\ completed' = Append(completed, n)
    /\ rework' = IF decision = "rework" THEN [rework EXCEPT ![n] = "open"]
                 ELSE rework

\* complete_rework.
CompleteRework(n) ==
    /\ rework[n] = "open"
    /\ rework' = [rework EXCEPT ![n] = "done"]
    /\ UNCHANGED <<inspection, completed>>

\* What _latest_blocking_inspection queries, by place in the order of completion.
BlockingInspections(subject) ==
    {j \in DOMAIN completed : /\ inspection[completed[j]].blocking
                              /\ inspection[completed[j]].subject = subject}

\* Fault: any acceptance opens the gate, however old.
GateOnceAccepted(subject) ==
    LET all == BlockingInspections(subject)
    IN  all # {} => \E j \in all : inspection[completed[j]].decision = "accept"

\* assert_quality_gate_passed: without a blocking inspection it passes.
GatePassed(subject) ==
    LET all == BlockingInspections(subject)
    IN  \A j \in all : (\A k \in all : k <= j) =>
                            inspection[completed[j]].decision = "accept"

Inspect ==
    \E n \in Inspections :
       \/ \E subject \in Subjects, blocking \in BOOLEAN,
             findings \in {"none", "faults", "pending"},
             parent \in Inspections \union {NoInspection} :
             CreateInspection(n, subject, blocking, findings, parent)
       \/ \E decision \in InspectionDecisions : CompleteInspection(n, decision)
       \/ CompleteRework(n)

-----------------------------------------------------------------------------
(* Properties.                                                             *)

QualityTypeOK ==
    /\ inspection \in [Inspections -> InspectionRow \union {NoRow}]
    /\ completed \in Seq(Inspections)
    /\ rework \in [Inspections -> {"none", "open", "done"}]

\* What the last blocking inspection refused: what is to be rejected or
\* reworked and has no later acceptance.
Refused(subject) ==
    \E j \in DOMAIN completed :
       LET n == completed[j]
       IN  /\ inspection[n].subject = subject /\ inspection[n].blocking
           /\ inspection[n].decision # "accept"
           /\ \A k \in DOMAIN completed :
                 LET later == completed[k]
                 IN  k > j /\ inspection[later].subject = subject
                       /\ inspection[later].blocking =>
                         inspection[later].decision # "accept"

=============================================================================
