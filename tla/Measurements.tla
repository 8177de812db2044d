----------------------------- MODULE Measurements -----------------------------
(***************************************************************************)
(* Measurement sets, ivadoo/measurements: each recording of a customer's   *)
(* measurements is a set with the next version of that customer.  A set    *)
(* and its values are never changed.  A recording locks the customer,      *)
(* reads the highest version and inserts; the lock makes it two steps.     *)
(***************************************************************************)
EXTENDS Integers, FiniteSets, FiniteSetsExt

CONSTANTS Customers, MeasurementSets, NoSet

ASSUME NoSetIsNone == NoSet \notin MeasurementSets \union Customers
ASSUME SetsAreFinite == IsFiniteSet(MeasurementSets)

VARIABLES
    measured,    \* MeasurementSet rows, version 0 before they exist
    recording    \* the version that a transaction in flight inserts, or 0

measurements == <<measured, recording>>

MeasurementsInit ==
    /\ measured = [n \in MeasurementSets |-> [customer |-> NoSet, version |-> 0]]
    /\ recording = [n \in MeasurementSets |-> [customer |-> NoSet, version |-> 0]]

SetsOf(c) == {n \in MeasurementSets : measured[n].customer = c}

\* MeasurementSetSerializer.create: the highest version and one.
NextVersion(c) == Max({measured[n].version : n \in SetsOf(c)} \union {0}) + 1

\* Fault: the customer is not locked.
RecordUnlocked(n, c) ==
    /\ measured[n].version = 0 /\ recording[n].version = 0
    /\ recording' = [recording EXCEPT ![n] =
                       [customer |-> c, version |-> NextVersion(c)]]
    /\ UNCHANGED measured

BeginRecording(n, c) ==
    /\ measured[n].version = 0 /\ recording[n].version = 0
    /\ \A x \in MeasurementSets : recording[x].customer # c
    /\ recording' = [recording EXCEPT ![n] =
                       [customer |-> c, version |-> NextVersion(c)]]
    /\ UNCHANGED measured

\* measurement_set_unique_customer_version.
VersionIsFree(n) ==
    \A x \in SetsOf(recording[n].customer) :
       measured[x].version # recording[n].version

CommitRecording(n) ==
    /\ recording[n].version > 0
    /\ VersionIsFree(n)
    /\ measured' = [measured EXCEPT ![n] = recording[n]]
    /\ recording' = [recording EXCEPT ![n] = [customer |-> NoSet, version |-> 0]]

\* The transaction fails, or the database refuses its version.
AbortRecording(n) ==
    /\ recording[n].version > 0
    /\ recording' = [recording EXCEPT ![n] = [customer |-> NoSet, version |-> 0]]
    /\ UNCHANGED measured

RecordMeasurements ==
    \E n \in MeasurementSets :
       \/ \E c \in Customers : BeginRecording(n, c)
       \/ CommitRecording(n)
       \/ AbortRecording(n)

-----------------------------------------------------------------------------
(* Properties.                                                             *)

MeasurementsTypeOK ==
    LET Row == [customer: Customers \union {NoSet},
                version: 0..Cardinality(MeasurementSets)]
    IN  measured \in [MeasurementSets -> Row] /\ recording \in [MeasurementSets -> Row]

\* serializers.py:102, "two concurrent recordings cannot allocate the same next
\* version": the versions of a customer have neither gap nor duplicate, and the
\* recording in flight does not meet the constraint that would refuse it.
VersionsAreSequential ==
    /\ \A c \in Customers :
          {measured[n].version : n \in SetsOf(c)} = 1..Cardinality(SetsOf(c))
    /\ \A n \in MeasurementSets : recording[n].version > 0 => VersionIsFree(n)

=============================================================================
