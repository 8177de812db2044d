----------------------------- MODULE SalesProofs -----------------------------
(***************************************************************************)
(* Proofs about Sales, for any quotations, orders, fittings, versions of   *)
(* bills of materials and planned orders: what a customer validated stands, *)
(* and plans keep the lines they were made from.                           *)
(***************************************************************************)
EXTENDS Sales, SumTheorems, FiniteSetTheorems, TLAPS

-----------------------------------------------------------------------------
(* Each part of the application writes its own tables.                     *)

LEMMA SalesStep ==
  ASSUME [SalesNext]_sales
  PROVE  /\ Fit \/ UNCHANGED fitted
         /\ Plan \/ UNCHANGED planning
         /\ RecordMeasurements \/ UNCHANGED measurements
  BY DEF SalesNext, sales, fitted, planning, measurements

-----------------------------------------------------------------------------
(* Fittings.                                                               *)

FittingTypes ==
    /\ fitting \in [Fittings -> FittingRow \union {None}]
    /\ booking \in [Fittings -> Orders \union {None}]
    /\ validating \subseteq {f \in Fittings : fitting[f] # None}

FitInv == FittingTypes /\ ValidatedFittingsStand

LEMMA FitStep ==
  ASSUME FitInv, Fit
  PROVE  FitInv'
  <1> USE NoneIsNoFitting DEF FitInv, FittingTypes, ValidatedFittingsStand,
                              FittingRow, FittingStatuses, Fits
  <1>1. PICK f \in Fittings :
            \/ \E o \in Orders : CheckFitting(f, o)
            \/ \E required \in BOOLEAN : CreateFitting(f, required)
            \/ \E result \in {"fit_ok", "alteration_required"} :
                  CompleteFitting(f, result)
            \/ CancelFitting(f)
            \/ CheckValidation(f)
            \/ \E decision \in {"approved", "rejected"} :
                  RecordValidation(f, decision)
    BY DEF Fit
  <1>2. CASE \E o \in Orders : CheckFitting(f, o)
    BY <1>2 DEF CheckFitting
  <1>3. ASSUME NEW required \in BOOLEAN, CreateFitting(f, required)
        PROVE  FitInv'
    <2>1. fitting'[f] = [order |-> booking[f], required |-> required,
                         status |-> "scheduled", result |-> "pending",
                         validation |-> "none"]
      BY <1>3 DEF CreateFitting
    <2>2. \A g \in Fittings \ {f} : fitting'[g] = fitting[g]
      BY <1>3 DEF CreateFitting
    <2>3. FittingTypes'
      BY <1>3 DEF CreateFitting
    <2>4. QED
      BY <2>1, <2>2, <2>3
  <1>4. ASSUME NEW result \in {"fit_ok", "alteration_required"},
               CompleteFitting(f, result)
        PROVE  FitInv'
    \* What is scheduled was never validated.
    <2>1. fitting[f] \in FittingRow /\ fitting[f].validation = "none"
      BY <1>4 DEF CompleteFitting
    <2>2. /\ fitting'[f] \in FittingRow /\ fitting'[f].validation = "none"
          /\ \A g \in Fittings \ {f} : fitting'[g] = fitting[g]
      BY <1>4, <2>1 DEF CompleteFitting
    <2>3. FittingTypes'
      BY <1>4, <2>1 DEF CompleteFitting
    <2>4. QED
      BY <2>2, <2>3
  <1>5. CASE CancelFitting(f)
    <2>1. fitting[f] \in FittingRow /\ fitting[f].validation = "none"
      BY <1>5 DEF CancelFitting
    <2>2. /\ fitting'[f] \in FittingRow /\ fitting'[f].validation = "none"
          /\ \A g \in Fittings \ {f} : fitting'[g] = fitting[g]
      BY <1>5, <2>1 DEF CancelFitting
    <2>3. FittingTypes'
      BY <1>5, <2>1 DEF CancelFitting
    <2>4. QED
      BY <2>2, <2>3
  <1>6. CASE CheckValidation(f)
    BY <1>6 DEF CheckValidation
  <1>7. ASSUME NEW decision \in {"approved", "rejected"},
               RecordValidation(f, decision)
        PROVE  FitInv'
    <2>1. CASE UNCHANGED fitting
      BY <1>7, <2>1 DEF RecordValidation
    <2>2. CASE ~ UNCHANGED fitting
      <3>1. /\ Fits(f)
            /\ fitting' = [fitting EXCEPT ![f].validation = decision]
            /\ booking' = booking /\ validating' \subseteq validating
        BY <1>7, <2>2 DEF RecordValidation
      <3>2. fitting[f] \in FittingRow
        BY <1>7 DEF RecordValidation
      <3>3. /\ fitting'[f] \in FittingRow /\ Fits(f)'
            /\ \A g \in Fittings \ {f} : fitting'[g] = fitting[g]
        BY <3>1, <3>2
      <3>4. QED
        BY <1>7, <3>1, <3>2, <3>3, NoneIsNoFitting DEF RecordValidation
    <2>3. QED
      BY <2>1, <2>2
  <1>8. QED
    BY <1>1, <1>2, <1>3, <1>4, <1>5, <1>6, <1>7

\* Nobody validates a fitting that did not take place or did not fit, and what
\* was validated stays: it is neither cancelled nor completed otherwise.
THEOREM ValidationsStand == SalesSpec => []ValidatedFittingsStand
  <1>1. SalesInit => FitInv
    BY DEF SalesInit, FitInv, FittingTypes, ValidatedFittingsStand
  <1>2. FitInv /\ [SalesNext]_sales => FitInv'
    <2>1. FitInv /\ UNCHANGED fitted => FitInv'
      BY DEF FitInv, FittingTypes, ValidatedFittingsStand, Fits, fitted
    <2>2. QED
      BY <2>1, FitStep, SalesStep
  <1>3. FitInv => ValidatedFittingsStand
    BY DEF FitInv
  <1>4. QED
    BY <1>1, <1>2, <1>3, PTL DEF SalesSpec

-----------------------------------------------------------------------------
(* Planning.                                                               *)

\* What refers to a version refers to one that exists, and only rows that were
\* read as drafts are ever saved.
ReferredVersionsExist ==
    /\ \A b \in Boms : editing[b] # None => bom[b] # None /\ editing[b] = "draft"
    /\ \A m \in Planned : checked[m] # None => bom[checked[m].bom] # None
    /\ \A m \in Planned : plan[m] # None => bom[plan[m].bom] # None

PlanInv ==
    PlanningTypeOK(Orders) /\ ReferredVersionsExist /\ PlansKeepTheirLines

LEMMA PlanStep ==
  ASSUME PlanInv, Plan
  PROVE  PlanInv'
  <1> USE DEF PlanInv, PlanningTypeOK, ReferredVersionsExist, PlansKeepTheirLines,
              BomRow, BomStatuses, PlannedOrder
  <1> USE NoneIsNoPlan
  <1>1. ASSUME NEW b \in Boms, NEW lines \in SUBSET Materials, CreateBom(b, lines)
        PROVE  PlanInv'
    BY <1>1 DEF CreateBom
  <1>2. ASSUME NEW b \in Boms, ReadBom(b) \/ AbandonEdit(b)
        PROVE  PlanInv'
    BY <1>2 DEF ReadBom, AbandonEdit
  <1>3. ASSUME NEW b \in Boms, ActivateBom(b) \/ ArchiveBom(b)
        PROVE  PlanInv'
    <2>1. PICK s \in BomStatuses :
             /\ bom[b] # None
             /\ s = "active" => bom[b].lines # {}
             /\ bom' = [bom EXCEPT ![b].status = s]
             /\ UNCHANGED <<editing, checked, plan>>
      BY <1>3 DEF ActivateBom, ArchiveBom
    <2>2. bom[b] \in BomRow
      BY <2>1
    <2>3. /\ bom' \in [Boms -> BomRow \union {None}]
          /\ bom'[b] = [status |-> s, lines |-> bom[b].lines]
          /\ \A c \in Boms \ {b} : bom'[c] = bom[c]
      BY <2>1, <2>2
    <2>4. QED
      BY <2>1, <2>2, <2>3
  <1>4. ASSUME NEW b \in Boms, NEW lines \in (SUBSET Materials) \union {None},
               SaveBom(b, lines)
        PROVE  PlanInv'
    <2>1. bom[b] \in BomRow /\ editing[b] = "draft"
      BY <1>4 DEF SaveBom
    <2>2. /\ bom'[b] \in BomRow /\ bom'[b].status = "draft"
          /\ bom'[b].lines = IF lines = None THEN bom[b].lines ELSE lines
          /\ \A c \in Boms \ {b} : bom'[c] = bom[c]
          /\ bom' \in [Boms -> BomRow \union {None}]
      BY <1>4, <2>1 DEF SaveBom
    <2>3. /\ editing' \in [Boms -> BomStatuses \union {None}]
          /\ \A c \in Boms : editing'[c] # None => editing'[c] = editing[c]
          /\ UNCHANGED <<checked, plan>>
      BY <1>4 DEF SaveBom
    \* The lines that an order was planned from are protected.
    <2>4. ASSUME NEW m \in Planned, plan[m] # None, plan[m].bom = b
          PROVE  bom'[b].lines = bom[b].lines
      BY <1>4, <2>2, <2>4 DEF SaveBom, Rewritable
    <2>5. PlanningTypeOK(Orders)'
      BY <2>2, <2>3
    <2>6. ReferredVersionsExist'
      BY <2>1, <2>2, <2>3
    <2>7. ASSUME NEW m \in Planned, plan'[m] # None
          PROVE  plan'[m].lines # {} /\ plan'[m].lines = bom'[plan'[m].bom].lines
      BY <2>2, <2>3, <2>4, <2>7
    <2>8. PlansKeepTheirLines'
      BY <2>2, <2>7
    <2>9. QED
      BY <2>5, <2>6, <2>8
  <1>5. ASSUME NEW m \in Planned, CreatePlan(m)
        PROVE  PlanInv'
    <2> DEFINE b == checked[m].bom
    <2>0. checked[m] \in [bom: Boms, for: Orders \union {None}]
      BY <1>5 DEF CreatePlan
    <2>1. b \in Boms /\ bom[b] \in BomRow /\ bom[b].lines # {}
            /\ checked[m].for \in Orders \union {None}
      BY <1>5, <2>0 DEF CreatePlan
    <2>2. /\ plan'[m] = [bom |-> b, for |-> checked[m].for, lines |-> bom[b].lines]
          /\ \A n \in Planned \ {m} : plan'[n] = plan[n]
          /\ plan' \in [Planned -> PlannedOrder(Orders) \union {None}]
      BY <1>5, <2>1 DEF CreatePlan
    <2>3. QED
      BY <1>5, <2>1, <2>2 DEF CreatePlan
  <1>6. ASSUME NEW m \in Planned, AbandonPlan(m)
        PROVE  PlanInv'
    BY <1>6 DEF AbandonPlan
  <1>7. ASSUME NEW m \in Planned, NEW b \in Boms, NEW o \in Orders \union {None},
               PlanForOrder(m, b, o)
        PROVE  PlanInv'
    BY <1>7 DEF PlanForOrder, CheckPlan
  <1>8. QED
    BY <1>1, <1>2, <1>3, <1>4, <1>5, <1>6, <1>7 DEF Plan, PlanProduction

\* No order is planned without material, and its lines stay those of its version,
\* however edits, activations and plans overlap.
THEOREM PlansKeep == SalesSpec => []PlansKeepTheirLines
  <1>1. SalesInit => PlanInv
    BY DEF SalesInit, PlanningInit, PlanInv, PlanningTypeOK,
           ReferredVersionsExist, PlansKeepTheirLines
  <1>2. PlanInv /\ [SalesNext]_sales => PlanInv'
    <2>1. PlanInv /\ UNCHANGED planning => PlanInv'
      BY DEF PlanInv, PlanningTypeOK, ReferredVersionsExist,
             PlansKeepTheirLines, planning
    <2>2. QED
      BY <2>1, PlanStep, SalesStep
  <1>3. PlanInv => PlansKeepTheirLines
    BY DEF PlanInv
  <1>4. QED
    BY <1>1, <1>2, <1>3, PTL DEF SalesSpec

-----------------------------------------------------------------------------
(* Measurements.                                                           *)

VersionsOf(c) == {measured[n].version : n \in SetsOf(c)}

SetRow == [customer: Customers \union {NoSet}, version: Nat]

\* A recording in flight is the only one of its customer, and inserts the next
\* version of a set that does not exist.
RecordingsAreNext ==
    \A n \in MeasurementSets : recording[n].version > 0 =>
       /\ measured[n].version = 0
       /\ recording[n].version = Cardinality(SetsOf(recording[n].customer)) + 1
       /\ \A m \in MeasurementSets :
             recording[m].customer = recording[n].customer => m = n

RecordInv ==
    /\ measured \in [MeasurementSets -> SetRow]
    /\ recording \in [MeasurementSets -> SetRow]
    /\ \A n \in MeasurementSets :
          /\ measured[n].version = 0 => measured[n].customer = NoSet
          /\ recording[n].version = 0 <=> recording[n].customer = NoSet
    /\ RecordingsAreNext
    /\ \A c \in Customers : VersionsOf(c) = 1..Cardinality(SetsOf(c))

LEMMA SetsOfAreFinite ==
  ASSUME NEW c
  PROVE  IsFiniteSet(SetsOf(c)) /\ Cardinality(SetsOf(c)) \in Nat
  <1>1. SetsOf(c) \in SUBSET MeasurementSets
    BY DEF SetsOf
  <1>2. IsFiniteSet(SetsOf(c))
    BY <1>1, SetsAreFinite, FS_Subset
  <1>3. QED
    BY <1>2, FS_CardinalityType

\* The highest version of versions without a gap is their number.
LEMMA NextIsNext ==
  ASSUME NEW c, VersionsOf(c) = 1..Cardinality(SetsOf(c))
  PROVE  NextVersion(c) = Cardinality(SetsOf(c)) + 1
  <1> DEFINE k == Cardinality(SetsOf(c))
  <1>1. k \in Nat
    BY SetsOfAreFinite
  <1>2. NextVersion(c) = Max(VersionsOf(c) \union {0}) + 1
    BY DEF NextVersion, VersionsOf
  <1>3. VersionsOf(c) \union {0} = 0..k
    BY <1>1
  <1> HIDE DEF k
  <1>4. k \in 0..k /\ \A y \in 0..k : k >= y
    BY <1>1
  <1>5. \A x \in 0..k : (\A y \in 0..k : x >= y) => x = k
    BY <1>1
  <1>6. Max(0..k) = k
    BY <1>4, <1>5 DEF Max
  <1>7. QED
    BY <1>2, <1>3, <1>6 DEF k

LEMMA BeginRecordingStep ==
  ASSUME RecordInv, NEW n \in MeasurementSets, NEW c \in Customers, BeginRecording(n, c)
  PROVE  RecordInv'
  <1> DEFINE row == [customer |-> c, version |-> NextVersion(c)]
  <1>1. NextVersion(c) = Cardinality(SetsOf(c)) + 1
    BY NextIsNext DEF RecordInv
  <1>2. row \in SetRow /\ row.version > 0 /\ row.customer = c
    BY <1>1, SetsOfAreFinite DEF SetRow
  <1>3. row.version = Cardinality(SetsOf(c)) + 1
    BY <1>1
  <1>4. /\ recording' = [recording EXCEPT ![n] = row] /\ measured' = measured
        /\ measured[n].version = 0
        /\ \A x \in MeasurementSets : recording[x].customer # c
    BY DEF BeginRecording
  <1> HIDE DEF row
  <1>5. /\ recording' \in [MeasurementSets -> SetRow]
        /\ recording'[n] = row
        /\ \A m \in MeasurementSets \ {n} : recording'[m] = recording[m]
    BY <1>2, <1>4 DEF RecordInv
  <1>6. /\ \A d : SetsOf(d)' = SetsOf(d)
        /\ \A d : VersionsOf(d)' = VersionsOf(d)
    BY <1>4 DEF SetsOf, VersionsOf
  <1>7. RecordingsAreNext'
    <2> SUFFICES ASSUME NEW m \in MeasurementSets, recording'[m].version > 0
                 PROVE  /\ measured'[m].version = 0
                        /\ recording'[m].version
                             = Cardinality(SetsOf(recording'[m].customer)) + 1
                        /\ \A x \in MeasurementSets :
                              recording'[x].customer = recording'[m].customer => x = m
      BY <1>6 DEF RecordingsAreNext
    <2>1. CASE m = n
      BY <1>2, <1>3, <1>4, <1>5, <2>1
    <2>2. CASE m # n
      BY <1>2, <1>4, <1>5, <2>2 DEF RecordInv, RecordingsAreNext
    <2>3. QED
      BY <2>1, <2>2
  <1>8. c # NoSet
    BY NoSetIsNone
  <1>9. QED
    BY <1>2, <1>4, <1>5, <1>6, <1>7, <1>8 DEF RecordInv, SetRow

LEMMA AbortRecordingStep ==
  ASSUME RecordInv, NEW n \in MeasurementSets, AbortRecording(n)
  PROVE  RecordInv'
  <1> DEFINE row == [customer |-> NoSet, version |-> 0]
  <1>1. row \in SetRow
    BY DEF SetRow
  <1>2. recording' = [recording EXCEPT ![n] = row] /\ measured' = measured
    BY DEF AbortRecording
  <1>3. /\ recording' \in [MeasurementSets -> SetRow]
        /\ recording'[n] = row
        /\ \A m \in MeasurementSets \ {n} : recording'[m] = recording[m]
    BY <1>1, <1>2 DEF RecordInv
  <1>4. /\ \A d : SetsOf(d)' = SetsOf(d)
        /\ \A d : VersionsOf(d)' = VersionsOf(d)
    BY <1>2 DEF SetsOf, VersionsOf
  <1>5. \A m \in MeasurementSets : recording[m].version > 0 => recording[m].customer # NoSet
    BY DEF RecordInv
  <1>6. RecordingsAreNext'
    BY <1>2, <1>3, <1>4, <1>5 DEF RecordInv, RecordingsAreNext
  <1>7. QED
    BY <1>2, <1>3, <1>4, <1>6 DEF RecordInv

LEMMA CommitRecordingStep ==
  ASSUME RecordInv, NEW n \in MeasurementSets, CommitRecording(n)
  PROVE  RecordInv'
  <1>0. PICK c \in Customers : c = recording[n].customer
    BY DEF CommitRecording, RecordInv, SetRow
  <1> DEFINE k == Cardinality(SetsOf(c))
             none == [customer |-> NoSet, version |-> 0]
  <1>1. /\ recording[n] \in SetRow /\ c = recording[n].customer
        /\ recording[n].version = k + 1 /\ recording[n].version > 0
        /\ measured[n].customer = NoSet
        /\ \A m \in MeasurementSets \ {n} : recording[m].customer # c
    BY <1>0 DEF CommitRecording, RecordInv, RecordingsAreNext, SetRow
  <1>2. none \in SetRow
    BY DEF SetRow
  <1>3. /\ measured' \in [MeasurementSets -> SetRow]
        /\ measured'[n] = recording[n]
        /\ \A m \in MeasurementSets \ {n} : measured'[m] = measured[m]
    BY <1>1 DEF CommitRecording, RecordInv
  <1>4. /\ recording' \in [MeasurementSets -> SetRow]
        /\ recording'[n] = none
        /\ \A m \in MeasurementSets \ {n} : recording'[m] = recording[m]
    BY <1>2 DEF CommitRecording, RecordInv
  <1>5. ASSUME NEW d \in Customers, d # c
        PROVE  SetsOf(d)' = SetsOf(d) /\ VersionsOf(d)' = VersionsOf(d)
    <2>1. n \notin SetsOf(d) /\ SetsOf(d)' = SetsOf(d)
      BY <1>1, <1>3, <1>5, NoSetIsNone DEF SetsOf
    <2>2. \A m \in SetsOf(d) : measured'[m] = measured[m]
      BY <1>3, <2>1 DEF SetsOf
    <2>3. QED
      BY <2>1, <2>2 DEF VersionsOf
  <1>6. SetsOf(c)' = SetsOf(c) \union {n} /\ n \notin SetsOf(c)
    BY <1>1, <1>3, NoSetIsNone DEF SetsOf
  <1>7. /\ k \in Nat
        /\ Cardinality(SetsOf(c) \union {n}) = k + 1
    BY <1>6, SetsOfAreFinite, FS_AddElement
  <1>8. {measured'[m].version : m \in SetsOf(c) \union {n}} = 1..(k + 1)
    <2>1. \A m \in SetsOf(c) : measured'[m] = measured[m]
      BY <1>3, <1>6 DEF SetsOf
    <2>2. {measured[m].version : m \in SetsOf(c)} = 1..k
      BY <1>1 DEF RecordInv, VersionsOf
    <2>3. {measured'[m].version : m \in SetsOf(c) \union {n}}
            = {measured[m].version : m \in SetsOf(c)} \union {k + 1}
      BY <1>1, <1>3, <2>1
    <2>4. (1..k) \union {k + 1} = 1..(k + 1)
      BY <1>7
    <2>5. QED
      BY <2>2, <2>3, <2>4
  <1>9. ASSUME NEW d \in Customers
        PROVE  VersionsOf(d)' = 1..Cardinality(SetsOf(d)')
    <2>1. CASE d = c
      <3>1. SetsOf(d)' = SetsOf(c) \union {n}
        BY <1>3, <1>6, <2>1 DEF SetsOf
      <3>2. VersionsOf(d)' = {measured'[m].version : m \in SetsOf(c) \union {n}}
        BY <3>1 DEF VersionsOf
      <3>3. QED
        BY <1>7, <1>8, <3>1, <3>2
    <2>2. CASE d # c
      BY <1>5, <2>2 DEF RecordInv
    <2>3. QED
      BY <2>1, <2>2
  <1>10. RecordingsAreNext'
    <2> SUFFICES ASSUME NEW m \in MeasurementSets, recording'[m].version > 0
                 PROVE  /\ measured'[m].version = 0
                        /\ recording'[m].version
                             = Cardinality({x \in MeasurementSets :
                                 measured'[x].customer = recording'[m].customer}) + 1
                        /\ \A x \in MeasurementSets :
                              recording'[x].customer = recording'[m].customer => x = m
      BY DEF RecordingsAreNext, SetsOf
    <2>1. m # n
      BY <1>4
    <2>2. recording'[m] = recording[m] /\ recording[m].version > 0
      BY <1>4, <2>1
    <2>3. recording[m].customer \in Customers /\ recording[m].customer # c
      BY <1>1, <2>1, <2>2 DEF RecordInv, SetRow
    <2>4. \A x \in MeasurementSets :
             recording'[x].customer = recording'[m].customer => x = m
      BY <1>4, <2>2, <2>3, NoSetIsNone DEF RecordInv, RecordingsAreNext
    <2>5. measured'[m].version = 0
      BY <1>3, <2>1, <2>2 DEF RecordInv, RecordingsAreNext
    <2>6. ASSUME NEW d \in Customers, d # c
          PROVE  {x \in MeasurementSets : measured'[x].customer = d} = SetsOf(d)
      BY <1>5, <2>6 DEF SetsOf
    <2>7. recording[m].version = Cardinality(SetsOf(recording[m].customer)) + 1
      BY <2>2 DEF RecordInv, RecordingsAreNext
    <2>8. QED
      BY <2>2, <2>3, <2>4, <2>5, <2>6, <2>7
  <1>11. QED
    BY <1>1, <1>3, <1>4, <1>9, <1>10 DEF RecordInv

\* serializers.py:102: recordings that overlap never allocate the same version,
\* and versions that were not recorded after all leave no gap.
THEOREM VersionsSequential == SalesSpec => []VersionsAreSequential
  <1>1. SalesInit => RecordInv
    <2> SUFFICES ASSUME SalesInit PROVE RecordInv
      OBVIOUS
    <2>1. /\ measured = [n \in MeasurementSets |-> [customer |-> NoSet, version |-> 0]]
          /\ recording = [n \in MeasurementSets |-> [customer |-> NoSet, version |-> 0]]
      BY DEF SalesInit, MeasurementsInit
    <2>2. \A c \in Customers : SetsOf(c) = {}
      BY <2>1, NoSetIsNone DEF SetsOf
    <2>3. \A c \in Customers : VersionsOf(c) = 1..Cardinality(SetsOf(c))
      BY <2>2, FS_EmptySet DEF VersionsOf
    <2>4. QED
      BY <2>1, <2>3 DEF RecordInv, RecordingsAreNext, SetRow
  <1>2. RecordInv /\ [SalesNext]_sales => RecordInv'
    <2>1. RecordInv /\ UNCHANGED measurements => RecordInv'
      <3> SUFFICES ASSUME RecordInv, UNCHANGED measurements PROVE RecordInv'
        OBVIOUS
      <3>1. measured' = measured /\ recording' = recording
        BY DEF measurements
      <3>2. /\ \A d : SetsOf(d)' = SetsOf(d)
            /\ \A d : VersionsOf(d)' = VersionsOf(d)
        BY <3>1 DEF SetsOf, VersionsOf
      <3>3. RecordingsAreNext'
        BY <3>1, <3>2 DEF RecordInv, RecordingsAreNext
      <3>4. QED
        BY <3>1, <3>2, <3>3 DEF RecordInv
    <2>2. RecordInv /\ RecordMeasurements => RecordInv'
      BY BeginRecordingStep, CommitRecordingStep, AbortRecordingStep
         DEF RecordMeasurements
    <2>3. QED
      BY <2>1, <2>2, SalesStep
  <1>3. RecordInv => VersionsAreSequential
    <2> SUFFICES ASSUME RecordInv, NEW n \in MeasurementSets, recording[n].version > 0
                 PROVE  VersionIsFree(n)
      BY DEF RecordInv, VersionsOf, VersionsAreSequential
    <2> DEFINE c == recording[n].customer
    <2>1. c \in Customers /\ recording[n].version = Cardinality(SetsOf(c)) + 1
      BY DEF RecordInv, RecordingsAreNext, SetRow
    <2>2. \A x \in SetsOf(c) : measured[x].version \in 1..Cardinality(SetsOf(c))
      BY <2>1 DEF RecordInv, VersionsOf
    <2>3. QED
      BY <2>1, <2>2, SetsOfAreFinite DEF VersionIsFree
  <1>4. QED
    BY <1>1, <1>2, <1>3, PTL DEF SalesSpec

-----------------------------------------------------------------------------
(* Readiness: what the latest fitting says of those before it.             *)

\* Every fitting that took place has its place in the order they took place.
PerformedInv ==
    /\ performed \in Seq(Fittings)
    /\ \A f \in Fittings : fitting[f] # None /\ fitting[f].status = "completed" =>
          \E j \in DOMAIN performed : performed[j] = f

\* A step that completes no fitting keeps the order.
LEMMA NoneCompletes ==
  ASSUME PerformedInv, performed' = performed,
         \A f \in Fittings :
            fitting'[f] # None /\ fitting'[f].status = "completed" =>
               fitting[f] # None /\ fitting[f].status = "completed"
  PROVE  PerformedInv'
  BY DEF PerformedInv

LEMMA PerformedStep ==
  ASSUME FitInv, PerformedInv, Fit
  PROVE  PerformedInv'
  <1>1. PICK f \in Fittings :
            \/ \E o \in Orders : CheckFitting(f, o)
            \/ \E required \in BOOLEAN : CreateFitting(f, required)
            \/ \E result \in {"fit_ok", "alteration_required"} :
                  CompleteFitting(f, result)
            \/ CancelFitting(f)
            \/ CheckValidation(f)
            \/ \E decision \in {"approved", "rejected"} :
                  RecordValidation(f, decision)
    BY DEF Fit
  <1>2. FittingTypes
    BY DEF FitInv
  <1>3. CASE \E o \in Orders : CheckFitting(f, o)
    BY <1>3, NoneCompletes DEF CheckFitting
  <1>4. CASE CheckValidation(f)
    BY <1>4, NoneCompletes DEF CheckValidation
  <1>5. ASSUME NEW row, fitting' = [fitting EXCEPT ![f] = row],
               row.status # "completed" \/ fitting[f].status = "completed",
               fitting[f] # None \/ row.status # "completed", performed' = performed
        PROVE  PerformedInv'
    <2>1. /\ fitting'[f] = row
          /\ \A g \in Fittings \ {f} : fitting'[g] = fitting[g]
      BY <1>2, <1>5 DEF FittingTypes
    <2>2. QED
      BY <1>5, <2>1, NoneCompletes
  <1>6. ASSUME NEW required \in BOOLEAN, CreateFitting(f, required)
        PROVE  PerformedInv'
    <2> DEFINE row == [order |-> booking[f], required |-> required,
                       status |-> "scheduled", result |-> "pending",
                       validation |-> "none"]
    <2>1. /\ fitting' = [fitting EXCEPT ![f] = row] /\ row.status # "completed"
          /\ performed' = performed
      BY <1>6 DEF CreateFitting
    <2> HIDE DEF row
    <2>2. QED
      BY <1>5, <2>1
  <1>7. CASE CancelFitting(f)
    <2> DEFINE row == [fitting[f] EXCEPT !.status = "cancelled"]
    <2>1. fitting[f] \in FittingRow
      BY <1>2, <1>7 DEF CancelFitting, FittingTypes
    <2>2. /\ fitting' = [fitting EXCEPT ![f] = row] /\ row.status = "cancelled"
          /\ performed' = performed
      BY <1>7, <2>1 DEF CancelFitting, FittingRow
    <2> HIDE DEF row
    <2>3. QED
      BY <1>5, <2>2
  <1>8. ASSUME NEW decision \in {"approved", "rejected"},
               RecordValidation(f, decision)
        PROVE  PerformedInv'
    <2>1. CASE UNCHANGED fitting
      BY <1>8, <2>1, NoneCompletes DEF RecordValidation
    <2>2. CASE ~ UNCHANGED fitting
      <3> DEFINE row == [fitting[f] EXCEPT !.validation = decision]
      <3>1. /\ fitting' = [fitting EXCEPT ![f] = row] /\ fitting[f] # None
            /\ performed' = performed
        BY <1>2, <1>8, <2>2 DEF RecordValidation, FittingTypes
      <3>2. fitting[f] \in FittingRow /\ row.status = fitting[f].status
        BY <1>2, <3>1 DEF FittingTypes, FittingRow
      <3> HIDE DEF row
      <3>3. QED
        BY <1>5, <3>1, <3>2
    <2>3. QED
      BY <2>1, <2>2
  <1>9. ASSUME NEW result \in {"fit_ok", "alteration_required"},
               CompleteFitting(f, result)
        PROVE  PerformedInv'
    <2>1. performed' = Append(performed, f) /\ performed \in Seq(Fittings)
      BY <1>9 DEF CompleteFitting, PerformedInv
    <2>2. /\ performed' \in Seq(Fittings)
          /\ Len(performed') = Len(performed) + 1
          /\ performed'[Len(performed) + 1] = f
          /\ \A j \in 1..Len(performed) : performed'[j] = performed[j]
      BY <2>1
    <2>3. /\ DOMAIN performed = 1..Len(performed)
          /\ DOMAIN performed' = 1..(Len(performed) + 1)
          /\ Len(performed) \in Nat
      BY <2>1, <2>2
    <2>4. \A g \in Fittings \ {f} : fitting'[g] = fitting[g]
      BY <1>2, <1>9 DEF CompleteFitting, FittingTypes
    <2>5. ASSUME NEW g \in Fittings, fitting'[g] # None,
                 fitting'[g].status = "completed"
          PROVE  \E j \in DOMAIN performed' : performed'[j] = g
      <3>1. CASE g = f
        BY <2>2, <2>3, <3>1
      <3>2. CASE g # f
        BY <2>2, <2>3, <2>4, <2>5, <3>2 DEF PerformedInv
      <3>3. QED
        BY <3>1, <3>2
    <2>6. QED
      BY <2>2, <2>5 DEF PerformedInv
  <1>10. QED
    BY <1>1, <1>3, <1>4, <1>6, <1>7, <1>8, <1>9

\* The fittings of an order that took place have a last one.
LEMMA SomeIsLast ==
  ASSUME PerformedInv, NEW o, NEW j \in DOMAIN performed,
         performed[j] \in RequiredFittings(o)
  PROVE  \E k \in DOMAIN performed : j <= k /\ performed[k] \in PerformedLast(o)
  <1> DEFINE S == {k \in DOMAIN performed : performed[k] \in RequiredFittings(o)}
  <1>1. DOMAIN performed = 1..Len(performed) /\ Len(performed) \in Nat
    BY DEF PerformedInv
  <1>2. S # {} /\ S \subseteq 1..Len(performed)
    BY <1>1
  <1>3. PICK k \in S : \A i \in S : i <= k
    <2> HIDE DEF S
    <2> QED BY <1>1, <1>2, GreatestElement
  <1>4. performed[k] \in PerformedLast(o)
    BY <1>3 DEF PerformedLast
  <1>5. QED
    BY <1>3, <1>4

\* An order that may be delivered awaits no fitting that the customer is to
\* validate; and what did not fit or was refused fitted and was approved at that
\* fitting or a later one, whichever of them readiness looks at.
THEOREM ReadyIsSettled == SalesSpec => []ReadyMeansSettled
  <1>1. SalesInit => FitInv /\ PerformedInv
    BY DEF SalesInit, FitInv, FittingTypes, ValidatedFittingsStand, PerformedInv
  <1>2. FitInv /\ PerformedInv /\ [SalesNext]_sales => FitInv' /\ PerformedInv'
    <2>1. FitInv /\ UNCHANGED fitted => FitInv'
      BY DEF FitInv, FittingTypes, ValidatedFittingsStand, Fits, fitted
    <2>2. PerformedInv /\ UNCHANGED fitted => PerformedInv'
      BY DEF PerformedInv, fitted
    <2>3. QED
      BY <2>1, <2>2, FitStep, PerformedStep, SalesStep
  <1>3. FitInv /\ PerformedInv => ReadyMeansSettled
    <2> SUFFICES ASSUME FitInv, PerformedInv, NEW o \in Orders, Deliverable(o),
                        NEW f \in RequiredFittings(o)
                 PROVE  fitting[f].status = "completed" /\ AcceptedSince(f)
      BY DEF ReadyMeansSettled
    <2>1. \A g \in Latest(o) : Fits(g) /\ fitting[g].validation = "approved"
      BY DEF Deliverable
    <2> DEFINE scheduled == {g \in RequiredFittings(o) :
                               fitting[g].status = "scheduled"}
    <2>2. scheduled = {}
      BY <2>1 DEF Latest, Fits
    <2>3. Latest(o) = PerformedLast(o)
      BY <2>2 DEF Latest
    <2>4. /\ f \in Fittings /\ fitting[f] \in FittingRow /\ fitting[f] # None
          /\ fitting[f].status # "cancelled" /\ fitting[f].order = o
      BY DEF RequiredFittings, FitInv, FittingTypes
    <2>5. fitting[f].status = "completed"
      BY <2>2, <2>4 DEF FittingRow, FittingStatuses
    <2>6. PICK j \in DOMAIN performed : performed[j] = f
      BY <2>4, <2>5 DEF PerformedInv
    <2>7. PICK k \in DOMAIN performed : j <= k /\ performed[k] \in PerformedLast(o)
      BY <2>6, SomeIsLast
    <2>8. performed[k] \in RequiredFittings(o)
      BY <2>7 DEF PerformedLast
    <2>9. Fits(performed[k]) /\ fitting[performed[k]].validation = "approved"
      BY <2>1, <2>3, <2>7
    <2>10. AcceptedSince(f)
      BY <2>4, <2>6, <2>7, <2>8, <2>9 DEF AcceptedSince
    <2>11. QED
      BY <2>5, <2>10
  <1>4. QED
    BY <1>1, <1>2, <1>3, PTL DEF SalesSpec

=============================================================================
