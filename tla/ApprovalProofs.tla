---------------------------- MODULE ApprovalProofs ----------------------------
(***************************************************************************)
(* Proofs about ApprovalControl: an approval that was used is one that was *)
(* given, for a movement that exists.                                      *)
(***************************************************************************)
EXTENDS ApprovalControl, InventoryProofs

\* The approval table is typed, and a used approval was given for a movement.
AInv == /\ IInv
        /\ approval \in [Keys -> Approval \union {None}]
        /\ RefusedNeverUsed

-----------------------------------------------------------------------------
(* The movements under it.                                                 *)

\* Stock movements are made and never deleted.
Lasting == \A k \in Keys : movement[<<"request", k>>] # None
                             => movement'[<<"request", k>>] # None

\* The step of Inventory inside every action here.
LEMMA StockOfStep ==
  ASSUME [Next]_vars, IInv
  PROVE  IInv' /\ Lasting
  <1>1. IInv'
    BY StepInvariant DEF ProductionNext
  <1> SUFFICES Lasting
    BY <1>1
  <1>2. ASSUME NEW j \in MovementKeys, NEW m, Record(j, m)
        PROVE  Lasting
    <2>1. \A i \in MovementKeys \ {j} : movement'[i] = movement[i]
      BY <1>2 DEF Record, IInv, TypeOK
    <2>2. \A k \in Keys : <<"request", k>> \in MovementKeys
      BY DEF MovementKeys
    <2>3. QED
      BY <1>2, <2>1, <2>2 DEF Record, Lasting
  <1>3. CASE ApplyRequestedMovement
    <2>1. PICK k \in Keys : \E m : Record(<<"request", k>>, m)
      BY <1>3 DEF ApplyRequestedMovement, ApplyStockMovement
    <2>2. QED
      BY <1>2, <2>1 DEF MovementKeys
  <1>4. CASE CreateLots \/ EditLots
    <2>1. ASSUME NEW t \in Lots, NEW l \in Locations, NEW q \in Quantities,
                 CreateLot(t, l, q)
          PROVE  Lasting
      BY <1>2, <2>1 DEF CreateLot, MovementKeys
    <2>2. EditLots => Lasting
      BY DEF EditLots, ReadLot, SaveLot, AbandonEdit, Lasting
    <2>3. QED
      BY <1>4, <2>1, <2>2 DEF CreateLots
  <1>5. CASE Reserve
    BY <1>5 DEF Reserve, ReserveStock, Lasting
  <1>6. CASE SettleReservation
    <2>1. ASSUME NEW r \in Reservations, ConsumeReservation(r)
          PROVE  Lasting
      BY <1>2, <2>1 DEF ConsumeReservation, ConsumptionOf, MovementKeys
    <2>2. ASSUME NEW r \in Reservations,
                 StartReservationProduction(r) \/ ReleaseReservation(r)
          PROVE  Lasting
      BY <2>2 DEF StartReservationProduction, ReleaseReservation, Lasting
    <2>3. QED
      BY <1>6, <2>1, <2>2 DEF SettleReservation
  <1>7. CASE UNCHANGED vars
    BY <1>7 DEF vars, Lasting
  <1>8. QED
    BY <1>3, <1>4, <1>5, <1>6, <1>7 DEF Next

\* What callers ask for is a movement.
LEMMA PayloadsAreMovements == Payloads \subseteq Movement
  <1> SUFFICES ASSUME NEW type \in RequestTypes, NEW ends \in EndsOf(type),
                      NEW q \in Quantities, NEW t \in Lots \union {None}
               PROVE  [type |-> type, quantity |-> q, source |-> ends.source,
                       destination |-> ends.destination, lot |-> t,
                       reservation |-> None] \in Movement
    BY DEF Payloads, PayloadsOf
  <1>1. type \in MovementTypes /\ q \in Nat
    BY RequestTypesAreTypes, QuantityIsPositive
  <1>2. /\ ends.source \in Locations \union {None}
        /\ ends.destination \in Locations \union {None}
    BY <1>1 DEF EndsOf
  <1>3. QED
    BY <1>1, <1>2 DEF Movement

\* apply_stock_movement under the key of a payload is a step of Inventory, and
\* there is a movement under that key afterwards.
LEMMA AppliedOrFound ==
  ASSUME IInv, NEW k \in Keys, NEW m \in Payloads, ApplyOrFind(k, m)
  PROVE  [Next]_vars /\ movement'[<<"request", k>>] # None
  <1>1. CASE movement[<<"request", k>>] # None /\ UNCHANGED vars
    BY <1>1 DEF vars
  <1>2. CASE ApplyStockMovement(<<"request", k>>, m.type, m.quantity,
                                m.source, m.destination, m.lot)
    <2>1. PICK type \in RequestTypes : m \in PayloadsOf(type)
      BY DEF Payloads
    <2>2. PICK ends \in EndsOf(type), q \in Quantities, t \in Lots \union {None} :
             m = [type |-> type, quantity |-> q, source |-> ends.source,
                  destination |-> ends.destination, lot |-> t,
                  reservation |-> None]
      BY <2>1 DEF PayloadsOf
    <2>3. ApplyStockMovement(<<"request", k>>, type, q,
                             ends.source, ends.destination, t)
      BY <1>2, <2>2
    <2>4. Next
      BY <2>2, <2>3 DEF Next, ApplyRequestedMovement
    <2>5. m \in Movement /\ Record(<<"request", k>>, m)
      BY <1>2, <2>2, PayloadsAreMovements DEF ApplyStockMovement
    <2>6. QED
      BY <2>4, <2>5, RecordProperties DEF MovementKeys, IInv, TypeOK
  <1>3. QED
    BY <1>1, <1>2 DEF ApplyOrFind

-----------------------------------------------------------------------------
(* The steps.                                                              *)

\* The rules, and what other services do, are no matter of the approvals.
LEMMA QuietForApprovals ==
  ASSUME AInv, [Next]_vars, approval' = approval
  PROVE  AInv'
  BY StockOfStep DEF AInv, RefusedNeverUsed, Lasting

LEMMA RequestStep ==
  ASSUME AInv, NEW k \in Keys, NEW m \in Payloads, NEW u \in Users,
         RequestApproval(k, m, u)
  PROVE  AInv'
  <1> DEFINE row == [payload |-> m, status |-> "pending", requester |-> u,
                     decider |-> None, consumed |-> FALSE]
  <1>1. row \in Approval
    BY PayloadsAreMovements DEF Approval
  <1>2. IInv' /\ Lasting
    BY StockOfStep DEF AInv, RequestApproval
  <1>3. approval' = [approval EXCEPT ![k] = row]
    BY DEF RequestApproval
  <1>4. QED
    BY <1>1, <1>2, <1>3 DEF AInv, RefusedNeverUsed, Lasting

LEMMA DecideStep ==
  ASSUME AInv, NEW k \in Keys, NEW u \in Users, NEW decision \in Decisions,
         Decide(k, u, decision)
  PROVE  AInv'
  <1>1. approval[k] \in Approval /\ approval[k].status = "pending"
    BY DEF Decide, AInv
  <1>2. ~approval[k].consumed
    BY <1>1 DEF Decide, AInv, RefusedNeverUsed
  <1> DEFINE row == [approval[k] EXCEPT !.status = decision, !.decider = u]
  <1>3. row \in Approval /\ ~row.consumed
    BY <1>1, <1>2 DEF Approval
  <1>4. approval' = [approval EXCEPT ![k] = row]
    BY DEF Decide, AInv
  <1>5. IInv' /\ Lasting
    BY StockOfStep DEF AInv, Decide
  <1> HIDE DEF row
  <1>6. QED
    BY <1>3, <1>4, <1>5 DEF AInv, RefusedNeverUsed, Lasting

LEMMA ApplyApprovedStep ==
  ASSUME AInv, NEW k \in Keys, NEW m \in Payloads, ApplyApproved(k, m)
  PROVE  AInv'
  <1>1. IInv' /\ Lasting /\ movement'[<<"request", k>>] # None
    BY AppliedOrFound, StockOfStep DEF AInv, ApplyApproved
  <1>2. approval[k] \in Approval /\ approval[k].status = "approved"
    BY DEF ApplyApproved, Approved, AInv
  <1> DEFINE row == [approval[k] EXCEPT !.consumed = TRUE]
  <1>3. row \in Approval /\ row.status = "approved"
    BY <1>2 DEF Approval
  <1>4. approval' = [approval EXCEPT ![k] = row]
    BY DEF ApplyApproved, AInv
  <1> HIDE DEF row
  <1>5. QED
    BY <1>1, <1>3, <1>4 DEF AInv, RefusedNeverUsed, Lasting

LEMMA ApprovalStep == AInv /\ [ControlNext]_<<vars, controls>> => AInv'
  <1> SUFFICES ASSUME AInv, [ControlNext]_<<vars, controls>>
               PROVE  AInv'
    OBVIOUS
  <1>1. CASE ApplyRequest
    <2>1. ASSUME NEW k \in Keys, NEW m \in Payloads, ApplyFreely(k, m)
          PROVE  AInv'
      BY <2>1, AppliedOrFound, QuietForApprovals DEF ApplyFreely, controls, AInv
    <2>2. QED
      BY <1>1, <2>1, ApplyApprovedStep DEF ApplyRequest
  <1>2. CASE ControlApprovals
    BY <1>2, RequestStep, DecideStep DEF ControlApprovals
  <1>3. CASE OtherServices
    BY <1>3, QuietForApprovals DEF OtherServices, Next, controls
  <1>4. CASE EditRules
    BY <1>4, QuietForApprovals DEF EditRules, EditRule
  <1>5. CASE UNCHANGED <<vars, controls>>
    BY <1>5, QuietForApprovals DEF controls
  <1>6. QED
    BY <1>1, <1>2, <1>3, <1>4, <1>5 DEF ControlNext

\* However requests, decisions, edits of rules and the other stock services
\* interleave, no movement was made under an approval that is not given.
THEOREM UsedWereGiven == ControlSpec => []RefusedNeverUsed
  <1>1. ControlInit => AInv
    BY InitInvariant DEF ControlInit, AInv, RefusedNeverUsed
  <1>2. AInv => RefusedNeverUsed
    BY DEF AInv
  <1>3. QED
    BY <1>1, <1>2, ApprovalStep, PTL DEF ControlSpec

-----------------------------------------------------------------------------
(* Covered movements, while the rules stay as they are.                    *)

\* The movements that some rule covers, and those that their requester may approve.
Covered == {m \in Movement : ResolvedRules(m) # {}}
AnyoneApproves == {m \in Movement : \E r \in ResolvedRules(m) : rule[r] = "anyone"}

\* Was an approval given by somebody that the rules accept?
Accepted(a) == \/ a.payload \notin Covered
               \/ a.payload \in AnyoneApproves
               \/ a.decider # a.requester

\* What was approved was approved by the right person, and a covered movement
\* used up the approval of that movement.
CoverInv ==
    \A k \in Keys :
       /\ approval[k] # None /\ approval[k].status = "approved"
            => Accepted(approval[k])
       /\ movement[<<"request", k>>] \in Covered
            => Approved(k, movement[<<"request", k>>]) /\ approval[k].consumed

\* Which movements are covered is a matter of the rules alone.
LEMMA RulesDecide ==
  ASSUME rule' = rule
  PROVE  Covered' = Covered /\ AnyoneApproves' = AnyoneApproves
  BY DEF Covered, AnyoneApproves, ResolvedRules, Applicable

\* The key of another call, or of a movement that no caller asked for, leaves the
\* movement under a caller's key alone.
RequestsStay == \A k \in Keys : movement'[<<"request", k>>] = movement[<<"request", k>>]

LEMMA ServicesLeaveRequests ==
  ASSUME TypeOK, CreateLots \/ EditLots \/ Reserve \/ SettleReservation
  PROVE  RequestsStay
  <1>1. ASSUME NEW j \in MovementKeys, NEW m, Record(j, m),
               \A k \in Keys : j # <<"request", k>>
        PROVE  RequestsStay
    BY <1>1 DEF Record, RequestsStay, TypeOK
  <1>2. CASE CreateLots \/ EditLots
    <2>1. ASSUME NEW t \in Lots, NEW l \in Locations, NEW q \in Quantities,
                 CreateLot(t, l, q)
          PROVE  RequestsStay
      BY <1>1, <2>1 DEF CreateLot, MovementKeys
    <2>2. EditLots => RequestsStay
      BY DEF EditLots, ReadLot, SaveLot, AbandonEdit, RequestsStay
    <2>3. QED
      BY <1>2, <2>1, <2>2 DEF CreateLots
  <1>3. CASE Reserve
    BY <1>3 DEF Reserve, ReserveStock, RequestsStay
  <1>4. CASE SettleReservation
    <2>1. ASSUME NEW r \in Reservations, ConsumeReservation(r)
          PROVE  RequestsStay
      BY <1>1, <2>1 DEF ConsumeReservation, ConsumptionOf, MovementKeys
    <2>2. ASSUME NEW r \in Reservations,
                 StartReservationProduction(r) \/ ReleaseReservation(r)
          PROVE  RequestsStay
      BY <2>2 DEF StartReservationProduction, ReleaseReservation, RequestsStay
    <2>3. QED
      BY <1>4, <2>1, <2>2 DEF SettleReservation
  <1>5. QED
    BY <1>2, <1>3, <1>4

\* apply_stock_movement records the payload under its key, or changes nothing.
LEMMA RequestIsRecorded ==
  ASSUME TypeOK, NEW k \in Keys, NEW m \in Payloads, ApplyOrFind(k, m)
  PROVE  /\ \/ movement'[<<"request", k>>] = m
            \/ movement'[<<"request", k>>] = movement[<<"request", k>>]
         /\ \A j \in Keys \ {k} :
              movement'[<<"request", j>>] = movement[<<"request", j>>]
  <1>1. CASE movement' = movement
    BY <1>1
  <1>2. CASE ApplyStockMovement(<<"request", k>>, m.type, m.quantity,
                                m.source, m.destination, m.lot)
    <2> DEFINE row == [type |-> m.type, quantity |-> m.quantity, source |-> m.source,
                       destination |-> m.destination, lot |-> m.lot,
                       reservation |-> None]
    <2>1. row = m
      BY DEF Payloads, PayloadsOf
    <2>2. Record(<<"request", k>>, row)
      BY <1>2 DEF ApplyStockMovement
    <2> HIDE DEF row
    <2>3. movement' = [movement EXCEPT ![<<"request", k>>] = m]
      BY <2>1, <2>2 DEF Record
    <2>4. QED
      BY <2>3 DEF MovementKeys, TypeOK
  <1>3. QED
    BY <1>1, <1>2 DEF ApplyOrFind, vars

\* Steps under unchanged rules that leave the approvals and the callers' movements.
LEMMA CoverageUntouched ==
  ASSUME CoverInv, rule' = rule, approval' = approval, RequestsStay
  PROVE  CoverInv'
  <1>1. Covered' = Covered /\ AnyoneApproves' = AnyoneApproves
    BY RulesDecide
  <1>2. QED
    BY <1>1 DEF CoverInv, Accepted, Approved, RequestsStay

LEMMA RequestCovers ==
  ASSUME AInv, CoverInv, NEW k \in Keys, NEW m \in Payloads, NEW u \in Users,
         RequestApproval(k, m, u)
  PROVE  CoverInv'
  <1> DEFINE row == [payload |-> m, status |-> "pending", requester |-> u,
                     decider |-> None, consumed |-> FALSE]
  <1>1. Covered' = Covered /\ AnyoneApproves' = AnyoneApproves /\ movement' = movement
    BY RulesDecide DEF RequestApproval, vars
  <1>2. approval[k] = None
    BY DEF RequestApproval
  <1>3. /\ approval'[k] = row
        /\ \A j \in Keys \ {k} : approval'[j] = approval[j]
    BY DEF RequestApproval, AInv
  <1>4. row.status # "approved"
    OBVIOUS
  <1> HIDE DEF row
  <1>5. movement[<<"request", k>>] \notin Covered
    BY <1>2 DEF CoverInv, Approved
  <1>6. QED
    BY <1>1, <1>3, <1>4, <1>5 DEF CoverInv, Accepted, Approved

LEMMA DecisionCovers ==
  ASSUME AInv, CoverInv, NEW k \in Keys, NEW u \in Users, NEW decision \in Decisions,
         Decide(k, u, decision)
  PROVE  CoverInv'
  <1> DEFINE row == [approval[k] EXCEPT !.status = decision, !.decider = u]
  <1>1. Covered' = Covered /\ AnyoneApproves' = AnyoneApproves /\ movement' = movement
    BY RulesDecide DEF Decide, vars
  <1>2. approval[k] \in Approval /\ approval[k].status = "pending"
    BY DEF Decide, AInv
  <1>3. /\ approval'[k] = row
        /\ \A j \in Keys \ {k} : approval'[j] = approval[j]
    BY DEF Decide, AInv
  <1>4. /\ row.status = decision /\ row.decider = u
        /\ row.requester = approval[k].requester /\ row.payload = approval[k].payload
    BY <1>2 DEF Approval
  <1> HIDE DEF row
  <1>5. movement[<<"request", k>>] \notin Covered
    BY <1>2 DEF CoverInv, Approved
  <1>6. decision = "approved" => Accepted(row)
    BY <1>4 DEF Decide, Accepted, Covered, AnyoneApproves
  <1>7. row.status = "approved" => Accepted(approval[k])'
    BY <1>1, <1>3, <1>4, <1>6 DEF Accepted
  <1>8. QED
    BY <1>1, <1>3, <1>5, <1>7 DEF CoverInv, Accepted, Approved

LEMMA FreeMovementIsNotCovered ==
  ASSUME AInv, CoverInv, NEW k \in Keys, NEW m \in Payloads, ApplyFreely(k, m)
  PROVE  CoverInv'
  <1>1. Covered' = Covered /\ AnyoneApproves' = AnyoneApproves /\ approval' = approval
    BY RulesDecide DEF ApplyFreely, controls
  <1>2. m \notin Covered
    BY DEF ApplyFreely, Covered
  <1>3. /\ \/ movement'[<<"request", k>>] = m
           \/ movement'[<<"request", k>>] = movement[<<"request", k>>]
        /\ \A j \in Keys \ {k} :
             movement'[<<"request", j>>] = movement[<<"request", j>>]
    BY RequestIsRecorded DEF ApplyFreely, AInv, IInv
  <1>4. QED
    BY <1>1, <1>2, <1>3 DEF CoverInv, Accepted, Approved

LEMMA ApprovedMovementUsesIt ==
  ASSUME AInv, CoverInv, NEW k \in Keys, NEW m \in Payloads, ApplyApproved(k, m)
  PROVE  CoverInv'
  <1> DEFINE row == [approval[k] EXCEPT !.consumed = TRUE]
  <1>1. Covered' = Covered /\ AnyoneApproves' = AnyoneApproves
    BY RulesDecide DEF ApplyApproved
  <1>2. /\ approval[k] \in Approval /\ approval[k] # None
        /\ approval[k].status = "approved" /\ approval[k].payload = m
    BY DEF ApplyApproved, Approved, AInv
  <1>3. /\ approval'[k] = row
        /\ \A j \in Keys \ {k} : approval'[j] = approval[j]
    BY DEF ApplyApproved, AInv
  <1>4. /\ row \in Approval /\ row.status = "approved" /\ row.payload = m
        /\ row.consumed /\ row.decider = approval[k].decider
        /\ row.requester = approval[k].requester
    BY <1>2 DEF Approval
  <1>5. row # None
    BY <1>4, NoneIsNoApproval
  <1> HIDE DEF row
  <1>6. /\ \/ movement'[<<"request", k>>] = m
           \/ movement'[<<"request", k>>] = movement[<<"request", k>>]
        /\ \A j \in Keys \ {k} :
             movement'[<<"request", j>>] = movement[<<"request", j>>]
    BY RequestIsRecorded DEF ApplyApproved, AInv, IInv
  <1>7. Accepted(approval[k])'
    BY <1>1, <1>2, <1>3, <1>4 DEF CoverInv, Accepted
  <1>8. \A j \in Keys \ {k} :
          /\ approval'[j] # None /\ approval'[j].status = "approved"
               => Accepted(approval[j])'
          /\ movement'[<<"request", j>>] \in Covered'
               => Approved(j, movement[<<"request", j>>])' /\ approval'[j].consumed
    BY <1>1, <1>3, <1>6 DEF CoverInv, Accepted, Approved
  <1>9. movement'[<<"request", k>>] \in Covered'
          => Approved(k, movement[<<"request", k>>])' /\ approval'[k].consumed
    BY <1>1, <1>2, <1>3, <1>4, <1>5, <1>6 DEF CoverInv, Approved
  <1>10. QED
    BY <1>7, <1>8, <1>9 DEF CoverInv

LEMMA CoverageStep ==
  ASSUME AInv, CoverInv, [ControlNext]_<<vars, controls>>, rule' = rule
  PROVE  CoverInv'
  <1>1. CASE ApplyRequest
    BY <1>1, FreeMovementIsNotCovered, ApprovedMovementUsesIt DEF ApplyRequest
  <1>2. CASE ControlApprovals
    BY <1>2, RequestCovers, DecisionCovers DEF ControlApprovals
  <1>3. CASE OtherServices
    BY <1>3, ServicesLeaveRequests, CoverageUntouched
       DEF OtherServices, controls, AInv, IInv
  <1>4. CASE EditRules
    BY <1>4, CoverageUntouched DEF EditRules, EditRule, vars, RequestsStay
  <1>5. CASE UNCHANGED <<vars, controls>>
    BY <1>5, CoverageUntouched DEF controls, vars, RequestsStay
  <1>6. QED
    BY <1>1, <1>2, <1>3, <1>4, <1>5 DEF ControlNext

\* The history variable is not set by a step that leaves the rules alone.
LEMMA UneditedStep ==
  ASSUME [WatchedNext]_<<vars, controls, edited>>, ~edited'
  PROVE  ~edited /\ rule' = rule
  <1>1. CASE WatchedNext
    BY <1>1, Zenon DEF WatchedNext
  <1>2. CASE UNCHANGED <<vars, controls, edited>>
    <2>1. edited' = edited /\ rule' = rule
      BY <1>2 DEF controls
    <2>2. QED
      BY <2>1, Zenon
  <1>3. QED
    BY <1>1, <1>2

\* However requests, decisions and the other stock services interleave: while no
\* rule was edited, no caller gets a movement that a rule covers without the
\* approval of that movement by somebody whom the rule accepts.
THEOREM CoveredAreApproved == WatchedSpec => []CoveredWhileRulesStay
  <1> DEFINE WInv == ~edited => CoverInv
  <1>1. WatchedInit => ControlInit /\ WInv
    <2>1. ControlInit => CoverInv
      <3> SUFFICES ASSUME ControlInit, NEW k \in Keys
                   PROVE  approval[k] = None /\ movement[<<"request", k>>] = None
        BY NoneIsNoRow DEF CoverInv, Covered
      <3>1. QED
        BY DEF ControlInit, Init, MovementKeys
    <2>2. QED
      BY <2>1 DEF WatchedInit
  <1>2. [WatchedNext]_<<vars, controls, edited>> => [ControlNext]_<<vars, controls>>
    BY DEF WatchedNext, controls
  <1>3. WatchedSpec => ControlSpec
    BY <1>1, <1>2, PTL DEF WatchedSpec, ControlSpec
  <1>4. ControlSpec => []AInv
    <2>1. ControlInit => AInv
      BY InitInvariant DEF ControlInit, AInv, RefusedNeverUsed
    <2>2. QED
      BY <2>1, ApprovalStep, PTL DEF ControlSpec
  <1>5. AInv /\ WInv /\ [WatchedNext]_<<vars, controls, edited>> => WInv'
    <2> SUFFICES ASSUME AInv, WInv, [WatchedNext]_<<vars, controls, edited>>, ~edited'
                 PROVE  CoverInv'
      OBVIOUS
    <2>1. ~edited /\ rule' = rule
      BY UneditedStep
    <2>2. QED
      BY <1>2, <2>1, CoverageStep
  <1>6. AInv /\ WInv => CoveredWhileRulesStay
    <2> SUFFICES ASSUME AInv, CoverInv, NEW k \in Keys,
                        movement[<<"request", k>>] # None,
                        ResolvedRules(movement[<<"request", k>>]) # {}
                 PROVE  LET m == movement[<<"request", k>>]
                        IN  /\ Approved(k, m)
                            /\ approval[k].consumed
                            /\ \/ approval[k].decider # approval[k].requester
                               \/ \E r \in ResolvedRules(m) : rule[r] = "anyone"
      BY DEF CoveredWhileRulesStay, CoveredMovementsWereApproved
    <2>1. movement[<<"request", k>>] \in Covered
      BY DEF AInv, IInv, TypeOK, MovementKeys, Covered
    <2>2. QED
      BY <2>1 DEF CoverInv, Accepted, Approved, AnyoneApproves
  <1>7. QED
    BY <1>1, <1>3, <1>4, <1>5, <1>6, PTL DEF WatchedSpec

=============================================================================
