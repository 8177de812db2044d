--------------------------- MODULE ApprovalControl ---------------------------
(***************************************************************************)
(* Operational approval of stock movements, ivadoo/operations: rules with a *)
(* threshold, requests for approval bound to a payload and an idempotency  *)
(* key, their decision, and the movement endpoint that asks for them.      *)
(*                                                                         *)
(* The endpoint runs the check of the approval, apply_stock_movement and   *)
(* the consumption of the approval in one transaction, so it is one action *)
(* that contains an action of Inventory.                                   *)
(***************************************************************************)
EXTENDS Inventory

CONSTANTS
    Users,
    Rules      \* ApprovalRule rows, by what makes them unique (bound of a run)

Decisions == {"approved", "rejected", "cancelled"}

\* specificity counts how many of company, establishment and warehouse a rule
\* names; locations are those it covers.
Rule == [action: MovementTypes, threshold: Nat, locations: SUBSET Locations,
         specificity: 0..3]

Approval == [payload: Movement, status: {"pending"} \union Decisions,
             requester: Users, decider: Users \union {None}, consumed: BOOLEAN]

ASSUME RulesAreRules == Rules \subseteq Rule
ASSUME NoneIsNoApproval == None \notin Approval /\ None \notin Users

VARIABLES
    rule,      \* is a rule inactive, or active and whom it lets approve
    approval,  \* StockMovementApproval rows, by idempotency key
    edited     \* has a rule been edited so far (history variable)

controls == <<rule, approval>>

ControlInit ==
    /\ Init
    /\ rule \in [Rules -> {"inactive", "anyone", "distinct"}]
    /\ approval = [k \in Keys |-> None]

-----------------------------------------------------------------------------
(* resolve_approval_rule: the most specific rule, then the highest threshold. *)

\* stock_scope: the location that decides which rules apply.
ScopeOf(m) == IF m.source # None THEN m.source ELSE m.destination

Applicable(m) == {r \in Rules : /\ rule[r] # "inactive"
                                /\ r.action = m.type
                                /\ r.threshold <= m.quantity
                                /\ ScopeOf(m) \in r.locations}

Outranks(r, s) == \/ r.specificity > s.specificity
                  \/ r.specificity = s.specificity /\ r.threshold > s.threshold

\* Rules of different scopes may tie; the database order then decides.
ResolvedRules(m) == {r \in Applicable(m) :
                       \A s \in Applicable(m) : ~Outranks(s, r)}

-----------------------------------------------------------------------------
(* The life of an approval.                                                *)

\* create_stock_movement_approval.  A key that is already bound returns its
\* approval or raises, and changes nothing.
RequestApproval(k, m, u) ==
    /\ ResolvedRules(m) # {}
    /\ approval[k] = None
    /\ approval' = [approval EXCEPT ![k] =
         [payload |-> m, status |-> "pending", requester |-> u,
          decider |-> None, consumed |-> FALSE]]
    /\ UNCHANGED <<vars, rule>>

\* Fault: the requester is not compared with the approver.
DecideAlone(k, u, decision) ==
    /\ approval[k] # None
    /\ approval[k].status = "pending"
    /\ approval' = [approval EXCEPT ![k].status = decision, ![k].decider = u]
    /\ UNCHANGED <<vars, rule>>

\* decide_stock_movement_approval: the rule in force now says who may approve.
Decide(k, u, decision) ==
    /\ approval[k] # None
    /\ approval[k].status = "pending"
    /\ decision = "approved" /\ approval[k].requester = u =>
          LET resolved == ResolvedRules(approval[k].payload)
          IN  resolved # {} => \E r \in resolved : rule[r] = "anyone"
    /\ approval' = [approval EXCEPT ![k].status = decision, ![k].decider = u]
    /\ UNCHANGED <<vars, rule>>

\* Fault: an approval that was only asked for will do.
ApprovedUndecided(k, m) == approval[k] # None /\ approval[k].payload = m

\* assert_stock_movement_approval; the payload holds the idempotency key.
Approved(k, m) == /\ approval[k] # None
                  /\ approval[k].status = "approved"
                  /\ approval[k].payload = m

\* apply_stock_movement: the movement, or the one that already has its key.
ApplyOrFind(k, m) ==
    \/ ApplyStockMovement(<<"request", k>>, m.type, m.quantity,
                          m.source, m.destination, m.lot)
    \/ movement[<<"request", k>>] # None /\ UNCHANGED vars

\* StockMovementApplyView, where no rule applies and where one does.
ApplyFreely(k, m) ==
    /\ ResolvedRules(m) = {}
    /\ ApplyOrFind(k, m)
    /\ UNCHANGED controls

ApplyApproved(k, m) ==
    /\ ResolvedRules(m) # {}
    /\ Approved(k, m)
    /\ ApplyOrFind(k, m)
    /\ approval' = [approval EXCEPT ![k].consumed = TRUE]
    /\ UNCHANGED rule

\* ApprovalRule endpoints: a rule is created, edited or switched off.
EditRule(r, state) ==
    /\ rule[r] # state
    /\ rule' = [rule EXCEPT ![r] = state]
    /\ UNCHANGED <<vars, approval>>

-----------------------------------------------------------------------------
\* The payloads of the requests that callers make.
PayloadsOf(type) ==
    {[type |-> type, quantity |-> q, source |-> ends.source,
      destination |-> ends.destination, lot |-> t, reservation |-> None] :
        q \in Quantities, ends \in EndsOf(type), t \in Lots \union {None}}

Payloads == UNION {PayloadsOf(type) : type \in RequestTypes}

ApplyRequest ==
    \E k \in Keys, m \in Payloads : ApplyFreely(k, m) \/ ApplyApproved(k, m)

ControlApprovals ==
    \E k \in Keys, u \in Users :
       \/ \E m \in Payloads : RequestApproval(k, m, u)
       \/ \E decision \in Decisions : Decide(k, u, decision)

\* The other stock services ask for no approval.
OtherServices ==
    /\ CreateLots \/ EditLots \/ Reserve \/ SettleReservation
    /\ UNCHANGED controls

EditRules == \E r \in Rules, state \in {"inactive", "anyone", "distinct"} :
                EditRule(r, state)

ControlNext == ApplyRequest \/ ControlApprovals \/ OtherServices \/ EditRules

ControlSpec == ControlInit /\ [][ControlNext]_<<vars, controls>>

\* The same, watched by a history variable.
WatchedInit == ControlInit /\ edited = FALSE
WatchedNext == ControlNext /\ edited' = (edited \/ rule' # rule)
WatchedSpec == WatchedInit /\ [][WatchedNext]_<<vars, controls, edited>>

-----------------------------------------------------------------------------
(* Properties.                                                             *)

\* Type correctness of the two tables of operations.
ControlTypeOK ==
    /\ TypeOK
    /\ rule \in [Rules -> {"inactive", "anyone", "distinct"}]
    /\ approval \in [Keys -> Approval \union {None}]

\* A movement that a rule covers was approved as it is, by somebody else where
\* the rule says so, and used its approval.
CoveredMovementsWereApproved ==
    \A k \in Keys :
       LET m == movement[<<"request", k>>]
       IN  m # None /\ ResolvedRules(m) # {} =>
             /\ Approved(k, m)
             /\ approval[k].consumed
             /\ \/ approval[k].decider # approval[k].requester
                \/ \E r \in ResolvedRules(m) : rule[r] = "anyone"

\* While no rule was edited, no caller of the movement endpoint gets a movement
\* that a rule covers without the approval of somebody that rule accepts.
CoveredWhileRulesStay == ~edited => CoveredMovementsWereApproved

\* An approval that was used is one that was given, and stays so: later requests,
\* decisions and edits of rules never leave a movement made under an approval
\* that is pending, rejected or cancelled.
RefusedNeverUsed ==
    \A k \in Keys : approval[k] # None /\ approval[k].consumed =>
       /\ approval[k].status = "approved"
       /\ movement[<<"request", k>>] # None

\* operations/services.py refuses "Approval payload does not match this stock
\* movement.": a used approval approves the movement it was used for.
UsedForWhatItApproves ==
    \A k \in Keys : approval[k] # None /\ approval[k].consumed =>
       movement[<<"request", k>>] = approval[k].payload

=============================================================================
