------------------------------ MODULE Handover ------------------------------
(***************************************************************************)
(* The hands an internal order passes through: the steps of the four flows *)
(* and who may give each, who sees the order, the keeper and the runner    *)
(* who take it (neither changes its status), the correction of a wrong     *)
(* delivery, and the notices that ask somebody for the next step.          *)
(*                                                                         *)
(* Every operation locks the row of the order, so it is one action.  The   *)
(* module follows ONE order: a transaction that writes several of them is  *)
(* one step of each (Elsewhere).  Its goods are in InternalOrder and its   *)
(* charge in Checkout: their refusals are left out here.                   *)
(*                                                                         *)
(* A notice is one row per user; here it is pending while somebody has not *)
(* read it, and at most one incident of the order is open at a time.       *)
(* Priority and the log of events are left out.                            *)
(***************************************************************************)
EXTENDS Integers, FiniteSets

CONSTANTS
    Hands,      \* the people of the company
    Nobody,
    Can,        \* the permissions of each
    Bosses,     \* who administers the company
    Roots,      \* the platform's users: they administer every company
    Store, Depot,
    Posts,      \* the sites each works at when the behaviour begins
    Movable     \* the assignments that may be given and taken

Sites == {Store, Depot}
OrderPermissions ==
    {"FULFILL", "RECEIVE_RETURNS", "PICKUP", "CONFIRM_DELIVERY", "CONFIRM_RECEIPT",
     "REQUEST", "CHARGE", "VIEW_ALL", "REPORT_INCIDENT"}

ASSUME HandoverAssumption ==
    /\ IsFiniteSet(Hands) /\ Nobody \notin Hands /\ Store # Depot
    /\ Roots \subseteq Bosses /\ Bosses \subseteq Hands
    /\ Can \in [Hands -> SUBSET OrderPermissions]
    /\ Posts \subseteq Hands \X Sites /\ Movable \subseteq Hands \X Sites

VARIABLES
    order,  \* the row of internal_orders, its latest correction, its open incident
    inbox,  \* the kinds of notice about it that somebody has not read
    works   \* rows of user_location_access in force

handoverVars == <<order, inbox, works>>

-----------------------------------------------------------------------------
(* Flows *)

WAREHOUSE == {"FULFILL"}
RETURNS_DESK == {"FULFILL", "RECEIVE_RETURNS"}
RECEIPT_OR_WAREHOUSE == {"CONFIRM_RECEIPT", "FULFILL"}
CASH_DESK == {"CHARGE", "CONFIRM_RECEIPT"}

FlowSteps(S, to, effect, permissions, actor) ==
    {[from |-> s, to |-> to, effect |-> effect, permissions |-> permissions, actor |-> actor] :
        s \in S}

FLOWS ==
    [SO |->
        FlowSteps({"NEW", "ACCEPTED_BY_WAREHOUSE"}, "PACKING", "PACK", WAREHOUSE, "ANY")
   \cup FlowSteps({"PACKING"}, "READY_FOR_RUNNER", "READY", WAREHOUSE, "ANY")
   \cup FlowSteps({"READY_FOR_RUNNER"}, "IN_TRANSIT", "PICK_UP", {"PICKUP"}, "ANY")
   \cup FlowSteps({"IN_TRANSIT"}, "DELIVERED_TO_STORE", "DELIVER", {"CONFIRM_DELIVERY"}, "RUNNER")
   \cup FlowSteps({"DELIVERED_TO_STORE"}, "RECEIVED_BY_SELLER", "RECEIVE", {"CONFIRM_RECEIPT"}, "ANY")
   \cup FlowSteps({"RECEIVED_BY_SELLER"}, "PENDING_PAYMENT", "TO_PAYMENT", {"CONFIRM_RECEIPT"}, "ANY")
   \cup FlowSteps({"RECEIVED_BY_SELLER"}, "RETURNED", "RETURN_REQUEST", {"CONFIRM_RECEIPT"}, "ANY")
   \cup FlowSteps({"PENDING_PAYMENT"}, "RECEIVED_BY_SELLER", "BACK_TO_SELLER", CASH_DESK, "ANY")
   \cup FlowSteps({"PENDING_PAYMENT"}, "RETURNED", "RETURN_REQUEST", CASH_DESK, "ANY")
   \cup FlowSteps({"RETURN_REQUESTED"}, "RETURNED", "CLOSE", {}, "ADMIN")
   \cup FlowSteps({"NEW", "ACCEPTED_BY_WAREHOUSE", "PACKING", "READY_FOR_RUNNER"},
                  "CANCELLED", "CANCEL", {}, "REQUESTER_OR_ADMIN"),
     RE |->
        FlowSteps({"WAITING_FOR_RUNNER"}, "IN_TRANSIT_TO_WAREHOUSE", "PICK_UP", {"PICKUP"}, "ANY")
   \cup FlowSteps({"IN_TRANSIT_TO_WAREHOUSE"}, "DELIVERED_TO_WAREHOUSE", "DELIVER",
                  {"CONFIRM_DELIVERY"}, "RUNNER")
   \cup FlowSteps({"DELIVERED_TO_WAREHOUSE"}, "RETURNED", "VERIFY_RETURN", RETURNS_DESK, "ANY")
   \cup FlowSteps({"RECEIVED_BY_WAREHOUSE"}, "RETURNED", "CLOSE_RETURN", RETURNS_DESK, "ANY")
   \cup FlowSteps({"WAITING_FOR_RUNNER"}, "CANCELLED", "CANCEL", RECEIPT_OR_WAREHOUSE, "REQUESTER"),
     TR |->
        FlowSteps({"TRANSFER_REQUESTED"}, "WAITING_FOR_RUNNER", "READY", WAREHOUSE, "ANY")
   \cup FlowSteps({"WAITING_FOR_RUNNER"}, "IN_TRANSIT", "PICK_UP", {"PICKUP"}, "ANY")
   \cup FlowSteps({"IN_TRANSIT"}, "DELIVERED_TO_DESTINATION", "DELIVER", {"CONFIRM_DELIVERY"}, "RUNNER")
   \cup FlowSteps({"DELIVERED_TO_DESTINATION"}, "RECEIVED_BY_DESTINATION", "RECEIVE",
                  RECEIPT_OR_WAREHOUSE, "ANY")
   \cup FlowSteps({"RECEIVED_BY_DESTINATION"}, "TRANSFERRED", "CLOSE", RECEIPT_OR_WAREHOUSE, "ANY")
   \cup FlowSteps({"TRANSFER_REQUESTED", "WAITING_FOR_RUNNER"}, "CANCELLED", "CANCEL", {}, "ADMIN"),
     RS |->
        FlowSteps({"RESTOCK_REQUESTED"}, "WAITING_FOR_RUNNER", "READY", WAREHOUSE, "ANY")
   \cup FlowSteps({"WAITING_FOR_RUNNER"}, "IN_TRANSIT", "PICK_UP", {"PICKUP"}, "ANY")
   \cup FlowSteps({"IN_TRANSIT"}, "DELIVERED_TO_STORE", "DELIVER", {"CONFIRM_DELIVERY"}, "RUNNER")
   \cup FlowSteps({"DELIVERED_TO_STORE"}, "RECEIVED_BY_STORE", "RECEIVE", RECEIPT_OR_WAREHOUSE, "ANY")
   \cup FlowSteps({"RECEIVED_BY_STORE"}, "RESTOCKED", "CLOSE", RECEIPT_OR_WAREHOUSE, "ANY")
   \cup FlowSteps({"RESTOCK_REQUESTED", "WAITING_FOR_RUNNER"}, "CANCELLED", "CANCEL", {}, "ADMIN")]

Types == DOMAIN FLOWS
INITIAL_STATUS ==
    [SO |-> "NEW", RE |-> "WAITING_FOR_RUNNER", TR |-> "TRANSFER_REQUESTED",
     RS |-> "RESTOCK_REQUESTED"]

FINAL_STATUSES ==
    {"PAID", "CANCELLED", "RETURNED", "CLOSED_BY_CHANGE", "TRANSFERRED", "RESTOCKED"}
BEFORE_PICKUP_STATUSES ==
    {"NEW", "ACCEPTED_BY_WAREHOUSE", "PACKING", "READY_FOR_RUNNER", "WAITING_FOR_RUNNER",
     "TRANSFER_REQUESTED", "RESTOCK_REQUESTED"}
PACKED_STATUSES == {"ACCEPTED_BY_WAREHOUSE", "PACKING", "READY_FOR_RUNNER"}
WAITING_RUNNER_STATUSES == {"READY_FOR_RUNNER", "WAITING_FOR_RUNNER"}
AWAITING_RECEIPT_STATUSES ==
    {"DELIVERED_TO_STORE", "DELIVERED_TO_WAREHOUSE", "DELIVERED_TO_DESTINATION"}
IN_RUNNER_HANDS == {"IN_TRANSIT", "IN_TRANSIT_TO_WAREHOUSE"} \cup AWAITING_RECEIPT_STATUSES
CARRYING_STATUSES == WAITING_RUNNER_STATUSES \cup {"IN_TRANSIT", "IN_TRANSIT_TO_WAREHOUSE"}
RUNNER_ENGAGED_STATUSES == WAITING_RUNNER_STATUSES \cup IN_RUNNER_HANDS

\* The steps the service takes inside another operation: an edit or a change of
\* what was picked up, the charge, a sub-order that arrives or is cancelled, a
\* return that arrives or is cancelled.
SERVICE_STATUSES ==
    [SO |->
        {"IN_TRANSIT", "DELIVERED_TO_STORE", "RECEIVED_BY_SELLER", "PENDING_PAYMENT",
         "RETURN_REQUESTED", "ITEM_CHANGE_REQUESTED"} \X {"ITEM_CHANGE_REQUESTED"}
   \cup {"DELIVERED_TO_STORE", "ITEM_CHANGE_REQUESTED", "RETURN_REQUESTED"} \X {"RECEIVED_BY_SELLER"}
   \cup {"ITEM_CHANGE_REQUESTED", "RETURN_REQUESTED"} \X {"RETURNED"}
   \cup {"ITEM_CHANGE_REQUESTED", "RECEIVED_BY_SELLER"} \X {"CLOSED_BY_CHANGE"}
   \cup {<<"PENDING_PAYMENT", "PAID">>},
     RE |-> {}, TR |-> {},
     RS |-> {<<"RESTOCK_REQUESTED", "CANCELLED">>}]

Statuses ==
    {"NONE", "ITEM_CHANGE_REQUESTED", "CLOSED_BY_CHANGE", "PAID"}
        \cup UNION {{step.from, step.to} : step \in UNION {FLOWS[t] : t \in Types}}

\* The stops of a correction: reported, at the warehouse, on its way back, closed.
NoCorrection == -1
Corrected == 3

\* HURRY stands for ORDER_STOCK_QUESTION too: they differ in their text only.
NoticeTypes ==
    {"REQUESTED", "READY_FOR_RUNNER", "DELIVERED", "PENDING_PAYMENT", "HURRY",
     "RUNNER_CALLED", "RUNNER_REPLIED", "CORRECTION", "INCIDENT", "CANCELLED", "EDITED"}

\* repacked (history): it went back to PACKING after it was ready.
OrderRow ==
    [type: Types, status: Statuses, source: Sites, destination: Sites, requestedBy: Hands,
     operator: Hands \cup {Nobody}, runner: Hands \cup {Nobody},
     correction: NoCorrection .. Corrected, incident: BOOLEAN, repacked: BOOLEAN]

HandoverTypeOK ==
    /\ order \in OrderRow
    /\ inbox \subseteq NoticeTypes
    /\ works \subseteq Hands \X Sites

-----------------------------------------------------------------------------
(* Who sees it, and who may move it *)

Has(u, permissions) == u \in Roots \/ Can[u] \cap permissions # {}

\* hasStoreAccess
HasAccess(u, site) == u \in Roots \/ <<u, site>> \in works

AtHand(u) == {order.source, order.destination} \cap {s \in Sites : <<u, s>> \in works} # {}

InWarehouseScope(u) == Can[u] \cap RETURNS_DESK # {}
InRunnerScope(u) == Can[u] \cap {"PICKUP", "CONFIRM_DELIVERY"} # {}
InRequesterScope(u) ==
    \/ Can[u] \cap {"REQUEST", "CONFIRM_RECEIPT"} # {}
    \/ ~InWarehouseScope(u) /\ ~InRunnerScope(u)

\* canSeeOrder: what every operation asks.
CanSee(u) ==
    \/ u \in Roots \/ "VIEW_ALL" \in Can[u]
    \/ InWarehouseScope(u) /\ AtHand(u)
    \/ InRequesterScope(u) /\ (AtHand(u) \/ order.requestedBy = u)
    \/ InRunnerScope(u) /\
           \/ order.runner = u
           \/ /\ order.runner = Nobody
              /\ order.status \in WAITING_RUNNER_STATUSES
              /\ AtHand(u)

\* applyVisibility: the same rule, as the condition of the list's query.
Listed(u) ==
    \/ u \in Roots \/ "VIEW_ALL" \in Can[u]
    \/ (InWarehouseScope(u) \/ InRequesterScope(u)) /\ AtHand(u)
    \/ InRequesterScope(u) /\ order.requestedBy = u
    \/ InRunnerScope(u) /\ order.runner = u
    \/ /\ InRunnerScope(u) /\ AtHand(u)
       /\ order.runner = Nobody /\ order.status \in WAITING_RUNNER_STATUSES

StepsFrom == {step \in FLOWS[order.type] : step.from = order.status}

StepAllowed(u, step) ==
    CASE step.actor = "ADMIN" -> u \in Bosses
      [] step.actor = "REQUESTER_OR_ADMIN" ->
             u \in Bosses \/ (order.requestedBy = u /\ order.runner = Nobody)
      [] step.actor = "REQUESTER" -> Has(u, step.permissions) \/ order.requestedBy = u
      [] OTHER ->
             /\ Has(u, step.permissions)
             /\ step.actor = "RUNNER" \/ step.effect = "PICK_UP" =>
                    order.runner = u \/ u \in Roots

WAREHOUSE_EFFECT_AT ==
    [effect \in {"PACK", "READY", "VERIFY_RETURN", "CLOSE_RETURN"} |->
        IF effect \in {"PACK", "READY"} THEN order.source ELSE order.destination]

IsWarehouseStep(step) == step.effect \in DOMAIN WAREHOUSE_EFFECT_AT

\* What one keeper took, another only works on if he administers.
AssertWarehouseAccess(u, step) ==
    IsWarehouseStep(step) =>
        /\ HasAccess(u, WAREHOUSE_EFFECT_AT[step.effect])
        /\ order.operator \in {Nobody, u} \/ u \in Bosses

-----------------------------------------------------------------------------
(* Notices *)

NOTICE_ALIVE_WHILE ==
    [REQUESTED |-> {"NEW", "ACCEPTED_BY_WAREHOUSE", "TRANSFER_REQUESTED", "RESTOCK_REQUESTED"},
     READY_FOR_RUNNER |-> WAITING_RUNNER_STATUSES,
     DELIVERED |-> AWAITING_RECEIPT_STATUSES,
     PENDING_PAYMENT |-> {"PENDING_PAYMENT"},
     HURRY |-> BEFORE_PICKUP_STATUSES,
     RUNNER_CALLED |-> RUNNER_ENGAGED_STATUSES,
     RUNNER_REPLIED |-> RUNNER_ENGAGED_STATUSES]

\* settleInternalOrderNotices: the row as it is now decides what still asks.
StillAsking(row) ==
    {k \in inbox :
        /\ k \in DOMAIN NOTICE_ALIVE_WHILE => row.status \in NOTICE_ALIVE_WHILE[k]
        /\ k = "READY_FOR_RUNNER" => row.runner = Nobody
        /\ k = "REQUESTED" => row.operator = Nobody}

WarehouseStaff == {u \in Hands : Has(u, WAREHOUSE)}
Runners ==
    {u \in Hands : Has(u, {"PICKUP"}) /\ \E s \in {order.source, order.destination} : HasAccess(u, s)}
StoreCashiers == {u \in Hands : Has(u, {"CHARGE"}) /\ HasAccess(u, order.destination)}

\* notify: neither to who acts nor, in this channel, to who administers.
Addressees(recipients, actor) == recipients \ ({actor, Nobody} \cup Bosses)

Notice(type, recipients, actor) ==
    IF Addressees(recipients, actor) # {} THEN {type} ELSE {}

MarkEntityRead(kinds) == inbox \ kinds

\* setStatus, and the notice the step leaves after it settled the others.
SetStatus(row, news) ==
    /\ order' = row
    /\ inbox' = StillAsking(row) \cup news

-----------------------------------------------------------------------------
(* An order is born *)

Born(u, type, status, source, destination) ==
    [type |-> type, status |-> status, source |-> source, destination |-> destination,
     requestedBy |-> u, operator |-> Nobody, runner |-> Nobody,
     correction |-> NoCorrection, incident |-> FALSE, repacked |-> FALSE]

\* An RS of the automatic restock is requested by whoever charged the sale.
Request(u, type) ==
    /\ order.status = "NONE"
    /\ CASE type = "SO" -> Has(u, {"REQUEST"}) /\ HasAccess(u, Store)
         [] type = "TR" -> Has(u, WAREHOUSE)
         [] type = "RS" -> Has(u, {"FULFILL", "CHARGE"})
         [] OTHER -> FALSE
    /\ order' = Born(u, type, INITIAL_STATUS[type], Depot, Store)
    /\ inbox' = Notice("REQUESTED", WarehouseStaff, u)
    /\ UNCHANGED works

\* What the store has is in the seller's hands from the start.
CreateHeldBySeller(u) ==
    /\ order.status = "NONE"
    /\ Has(u, {"REQUEST"}) /\ HasAccess(u, Store)
    /\ order' = Born(u, "SO", "RECEIVED_BY_SELLER", Store, Store)
    /\ UNCHANGED <<inbox, works>>

CreateReturnFromBin(u) ==
    /\ order.status = "NONE"
    /\ u \in Bosses
    /\ order' = Born(u, "RE", INITIAL_STATUS["RE"], Store, Depot)
    /\ inbox' = Notice("READY_FOR_RUNNER",
           {v \in Hands : Has(v, {"PICKUP"}) /\ \E s \in Sites : HasAccess(v, s)}, u)
    /\ UNCHANGED works

-----------------------------------------------------------------------------
(* Steps of the flow *)

\* What a step writes: nothing empties the runner, and a step of the warehouse
\* leaves the operator it finds.
MovedOn(u, step) ==
    [order EXCEPT
        !.status = step.to,
        !.operator = IF step.effect \in {"PACK", "READY"} /\ @ = Nobody THEN u ELSE @,
        !.runner = IF step.effect = "PICK_UP" /\ @ = Nobody THEN u ELSE @]

News(u, step) ==
    CASE step.effect = "READY" -> Notice("READY_FOR_RUNNER", Runners, u)
      [] step.effect = "DELIVER" -> Notice("DELIVERED", {order.requestedBy}, u)
      [] step.effect = "TO_PAYMENT" -> Notice("PENDING_PAYMENT", StoreCashiers, u)
      [] step.effect = "CANCEL" /\ order.type = "SO" /\ step.from \in PACKED_STATUSES ->
             Notice("CANCELLED", WarehouseStaff, u)
      [] OTHER -> {}

Transition(u, step) ==
    /\ step \in StepsFrom
    /\ CanSee(u) /\ StepAllowed(u, step) /\ AssertWarehouseAccess(u, step)
    /\ step.effect \in {"DELIVER", "RECEIVE", "VERIFY_RETURN"} => order.runner # Nobody
    /\ step.effect = "RECEIVE" /\ order.type = "SO" => HasAccess(u, order.destination)
    /\ SetStatus(MovedOn(u, step), News(u, step))
    /\ UNCHANGED works

Elsewhere(to) ==
    /\ <<order.status, to>> \in SERVICE_STATUSES[order.type]
    /\ SetStatus([order EXCEPT !.status = to], {})
    /\ UNCHANGED works

IsOpen == order.status \notin FINAL_STATUSES \cup {"NONE"}

\* cancelEmptied: what is left of row when no line is.
CancelEmptied(row, news, u) ==
    SetStatus([row EXCEPT !.status = "CANCELLED"],
        news \cup IF order.type = "SO" /\ order.status \in PACKED_STATUSES
                 THEN Notice("CANCELLED", WarehouseStaff, u) ELSE {})

EditAway(u) ==
    /\ order.type = "SO" /\ IsOpen
    /\ Has(u, {"CONFIRM_RECEIPT", "REQUEST"}) /\ CanSee(u)
    /\ CancelEmptied(order, {}, u)
    /\ UNCHANGED works

\* What was ready is packed again: keeper and runner keep it.
EditInWarehouse(u) ==
    /\ order.type = "SO" /\ order.status \in BEFORE_PICKUP_STATUSES
    /\ Has(u, {"CONFIRM_RECEIPT", "REQUEST"}) /\ CanSee(u)
    /\ IF order.status = "READY_FOR_RUNNER"
       THEN SetStatus([order EXCEPT !.status = "PACKING", !.repacked = TRUE],
                      Notice("EDITED", WarehouseStaff, u))
       ELSE order' = order /\ inbox' = inbox \cup Notice("EDITED", WarehouseStaff, u)
    /\ UNCHANGED works

-----------------------------------------------------------------------------
(* Taking it: the status stays as it is *)

\* Mutant: the offer stays in the inbox of the other runners.
ClaimWithoutSettling(u) ==
    /\ Has(u, {"PICKUP"}) /\ CanSee(u)
    /\ order.status \in WAITING_RUNNER_STATUSES /\ order.runner = Nobody
    /\ order' = [order EXCEPT !.runner = u]
    /\ UNCHANGED <<inbox, works>>

\* The runner takes it: from now on only he picks it up.
Claim(u) ==
    /\ Has(u, {"PICKUP"}) /\ CanSee(u)
    /\ order.status \in WAITING_RUNNER_STATUSES /\ order.runner = Nobody
    /\ SetStatus([order EXCEPT !.runner = u], {})
    /\ UNCHANGED works

\* An administrator may take it from the keeper who has it.
ClaimForWarehouse(u) ==
    /\ CanSee(u)
    /\ \E step \in StepsFrom :
           IsWarehouseStep(step) /\ Has(u, step.permissions) /\ AssertWarehouseAccess(u, step)
    /\ order.operator # u
    /\ SetStatus([order EXCEPT !.operator = u], {})
    /\ UNCHANGED works

\* Only while the warehouse has a step pending: no notice comes back.
ReleaseFromWarehouse(u) ==
    /\ CanSee(u) /\ order.operator # Nobody
    /\ \E step \in StepsFrom : IsWarehouseStep(step)
    /\ order.operator = u \/ u \in Bosses
    /\ order' = [order EXCEPT !.operator = Nobody]
    /\ UNCHANGED <<inbox, works>>

-----------------------------------------------------------------------------
(* Corrections, nudges and the inbox *)

HasOpenCorrection == order.correction \notin {NoCorrection, Corrected}

ReportCorrection(u) ==
    /\ order.type = "SO" /\ order.status \in {"DELIVERED_TO_STORE", "RECEIVED_BY_SELLER"}
    /\ Has(u, RECEIPT_OR_WAREHOUSE) /\ CanSee(u) /\ ~HasOpenCorrection
    /\ order' = [order EXCEPT !.correction = 0]
    /\ inbox' = inbox \cup Notice("CORRECTION", Runners \cup WarehouseStaff, u)
    /\ UNCHANGED works

\* It goes on whatever becomes of the order.
AdvanceCorrection(u) ==
    /\ Has(u, {"PICKUP", "CONFIRM_DELIVERY", "FULFILL", "CONFIRM_RECEIPT"}) /\ CanSee(u)
    /\ HasOpenCorrection
    /\ order' = [order EXCEPT !.correction = @ + 1]
    /\ inbox' = IF order'.correction = Corrected THEN MarkEntityRead({"CORRECTION"}) ELSE inbox
    /\ UNCHANGED works

\* A runner answers for it only while he carries it.
CanReport(u) ==
    \/ Has(u, RECEIPT_OR_WAREHOUSE)
    \/ /\ Has(u, {"REPORT_INCIDENT"}) /\ order.runner = u
       /\ order.status \in CARRYING_STATUSES

OpenIncident == [order EXCEPT !.incident = TRUE]

\* What is damaged or missing leaves the order: emptied, if it was all of it.
ReportIncident(u, emptied) ==
    LET news == Notice("INCIDENT", WarehouseStaff \cup {order.requestedBy}, u) IN
    /\ IsOpen /\ ~order.incident
    /\ CanSee(u) /\ CanReport(u)
    /\ IF emptied THEN CancelEmptied(OpenIncident, news, u)
                  ELSE order' = OpenIncident /\ inbox' = inbox \cup news
    /\ UNCHANGED works

\* IncidentService.resolve or cancel, of the only one: it settles its notice.
CloseIncident ==
    /\ order.incident
    /\ order' = [order EXCEPT !.incident = FALSE]
    /\ inbox' = MarkEntityRead({"INCIDENT"})
    /\ UNCHANGED works

RunnerAnswers == order.status \in RUNNER_ENGAGED_STATUSES \/ HasOpenCorrection

Nudge(u, kind) ==
    /\ CanSee(u)
    /\ order.requestedBy = u \/ Has(u, {"CONFIRM_RECEIPT"})
    /\ order.status \notin FINAL_STATUSES
    /\ IF kind = "RUNNER_CALLED"
       THEN /\ order.runner # Nobody /\ RunnerAnswers
            /\ inbox' = inbox \cup Notice(kind, {order.runner}, u)
       ELSE /\ order.status \in BEFORE_PICKUP_STATUSES
            /\ inbox' = inbox \cup Notice(kind, WarehouseStaff, u)
    /\ UNCHANGED <<order, works>>

RunnerReply(u) ==
    /\ CanSee(u)
    /\ order.runner = u \/ u \in Roots
    /\ RunnerAnswers
    /\ inbox' = inbox \cup Notice("RUNNER_REPLIED", {order.requestedBy}, u)
    /\ UNCHANGED <<order, works>>

\* markRead, by the last one who had it pending.
MarkRead(kind) ==
    /\ kind \in inbox
    /\ inbox' = inbox \ {kind}
    /\ UNCHANGED <<order, works>>

\* Someone begins or ceases to work at a site: what he holds stays his.
ChangePost(post) ==
    /\ works' = IF post \in works THEN works \ {post} ELSE works \cup {post}
    /\ UNCHANGED <<order, inbox>>

-----------------------------------------------------------------------------

\* Some orders were left in a status that the flow no longer reaches.
HandoverInit ==
    /\ \E u, v \in Hands :
           /\ Has(u, {"REQUEST"}) /\ Has(v, {"PICKUP"})
           /\ \/ order = Born(u, "SO", "NONE", Depot, Store)
              \/ order = Born(u, "SO", "ACCEPTED_BY_WAREHOUSE", Depot, Store)
              \/ order = [Born(u, "SO", "RETURN_REQUESTED", Depot, Store)
                             EXCEPT !.runner = v]
              \/ order = [Born(u, "RE", "RECEIVED_BY_WAREHOUSE", Store, Depot) EXCEPT !.runner = v]
    /\ inbox = {}
    /\ works = Posts

\* The order goes from hand to hand.
FlowStep ==
    \/ \E u \in Hands :
           \/ \E type \in Types : Request(u, type)
           \/ CreateHeldBySeller(u) \/ CreateReturnFromBin(u)
           \/ \E step \in StepsFrom : Transition(u, step)
           \/ EditAway(u)
           \/ Claim(u) \/ ClaimForWarehouse(u) \/ ReleaseFromWarehouse(u)
    \/ \E to \in Statuses : Elsewhere(to)

\* What is asked and read about it meanwhile.
DeskStep ==
    \/ \E u \in Hands :
           \/ EditInWarehouse(u)
           \/ ReportCorrection(u) \/ AdvanceCorrection(u)
           \/ \E kind \in {"HURRY", "RUNNER_CALLED"} : Nudge(u, kind)
           \/ RunnerReply(u)
    \/ \E kind \in NoticeTypes : MarkRead(kind)
    \/ \E post \in Movable : ChangePost(post)

TroubleStep ==
    \/ \E u \in Hands, emptied \in BOOLEAN : ReportIncident(u, emptied)
    \/ CloseIncident

HandoverNext == FlowStep \/ DeskStep \/ TroubleStep

HandoverSpec == HandoverInit /\ [][HandoverNext]_handoverVars

-----------------------------------------------------------------------------
(* Properties *)

\* A pending notice about an order asks for something that can still be done.
\* What taking an order settles is not named by its status.  A runner may be
\* called during a correction of what he delivered.
OrderNoticesAskForALiveStep ==
    /\ \A k \in inbox \cap DOMAIN NOTICE_ALIVE_WHILE :
           \/ order.status \in NOTICE_ALIVE_WHILE[k]
           \/ k \in {"RUNNER_CALLED", "RUNNER_REPLIED"} /\ order.correction # NoCorrection
    /\ "REQUESTED" \in inbox => order.operator = Nobody
    /\ "CORRECTION" \in inbox => HasOpenCorrection
    /\ "INCIDENT" \in inbox => order.incident
    /\ "CANCELLED" \in inbox => order.status = "CANCELLED"

\* An order offered to the runners can be seen, and so taken, by every one of
\* them, unless it was edited when it was ready.
OfferIsOpen ==
    "READY_FOR_RUNNER" \in inbox /\ ~order.repacked => \A u \in Runners : CanSee(u)

\* What a runner carries has a runner, and he sees it whatever site he works at.
CarriedByWhoSeesIt ==
    order.status \in IN_RUNNER_HANDS => order.runner # Nobody /\ CanSee(order.runner)

\* What left the warehouse keeps the name of who packed it.
PackedBySomebody ==
    order.type # "RE" /\ order.status \in RUNNER_ENGAGED_STATUSES => order.operator # Nobody

\* An order does not change hands unseen: the offer, the custody and the
\* keeper's name hold, what each one finds in the list he can open, and no
\* notice asks for what was already done.
HandsHold ==
    /\ HandoverTypeOK /\ OrderNoticesAskForALiveStep
    /\ OfferIsOpen /\ CarriedByWhoSeesIt /\ PackedBySomebody
    /\ order.status # "NONE" => \A u \in Hands : Listed(u) <=> CanSee(u)
=============================================================================
