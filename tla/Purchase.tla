------------------------------ MODULE Purchase ------------------------------
(***************************************************************************)
(* Goods that enter and leave the warehouse on paper: purchase orders      *)
(* (counted by the supplier who ships them and again by the keeper who     *)
(* receives them), the incidents their two counts open, the notices that   *)
(* ask somebody for the next step, and the write-offs.                     *)
(*                                                                         *)
(* An operation on an order or a write-off is one transaction that locks   *)
(* its row: an action.  Closing an incident is two: it locks only the      *)
(* incident and counts, without a lock, the open incidents of the order    *)
(* (BeginClose), and others see what it wrote when it commits.             *)
(*                                                                         *)
(* A notice is one row per user; here it is pending while some user has    *)
(* not read it.  Money, positions and the notices that ask for nothing     *)
(* (received, cancelled, overage decided) are left out.                    *)
(***************************************************************************)
EXTENDS Integers, FiniteSets, Functions

CONSTANTS
    PurchaseOrders,  \* identities of the orders that may be created
    WriteOffs,       \* identities of the write-offs that may be requested
    Variants,        \* a line of an order is a variant: they do not repeat
    People, Suppliers, Buyers, Keepers,  \* who they are, and what they may do
    MaxAsked,        \* bound of a line that is ordered
    MaxCounted,      \* bound of a count
    MaxShipments,    \* bound of the times one order is shipped
    MaxReports,      \* bound of the incidents reported by hand
    MaxClosings,     \* bound of the closings under way at once
    Wasted           \* the units of each write-off

ASSUME PurchaseAssumption ==
    /\ IsFiniteSet(PurchaseOrders) /\ IsFiniteSet(WriteOffs) /\ IsFiniteSet(Variants)
    /\ Suppliers \subseteq People /\ Buyers \subseteq People /\ Keepers \subseteq People
    /\ MaxAsked \in Nat \ {0} /\ MaxCounted \in Nat \ {0} /\ MaxShipments \in Nat \ {0}
    /\ MaxReports \in Nat /\ MaxClosings \in Nat
    /\ Wasted \in [WriteOffs -> [Variants -> Nat]]

VARIABLES
    purchase,   \* rows of purchase_orders
    line,       \* rows of purchase_order_items
    incident,   \* status of each incident
    closing,    \* closings that wrote and have not committed
    crossed,    \* history: orders whose last incidents were all being closed at once
    notices,    \* the kinds of notice of each order that somebody has not read
    writeOff,   \* rows of write_offs, with their lines
    warehouse   \* balance of the warehouse's STOCK

purchaseVars == <<purchase, line, incident, closing, crossed, notices, writeOff, warehouse>>

-----------------------------------------------------------------------------
(* Rows *)

PurchaseStatus ==
    {"NONE", "DRAFT", "SENT", "PENDING_APPROVAL", "SHIPPED", "RECEIVED", "CANCELLED"}

\* shipments counts how often the order was shipped: it names the incidents.
PurchaseRow ==
    [status: PurchaseStatus, supplier: Suppliers, hasIncidents: BOOLEAN,
     shipments: 0 .. MaxShipments]

\* Null: not counted yet, or no incident.
Null == -1
LineRow ==
    [quantity: 0 .. MaxAsked, shipped: {Null} \cup 0 .. MaxCounted,
     received: {Null} \cup 0 .. MaxCounted,
     shipmentIncident: {Null} \cup 1 .. MaxShipments, receptionIncident: BOOLEAN]

\* What opens one: the n-th shipment, the reception (0), or somebody's report.
Reported == MaxShipments + 1
Incidents == PurchaseOrders \X Variants \X (0 .. Reported)
IncidentStatus == {"NONE", "OPEN", "IN_REVIEW", "RESOLVED", "CANCELLED"}
Unsolved == {"OPEN", "IN_REVIEW"}

NoticeKinds == {"SENT", "OVERAGE_PENDING", "SHIPPED", "INCIDENT"}

WriteOffStatus == {"NONE", "PENDING", "APPROVED", "REJECTED", "CANCELLED"}

PurchaseTypeOK ==
    /\ purchase \in [PurchaseOrders -> PurchaseRow]
    /\ line \in [PurchaseOrders -> [Variants -> LineRow]]
    /\ incident \in [Incidents -> IncidentStatus]
    /\ closing \in [Incidents -> {"NO", "RESOLVED", "CANCELLED"} \X BOOLEAN]
    /\ crossed \in SUBSET PurchaseOrders
    /\ notices \in [PurchaseOrders -> SUBSET NoticeKinds]
    /\ writeOff \in [WriteOffs -> WriteOffStatus]
    /\ warehouse \in [Variants -> Nat]

-----------------------------------------------------------------------------
(* Lines, counts and incidents *)

Items(o) == {v \in Variants : line[o][v].quantity > 0}
ShippedItems(o) == {v \in Items(o) : line[o][v].shipped > 0}
OverageItems(o) == {v \in Items(o) : line[o][v].shipped > line[o][v].quantity}

\* countedByItem, against what was ordered
Miscounted(o, counted) == {v \in Items(o) : counted[v] # line[o][v].quantity}

IncidentsOf(o) == {i \in Incidents : i[1] = o}
ShipmentIncidents(o, S) ==
    {<<o, v, line[o][v].shipmentIncident>> :
        v \in {w \in S : line[o][w].shipmentIncident # Null}}

Unlocked(S) == \A i \in S : closing[i][1] = "NO"

\* closeShipmentIncidents: whatever their status was.
CloseAll(S, status) == [i \in Incidents |-> IF i \in S THEN status ELSE incident[i]]

\* settlePurchaseOrderIncidentNotices: what a transaction that closes S counts.
LeavesOneOpen(o, S) == \E i \in IncidentsOf(o) \ S : incident[i] \in Unsolved

\* What it counts is being closed by others, who count what it closes.
CountsOnlyClosing(o, S) ==
    /\ LeavesOneOpen(o, S)
    /\ \A i \in IncidentsOf(o) \ S : incident[i] \in Unsolved => closing[i][1] # "NO"

Crossed(o, S) == IF CountsOnlyClosing(o, S) THEN crossed \cup {o} ELSE crossed

-----------------------------------------------------------------------------
(* Notices *)

\* PO_NOTICE_ALIVE_WHILE; that of an incident follows the incidents instead.
AliveWhile ==
    [SENT |-> {"DRAFT", "SENT", "PENDING_APPROVAL"},
     OVERAGE_PENDING |-> {"PENDING_APPROVAL"},
     SHIPPED |-> {"SHIPPED"}]

\* Mutant: the notices of the step before are settled by the next reader only.
AnnounceAppendsOnly(o, status, news) == notices[o] \cup news

\* announcePurchaseOrderChange: settles what the new status leaves meaningless.
Announce(o, status, news) ==
    {k \in notices[o] : k = "INCIDENT" \/ status \in AliveWhile[k]} \cup news

IncidentNotice(some) == IF some THEN {"INCIDENT"} ELSE {}

\* The notice of a new incident is not the one that crossed closings left behind.
CrossedBefore(o, wrong) == IF wrong # {} THEN crossed \ {o} ELSE crossed

-----------------------------------------------------------------------------
(* Purchase orders *)

\* priceLines: the lines it asks for.
PriceLines(asked) == {v \in Variants : asked[v] > 0}

Create(o, s, asked) ==
    /\ purchase[o].status = "NONE"
    /\ PriceLines(asked) # {}
    /\ purchase' = [purchase EXCEPT ![o].status = "DRAFT", ![o].supplier = s]
    /\ line' = [line EXCEPT ![o] = [v \in Variants |-> [@[v] EXCEPT !.quantity = asked[v]]]]
    /\ UNCHANGED <<incident, closing, crossed, notices, writeOff, warehouse>>

\* A supplier only finds its own orders.
Send(o, u) ==
    /\ purchase[o].status = "DRAFT"
    /\ u \in Buyers /\ (u \in Suppliers => u = purchase[o].supplier)
    /\ purchase' = [purchase EXCEPT ![o].status = "SENT"]
    /\ notices' = [notices EXCEPT ![o] = Announce(o, "SENT", {"SENT"})]
    /\ UNCHANGED <<line, incident, closing, crossed, writeOff, warehouse>>

\* registerShipment: every line is counted, the ones that differ open an incident.
RegisterShipment(o, counted, n) ==
    LET wrong == Miscounted(o, counted) IN
    /\ \E v \in Items(o) : counted[v] > 0
    /\ line' = [line EXCEPT ![o] = [v \in Variants |->
           IF v \notin Items(o) THEN @[v]
           ELSE LET old == @[v].shipmentIncident
                IN  [@[v] EXCEPT !.shipped = counted[v],
                                 !.shipmentIncident = IF v \in wrong THEN n ELSE old]]]
    /\ incident' = [i \in Incidents |->
           IF i[1] = o /\ i[2] \in wrong /\ i[3] = n THEN "OPEN" ELSE incident[i]]

Ship(o, counted) ==
    LET n     == purchase[o].shipments + 1
        wrong == Miscounted(o, counted)
        over  == \E v \in wrong : counted[v] > line[o][v].quantity
    IN  /\ purchase[o].status = "SENT"
        /\ n <= MaxShipments
        /\ RegisterShipment(o, counted, n)
        /\ purchase' = [purchase EXCEPT
               ![o] = [@ EXCEPT !.status = IF over THEN "PENDING_APPROVAL" ELSE "SHIPPED",
                                !.hasIncidents = wrong # {}, !.shipments = n]]
        /\ notices' = [notices EXCEPT ![o] =
               IF over THEN Announce(o, "PENDING_APPROVAL", {"OVERAGE_PENDING"})
                            \cup IncidentNotice(TRUE)
               ELSE Announce(o, "SHIPPED", {"SHIPPED"}) \cup IncidentNotice(wrong # {})]
        /\ crossed' = CrossedBefore(o, wrong)
        /\ UNCHANGED <<closing, writeOff, warehouse>>

ClearOveragePending(kinds) == kinds \ {"OVERAGE_PENDING"}

\* The overage is accepted line by line; one refusal undoes the whole shipment.
\* settled: no incident of the order is left open by what this transaction closed.
SettleOverage(o, status, S, as) ==
    LET kept == ClearOveragePending(
                    Announce(o, status, IF status = "SHIPPED" THEN {"SHIPPED"} ELSE {}))
    IN  /\ Unlocked(S)
        /\ incident' = CloseAll(S, as)
        /\ notices' = [notices EXCEPT ![o] =
               IF LeavesOneOpen(o, S) THEN kept ELSE kept \ {"INCIDENT"}]
        /\ crossed' = Crossed(o, S)

\* Mutant: incidents that somebody closed already are left as they were.
AcceptOverageOfOpenOnes(o, u) ==
    /\ purchase[o].status = "PENDING_APPROVAL"
    /\ u \in Buyers \ Suppliers
    /\ SettleOverage(o, "SHIPPED",
           {i \in ShipmentIncidents(o, OverageItems(o)) : incident[i] \in Unsolved}, "RESOLVED")
    /\ purchase' = [purchase EXCEPT ![o].status = "SHIPPED"]
    /\ UNCHANGED <<line, closing, writeOff, warehouse>>

AcceptOverage(o, u) ==
    /\ purchase[o].status = "PENDING_APPROVAL"
    /\ u \in Buyers \ Suppliers
    /\ SettleOverage(o, "SHIPPED", ShipmentIncidents(o, OverageItems(o)), "RESOLVED")
    /\ purchase' = [purchase EXCEPT ![o].status = "SHIPPED"]
    /\ UNCHANGED <<line, closing, writeOff, warehouse>>

\* clearShipment
BackToSupplier(o) ==
    /\ purchase' = [purchase EXCEPT ![o].status = "SENT", ![o].hasIncidents = FALSE]
    /\ line' = [line EXCEPT ![o] = [v \in Variants |->
           [@[v] EXCEPT !.shipped = Null, !.shipmentIncident = Null]]]

RefuseOverage(o, u) ==
    /\ purchase[o].status = "PENDING_APPROVAL"
    /\ u \in Buyers \ Suppliers
    /\ SettleOverage(o, "SENT", ShipmentIncidents(o, Items(o)), "CANCELLED")
    /\ BackToSupplier(o)
    /\ UNCHANGED <<closing, writeOff, warehouse>>

\* Mutant: the mark of the order is that of the last count.
MarkOfReception(o, mismatched) == mismatched

\* Either count marks the order.
Mark(o, mismatched) == purchase[o].hasIncidents \/ mismatched

\* PurchaseOrderReceivingService: what the keeper counted enters the stock.
EnterStock(o, counted, wrong) ==
    /\ ShippedItems(o) # {}
    /\ warehouse' = [v \in Variants |->
           warehouse[v] + (IF v \in ShippedItems(o) THEN counted[v] ELSE 0)]
    /\ line' = [line EXCEPT ![o] = [v \in Variants |->
           IF v \notin ShippedItems(o) THEN @[v]
           ELSE [@[v] EXCEPT !.received = counted[v], !.receptionIncident = v \in wrong]]]
    /\ incident' = [i \in Incidents |->
           IF i[1] = o /\ i[2] \in wrong /\ i[3] = 0 THEN "OPEN" ELSE incident[i]]

Receive(o, u, counted) ==
    LET wrong == {v \in ShippedItems(o) : counted[v] # line[o][v].shipped}
    IN  /\ purchase[o].status = "SHIPPED"
        /\ u \in Keepers /\ u # purchase[o].supplier
        /\ EnterStock(o, counted, wrong)
        /\ purchase' = [purchase EXCEPT
               ![o].status = "RECEIVED", ![o].hasIncidents = Mark(o, wrong # {})]
        /\ notices' = [notices EXCEPT ![o] =
               Announce(o, "RECEIVED", {}) \cup IncidentNotice(wrong # {})]
        /\ crossed' = CrossedBefore(o, wrong)
        /\ UNCHANGED <<closing, writeOff>>

\* The company or the supplier; its incidents stay as they are.
CancelOrder(o, u) ==
    /\ purchase[o].status \in {"DRAFT", "SENT", "PENDING_APPROVAL", "SHIPPED"}
    /\ u \in Buyers \ Suppliers \/ u = purchase[o].supplier
    /\ purchase' = [purchase EXCEPT ![o].status = "CANCELLED"]
    /\ notices' = [notices EXCEPT ![o] = Announce(o, "CANCELLED", {})]
    /\ UNCHANGED <<line, incident, closing, crossed, writeOff, warehouse>>

\* NotificationService.markRead, by the last user who had it pending.
ReadNotice(o, k) ==
    /\ k \in notices[o]
    /\ notices' = [notices EXCEPT ![o] = @ \ {k}]
    /\ UNCHANGED <<purchase, line, incident, closing, crossed, writeOff, warehouse>>

-----------------------------------------------------------------------------
(* Incidents *)

\* Any member may report one about a line of an order.
Report(i) ==
    /\ i[3] = Reported /\ incident[i] = "NONE"
    /\ Cardinality({j \in Incidents : j[3] = Reported /\ incident[j] # "NONE"}) < MaxReports
    /\ i[2] \in Items(i[1])
    /\ incident' = [incident EXCEPT ![i] = "OPEN"]
    /\ UNCHANGED <<purchase, line, closing, crossed, notices, writeOff, warehouse>>

StartReview(i) ==
    /\ incident[i] = "OPEN" /\ Unlocked({i})
    /\ incident' = [incident EXCEPT ![i] = "IN_REVIEW"]
    /\ UNCHANGED <<purchase, line, closing, crossed, notices, writeOff, warehouse>>

\* resolve and cancel, until they count; the count does not see other closings.
BeginClose(i, status) ==
    /\ incident[i] \in Unsolved /\ Unlocked({i})
    /\ Cardinality({j \in Incidents : closing[j][1] # "NO"}) < MaxClosings
    /\ closing' = [closing EXCEPT ![i] = <<status, LeavesOneOpen(i[1], {i})>>]
    /\ crossed' = Crossed(i[1], {i})
    /\ UNCHANGED <<purchase, line, incident, notices, writeOff, warehouse>>

\* Mutant: closing an incident leaves the notices of its order alone.
CommitCloseUnsettled(i) ==
    /\ closing[i][1] # "NO"
    /\ incident' = [incident EXCEPT ![i] = closing[i][1]]
    /\ closing' = [closing EXCEPT ![i] = <<"NO", FALSE>>]
    /\ UNCHANGED <<purchase, line, crossed, notices, writeOff, warehouse>>

CommitClose(i) ==
    /\ closing[i][1] # "NO"
    /\ incident' = [incident EXCEPT ![i] = closing[i][1]]
    /\ notices' = [notices EXCEPT ![i[1]] = IF closing[i][2] THEN @ ELSE @ \ {"INCIDENT"}]
    /\ closing' = [closing EXCEPT ![i] = <<"NO", FALSE>>]
    /\ UNCHANGED <<purchase, line, crossed, writeOff, warehouse>>

-----------------------------------------------------------------------------
(* Write-offs *)

RequestWriteOff(w) ==
    /\ writeOff[w] = "NONE"
    /\ writeOff' = [writeOff EXCEPT ![w] = "PENDING"]
    /\ UNCHANGED <<purchase, line, incident, closing, crossed, notices, warehouse>>

\* Mutant: approving looks at the stock and not at the status.
ApproveAnyWriteOff(w) ==
    /\ writeOff[w] \in {"PENDING", "APPROVED"}
    /\ \A v \in Variants : warehouse[v] >= Wasted[w][v]
    /\ warehouse' = [v \in Variants |-> warehouse[v] - Wasted[w][v]]
    /\ writeOff' = [writeOff EXCEPT ![w] = "APPROVED"]
    /\ UNCHANGED <<purchase, line, incident, closing, crossed, notices>>

\* All its lines are taken from the stock, or none.
ApproveWriteOff(w) ==
    /\ writeOff[w] = "PENDING"
    /\ \A v \in Variants : warehouse[v] >= Wasted[w][v]
    /\ warehouse' = [v \in Variants |-> warehouse[v] - Wasted[w][v]]
    /\ writeOff' = [writeOff EXCEPT ![w] = "APPROVED"]
    /\ UNCHANGED <<purchase, line, incident, closing, crossed, notices>>

\* reject, and cancel by the one who requested it or could have approved it.
DropWriteOff(w, status) ==
    /\ writeOff[w] = "PENDING"
    /\ writeOff' = [writeOff EXCEPT ![w] = status]
    /\ UNCHANGED <<purchase, line, incident, closing, crossed, notices, warehouse>>

-----------------------------------------------------------------------------

PurchaseInit ==
    /\ \E s \in Suppliers : purchase = [o \in PurchaseOrders |->
           [status |-> "NONE", supplier |-> s, hasIncidents |-> FALSE, shipments |-> 0]]
    /\ line = [o \in PurchaseOrders |-> [v \in Variants |->
           [quantity |-> 0, shipped |-> Null, received |-> Null,
            shipmentIncident |-> Null, receptionIncident |-> FALSE]]]
    /\ incident = [i \in Incidents |-> "NONE"]
    /\ closing = [i \in Incidents |-> <<"NO", FALSE>>]
    /\ crossed = {}
    /\ notices = [o \in PurchaseOrders |-> {}]
    /\ writeOff = [w \in WriteOffs |-> "NONE"]
    /\ warehouse = [v \in Variants |-> 0]

PurchaseNext ==
    \/ \E o \in PurchaseOrders :
           \/ \E s \in Suppliers, asked \in [Variants -> 0 .. MaxAsked] : Create(o, s, asked)
           \/ \E counted \in [Variants -> 0 .. MaxCounted] :
                  Ship(o, counted) \/ \E u \in People : Receive(o, u, counted)
           \/ \E u \in People :
                  Send(o, u) \/ AcceptOverage(o, u) \/ RefuseOverage(o, u) \/ CancelOrder(o, u)
           \/ \E k \in NoticeKinds : ReadNotice(o, k)
    \/ \E i \in Incidents :
           \/ Report(i) \/ StartReview(i) \/ CommitClose(i)
           \/ \E status \in {"RESOLVED", "CANCELLED"} : BeginClose(i, status)
    \/ \E w \in WriteOffs :
           \/ RequestWriteOff(w) \/ ApproveWriteOff(w)
           \/ \E status \in {"REJECTED", "CANCELLED"} : DropWriteOff(w, status)

PurchaseSpec == PurchaseInit /\ [][PurchaseNext]_purchaseVars

-----------------------------------------------------------------------------
(* Properties *)

\* The mark that paints an order in the list (a copy, so that the list does
\* not load the lines) says what the lines say: some line of the shipment in
\* force, or of its reception, names an incident.
MarkSaysTheLines ==
    \A o \in PurchaseOrders :
        purchase[o].hasIncidents <=>
            \E v \in Items(o) :
                line[o][v].shipmentIncident # Null \/ line[o][v].receptionIncident

\* What the supplier declared over the order is on its way, or received, only
\* where the incident of that line ended RESOLVED by the decision on the
\* overage, whatever was done to it meanwhile from the incidents' tray.  What
\* only the keeper counted over the order enters without a decision
\* (purchase-order-receiving.service.ts:42), and then an incident of the
\* reception was opened for it.
AcceptedOverage(o, v) ==
    /\ line[o][v].shipmentIncident # Null
    /\ incident[<<o, v, line[o][v].shipmentIncident>>] = "RESOLVED"

OverageIsAuthorised ==
    \A o \in PurchaseOrders : \A v \in Items(o) :
        LET it == line[o][v] IN
        /\ purchase[o].status \in {"SHIPPED", "RECEIVED"} /\ it.shipped > it.quantity =>
               AcceptedOverage(o, v)
        /\ it.received > it.quantity =>
               \/ it.received = it.shipped /\ AcceptedOverage(o, v)
               \/ incident[<<o, v, 0>>] # "NONE"

\* An incident of a count asks for attention only while a line names it: those
\* of a shipment that was sent back to the supplier are all closed.
OpenIncidentHasItsLine ==
    \A o \in PurchaseOrders, v \in Variants, n \in 0 .. MaxShipments :
        incident[<<o, v, n>>] \in Unsolved =>
            IF n = 0 THEN line[o][v].receptionIncident ELSE line[o][v].shipmentIncident = n

\* Lines, mark and incidents of an order tell the same story.
LinesAndIncidentsAgree == PurchaseTypeOK /\ MarkSaysTheLines /\ OpenIncidentHasItsLine

\* A pending notice asks for a step that can still be given: the order is
\* where the step is due and, of a notice of an incident, some incident of the
\* order is still to be solved, unless its last ones were closed at once.
PurchaseNoticesAskForALiveStep ==
    \A o \in PurchaseOrders :
        /\ \A k \in notices[o] \ {"INCIDENT"} : purchase[o].status \in AliveWhile[k]
        /\ "INCIDENT" \in notices[o] /\ o \notin crossed => LeavesOneOpen(o, {})

\* What each order brought of a reference, and each write-off took away.
Entered(v) ==
    [o \in PurchaseOrders |-> IF line[o][v].received = Null THEN 0 ELSE line[o][v].received]
Discarded(v) ==
    [w \in WriteOffs |-> IF writeOff[w] = "APPROVED" THEN Wasted[w][v] ELSE 0]

\* The stock is what the keepers counted less the approved write-offs: an order
\* enters once, with its own count, and neither an open nor a dropped write-off
\* moves anything.
StockIsWhatWasCounted ==
    \A v \in Variants : warehouse[v] = SumFunction(Entered(v)) - SumFunction(Discarded(v))
=============================================================================
