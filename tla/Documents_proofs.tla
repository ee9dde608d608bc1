-------------------------- MODULE Documents_proofs --------------------------
(***************************************************************************)
(* Proofs about the documents that move goods and money back and forth:    *)
(* the purchase order (Purchase), the discount of a sale (Discount) and    *)
(* the returns of what was sold (SaleReturn), for any documents, lines,    *)
(* people and amounts.                                                     *)
(*                                                                         *)
(* Purchase.  Beyond the properties one has to know which lines may name   *)
(* an incident at each stage of the order (LineInv), and that who closes   *)
(* an incident from the tray finds it unsolved when it commits, because an *)
(* operation of the order waits for the incidents it closes (ClosingInv).  *)
(* The stock is what was counted because an order is received once, and    *)
(* until then no line and no incident of its reception exists.             *)
(*                                                                         *)
(* Discount.  A sale has one active request at most, and the amounts on it *)
(* are the ones of that request when it is approved, else zero (SaleOK).   *)
(* A line under an active request does not shrink, so the cap, judged at   *)
(* the approval, goes on holding.                                          *)
(*                                                                         *)
(* SaleReturn.  What has to be inductive is said of each line: a line that *)
(* is listed whole is listed for exactly what was paid for it              *)
(* (LineSettled).  The total of the sale follows by adding up the same     *)
(* table twice, by returns and by lines.                                   *)
(***************************************************************************)
EXTENDS MCDocuments, Sums, TLAPS

LineInv(o) ==
    \A v \in Variants :
        /\ purchase[o].status \in {"NONE", "DRAFT", "SENT"} => line[o][v].shipmentIncident = Null
        /\ purchase[o].status # "RECEIVED" => ~line[o][v].receptionIncident
        /\ line[o][v].shipmentIncident # Null => line[o][v].quantity > 0

\* The properties, of one order and line by line.
MarkOf(o) ==
    purchase[o].hasIncidents <=>
        \E v \in Variants : /\ line[o][v].quantity > 0
                            /\ line[o][v].shipmentIncident # Null \/ line[o][v].receptionIncident

OpenOf(o) ==
    \A v \in Variants :
        /\ incident[<<o, v, 0>>] \in Unsolved => line[o][v].receptionIncident
        /\ \A n \in 1 .. MaxShipments :
               incident[<<o, v, n>>] \in Unsolved => line[o][v].shipmentIncident = n

OverageOf(o) ==
    purchase[o].status \in {"SHIPPED", "RECEIVED"} =>
        \A v \in Variants :
            /\ line[o][v].quantity > 0 /\ line[o][v].shipped > line[o][v].quantity
            /\ line[o][v].shipmentIncident # Null
            => incident[<<o, v, line[o][v].shipmentIncident>>] = "RESOLVED"

\* What was shipped otherwise than ordered names an incident of the shipment, and
\* what was counted otherwise than shipped had one opened for the reception.
CountedOf(o) ==
    \A v \in Variants :
        /\ /\ purchase[o].status \in {"PENDING_APPROVAL", "SHIPPED", "RECEIVED"}
           /\ line[o][v].quantity > 0 /\ line[o][v].shipped # line[o][v].quantity
           => line[o][v].shipmentIncident # Null
        /\ purchase[o].status # "RECEIVED" => line[o][v].received = Null
        /\ line[o][v].received # Null /\ line[o][v].received # line[o][v].shipped =>
               incident[<<o, v, 0>>] # "NONE"

NoticesOf(o) == \A k \in notices[o] \ {"INCIDENT"} : purchase[o].status \in AliveWhile[k]

\* Whoever closes the last incident settles its notice, unless it counts another.
SettlesLater(i) == incident[i] \in Unsolved /\ ~closing[i][2]

IncidentNoticeOf(o) ==
    "INCIDENT" \in notices[o] => o \in crossed \/ \E i \in IncidentsOf(o) : SettlesLater(i)

OrderInv(o) ==
    /\ LineInv(o) /\ MarkOf(o) /\ OpenOf(o) /\ OverageOf(o) /\ CountedOf(o)
    /\ NoticesOf(o) /\ IncidentNoticeOf(o)

ClosingInv ==
    \A i \in Incidents : /\ closing[i][1] # "NO" => incident[i] \in Unsolved
                         /\ closing[i][1] = "NO" => ~closing[i][2]

PurchaseIInv ==
    PurchaseTypeOK /\ ClosingInv /\ \A o \in PurchaseOrders : OrderInv(o)

-----------------------------------------------------------------------------
(* Incidents and types *)

LEMMA IncidentTriples ==
  /\ \A o \in PurchaseOrders, v \in Variants, n \in 0 .. Reported :
         /\ <<o, v, n>> \in Incidents
         /\ <<o, v, n>>[1] = o /\ <<o, v, n>>[2] = v /\ <<o, v, n>>[3] = n
  /\ \A i \in Incidents : /\ i[1] \in PurchaseOrders /\ i[2] \in Variants
                          /\ i[3] \in 0 .. Reported /\ i = <<i[1], i[2], i[3]>>
  /\ \A n \in 1 .. MaxShipments : n \in 0 .. Reported /\ n # 0 /\ n # Reported /\ n # Null
  /\ 0 \in 0 .. Reported /\ Reported # 0
BY PurchaseAssumption DEF Incidents, Reported, Null

\* What is known of an order, an incident and a closing by their types.
LEMMA RowTypes ==
  ASSUME PurchaseTypeOK, NEW o \in PurchaseOrders
  PROVE  /\ purchase[o] \in PurchaseRow
         /\ \A v \in Variants : line[o][v] \in LineRow
         /\ notices[o] \subseteq NoticeKinds
BY DEF PurchaseTypeOK

\* The properties are those of every order.
LEMMA OrderByOrder ==
  ASSUME \A o \in PurchaseOrders : OrderInv(o), PurchaseTypeOK
  PROVE  /\ MarkSaysTheLines /\ OpenIncidentHasItsLine
         /\ OverageIsAuthorised /\ PurchaseNoticesAskForALiveStep
<1> USE PurchaseAssumption
<1>1. MarkSaysTheLines
  BY DEF OrderInv, MarkOf, MarkSaysTheLines, Items
<1>2. OpenIncidentHasItsLine
  <2> SUFFICES ASSUME NEW o \in PurchaseOrders, NEW v \in Variants, NEW n \in 0 .. MaxShipments,
                      incident[<<o, v, n>>] \in Unsolved
               PROVE  IF n = 0 THEN line[o][v].receptionIncident
                      ELSE line[o][v].shipmentIncident = n
    BY DEF OpenIncidentHasItsLine
  <2>1. OpenOf(o)
    BY DEF OrderInv
  <2>2. CASE n = 0
    BY <2>1, <2>2 DEF OpenOf
  <2>3. CASE n # 0
    <3>1. n \in 1 .. MaxShipments
      BY <2>3
    <3> QED
      BY <2>1, <2>3, <3>1 DEF OpenOf
  <2> QED
    BY <2>2, <2>3
<1>3. OverageIsAuthorised
  <2> SUFFICES ASSUME NEW o \in PurchaseOrders, NEW v \in Items(o)
               PROVE  /\ /\ purchase[o].status \in {"SHIPPED", "RECEIVED"}
                         /\ line[o][v].shipped > line[o][v].quantity
                         => AcceptedOverage(o, v)
                      /\ line[o][v].received > line[o][v].quantity =>
                             \/ /\ line[o][v].received = line[o][v].shipped
                                /\ AcceptedOverage(o, v)
                             \/ incident[<<o, v, 0>>] # "NONE"
    BY DEF OverageIsAuthorised
  <2>1. v \in Variants /\ line[o][v].quantity > 0 /\ line[o][v] \in LineRow
    BY RowTypes DEF Items
  <2>2. OverageOf(o) /\ CountedOf(o)
    BY DEF OrderInv
  <2>3. ASSUME purchase[o].status \in {"SHIPPED", "RECEIVED"},
               line[o][v].shipped > line[o][v].quantity
        PROVE  AcceptedOverage(o, v)
    <3>1. line[o][v].shipped # line[o][v].quantity
      BY <2>1, <2>3 DEF LineRow, Null
    <3>2. line[o][v].shipmentIncident # Null
      BY <2>1, <2>2, <2>3, <3>1 DEF CountedOf
    <3> QED
      BY <2>1, <2>2, <2>3, <3>2 DEF OverageOf, AcceptedOverage
  <2>4. ASSUME line[o][v].received > line[o][v].quantity, incident[<<o, v, 0>>] = "NONE"
        PROVE  line[o][v].received = line[o][v].shipped /\ AcceptedOverage(o, v)
    <3>1. line[o][v].received # Null
      BY <2>1, <2>4 DEF LineRow, Null
    <3>2. line[o][v].received = line[o][v].shipped /\ purchase[o].status = "RECEIVED"
      BY <2>1, <2>2, <2>4, <3>1 DEF CountedOf
    <3> QED
      BY <2>3, <2>4, <3>2
  <2> QED
    BY <2>3, <2>4
<1>4. PurchaseNoticesAskForALiveStep
  BY DEF OrderInv, NoticesOf, IncidentNoticeOf, SettlesLater, LeavesOneOpen,
         PurchaseNoticesAskForALiveStep
<1> QED
  BY <1>1, <1>2, <1>3, <1>4

\* An order that a step leaves alone stays as it was.
LEMMA OthersUndisturbed ==
  ASSUME NEW o \in PurchaseOrders, OrderInv(o), PurchaseTypeOK,
         purchase'[o] = purchase[o], line'[o] = line[o], notices'[o] = notices[o],
         o \in crossed => o \in crossed',
         \A i \in Incidents : i[1] = o => incident'[i] = incident[i] /\ closing'[i] = closing[i]
  PROVE  OrderInv(o)'
<1> USE PurchaseAssumption
<1>1. LineInv(o)' /\ MarkOf(o)' /\ NoticesOf(o)'
  BY DEF OrderInv, LineInv, MarkOf, NoticesOf
<1>2. OpenOf(o)'
  BY IncidentTriples DEF OrderInv, OpenOf
<1>3. OverageOf(o)'
  <2>1. \A v \in Variants : line[o][v].shipmentIncident \in {Null} \cup 1 .. MaxShipments
    BY DEF PurchaseTypeOK, LineRow
  <2> QED
    BY <2>1, IncidentTriples DEF OrderInv, OverageOf
<1>4. CountedOf(o)'
  BY IncidentTriples DEF OrderInv, CountedOf
<1>5. IncidentNoticeOf(o)'
  BY DEF OrderInv, IncidentNoticeOf, IncidentsOf, SettlesLater
<1> QED
  BY <1>1, <1>2, <1>3, <1>4, <1>5 DEF OrderInv

\* The notices that a status leaves pending.
LEMMA AnnounceTypes ==
  ASSUME PurchaseTypeOK, NEW o \in PurchaseOrders, NEW status, NEW news \in SUBSET NoticeKinds
  PROVE  /\ Announce(o, status, news) \subseteq NoticeKinds
         /\ \A k \in Announce(o, status, news) : k \in news \/ k = "INCIDENT" \/ status \in AliveWhile[k]
         /\ "INCIDENT" \in Announce(o, status, news) => "INCIDENT" \in notices[o] \cup news
BY DEF Announce, PurchaseTypeOK

LEMMA InitHolds == PurchaseInit => PurchaseIInv
<1> SUFFICES ASSUME PurchaseInit PROVE PurchaseIInv
  OBVIOUS
<1> USE PurchaseAssumption
<1>1. PurchaseTypeOK
  <2>1. purchase \in [PurchaseOrders -> PurchaseRow]
    <3>1. PICK s \in Suppliers : purchase = [o \in PurchaseOrders |->
             [status |-> "NONE", supplier |-> s, hasIncidents |-> FALSE, shipments |-> 0]]
      BY DEF PurchaseInit
    <3>2. [status |-> "NONE", supplier |-> s, hasIncidents |-> FALSE, shipments |-> 0]
            \in PurchaseRow
      BY DEF PurchaseRow, PurchaseStatus
    <3> QED
      BY <3>1, <3>2
  <2>2. line \in [PurchaseOrders -> [Variants -> LineRow]]
    BY DEF PurchaseInit, LineRow
  <2>3. incident \in [Incidents -> IncidentStatus]
    BY DEF PurchaseInit, IncidentStatus
  <2>4. closing \in [Incidents -> {"NO", "RESOLVED", "CANCELLED"} \X BOOLEAN]
    BY DEF PurchaseInit
  <2>5. /\ notices \in [PurchaseOrders -> SUBSET NoticeKinds]
        /\ crossed \in SUBSET PurchaseOrders /\ writeOff \in [WriteOffs -> WriteOffStatus]
        /\ warehouse \in [Variants -> Nat]
    BY DEF PurchaseInit, WriteOffStatus
  <2> QED
    BY <2>1, <2>2, <2>3, <2>4, <2>5 DEF PurchaseTypeOK
<1>2. ClosingInv
  BY DEF PurchaseInit, ClosingInv
<1>3. ASSUME NEW o \in PurchaseOrders PROVE OrderInv(o)
  <2>1. LineInv(o) /\ MarkOf(o) /\ OverageOf(o) /\ NoticesOf(o) /\ IncidentNoticeOf(o)
    BY DEF PurchaseInit, LineInv, MarkOf, OverageOf, NoticesOf, IncidentNoticeOf
  <2>3. CountedOf(o)
    BY DEF PurchaseInit, CountedOf
  <2>2. OpenOf(o)
    BY IncidentTriples DEF PurchaseInit, OpenOf, Unsolved
  <2> QED
    BY <2>1, <2>2, <2>3 DEF OrderInv
<1> QED
  BY <1>1, <1>2, <1>3 DEF PurchaseIInv

-----------------------------------------------------------------------------
(* Steps *)

\* A step of one order: what it owes is about that order alone.
LEMMA OneOrder ==
  ASSUME PurchaseIInv, NEW o \in PurchaseOrders,
         PurchaseTypeOK', ClosingInv', OrderInv(o)',
         \A p \in PurchaseOrders \ {o} :
             purchase'[p] = purchase[p] /\ line'[p] = line[p] /\ notices'[p] = notices[p],
         \A p \in PurchaseOrders \ {o} : p \in crossed => p \in crossed',
         \A i \in Incidents : i[1] # o => incident'[i] = incident[i] /\ closing'[i] = closing[i]
  PROVE  PurchaseIInv'
<1>1. ASSUME NEW p \in PurchaseOrders \ {o} PROVE OrderInv(p)'
  <2>1. \A i \in Incidents : i[1] = p => incident'[i] = incident[i] /\ closing'[i] = closing[i]
    BY <1>1
  <2> QED
    BY <1>1, <2>1, OthersUndisturbed DEF PurchaseIInv
<1> QED
  BY <1>1 DEF PurchaseIInv

\* A step of one incident, which was not resolved and, if it is open afterwards,
\* was open or reported by hand.
LEMMA OneIncident ==
  ASSUME PurchaseIInv, NEW i \in Incidents, NEW st \in IncidentStatus,
         incident' = [incident EXCEPT ![i] = st],
         incident[i] # "RESOLVED", st # "NONE",
         st \in Unsolved => incident[i] \in Unsolved \/ i[3] = Reported,
         UNCHANGED <<purchase, line>>,
         \A o \in PurchaseOrders : notices'[o] \subseteq notices[o],
         \A o \in PurchaseOrders : IncidentNoticeOf(o)'
  PROVE  \A o \in PurchaseOrders : OrderInv(o)'
<1> SUFFICES ASSUME NEW o \in PurchaseOrders PROVE OrderInv(o)'
  OBVIOUS
<1> USE PurchaseAssumption
<1>0. OrderInv(o) /\ PurchaseTypeOK
  BY DEF PurchaseIInv
<1>1. LineInv(o)' /\ MarkOf(o)' /\ NoticesOf(o)'
  BY <1>0 DEF OrderInv, LineInv, MarkOf, NoticesOf
<1>2. \A j \in Incidents : j # i => incident'[j] = incident[j]
  BY <1>0 DEF PurchaseTypeOK
<1>3. incident'[i] = st
  BY <1>0 DEF PurchaseTypeOK
<1>4. OpenOf(o)'
  <2>1. ASSUME NEW v \in Variants, NEW n \in 0 .. MaxShipments,
               incident'[<<o, v, n>>] \in Unsolved
        PROVE  incident[<<o, v, n>>] \in Unsolved
    <3>1. <<o, v, n>> \in Incidents /\ <<o, v, n>>[3] # Reported
      BY DEF Incidents, Reported
    <3> QED
      BY <1>2, <1>3, <2>1, <3>1
  <2>2. 0 \in 0 .. MaxShipments /\ \A n \in 1 .. MaxShipments : n \in 0 .. MaxShipments
    OBVIOUS
  <2> QED
    BY <1>0, <2>1, <2>2 DEF OrderInv, OpenOf
<1>5. OverageOf(o)'
  <2>1. ASSUME NEW v \in Variants, line[o][v].shipmentIncident # Null
        PROVE  <<o, v, line[o][v].shipmentIncident>> \in Incidents
    BY <1>0, <2>1, RowTypes, IncidentTriples DEF LineRow
  <2> QED
    BY <1>0, <1>2, <2>1 DEF OrderInv, OverageOf
<1>6. CountedOf(o)'
  <2>1. ASSUME NEW v \in Variants, incident[<<o, v, 0>>] # "NONE"
        PROVE  incident'[<<o, v, 0>>] # "NONE"
    BY <1>2, <1>3, <2>1, IncidentTriples
  <2> QED
    BY <1>0, <2>1 DEF OrderInv, CountedOf
<1> QED
  BY <1>1, <1>4, <1>5, <1>6 DEF OrderInv

LEMMA CreatePreserves ==
  ASSUME PurchaseIInv, NEW o \in PurchaseOrders, NEW s \in Suppliers,
         NEW asked \in [Variants -> 0 .. MaxAsked], Create(o, s, asked)
  PROVE  PurchaseIInv'
<1> USE PurchaseAssumption
<1>0. PurchaseTypeOK /\ ClosingInv /\ OrderInv(o)
  BY DEF PurchaseIInv
<1> DEFINE row == [purchase[o] EXCEPT !.status = "DRAFT", !.supplier = s]
           lines == [v \in Variants |-> [line[o][v] EXCEPT !.quantity = asked[v]]]
<1>1. purchase' = [purchase EXCEPT ![o] = row] /\ row \in PurchaseRow
  <2>1. purchase[o] \in PurchaseRow
    BY <1>0, RowTypes
  <2> QED
    BY <1>0, <2>1 DEF Create, PurchaseTypeOK, PurchaseRow, PurchaseStatus
<1>2. line' = [line EXCEPT ![o] = lines] /\ lines \in [Variants -> LineRow]
  <2>1. \A v \in Variants : line[o][v] \in LineRow
    BY <1>0, RowTypes
  <2>2. \A v \in Variants : [line[o][v] EXCEPT !.quantity = asked[v]] \in LineRow
    BY <2>1 DEF LineRow
  <2>3. line' = [line EXCEPT ![o] = lines]
    BY DEF Create
  <2> QED
    BY <2>2, <2>3
<1>3. UNCHANGED <<incident, closing, crossed, notices, writeOff, warehouse>>
  BY DEF Create
<1>4. /\ PurchaseTypeOK' /\ purchase'[o] = row /\ line'[o] = lines
      /\ \A p \in PurchaseOrders \ {o} :
             purchase'[p] = purchase[p] /\ line'[p] = line[p] /\ notices'[p] = notices[p]
  <2> HIDE DEF row, lines
  <2>1. /\ notices' = [notices EXCEPT ![o] = notices[o]] /\ notices[o] \in SUBSET NoticeKinds
        /\ incident' \in [Incidents -> IncidentStatus] /\ warehouse' \in [Variants -> Nat]
    BY <1>0, <1>3 DEF PurchaseTypeOK
  <2> QED
    BY <1>0, <1>1, <1>2, <1>3, <2>1 DEF PurchaseTypeOK
<1>5. OrderInv(o)'
  <2>1. /\ purchase'[o].status = "DRAFT" /\ purchase[o].status = "NONE"
        /\ purchase'[o].hasIncidents = purchase[o].hasIncidents
    <3>1. purchase[o] \in PurchaseRow
      BY <1>0, RowTypes
    <3>2. purchase[o].status = "NONE"
      BY DEF Create
    <3> QED
      BY <1>4, <3>1, <3>2 DEF PurchaseRow
  <2>2. \A v \in Variants : /\ line'[o][v].shipmentIncident = line[o][v].shipmentIncident
                            /\ line'[o][v].receptionIncident = line[o][v].receptionIncident
                            /\ line[o][v].shipmentIncident = Null
                            /\ ~line[o][v].receptionIncident
    BY <1>0, <1>4, <2>1, RowTypes DEF LineRow, OrderInv, LineInv
  <2>3. LineInv(o)' /\ MarkOf(o)' /\ OverageOf(o)'
    BY <1>0, <2>1, <2>2 DEF OrderInv, LineInv, MarkOf, OverageOf
  <2>4. OpenOf(o)'
    BY <1>0, <1>3, <2>2 DEF OrderInv, OpenOf
  <2>5. NoticesOf(o)'
    BY <1>0, <1>3, <2>1, RowTypes DEF OrderInv, NoticesOf, AliveWhile, NoticeKinds, PurchaseStatus
  <2>6. CountedOf(o)'
    <3>1. \A v \in Variants : /\ line'[o][v].received = line[o][v].received
                              /\ line'[o][v].shipped = line[o][v].shipped
      BY <1>0, <1>4, RowTypes DEF LineRow
    <3> QED
      BY <1>0, <1>3, <2>1, <3>1 DEF OrderInv, CountedOf
  <2>7. IncidentNoticeOf(o)'
    BY <1>0, <1>3 DEF OrderInv, IncidentNoticeOf, SettlesLater
  <2> QED
    BY <2>3, <2>4, <2>5, <2>6, <2>7 DEF OrderInv
<1>6. ClosingInv'
  BY <1>0, <1>3 DEF ClosingInv
<1> QED
  BY <1>3, <1>4, <1>5, <1>6, OneOrder

LEMMA SendPreserves ==
  ASSUME PurchaseIInv, NEW o \in PurchaseOrders, NEW u \in People, Send(o, u)
  PROVE  PurchaseIInv'
<1> USE PurchaseAssumption
<1>0. PurchaseTypeOK /\ ClosingInv /\ OrderInv(o)
  BY DEF PurchaseIInv
<1> DEFINE row == [purchase[o] EXCEPT !.status = "SENT"]
           news == Announce(o, "SENT", {"SENT"})
<1>1. purchase' = [purchase EXCEPT ![o] = row] /\ row \in PurchaseRow
  BY <1>0, RowTypes DEF Send, PurchaseRow, PurchaseStatus
<1>2. /\ notices' = [notices EXCEPT ![o] = news] /\ news \in SUBSET NoticeKinds
      /\ \A k \in news : k \in {"SENT", "INCIDENT"} \/ "SENT" \in AliveWhile[k]
      /\ "INCIDENT" \in news => "INCIDENT" \in notices[o]
  <2>1. {"SENT"} \in SUBSET NoticeKinds
    BY DEF NoticeKinds
  <2> QED
    BY <1>0, <2>1, AnnounceTypes DEF Send
<1>3. UNCHANGED <<line, incident, closing, crossed, writeOff, warehouse>>
  BY DEF Send
<1>4. /\ PurchaseTypeOK' /\ purchase'[o] = row /\ line'[o] = line[o] /\ notices'[o] = news
      /\ \A p \in PurchaseOrders \ {o} :
             purchase'[p] = purchase[p] /\ line'[p] = line[p] /\ notices'[p] = notices[p]
  <2> HIDE DEF row, news
  <2>1. /\ line' = [line EXCEPT ![o] = line[o]] /\ line[o] \in [Variants -> LineRow]
        /\ incident' \in [Incidents -> IncidentStatus] /\ warehouse' \in [Variants -> Nat]
    BY <1>0, <1>3 DEF PurchaseTypeOK
  <2> QED
    BY <1>0, <1>1, <1>2, <1>3, <2>1 DEF PurchaseTypeOK
<1>5. OrderInv(o)'
  <2>1. /\ purchase'[o].status = "SENT" /\ purchase[o].status = "DRAFT"
        /\ purchase'[o].hasIncidents = purchase[o].hasIncidents
    BY <1>0, <1>4, RowTypes DEF PurchaseRow, Send
  <2>2. LineInv(o)' /\ MarkOf(o)' /\ OverageOf(o)'
    BY <1>0, <1>4, <2>1 DEF OrderInv, LineInv, MarkOf, OverageOf
  <2>3. OpenOf(o)'
    BY <1>0, <1>3 DEF OrderInv, OpenOf
  <2>4. NoticesOf(o)'
    <3> HIDE DEF news
    <3>1. "SENT" \in AliveWhile["SENT"]
      BY DEF AliveWhile
    <3> QED
      BY <1>2, <1>4, <2>1, <3>1 DEF NoticesOf
  <2>5. CountedOf(o)'
    BY <1>0, <1>3, <2>1 DEF OrderInv, CountedOf
  <2>6. IncidentNoticeOf(o)'
    <3> HIDE DEF news
    <3> QED
      BY <1>0, <1>2, <1>3, <1>4 DEF OrderInv, IncidentNoticeOf, SettlesLater
  <2> QED
    BY <2>2, <2>3, <2>4, <2>5, <2>6 DEF OrderInv
<1>6. ClosingInv'
  BY <1>0, <1>3 DEF ClosingInv
<1> QED
  BY <1>3, <1>4, <1>5, <1>6, OneOrder

LEMMA ShipPreserves ==
  ASSUME PurchaseIInv, NEW o \in PurchaseOrders,
         NEW counted \in [Variants -> 0 .. MaxCounted], Ship(o, counted)
  PROVE  PurchaseIInv'
<1> USE PurchaseAssumption
<1>0. PurchaseTypeOK /\ ClosingInv /\ OrderInv(o)
  BY DEF PurchaseIInv
<1> DEFINE n == purchase[o].shipments + 1
           wrong == Miscounted(o, counted)
           over == \E v \in wrong : counted[v] > line[o][v].quantity
           row == [purchase[o] EXCEPT !.status = IF over THEN "PENDING_APPROVAL" ELSE "SHIPPED",
                                      !.hasIncidents = wrong # {}, !.shipments = n]
           lines == [v \in Variants |->
               IF v \notin Items(o) THEN line[o][v]
               ELSE [line[o][v] EXCEPT !.shipped = counted[v],
                        !.shipmentIncident = IF v \in wrong THEN n ELSE line[o][v].shipmentIncident]]
           news == IF over THEN Announce(o, "PENDING_APPROVAL", {"OVERAGE_PENDING"})
                                \cup IncidentNotice(TRUE)
                   ELSE Announce(o, "SHIPPED", {"SHIPPED"}) \cup IncidentNotice(wrong # {})
<1>1. /\ purchase[o].status = "SENT" /\ n \in 1 .. MaxShipments
      /\ purchase[o] \in PurchaseRow
      /\ \A v \in Variants : /\ line[o][v] \in LineRow
                             /\ line[o][v].shipmentIncident = Null
                             /\ ~line[o][v].receptionIncident
  BY <1>0, RowTypes DEF Ship, PurchaseRow, OrderInv, LineInv
<1>2. wrong \subseteq Items(o) /\ Items(o) \subseteq Variants
  BY DEF Miscounted, Items
<1>3. purchase' = [purchase EXCEPT ![o] = row] /\ row \in PurchaseRow
  <2>1. purchase' = [purchase EXCEPT ![o] = row]
    BY DEF Ship
  <2>2. row \in PurchaseRow
    <3> HIDE DEF wrong, over, n
    <3>1. n \in 0 .. MaxShipments
      BY <1>1
    <3> QED
      BY <1>1, <3>1 DEF PurchaseRow, PurchaseStatus
  <2> QED
    BY <2>1, <2>2
<1>4. line' = [line EXCEPT ![o] = lines] /\ lines \in [Variants -> LineRow]
  <2>1. line' = [line EXCEPT ![o] = lines]
    BY Zenon DEF Ship, RegisterShipment
  <2>2. ASSUME NEW v \in Variants PROVE lines[v] \in LineRow
    <3> HIDE DEF wrong, n
    <3> QED
      BY <1>1 DEF LineRow
  <2> QED
    BY <2>1, <2>2
<1>5. /\ notices' = [notices EXCEPT ![o] = news] /\ news \in SUBSET NoticeKinds
      /\ \A k \in news : k = "INCIDENT" \/ row.status \in AliveWhile[k]
      /\ wrong = {} /\ "INCIDENT" \in news => "INCIDENT" \in notices[o]
  <2>0. over => wrong # {}
    OBVIOUS
  <2> HIDE DEF wrong, over
  <2>1. {"OVERAGE_PENDING"} \in SUBSET NoticeKinds /\ {"SHIPPED"} \in SUBSET NoticeKinds
        /\ "INCIDENT" \in NoticeKinds
    BY DEF NoticeKinds
  <2>2. /\ IncidentNotice(TRUE) \subseteq {"INCIDENT"}
        /\ IncidentNotice(wrong # {}) \subseteq {"INCIDENT"}
        /\ wrong = {} => IncidentNotice(wrong # {}) = {}
    BY DEF IncidentNotice
  <2>3. "PENDING_APPROVAL" \in AliveWhile["OVERAGE_PENDING"] /\ "SHIPPED" \in AliveWhile["SHIPPED"]
    BY DEF AliveWhile
  <2>4. notices' = [notices EXCEPT ![o] = news]
    BY DEF Ship, wrong, over
  <2>5. CASE over
    <3>1. news = Announce(o, "PENDING_APPROVAL", {"OVERAGE_PENDING"}) \cup IncidentNotice(TRUE)
          /\ row.status = "PENDING_APPROVAL"
      BY <1>1, <2>5 DEF PurchaseRow
    <3> QED
      BY <1>0, <2>0, <2>1, <2>2, <2>3, <2>4, <2>5, <3>1, AnnounceTypes
  <2>6. CASE ~over
    <3>1. news = Announce(o, "SHIPPED", {"SHIPPED"}) \cup IncidentNotice(wrong # {})
          /\ row.status = "SHIPPED"
      BY <1>1, <2>6 DEF PurchaseRow
    <3> QED
      BY <1>0, <2>0, <2>1, <2>2, <2>3, <2>4, <2>6, <3>1, AnnounceTypes
  <2> QED
    BY <2>5, <2>6
<1>6. /\ \A i \in Incidents :
             incident'[i] = IF i[1] = o /\ i[2] \in wrong /\ i[3] = n THEN "OPEN" ELSE incident[i]
      /\ incident' \in [Incidents -> IncidentStatus]
  BY <1>0 DEF Ship, RegisterShipment, PurchaseTypeOK, IncidentStatus
<1>7. /\ UNCHANGED <<closing, writeOff, warehouse>> /\ warehouse' \in [Variants -> Nat]
      /\ crossed' \in SUBSET PurchaseOrders
      /\ \A p \in PurchaseOrders : p \in crossed /\ (p # o \/ wrong = {}) => p \in crossed'
  <2>1. crossed' = CrossedBefore(o, wrong)
    BY DEF Ship
  <2> HIDE DEF wrong
  <2> QED
    BY <1>0, <2>1 DEF Ship, PurchaseTypeOK, CrossedBefore
<1>8. /\ PurchaseTypeOK' /\ purchase'[o] = row /\ line'[o] = lines /\ notices'[o] = news
      /\ \A p \in PurchaseOrders \ {o} :
             purchase'[p] = purchase[p] /\ line'[p] = line[p] /\ notices'[p] = notices[p]
  <2> HIDE DEF row, lines, news
  <2> QED
    BY <1>0, <1>3, <1>4, <1>5, <1>6, <1>7 DEF PurchaseTypeOK
<1>9. OrderInv(o)'
  <2>1. /\ purchase'[o].status = IF over THEN "PENDING_APPROVAL" ELSE "SHIPPED"
        /\ purchase'[o].hasIncidents = (wrong # {})
    <3> HIDE DEF wrong, over, n
    <3> QED
      BY <1>1, <1>8 DEF PurchaseRow
  <2>2. \A v \in Variants :
          /\ line'[o][v].quantity = line[o][v].quantity
          /\ line'[o][v].received = line[o][v].received
          /\ ~line'[o][v].receptionIncident
          /\ line'[o][v].shipmentIncident = IF v \in wrong THEN n ELSE Null
          /\ v \in Items(o) => line'[o][v].shipped = counted[v]
    <3> HIDE DEF wrong, n
    <3>1. ASSUME NEW v \in Variants, v \notin Items(o)
          PROVE  line'[o][v] = line[o][v] /\ v \notin wrong
      BY <1>2, <1>8, <3>1
    <3>2. ASSUME NEW v \in Items(o)
          PROVE  line'[o][v] = [line[o][v] EXCEPT !.shipped = counted[v],
                     !.shipmentIncident = IF v \in wrong THEN n ELSE line[o][v].shipmentIncident]
      BY <1>2, <1>8, <3>2
    <3> SUFFICES ASSUME NEW v \in Variants
                 PROVE  /\ line'[o][v].quantity = line[o][v].quantity
                        /\ line'[o][v].received = line[o][v].received
                        /\ ~line'[o][v].receptionIncident
                        /\ line'[o][v].shipmentIncident = IF v \in wrong THEN n ELSE Null
                        /\ v \in Items(o) => line'[o][v].shipped = counted[v]
      OBVIOUS
    <3>3. line[o][v] \in LineRow /\ line[o][v].shipmentIncident = Null
          /\ ~line[o][v].receptionIncident
      BY <1>1
    <3>4. CASE v \notin Items(o)
      BY <3>1, <3>3, <3>4
    <3>5. CASE v \in Items(o)
      BY <3>2, <3>3, <3>5 DEF LineRow
    <3> QED
      BY <3>4, <3>5
  <2>3. \A v \in Variants : v \in wrong <=> line[o][v].quantity > 0 /\ counted[v] # line[o][v].quantity
    BY DEF Miscounted, Items
  <2>4. n # Null /\ n # 0
    BY <1>1 DEF Null
  <2>5. LineInv(o)' /\ MarkOf(o)'
    <3> HIDE DEF n, wrong, over
    <3> QED
      BY <1>2, <2>1, <2>2, <2>3, <2>4 DEF LineInv, MarkOf
  <2>6. OverageOf(o)'
    <3> SUFFICES ASSUME ~over, NEW v \in Variants, line[o][v].quantity > 0,
                        line'[o][v].shipped > line[o][v].quantity
                 PROVE  FALSE
      BY <2>1, <2>2 DEF OverageOf
    <3>1. line'[o][v].shipped = counted[v]
      BY <2>2 DEF Items
    <3>2. line[o][v].quantity \in Nat /\ counted[v] \in Nat
      BY <1>1 DEF LineRow
    <3> QED
      BY <2>3, <3>1, <3>2
  <2>7. OpenOf(o)'
    <3> HIDE DEF wrong, n
    <3> SUFFICES ASSUME NEW v \in Variants
                 PROVE  /\ incident'[<<o, v, 0>>] \notin Unsolved
                        /\ \A m \in 1 .. MaxShipments :
                               incident'[<<o, v, m>>] \in Unsolved => v \in wrong /\ m = n
      BY <2>2 DEF OpenOf
    <3>1. incident[<<o, v, 0>>] \notin Unsolved
          /\ \A m \in 1 .. MaxShipments : incident[<<o, v, m>>] \notin Unsolved
      BY <1>0, <1>1, IncidentTriples DEF OrderInv, OpenOf
    <3> QED
      BY <1>6, <2>4, <3>1, IncidentTriples
  <2>8. NoticesOf(o)'
    <3> HIDE DEF news, wrong, over, n
    <3>1. purchase'[o].status = row.status
      BY <1>8
    <3> HIDE DEF row
    <3> QED
      BY <1>5, <1>8, <3>1 DEF NoticesOf
  <2>9. CountedOf(o)'
    <3> HIDE DEF wrong, n
    <3>1. \A v \in Variants : line[o][v].received = Null
      BY <1>0, <1>1 DEF OrderInv, CountedOf
    <3>2. \A v \in Variants : line[o][v].quantity > 0 => v \in Items(o)
      BY DEF Items
    <3> QED
      BY <2>2, <2>3, <2>4, <3>1, <3>2 DEF CountedOf
  <2>10. IncidentNoticeOf(o)'
    <3> HIDE DEF news, n
    <3>1. CASE wrong = {}
      <4> HIDE DEF wrong
      <4>1. \A i \in Incidents : incident'[i] = incident[i]
        BY <1>6, <3>1
      <4> QED
        BY <1>0, <1>5, <1>7, <1>8, <3>1, <4>1
           DEF OrderInv, IncidentNoticeOf, SettlesLater, IncidentsOf
    <3>2. CASE wrong # {}
      <4>1. PICK v \in wrong : v \in Variants
        BY <1>2, <3>2
      <4> HIDE DEF wrong
      <4> DEFINE i == <<o, v, n>>
      <4>2. i \in IncidentsOf(o) /\ i \in Incidents /\ i[1] = o /\ i[2] = v /\ i[3] = n
        BY <1>1, <4>1, IncidentTriples DEF IncidentsOf
      <4> HIDE DEF i
      <4>3. incident'[i] = "OPEN"
        BY <1>6, <4>1, <4>2
      <4>4. incident[i] # "NONE" => incident[i] \notin Unsolved
        <5>1. line[o][v].shipmentIncident = Null
          BY <1>1, <4>1
        <5> QED
          BY <1>0, <1>1, <2>4, <4>1, <5>1 DEF OrderInv, OpenOf, i
      <4>5. ~closing'[i][2]
        BY <1>0, <1>7, <4>2, <4>4 DEF ClosingInv, PurchaseTypeOK, Unsolved
      <4> QED
        BY <4>2, <4>3, <4>5 DEF IncidentNoticeOf, SettlesLater, Unsolved, IncidentsOf
    <3> QED
      BY <3>1, <3>2
  <2> QED
    BY <2>5, <2>6, <2>7, <2>8, <2>9, <2>10 DEF OrderInv
<1>10. ClosingInv'
  BY <1>0, <1>6, <1>7 DEF ClosingInv, Unsolved
<1> QED
  BY <1>6, <1>7, <1>8, <1>9, <1>10, OneOrder

\* What the decision on an overage closes, and what it leaves pending.
LEMMA OverageSettled ==
  ASSUME PurchaseIInv, NEW o \in PurchaseOrders, NEW status \in {"SHIPPED", "SENT"},
         NEW S \in SUBSET Incidents, NEW as \in {"RESOLVED", "CANCELLED"},
         \A i \in S : i[1] = o,
         SettleOverage(o, status, S, as), closing' = closing
  PROVE  /\ \A i \in Incidents : incident'[i] = IF i \in S THEN as ELSE incident[i]
         /\ incident' \in [Incidents -> IncidentStatus]
         /\ notices' = [notices EXCEPT ![o] = notices'[o]]
         /\ notices'[o] \subseteq NoticeKinds
         /\ \A k \in notices'[o] : k = "INCIDENT" \/ status \in AliveWhile[k]
         /\ IncidentNoticeOf(o)'
         /\ crossed' \in SUBSET PurchaseOrders
         /\ \A p \in PurchaseOrders \ {o} : p \in crossed => p \in crossed'
         /\ ClosingInv'
<1>0. PurchaseTypeOK /\ ClosingInv
  BY DEF PurchaseIInv
<1> DEFINE news == IF status = "SHIPPED" THEN {"SHIPPED"} ELSE {}
           kept == ClearOveragePending(Announce(o, status, news))
<1>1. \A i \in Incidents : incident'[i] = IF i \in S THEN as ELSE incident[i]
  BY DEF SettleOverage, CloseAll
<1>2. incident' \in [Incidents -> IncidentStatus]
  BY <1>0 DEF SettleOverage, CloseAll, PurchaseTypeOK, IncidentStatus
<1>3. kept \subseteq NoticeKinds
      /\ \A k \in kept : k = "INCIDENT" \/ status \in AliveWhile[k]
  <2>1. news \in SUBSET NoticeKinds
    BY DEF NoticeKinds
  <2>2. \A k \in news : status \in AliveWhile[k]
    BY DEF AliveWhile
  <2> HIDE DEF news
  <2> QED
    BY <1>0, <2>1, <2>2, AnnounceTypes DEF ClearOveragePending
<1>4. notices' = [notices EXCEPT ![o] = IF LeavesOneOpen(o, S) THEN kept ELSE kept \ {"INCIDENT"}]
  BY DEF SettleOverage
<1>7. /\ crossed' \in SUBSET PurchaseOrders
      /\ \A p \in PurchaseOrders : p \in crossed => p \in crossed'
      /\ CountsOnlyClosing(o, S) => o \in crossed'
  BY <1>0 DEF SettleOverage, Crossed, PurchaseTypeOK
<1>8. IncidentNoticeOf(o)'
  <2> HIDE DEF kept
  <2>1. CASE ~LeavesOneOpen(o, S)
    <3>1. "INCIDENT" \notin notices'[o]
      BY <1>0, <1>4, <2>1 DEF PurchaseTypeOK
    <3> QED
      BY <3>1 DEF IncidentNoticeOf
  <2>2. CASE CountsOnlyClosing(o, S)
    BY <1>7, <2>2 DEF IncidentNoticeOf
  <2>3. CASE LeavesOneOpen(o, S) /\ ~CountsOnlyClosing(o, S)
    <3>1. PICK i \in IncidentsOf(o) \ S : incident[i] \in Unsolved /\ closing[i][1] = "NO"
      BY <2>3 DEF CountsOnlyClosing
    <3>2. i \in Incidents
      BY <3>1 DEF IncidentsOf
    <3>3. incident'[i] \in Unsolved /\ ~closing'[i][2]
      BY <1>0, <1>1, <3>1, <3>2 DEF ClosingInv
    <3> QED
      BY <3>1, <3>3 DEF IncidentNoticeOf, SettlesLater, IncidentsOf
  <2> QED
    BY <2>1, <2>2, <2>3
<1>5. notices' = [notices EXCEPT ![o] = notices'[o]] /\ notices'[o] \subseteq kept
  <2> HIDE DEF kept
  <2> QED
    BY <1>0, <1>4 DEF PurchaseTypeOK
<1>6. ClosingInv'
  BY <1>0, <1>1 DEF ClosingInv, SettleOverage, Unlocked
<1> HIDE DEF kept
<1> QED
  BY <1>1, <1>2, <1>3, <1>5, <1>6, <1>7, <1>8

LEMMA AcceptPreserves ==
  ASSUME PurchaseIInv, NEW o \in PurchaseOrders, NEW u \in People, AcceptOverage(o, u)
  PROVE  PurchaseIInv'
<1> USE PurchaseAssumption
<1>0. PurchaseTypeOK /\ ClosingInv /\ OrderInv(o)
  BY DEF PurchaseIInv
<1> DEFINE S == ShipmentIncidents(o, OverageItems(o))
           row == [purchase[o] EXCEPT !.status = "SHIPPED"]
<1>1. S \in SUBSET Incidents /\ \A i \in S : i[1] = o
  BY <1>0, RowTypes, IncidentTriples DEF ShipmentIncidents, OverageItems, Items, LineRow
<1>2. /\ \A i \in Incidents : incident'[i] = IF i \in S THEN "RESOLVED" ELSE incident[i]
      /\ incident' \in [Incidents -> IncidentStatus]
      /\ notices' = [notices EXCEPT ![o] = notices'[o]]
      /\ notices'[o] \subseteq NoticeKinds
      /\ \A k \in notices'[o] : k = "INCIDENT" \/ "SHIPPED" \in AliveWhile[k]
      /\ IncidentNoticeOf(o)'
      /\ crossed' \in SUBSET PurchaseOrders
      /\ \A p \in PurchaseOrders \ {o} : p \in crossed => p \in crossed'
      /\ ClosingInv'
  <2> HIDE DEF S
  <2>1. SettleOverage(o, "SHIPPED", S, "RESOLVED") /\ closing' = closing
    BY DEF AcceptOverage, S
  <2> QED
    BY <1>1, <2>1, OverageSettled
<1>3. purchase' = [purchase EXCEPT ![o] = row] /\ row \in PurchaseRow
  <2>1. purchase[o] \in PurchaseRow
    BY <1>0, RowTypes
  <2> QED
    BY <2>1 DEF AcceptOverage, PurchaseRow, PurchaseStatus
<1>4. UNCHANGED <<line, closing, writeOff, warehouse>> /\ purchase[o].status = "PENDING_APPROVAL"
  BY DEF AcceptOverage
<1>5. /\ PurchaseTypeOK' /\ purchase'[o] = row
      /\ \A p \in PurchaseOrders \ {o} :
             purchase'[p] = purchase[p] /\ line'[p] = line[p] /\ notices'[p] = notices[p]
  <2> HIDE DEF row
  <2> QED
    BY <1>0, <1>2, <1>3, <1>4 DEF PurchaseTypeOK
<1>6. OrderInv(o)'
  <2>1. /\ purchase'[o].status = "SHIPPED"
        /\ purchase'[o].hasIncidents = purchase[o].hasIncidents
    BY <1>0, <1>5, RowTypes DEF PurchaseRow
  <2>2. LineInv(o)' /\ MarkOf(o)'
    BY <1>0, <1>4, <2>1 DEF OrderInv, LineInv, MarkOf
  <2>3. OpenOf(o)'
    <3> HIDE DEF S
    <3>1. \A i \in Incidents : incident'[i] \in Unsolved => incident[i] \in Unsolved
      BY <1>2 DEF Unsolved
    <3> QED
      BY <1>0, <1>4, <3>1, IncidentTriples DEF OrderInv, OpenOf
  <2>4. OverageOf(o)'
    <3> SUFFICES ASSUME NEW v \in Variants, line[o][v].quantity > 0,
                        line[o][v].shipped > line[o][v].quantity,
                        line[o][v].shipmentIncident # Null
                 PROVE  incident'[<<o, v, line[o][v].shipmentIncident>>] = "RESOLVED"
      BY <1>4 DEF OverageOf
    <3>1. <<o, v, line[o][v].shipmentIncident>> \in S
      BY DEF ShipmentIncidents, OverageItems, Items
    <3> HIDE DEF S
    <3> QED
      BY <1>1, <1>2, <3>1
  <2>5. NoticesOf(o)'
    BY <1>2, <2>1 DEF NoticesOf
  <2>6. CountedOf(o)'
    <3> HIDE DEF S
    <3>1. \A v \in Variants : incident[<<o, v, 0>>] # "NONE" => incident'[<<o, v, 0>>] # "NONE"
      BY <1>2, IncidentTriples
    <3> QED
      BY <1>0, <1>4, <2>1, <3>1 DEF OrderInv, CountedOf
  <2> QED
    BY <1>2, <2>2, <2>3, <2>4, <2>5, <2>6 DEF OrderInv
<1>7. \A i \in Incidents : i[1] # o => incident'[i] = incident[i]
  <2> HIDE DEF S
  <2> QED
    BY <1>1, <1>2
<1> QED
  BY <1>2, <1>4, <1>5, <1>6, <1>7, OneOrder

LEMMA RefusePreserves ==
  ASSUME PurchaseIInv, NEW o \in PurchaseOrders, NEW u \in People, RefuseOverage(o, u)
  PROVE  PurchaseIInv'
<1> USE PurchaseAssumption
<1>0. PurchaseTypeOK /\ ClosingInv /\ OrderInv(o)
  BY DEF PurchaseIInv
<1> DEFINE S == ShipmentIncidents(o, Items(o))
           row == [purchase[o] EXCEPT !.status = "SENT", !.hasIncidents = FALSE]
           lines == [v \in Variants |->
                        [line[o][v] EXCEPT !.shipped = Null, !.shipmentIncident = Null]]
<1>1. S \in SUBSET Incidents /\ \A i \in S : i[1] = o
  BY <1>0, RowTypes, IncidentTriples DEF ShipmentIncidents, Items, LineRow
<1>2. /\ \A i \in Incidents : incident'[i] = IF i \in S THEN "CANCELLED" ELSE incident[i]
      /\ incident' \in [Incidents -> IncidentStatus]
      /\ notices' = [notices EXCEPT ![o] = notices'[o]]
      /\ notices'[o] \subseteq NoticeKinds
      /\ \A k \in notices'[o] : k = "INCIDENT" \/ "SENT" \in AliveWhile[k]
      /\ IncidentNoticeOf(o)'
      /\ crossed' \in SUBSET PurchaseOrders
      /\ \A p \in PurchaseOrders \ {o} : p \in crossed => p \in crossed'
      /\ ClosingInv'
  <2> HIDE DEF S
  <2>1. SettleOverage(o, "SENT", S, "CANCELLED") /\ closing' = closing
    BY DEF RefuseOverage, S
  <2> QED
    BY <1>1, <2>1, OverageSettled
<1>3. purchase' = [purchase EXCEPT ![o] = row] /\ row \in PurchaseRow
  <2>1. purchase[o] \in PurchaseRow
    BY <1>0, RowTypes
  <2> QED
    BY <1>0, <2>1 DEF RefuseOverage, BackToSupplier, PurchaseTypeOK, PurchaseRow, PurchaseStatus
<1>4. line' = [line EXCEPT ![o] = lines] /\ lines \in [Variants -> LineRow]
  <2>1. \A v \in Variants : line[o][v] \in LineRow
    BY <1>0, RowTypes
  <2>2. \A v \in Variants :
            [line[o][v] EXCEPT !.shipped = Null, !.shipmentIncident = Null] \in LineRow
    BY <2>1 DEF LineRow
  <2>3. line' = [line EXCEPT ![o] = lines]
    BY DEF RefuseOverage, BackToSupplier
  <2> QED
    BY <2>2, <2>3
<1>5. UNCHANGED <<closing, writeOff, warehouse>> /\ purchase[o].status = "PENDING_APPROVAL"
  BY DEF RefuseOverage
<1>6. /\ PurchaseTypeOK' /\ purchase'[o] = row /\ line'[o] = lines
      /\ \A p \in PurchaseOrders \ {o} :
             purchase'[p] = purchase[p] /\ line'[p] = line[p] /\ notices'[p] = notices[p]
  <2> HIDE DEF row, lines
  <2> QED
    BY <1>0, <1>2, <1>3, <1>4, <1>5 DEF PurchaseTypeOK
<1>7. OrderInv(o)'
  <2>1. purchase'[o].status = "SENT" /\ ~purchase'[o].hasIncidents
    BY <1>0, <1>6, RowTypes DEF PurchaseRow
  <2>2. \A v \in Variants : /\ line'[o][v].shipmentIncident = Null
                            /\ ~line'[o][v].receptionIncident
                            /\ ~line[o][v].receptionIncident
    <3>1. \A v \in Variants : line[o][v] \in LineRow /\ ~line[o][v].receptionIncident
      BY <1>0, <1>5, RowTypes DEF OrderInv, LineInv
    <3>2. \A v \in Variants :
              line'[o][v] = [line[o][v] EXCEPT !.shipped = Null, !.shipmentIncident = Null]
      BY <1>6
    <3> QED
      BY <3>1, <3>2 DEF LineRow
  <2>3. LineInv(o)' /\ MarkOf(o)' /\ OverageOf(o)'
    BY <2>1, <2>2 DEF LineInv, MarkOf, OverageOf
  <2>4. OpenOf(o)'
    <3> SUFFICES ASSUME NEW v \in Variants
                 PROVE  /\ incident'[<<o, v, 0>>] \notin Unsolved
                        /\ \A n \in 1 .. MaxShipments : incident'[<<o, v, n>>] \notin Unsolved
      BY DEF OpenOf
    <3>1. incident[<<o, v, 0>>] \notin Unsolved
      BY <1>0, <2>2 DEF OrderInv, OpenOf
    <3>2. ASSUME NEW n \in 1 .. MaxShipments, incident[<<o, v, n>>] \in Unsolved
          PROVE  <<o, v, n>> \in S
      <4>1. line[o][v].shipmentIncident = n
        BY <1>0, <3>2 DEF OrderInv, OpenOf
      <4>2. v \in Items(o) /\ n # Null
        BY <1>0, <4>1, IncidentTriples DEF OrderInv, LineInv, Items
      <4> QED
        BY <4>1, <4>2 DEF ShipmentIncidents
    <3>3. "CANCELLED" \notin Unsolved
      BY DEF Unsolved
    <3> HIDE DEF S
    <3> QED
      BY <1>2, <3>1, <3>2, <3>3, IncidentTriples
  <2>5. NoticesOf(o)'
    BY <1>2, <2>1 DEF NoticesOf
  <2>6. CountedOf(o)'
    <3>1. \A v \in Variants : line[o][v] \in LineRow /\ line[o][v].received = Null
      BY <1>0, <1>5, RowTypes DEF OrderInv, CountedOf
    <3>2. \A v \in Variants :
              line'[o][v] = [line[o][v] EXCEPT !.shipped = Null, !.shipmentIncident = Null]
      BY <1>6
    <3>3. \A v \in Variants : line'[o][v].received = Null
      BY <3>1, <3>2 DEF LineRow
    <3> QED
      BY <2>1, <3>3 DEF CountedOf
  <2> QED
    BY <1>2, <2>3, <2>4, <2>5, <2>6 DEF OrderInv
<1>8. \A i \in Incidents : i[1] # o => incident'[i] = incident[i]
  <2> HIDE DEF S
  <2> QED
    BY <1>1, <1>2
<1> QED
  BY <1>2, <1>5, <1>6, <1>7, <1>8, OneOrder

LEMMA ReceivePreserves ==
  ASSUME PurchaseIInv, NEW o \in PurchaseOrders, NEW u \in People,
         NEW counted \in [Variants -> 0 .. MaxCounted], Receive(o, u, counted)
  PROVE  PurchaseIInv'
<1> USE PurchaseAssumption
<1>0. PurchaseTypeOK /\ ClosingInv /\ OrderInv(o)
  BY DEF PurchaseIInv
<1> DEFINE wrong == {v \in ShippedItems(o) : counted[v] # line[o][v].shipped}
           row == [purchase[o] EXCEPT !.status = "RECEIVED",
                                      !.hasIncidents = Mark(o, wrong # {})]
           lines == [v \in Variants |->
               IF v \notin ShippedItems(o) THEN line[o][v]
               ELSE [line[o][v] EXCEPT !.received = counted[v], !.receptionIncident = v \in wrong]]
           news == Announce(o, "RECEIVED", {}) \cup IncidentNotice(wrong # {})
<1>1. /\ purchase[o].status = "SHIPPED" /\ purchase[o] \in PurchaseRow
      /\ \A v \in Variants : line[o][v] \in LineRow /\ ~line[o][v].receptionIncident
  BY <1>0, RowTypes DEF Receive, OrderInv, LineInv
<1>2. wrong \subseteq ShippedItems(o)
      /\ \A v \in ShippedItems(o) : v \in Variants /\ line[o][v].quantity > 0
  BY DEF ShippedItems, Items
<1>3. purchase' = [purchase EXCEPT ![o] = row] /\ row \in PurchaseRow
  <2>1. purchase' = [purchase EXCEPT ![o] = row]
    BY DEF Receive
  <2>2. Mark(o, wrong # {}) \in BOOLEAN
    BY <1>1 DEF Mark, PurchaseRow
  <2>3. row \in PurchaseRow
    <3> HIDE DEF wrong
    <3> QED
      BY <1>1, <2>2 DEF PurchaseRow, PurchaseStatus
  <2> QED
    BY <2>1, <2>3
<1>4. line' = [line EXCEPT ![o] = lines] /\ lines \in [Variants -> LineRow]
  <2>1. line' = [line EXCEPT ![o] = lines]
    BY Zenon DEF Receive, EnterStock
  <2>2. ASSUME NEW v \in Variants PROVE lines[v] \in LineRow
    <3> HIDE DEF wrong
    <3>1. line[o][v] \in LineRow
      BY <1>1
    <3>2. \A b \in BOOLEAN :
              [line[o][v] EXCEPT !.received = counted[v], !.receptionIncident = b] \in LineRow
      BY <3>1 DEF LineRow
    <3>3. (v \in wrong) \in BOOLEAN
      OBVIOUS
    <3> QED
      BY <3>1, <3>2, <3>3, Zenon
  <2> QED
    BY <2>1, <2>2
<1>5. /\ notices' = [notices EXCEPT ![o] = news] /\ news \in SUBSET NoticeKinds
      /\ \A k \in news : k = "INCIDENT" \/ "RECEIVED" \in AliveWhile[k]
      /\ wrong = {} /\ "INCIDENT" \in news => "INCIDENT" \in notices[o]
  <2>1. notices' = [notices EXCEPT ![o] = news]
    BY DEF Receive
  <2>2. /\ IncidentNotice(wrong # {}) \subseteq {"INCIDENT"} /\ "INCIDENT" \in NoticeKinds
        /\ wrong = {} => IncidentNotice(wrong # {}) = {}
    BY DEF IncidentNotice, NoticeKinds
  <2> HIDE DEF wrong
  <2> QED
    BY <1>0, <2>1, <2>2, AnnounceTypes
<1>6. /\ \A i \in Incidents :
             incident'[i] = IF i[1] = o /\ i[2] \in wrong /\ i[3] = 0 THEN "OPEN" ELSE incident[i]
      /\ incident' \in [Incidents -> IncidentStatus]
  BY <1>0 DEF Receive, EnterStock, PurchaseTypeOK, IncidentStatus
<1>11. /\ crossed' \in SUBSET PurchaseOrders
       /\ \A p \in PurchaseOrders : p \in crossed /\ (p # o \/ wrong = {}) => p \in crossed'
  <2>1. crossed' = CrossedBefore(o, wrong)
    BY DEF Receive
  <2> HIDE DEF wrong
  <2> QED
    BY <1>0, <2>1 DEF PurchaseTypeOK, CrossedBefore
<1>7. UNCHANGED <<closing, writeOff>> /\ warehouse' \in [Variants -> Nat]
  <2>1. warehouse' = [v \in Variants |->
            warehouse[v] + (IF v \in ShippedItems(o) THEN counted[v] ELSE 0)]
    BY DEF Receive, EnterStock
  <2>2. \A v \in Variants : warehouse[v] \in Nat /\ counted[v] \in Nat
    BY <1>0 DEF PurchaseTypeOK
  <2> QED
    BY <2>1, <2>2 DEF Receive
<1>8. /\ PurchaseTypeOK' /\ purchase'[o] = row /\ line'[o] = lines /\ notices'[o] = news
      /\ \A p \in PurchaseOrders \ {o} :
             purchase'[p] = purchase[p] /\ line'[p] = line[p] /\ notices'[p] = notices[p]
  <2> HIDE DEF row, lines, news
  <2> QED
    BY <1>0, <1>3, <1>4, <1>5, <1>6, <1>7, <1>11 DEF PurchaseTypeOK
<1>9. OrderInv(o)'
  <2>1. /\ purchase'[o].status = "RECEIVED"
        /\ purchase'[o].hasIncidents <=> purchase[o].hasIncidents \/ wrong # {}
    <3> HIDE DEF wrong
    <3> QED
      BY <1>1, <1>8 DEF PurchaseRow, Mark
  <2>2. \A v \in Variants :
          /\ line'[o][v].quantity = line[o][v].quantity
          /\ line'[o][v].shipped = line[o][v].shipped
          /\ line'[o][v].shipmentIncident = line[o][v].shipmentIncident
          /\ line'[o][v].receptionIncident <=> v \in wrong
          /\ v \in ShippedItems(o) => line'[o][v].received = counted[v]
          /\ v \notin ShippedItems(o) => line'[o][v] = line[o][v]
    <3> HIDE DEF wrong
    <3> SUFFICES ASSUME NEW v \in Variants
                 PROVE  /\ line'[o][v].quantity = line[o][v].quantity
                        /\ line'[o][v].shipped = line[o][v].shipped
                        /\ line'[o][v].shipmentIncident = line[o][v].shipmentIncident
                        /\ line'[o][v].receptionIncident <=> v \in wrong
                        /\ v \in ShippedItems(o) => line'[o][v].received = counted[v]
                        /\ v \notin ShippedItems(o) => line'[o][v] = line[o][v]
      OBVIOUS
    <3>1. line[o][v] \in LineRow /\ ~line[o][v].receptionIncident
      BY <1>1
    <3>2. CASE v \notin ShippedItems(o)
      BY <1>2, <1>8, <3>1, <3>2
    <3>3. CASE v \in ShippedItems(o)
      <4>1. line'[o][v] = [line[o][v] EXCEPT !.received = counted[v],
                                             !.receptionIncident = v \in wrong]
        BY <1>8, <3>3, Zenon
      <4>2. CASE v \in wrong
        <5>1. line'[o][v] = [line[o][v] EXCEPT !.received = counted[v], !.receptionIncident = TRUE]
          BY <4>1, <4>2, Zenon
        <5> QED
          BY <3>1, <3>3, <4>2, <5>1 DEF LineRow
      <4>3. CASE v \notin wrong
        <5> HIDE DEF wrong
        <5>0. (v \in wrong) = FALSE
          BY <4>3
        <5>1. line'[o][v] = [line[o][v] EXCEPT !.received = counted[v], !.receptionIncident = FALSE]
          BY <4>1, <5>0, Zenon
        <5> QED
          BY <3>1, <3>3, <4>3, <5>1 DEF LineRow
      <4> QED
        BY <4>2, <4>3
    <3> QED
      BY <3>2, <3>3
  <2>3. LineInv(o)'
    BY <1>0, <2>1, <2>2 DEF OrderInv, LineInv
  <2>4. MarkOf(o)'
    <3> HIDE DEF wrong
    <3>1. purchase[o].hasIncidents <=>
            \E v \in Variants : line[o][v].quantity > 0 /\ line[o][v].shipmentIncident # Null
      BY <1>0, <1>1 DEF OrderInv, MarkOf
    <3>2. wrong # {} <=> \E v \in Variants : line[o][v].quantity > 0 /\ v \in wrong
      BY <1>2
    <3> QED
      BY <2>1, <2>2, <3>1, <3>2 DEF MarkOf
  <2>5. OpenOf(o)'
    <3> HIDE DEF wrong
    <3> SUFFICES ASSUME NEW v \in Variants
                 PROVE  /\ incident'[<<o, v, 0>>] \in Unsolved => v \in wrong
                        /\ \A n \in 1 .. MaxShipments : incident'[<<o, v, n>>] \in Unsolved =>
                               line[o][v].shipmentIncident = n
      BY <2>2 DEF OpenOf
    <3>1. incident[<<o, v, 0>>] \notin Unsolved
      BY <1>0, <1>1 DEF OrderInv, OpenOf
    <3>2. \A n \in 1 .. MaxShipments : incident'[<<o, v, n>>] = incident[<<o, v, n>>]
      BY <1>6, IncidentTriples
    <3> QED
      BY <1>0, <1>6, <3>1, <3>2, IncidentTriples DEF OrderInv, OpenOf
  <2>6. OverageOf(o)'
    <3> HIDE DEF wrong
    <3> SUFFICES ASSUME NEW v \in Variants, line[o][v].quantity > 0,
                        line[o][v].shipped > line[o][v].quantity,
                        line[o][v].shipmentIncident # Null
                 PROVE  incident'[<<o, v, line[o][v].shipmentIncident>>] = "RESOLVED"
      BY <2>2 DEF OverageOf
    <3>1. incident[<<o, v, line[o][v].shipmentIncident>>] = "RESOLVED"
      BY <1>0, <1>1 DEF OrderInv, OverageOf
    <3>2. line[o][v].shipmentIncident \in 1 .. MaxShipments
      BY <1>1 DEF LineRow
    <3> QED
      BY <1>6, <3>1, <3>2, IncidentTriples
  <2>7. NoticesOf(o)'
    <3> HIDE DEF news, row, lines, wrong
    <3>1. notices'[o] = news
      BY <1>8
    <3> QED
      BY <1>5, <2>1, <3>1 DEF NoticesOf
  <2>8. CountedOf(o)'
    <3> HIDE DEF news, wrong
    <3> SUFFICES ASSUME NEW v \in Variants
                 PROVE  /\ line'[o][v].quantity > 0 /\ line'[o][v].shipped # line'[o][v].quantity
                           => line'[o][v].shipmentIncident # Null
                        /\ /\ line'[o][v].received # Null
                           /\ line'[o][v].received # line'[o][v].shipped
                           => incident'[<<o, v, 0>>] # "NONE"
      BY <2>1 DEF CountedOf
    <3>1. /\ line[o][v].quantity > 0 /\ line[o][v].shipped # line[o][v].quantity
             => line[o][v].shipmentIncident # Null
          /\ line[o][v].received = Null
      BY <1>0, <1>1 DEF OrderInv, CountedOf
    <3>2. v \in ShippedItems(o) /\ counted[v] # line[o][v].shipped => v \in wrong
      BY DEF wrong
    <3>3. v \in wrong => incident'[<<o, v, 0>>] = "OPEN"
      BY <1>6, IncidentTriples
    <3> QED
      BY <2>2, <3>1, <3>2, <3>3
  <2>9. IncidentNoticeOf(o)'
    <3> HIDE DEF news
    <3>1. CASE wrong = {}
      <4> HIDE DEF wrong
      <4>1. \A i \in Incidents : incident'[i] = incident[i]
        BY <1>6, <3>1
      <4> QED
        BY <1>0, <1>5, <1>7, <1>8, <1>11, <3>1, <4>1
           DEF OrderInv, IncidentNoticeOf, SettlesLater, IncidentsOf
    <3>2. CASE wrong # {}
      <4>1. PICK v \in wrong : v \in Variants
        BY <1>2, <3>2
      <4> HIDE DEF wrong
      <4> DEFINE i == <<o, v, 0>>
      <4>2. i \in IncidentsOf(o) /\ i \in Incidents /\ i[1] = o /\ i[2] = v /\ i[3] = 0
        BY <4>1, IncidentTriples DEF IncidentsOf
      <4>3. incident[i] \notin Unsolved
        BY <1>0, <1>1, <4>1 DEF OrderInv, OpenOf
      <4> HIDE DEF i
      <4>4. incident'[i] = "OPEN"
        BY <1>6, <4>1, <4>2
      <4>5. ~closing'[i][2]
        BY <1>0, <1>7, <4>2, <4>3 DEF ClosingInv
      <4> QED
        BY <4>2, <4>4, <4>5 DEF IncidentNoticeOf, SettlesLater, Unsolved, IncidentsOf
    <3> QED
      BY <3>1, <3>2
  <2> QED
    BY <2>3, <2>4, <2>5, <2>6, <2>7, <2>8, <2>9 DEF OrderInv
<1>10. ClosingInv'
  BY <1>0, <1>6, <1>7 DEF ClosingInv, Unsolved
<1> QED
  BY <1>6, <1>7, <1>8, <1>9, <1>10, <1>11, OneOrder

LEMMA CancelPreserves ==
  ASSUME PurchaseIInv, NEW o \in PurchaseOrders, NEW u \in People, CancelOrder(o, u)
  PROVE  PurchaseIInv'
<1> USE PurchaseAssumption
<1>0. PurchaseTypeOK /\ ClosingInv /\ OrderInv(o)
  BY DEF PurchaseIInv
<1> DEFINE row == [purchase[o] EXCEPT !.status = "CANCELLED"]
           news == Announce(o, "CANCELLED", {})
<1>1. purchase' = [purchase EXCEPT ![o] = row] /\ row \in PurchaseRow
  BY <1>0, RowTypes DEF CancelOrder, PurchaseRow, PurchaseStatus
<1>2. /\ notices' = [notices EXCEPT ![o] = news] /\ news \in SUBSET NoticeKinds
      /\ \A k \in news : k = "INCIDENT" \/ "CANCELLED" \in AliveWhile[k]
      /\ "INCIDENT" \in news => "INCIDENT" \in notices[o]
  BY <1>0, AnnounceTypes DEF CancelOrder
<1>3. UNCHANGED <<line, incident, closing, crossed, writeOff, warehouse>>
  BY DEF CancelOrder
<1>4. /\ PurchaseTypeOK' /\ purchase'[o] = row /\ line'[o] = line[o] /\ notices'[o] = news
      /\ \A p \in PurchaseOrders \ {o} :
             purchase'[p] = purchase[p] /\ line'[p] = line[p] /\ notices'[p] = notices[p]
  <2> HIDE DEF row, news
  <2> QED
    BY <1>0, <1>1, <1>2, <1>3 DEF PurchaseTypeOK
<1>5. OrderInv(o)'
  <2>1. /\ purchase'[o].status = "CANCELLED" /\ purchase[o].status # "RECEIVED"
        /\ purchase'[o].hasIncidents = purchase[o].hasIncidents
    <3>1. purchase[o] \in PurchaseRow
      BY <1>0, RowTypes
    <3>2. purchase[o].status # "RECEIVED"
      BY DEF CancelOrder
    <3> QED
      BY <1>4, <3>1, <3>2 DEF PurchaseRow
  <2>2. LineInv(o)' /\ MarkOf(o)' /\ OverageOf(o)'
    BY <1>0, <1>4, <2>1 DEF OrderInv, LineInv, MarkOf, OverageOf
  <2>3. OpenOf(o)'
    BY <1>0, <1>3 DEF OrderInv, OpenOf
  <2>4. NoticesOf(o)'
    <3> HIDE DEF news
    <3> QED
      BY <1>2, <1>4, <2>1 DEF NoticesOf
  <2>5. CountedOf(o)'
    BY <1>0, <1>3, <2>1 DEF OrderInv, CountedOf
  <2>6. IncidentNoticeOf(o)'
    <3> HIDE DEF news
    <3> QED
      BY <1>0, <1>2, <1>3, <1>4 DEF OrderInv, IncidentNoticeOf, SettlesLater
  <2> QED
    BY <2>2, <2>3, <2>4, <2>5, <2>6 DEF OrderInv
<1>6. ClosingInv'
  BY <1>0, <1>3 DEF ClosingInv
<1> QED
  BY <1>3, <1>4, <1>5, <1>6, OneOrder

LEMMA ReadPreserves ==
  ASSUME PurchaseIInv, NEW o \in PurchaseOrders, NEW k \in NoticeKinds, ReadNotice(o, k)
  PROVE  PurchaseIInv'
<1>0. PurchaseTypeOK /\ ClosingInv /\ OrderInv(o)
  BY DEF PurchaseIInv
<1>1. UNCHANGED <<purchase, line, incident, closing, crossed, writeOff, warehouse>>
  BY DEF ReadNotice
<1>2. /\ notices'[o] \subseteq notices[o]
      /\ \A p \in PurchaseOrders \ {o} : notices'[p] = notices[p]
      /\ notices' \in [PurchaseOrders -> SUBSET NoticeKinds]
  BY <1>0 DEF ReadNotice, PurchaseTypeOK
<1>3. PurchaseTypeOK' /\ ClosingInv'
  BY <1>0, <1>1, <1>2 DEF PurchaseTypeOK, ClosingInv
<1>4. OrderInv(o)'
  BY <1>0, <1>1, <1>2 DEF OrderInv, LineInv, MarkOf, OpenOf, OverageOf, CountedOf, NoticesOf,
                          IncidentNoticeOf, SettlesLater
<1> QED
  BY <1>1, <1>2, <1>3, <1>4, OneOrder

LEMMA ReportPreserves ==
  ASSUME PurchaseIInv, NEW i \in Incidents, Report(i) \/ StartReview(i)
  PROVE  PurchaseIInv'
<1>0. PurchaseTypeOK /\ ClosingInv
  BY DEF PurchaseIInv
<1>1. UNCHANGED <<purchase, line, closing, crossed, notices, writeOff, warehouse>>
  BY DEF Report, StartReview
<1>2. PICK st \in Unsolved :
          /\ incident' = [incident EXCEPT ![i] = st]
          /\ incident[i] # "RESOLVED" /\ (incident[i] \in Unsolved \/ i[3] = Reported)
  BY DEF Report, StartReview, Unsolved
<1>3. st \in IncidentStatus
  BY <1>2 DEF IncidentStatus, Unsolved
<1>4. PurchaseTypeOK' /\ ClosingInv'
  BY <1>0, <1>1, <1>2, <1>3 DEF PurchaseTypeOK, ClosingInv
<1>5. \A o \in PurchaseOrders : OrderInv(o)'
  <2>1. \A j \in Incidents : incident[j] \in Unsolved => incident'[j] \in Unsolved
    BY <1>0, <1>2 DEF PurchaseTypeOK
  <2>2. \A o \in PurchaseOrders : IncidentNoticeOf(o)'
    BY <1>1, <2>1 DEF PurchaseIInv, OrderInv, IncidentNoticeOf, SettlesLater, IncidentsOf
  <2>3. st # "NONE"
    BY <1>2 DEF Unsolved
  <2> QED
    BY <1>1, <1>2, <1>3, <2>2, <2>3, OneIncident
<1> QED
  BY <1>4, <1>5 DEF PurchaseIInv

LEMMA BeginClosePreserves ==
  ASSUME PurchaseIInv, NEW i \in Incidents, NEW status \in {"RESOLVED", "CANCELLED"},
         BeginClose(i, status)
  PROVE  PurchaseIInv'
<1>0. PurchaseTypeOK /\ ClosingInv
  BY DEF PurchaseIInv
<1>1. UNCHANGED <<purchase, line, incident, notices, writeOff, warehouse>>
  BY DEF BeginClose
<1>2. closing' \in [Incidents -> {"NO", "RESOLVED", "CANCELLED"} \X BOOLEAN]
  <2>1. LeavesOneOpen(i[1], {i}) \in BOOLEAN
    BY DEF LeavesOneOpen
  <2>2. <<status, LeavesOneOpen(i[1], {i})>> \in {"NO", "RESOLVED", "CANCELLED"} \X BOOLEAN
    BY <2>1, Zenon
  <2> QED
    BY <1>0, <2>2 DEF BeginClose, PurchaseTypeOK
<1>6. /\ crossed' \in SUBSET PurchaseOrders
      /\ \A p \in PurchaseOrders : p \in crossed => p \in crossed'
      /\ CountsOnlyClosing(i[1], {i}) => i[1] \in crossed'
  BY <1>0, IncidentTriples DEF BeginClose, Crossed, PurchaseTypeOK
<1>3. PurchaseTypeOK'
  BY <1>0, <1>1, <1>2, <1>6 DEF PurchaseTypeOK
<1>7. /\ \A j \in Incidents : j # i => closing'[j] = closing[j]
      /\ closing'[i] = <<status, LeavesOneOpen(i[1], {i})>>
  BY <1>0 DEF BeginClose, PurchaseTypeOK
<1>4. ClosingInv'
  <2>1. incident[i] \in Unsolved /\ closing'[i][1] # "NO"
    BY <1>7 DEF BeginClose
  <2> QED
    BY <1>0, <1>1, <1>7, <2>1 DEF ClosingInv
<1>5. ASSUME NEW o \in PurchaseOrders PROVE OrderInv(o)'
  <2>0. OrderInv(o)
    BY DEF PurchaseIInv
  <2>1. CASE o # i[1]
    <3>1. \A j \in Incidents :
              j[1] = o => incident'[j] = incident[j] /\ closing'[j] = closing[j]
      BY <1>1, <1>7, <2>1
    <3> QED
      BY <1>0, <1>1, <1>6, <2>0, <3>1, OthersUndisturbed
  <2>2. CASE o = i[1]
    <3>1. LineInv(o)' /\ MarkOf(o)' /\ OpenOf(o)' /\ OverageOf(o)' /\ CountedOf(o)' /\ NoticesOf(o)'
      BY <1>1, <2>0 DEF OrderInv, LineInv, MarkOf, OpenOf, OverageOf, CountedOf, NoticesOf
    <3>2. CASE ~LeavesOneOpen(o, {i})
      <4>1. incident'[i] \in Unsolved /\ ~closing'[i][2] /\ i \in IncidentsOf(o)
        BY <1>1, <1>7, <2>2, <3>2 DEF BeginClose, IncidentsOf
      <4> QED
        BY <3>1, <4>1 DEF OrderInv, IncidentNoticeOf, SettlesLater, IncidentsOf
    <3>3. CASE CountsOnlyClosing(o, {i})
      BY <1>6, <2>2, <3>1, <3>3 DEF OrderInv, IncidentNoticeOf
    <3>4. CASE LeavesOneOpen(o, {i}) /\ ~CountsOnlyClosing(o, {i})
      <4>1. PICK j \in IncidentsOf(o) \ {i} : incident[j] \in Unsolved /\ closing[j][1] = "NO"
        BY <3>4 DEF CountsOnlyClosing
      <4>2. incident'[j] \in Unsolved /\ ~closing'[j][2] /\ j \in IncidentsOf(o)
        BY <1>0, <1>1, <1>7, <4>1 DEF ClosingInv, IncidentsOf
      <4> QED
        BY <3>1, <4>2 DEF OrderInv, IncidentNoticeOf, SettlesLater, IncidentsOf
    <3> QED
      BY <3>2, <3>3, <3>4
  <2> QED
    BY <2>1, <2>2
<1> QED
  BY <1>3, <1>4, <1>5 DEF PurchaseIInv

LEMMA CommitClosePreserves ==
  ASSUME PurchaseIInv, NEW i \in Incidents, CommitClose(i)
  PROVE  PurchaseIInv'
<1>0. PurchaseTypeOK /\ ClosingInv
  BY DEF PurchaseIInv
<1>1. UNCHANGED <<purchase, line, crossed, writeOff, warehouse>>
  BY DEF CommitClose
<1>2. /\ incident' = [incident EXCEPT ![i] = closing[i][1]]
      /\ closing[i][1] \in {"RESOLVED", "CANCELLED"}
      /\ incident[i] \in Unsolved
  BY <1>0 DEF CommitClose, PurchaseTypeOK, ClosingInv
<1>3. /\ closing' = [closing EXCEPT ![i] = <<"NO", FALSE>>]
      /\ closing' \in [Incidents -> {"NO", "RESOLVED", "CANCELLED"} \X BOOLEAN]
  BY <1>0 DEF CommitClose, PurchaseTypeOK
<1>4. /\ notices' \in [PurchaseOrders -> SUBSET NoticeKinds]
      /\ \A o \in PurchaseOrders : notices'[o] \subseteq notices[o]
  BY <1>0 DEF CommitClose, PurchaseTypeOK
<1>5. PurchaseTypeOK'
  BY <1>0, <1>1, <1>2, <1>3, <1>4 DEF PurchaseTypeOK, IncidentStatus
<1>6. ClosingInv'
  BY <1>0, <1>2, <1>3 DEF ClosingInv, PurchaseTypeOK
<1>7. \A o \in PurchaseOrders : OrderInv(o)'
  <2>1. closing[i][1] \in IncidentStatus /\ closing[i][1] \notin Unsolved \cup {"NONE"}
        /\ incident[i] # "RESOLVED"
    BY <1>2 DEF IncidentStatus, Unsolved
  <2>2. \A j \in Incidents : j # i => incident'[j] = incident[j] /\ closing'[j] = closing[j]
    BY <1>0, <1>2, <1>3 DEF PurchaseTypeOK
  <2>3. ASSUME NEW o \in PurchaseOrders, "INCIDENT" \in notices'[o], o \notin crossed'
        PROVE  \E j \in IncidentsOf(o) : incident'[j] \in Unsolved /\ ~closing'[j][2]
    <3>1. PICK j \in IncidentsOf(o) : incident[j] \in Unsolved /\ ~closing[j][2]
      BY <1>1, <1>4, <2>3 DEF PurchaseIInv, OrderInv, IncidentNoticeOf, SettlesLater
    <3>2. j = i => o = i[1] /\ ~closing[i][2]
      BY <3>1 DEF IncidentsOf
    <3>3. ~closing[i][2] => "INCIDENT" \notin notices'[i[1]]
      BY <1>0, IncidentTriples DEF CommitClose, PurchaseTypeOK
    <3>4. j # i /\ j \in Incidents
      BY <2>3, <3>1, <3>2, <3>3 DEF IncidentsOf
    <3> QED
      BY <2>2, <3>1, <3>4
  <2>4. \A o \in PurchaseOrders : IncidentNoticeOf(o)'
    BY <2>3 DEF IncidentNoticeOf, SettlesLater, IncidentsOf
  <2> QED
    BY <1>1, <1>2, <1>4, <2>1, <2>4, OneIncident
<1> QED
  BY <1>5, <1>6, <1>7 DEF PurchaseIInv

LEMMA WriteOffPreserves ==
  ASSUME PurchaseIInv, NEW w \in WriteOffs,
         \/ RequestWriteOff(w) \/ ApproveWriteOff(w)
         \/ \E status \in {"REJECTED", "CANCELLED"} : DropWriteOff(w, status)
  PROVE  PurchaseIInv'
<1>0. PurchaseTypeOK /\ ClosingInv
  BY DEF PurchaseIInv
<1>1. UNCHANGED <<purchase, line, incident, closing, crossed, notices>>
  BY DEF RequestWriteOff, ApproveWriteOff, DropWriteOff
<1>2. writeOff' \in [WriteOffs -> WriteOffStatus]
  BY <1>0 DEF RequestWriteOff, ApproveWriteOff, DropWriteOff, PurchaseTypeOK, WriteOffStatus
<1>3. warehouse' \in [Variants -> Nat]
  <2>1. CASE warehouse' = warehouse
    BY <1>0, <2>1 DEF PurchaseTypeOK
  <2>2. CASE ApproveWriteOff(w)
    <3>1. \A v \in Variants : /\ warehouse[v] \in Nat /\ Wasted[w][v] \in Nat
                              /\ warehouse[v] >= Wasted[w][v]
      BY <1>0, <2>2, PurchaseAssumption DEF ApproveWriteOff, PurchaseTypeOK
    <3> QED
      BY <2>2, <3>1 DEF ApproveWriteOff
  <2> QED
    BY <2>1, <2>2 DEF RequestWriteOff, DropWriteOff
<1>4. PurchaseTypeOK' /\ ClosingInv'
  BY <1>0, <1>1, <1>2, <1>3 DEF PurchaseTypeOK, ClosingInv
<1>5. \A o \in PurchaseOrders : OrderInv(o)'
  BY <1>0, <1>1, OthersUndisturbed DEF PurchaseIInv
<1> QED
  BY <1>4, <1>5 DEF PurchaseIInv

-----------------------------------------------------------------------------
(* Theorems *)

LEMMA StepPreserves == PurchaseIInv /\ [PurchaseNext]_purchaseVars => PurchaseIInv'
<1> SUFFICES ASSUME PurchaseIInv, [PurchaseNext]_purchaseVars PROVE PurchaseIInv'
  OBVIOUS
<1>1. CASE UNCHANGED purchaseVars
  <2>1. PurchaseTypeOK' /\ ClosingInv'
    BY <1>1 DEF purchaseVars, PurchaseIInv, PurchaseTypeOK, ClosingInv
  <2>2. \A o \in PurchaseOrders : OrderInv(o)'
    BY <1>1, OthersUndisturbed DEF purchaseVars, PurchaseIInv
  <2> QED
    BY <2>1, <2>2 DEF PurchaseIInv
<1>2. ASSUME NEW o \in PurchaseOrders, NEW s \in Suppliers,
             NEW asked \in [Variants -> 0 .. MaxAsked], Create(o, s, asked)
      PROVE  PurchaseIInv'
  BY <1>2, CreatePreserves
<1>3. ASSUME NEW o \in PurchaseOrders, NEW counted \in [Variants -> 0 .. MaxCounted],
             Ship(o, counted) \/ \E u \in People : Receive(o, u, counted)
      PROVE  PurchaseIInv'
  BY <1>3, ShipPreserves, ReceivePreserves
<1>4. ASSUME NEW o \in PurchaseOrders, NEW u \in People,
             Send(o, u) \/ AcceptOverage(o, u) \/ RefuseOverage(o, u) \/ CancelOrder(o, u)
      PROVE  PurchaseIInv'
  BY <1>4, SendPreserves, AcceptPreserves, RefusePreserves, CancelPreserves
<1>5. ASSUME NEW o \in PurchaseOrders, NEW k \in NoticeKinds, ReadNotice(o, k)
      PROVE  PurchaseIInv'
  BY <1>5, ReadPreserves
<1>6. ASSUME NEW i \in Incidents,
             \/ Report(i) \/ StartReview(i) \/ CommitClose(i)
             \/ \E status \in {"RESOLVED", "CANCELLED"} : BeginClose(i, status)
      PROVE  PurchaseIInv'
  BY <1>6, ReportPreserves, CommitClosePreserves, BeginClosePreserves
<1>7. ASSUME NEW w \in WriteOffs,
             \/ RequestWriteOff(w) \/ ApproveWriteOff(w)
             \/ \E status \in {"REJECTED", "CANCELLED"} : DropWriteOff(w, status)
      PROVE  PurchaseIInv'
  BY <1>7, WriteOffPreserves
<1> QED
  BY <1>1, <1>2, <1>3, <1>4, <1>5, <1>6, <1>7 DEF PurchaseNext

\* Whatever supplier, administrator, keeper and the incidents' tray do to the orders,
\* the rows of purchase_orders, their lines and their incidents keep the invariant.
THEOREM PurchaseInvariance == PurchaseSpec => []PurchaseIInv
<1>1. PurchaseInit => PurchaseIInv
  BY InitHolds
<1>2. PurchaseIInv /\ [PurchaseNext]_purchaseVars => PurchaseIInv'
  BY StepPreserves
<1> QED
  BY <1>1, <1>2, PTL DEF PurchaseSpec

\* The mark of an order (hasIncidents), what its lines name and the incidents that are
\* open agree, through shipments that are sent back and receptions that count less.
THEOREM LinesAgree == PurchaseSpec => []LinesAndIncidentsAgree
<1>1. PurchaseIInv => LinesAndIncidentsAgree
  BY OrderByOrder DEF PurchaseIInv, LinesAndIncidentsAgree
<1> QED
  BY <1>1, PurchaseInvariance, PTL

\* What the supplier declared over the order is on its way, or received, only when
\* resolveOverage accepted it, although its incident may be closed from the tray at any
\* moment; what only the keeper counted over it has its incident of the reception.
THEOREM OverageAuthorised == PurchaseSpec => []OverageIsAuthorised
<1>1. PurchaseIInv => OverageIsAuthorised
  BY OrderByOrder DEF PurchaseIInv
<1> QED
  BY <1>1, PurchaseInvariance, PTL

\* What the notices of an order ask for (send, ship, receive, decide on an overage)
\* can still be done while somebody has them pending, and that of its incidents is
\* pending while one is open, unless the last ones were closed at once.
THEOREM PurchaseNoticesAlive == PurchaseSpec => []PurchaseNoticesAskForALiveStep
<1>1. PurchaseIInv => PurchaseNoticesAskForALiveStep
  BY OrderByOrder DEF PurchaseIInv
<1> QED
  BY <1>1, PurchaseInvariance, PTL

-----------------------------------------------------------------------------
(* The stock of the warehouse *)

\* Nothing of an order was received until all of it is.
EntersOnce ==
    \A o \in PurchaseOrders : purchase[o].status # "RECEIVED" =>
        \A v \in Variants : line[o][v].received = Null

StockIInv == PurchaseIInv /\ EntersOnce /\ StockIsWhatWasCounted

LEMMA ColumnTypes ==
  ASSUME PurchaseTypeOK, NEW v \in Variants
  PROVE  /\ Entered(v) \in [PurchaseOrders -> Int] /\ Discarded(v) \in [WriteOffs -> Int]
         /\ SumFunction(Entered(v)) = SumFunctionOnSet(Entered(v), PurchaseOrders)
         /\ SumFunction(Discarded(v)) = SumFunctionOnSet(Discarded(v), WriteOffs)
         /\ SumFunction(Entered(v)) \in Int /\ SumFunction(Discarded(v)) \in Int
<1>1. Entered(v) \in [PurchaseOrders -> Int]
  <2>1. ASSUME NEW o \in PurchaseOrders
        PROVE (IF line[o][v].received = Null THEN 0 ELSE line[o][v].received) \in Int
    BY PurchaseAssumption, RowTypes DEF LineRow, Null
  <2> QED
    BY <2>1 DEF Entered
<1>2. Discarded(v) \in [WriteOffs -> Int]
  BY PurchaseAssumption DEF Discarded
<1>3. /\ SumFunction(Entered(v)) = SumFunctionOnSet(Entered(v), PurchaseOrders)
      /\ SumFunction(Discarded(v)) = SumFunctionOnSet(Discarded(v), WriteOffs)
  BY DEF SumFunction, Entered, Discarded
<1>4. /\ SumFunctionOnSet(Entered(v), PurchaseOrders) \in Int
      /\ SumFunctionOnSet(Discarded(v), WriteOffs) \in Int
  BY <1>1, <1>2, PurchaseAssumption, SumType
<1> QED
  BY <1>1, <1>2, <1>3, <1>4

\* A step that counts nothing and approves nothing.
LEMMA NothingMoves ==
  ASSUME StockIInv, PurchaseIInv', warehouse' = warehouse,
         \A o \in PurchaseOrders : /\ purchase'[o].status = "RECEIVED" <=> purchase[o].status = "RECEIVED"
                                   /\ \A v \in Variants : line'[o][v].received = line[o][v].received,
         \A w \in WriteOffs : writeOff'[w] = "APPROVED" <=> writeOff[w] = "APPROVED"
  PROVE  StockIInv'
<1>1. EntersOnce'
  BY DEF StockIInv, EntersOnce
<1>2. \A v \in Variants : Entered(v)' = Entered(v) /\ Discarded(v)' = Discarded(v)
  BY DEF Entered, Discarded
<1>3. StockIsWhatWasCounted'
  BY <1>2 DEF StockIInv, StockIsWhatWasCounted
<1> QED
  BY <1>1, <1>3 DEF StockIInv

\* What is received enters the stock of its references, in an order that had entered
\* nothing.
LEMMA ReceiveEnters ==
  ASSUME StockIInv, PurchaseIInv', NEW o \in PurchaseOrders, NEW u \in People,
         NEW counted \in [Variants -> 0 .. MaxCounted], Receive(o, u, counted)
  PROVE  StockIInv'
<1> USE PurchaseAssumption
<1>0. PurchaseTypeOK /\ PurchaseTypeOK'
  BY DEF StockIInv, PurchaseIInv
<1>1. /\ purchase[o].status = "SHIPPED" /\ UNCHANGED writeOff
      /\ \A v \in Variants : warehouse'[v] =
             warehouse[v] + (IF v \in ShippedItems(o) THEN counted[v] ELSE 0)
      /\ \A p \in PurchaseOrders \ {o} : line'[p] = line[p] /\ purchase'[p] = purchase[p]
      /\ purchase'[o].status = "RECEIVED"
  <2>1. purchase[o] \in PurchaseRow /\ purchase \in [PurchaseOrders -> PurchaseRow]
    BY <1>0 DEF PurchaseTypeOK
  <2>2. purchase'[o].status = "RECEIVED" /\ \A p \in PurchaseOrders \ {o} : purchase'[p] = purchase[p]
    BY <2>1 DEF Receive, PurchaseRow
  <2>3. line \in [PurchaseOrders -> [Variants -> LineRow]]
    BY <1>0 DEF PurchaseTypeOK
  <2>4. \A p \in PurchaseOrders \ {o} : line'[p] = line[p]
    BY <2>3 DEF Receive, EnterStock
  <2> QED
    BY <2>2, <2>4 DEF Receive, EnterStock
<1>2. \A v \in Variants : line[o][v].received = Null
  BY <1>1 DEF StockIInv, EntersOnce
<1>3. ASSUME NEW v \in Variants
      PROVE  line'[o][v].received = IF v \in ShippedItems(o) THEN counted[v] ELSE Null
  <2>0. line[o][v] \in LineRow
    BY <1>0, RowTypes
  <2> DEFINE wrong == {w \in ShippedItems(o) : counted[w] # line[o][w].shipped}
  <2>1. line'[o][v] = IF v \notin ShippedItems(o) THEN line[o][v]
                      ELSE [line[o][v] EXCEPT !.received = counted[v],
                                              !.receptionIncident = v \in wrong]
    BY <1>0 DEF Receive, EnterStock, PurchaseTypeOK
  <2> HIDE DEF wrong
  <2> QED
    BY <1>2, <2>0, <2>1 DEF LineRow
<1>4. EntersOnce'
  BY <1>1 DEF StockIInv, EntersOnce
<1>5. ASSUME NEW v \in Variants
      PROVE  warehouse'[v] = SumFunction(Entered(v)') - SumFunction(Discarded(v)')
  <2>1. Discarded(v)' = Discarded(v)
    BY <1>1 DEF Discarded
  <2> DEFINE n == IF v \in ShippedItems(o) THEN counted[v] ELSE 0
  <2>2. n \in Nat /\ counted[v] # Null
    BY DEF Null
  <2>3. /\ Entered(v)[o] = 0 /\ Entered(v)'[o] = n
        /\ \A p \in PurchaseOrders \ {o} : Entered(v)'[p] = Entered(v)[p]
    BY <1>1, <1>2, <1>3, <2>2 DEF Entered
  <2>4. Entered(v) \in [PurchaseOrders -> Int] /\ Entered(v)' \in [PurchaseOrders -> Int]
    <3>1. Entered(v) \in [PurchaseOrders -> Int]
      BY <1>0, ColumnTypes
    <3>2. \A p \in PurchaseOrders : Entered(v)'[p] \in Int
      BY <2>2, <2>3, <3>1
    <3>3. Entered(v)' = [p \in PurchaseOrders |-> Entered(v)'[p]]
      BY DEF Entered
    <3> HIDE DEF n
    <3> QED
      BY <3>1, <3>2, <3>3
  <2> HIDE DEF n
  <2>5. SumFunctionOnSet(Entered(v)', PurchaseOrders)
          = SumFunctionOnSet(Entered(v), PurchaseOrders) - Entered(v)[o] + Entered(v)'[o]
    BY <2>3, <2>4, SumChange
  <2>6. /\ SumFunction(Entered(v)') = SumFunctionOnSet(Entered(v)', PurchaseOrders)
        /\ SumFunction(Entered(v)) = SumFunctionOnSet(Entered(v), PurchaseOrders)
        /\ SumFunction(Entered(v)) \in Int /\ SumFunction(Discarded(v)) \in Int
    BY <1>0, <2>4, ColumnTypes DEF SumFunction
  <2>7. warehouse[v] = SumFunction(Entered(v)) - SumFunction(Discarded(v))
    BY DEF StockIInv, StockIsWhatWasCounted
  <2>8. warehouse'[v] = warehouse[v] + n
    BY <1>1 DEF n
  <2> QED
    BY <2>1, <2>2, <2>3, <2>5, <2>6, <2>7, <2>8
<1> QED
  BY <1>4, <1>5 DEF StockIInv, StockIsWhatWasCounted

\* A write-off that was pending takes its lines away.
LEMMA ApproveTakes ==
  ASSUME StockIInv, PurchaseIInv', NEW w \in WriteOffs, ApproveWriteOff(w)
  PROVE  StockIInv'
<1> USE PurchaseAssumption
<1>0. PurchaseTypeOK /\ PurchaseTypeOK'
  BY DEF StockIInv, PurchaseIInv
<1>1. /\ UNCHANGED <<purchase, line>> /\ writeOff[w] = "PENDING" /\ writeOff'[w] = "APPROVED"
      /\ \A x \in WriteOffs \ {w} : writeOff'[x] = writeOff[x]
      /\ \A v \in Variants : warehouse'[v] = warehouse[v] - Wasted[w][v]
  BY <1>0 DEF ApproveWriteOff, PurchaseTypeOK
<1>2. EntersOnce'
  BY <1>1 DEF StockIInv, EntersOnce
<1>3. ASSUME NEW v \in Variants
      PROVE  warehouse'[v] = SumFunction(Entered(v)') - SumFunction(Discarded(v)')
  <2>1. Entered(v)' = Entered(v)
    BY <1>1 DEF Entered
  <2>2. /\ Discarded(v)[w] = 0 /\ Discarded(v)'[w] = Wasted[w][v] /\ Wasted[w][v] \in Nat
        /\ \A x \in WriteOffs \ {w} : Discarded(v)'[x] = Discarded(v)[x]
    BY <1>1 DEF Discarded
  <2>3. Discarded(v) \in [WriteOffs -> Int] /\ Discarded(v)' \in [WriteOffs -> Int]
    BY <1>0, ColumnTypes DEF Discarded
  <2>4. SumFunctionOnSet(Discarded(v)', WriteOffs)
          = SumFunctionOnSet(Discarded(v), WriteOffs) - Discarded(v)[w] + Discarded(v)'[w]
    BY <2>2, <2>3, SumChange
  <2>5. /\ SumFunction(Discarded(v)') = SumFunctionOnSet(Discarded(v)', WriteOffs)
        /\ SumFunction(Discarded(v)) = SumFunctionOnSet(Discarded(v), WriteOffs)
        /\ SumFunction(Entered(v)) \in Int /\ SumFunction(Discarded(v)) \in Int
    BY <1>0, <2>3, ColumnTypes DEF SumFunction
  <2>6. warehouse[v] = SumFunction(Entered(v)) - SumFunction(Discarded(v))
    BY DEF StockIInv, StockIsWhatWasCounted
  <2>7. warehouse'[v] = warehouse[v] - Wasted[w][v]
    BY <1>1
  <2> QED
    BY <2>1, <2>2, <2>4, <2>5, <2>6, <2>7
<1> QED
  BY <1>2, <1>3 DEF StockIInv, StockIsWhatWasCounted

\* A step of an order that receives nothing of it.
Untouched(o) ==
    /\ purchase'[o].status # "RECEIVED"
    /\ \A p \in PurchaseOrders \ {o} : purchase'[p] = purchase[p] /\ line'[p] = line[p]
    /\ \A v \in Variants : line'[o][v].received = line[o][v].received

\* No other step of an order touches what was received of it, nor receives it.
LEMMA OtherSteps ==
  ASSUME StockIInv, PurchaseIInv', NEW o \in PurchaseOrders,
         \/ \E s \in Suppliers, asked \in [Variants -> 0 .. MaxAsked] : Create(o, s, asked)
         \/ \E counted \in [Variants -> 0 .. MaxCounted] : Ship(o, counted)
         \/ \E u \in People :
                Send(o, u) \/ AcceptOverage(o, u) \/ RefuseOverage(o, u) \/ CancelOrder(o, u)
  PROVE  StockIInv'
<1>0. PurchaseTypeOK
  BY DEF StockIInv, PurchaseIInv
<1>1. /\ UNCHANGED <<writeOff, warehouse>>
      /\ purchase[o].status # "RECEIVED"
  BY DEF Create, Ship, Send, AcceptOverage, RefuseOverage, BackToSupplier, CancelOrder
<1>2. /\ purchase[o] \in PurchaseRow /\ \A v \in Variants : line[o][v] \in LineRow
      /\ purchase \in [PurchaseOrders -> PurchaseRow]
      /\ line \in [PurchaseOrders -> [Variants -> LineRow]]
  BY <1>0, RowTypes DEF PurchaseTypeOK
<1>3. Untouched(o)
  <2>1. ASSUME NEW s \in Suppliers, NEW asked \in [Variants -> 0 .. MaxAsked], Create(o, s, asked)
        PROVE  Untouched(o)
    BY <1>2, <2>1 DEF Create, Untouched, PurchaseRow, LineRow
  <2>2. ASSUME NEW counted \in [Variants -> 0 .. MaxCounted], Ship(o, counted)
        PROVE  Untouched(o)
    BY <1>2, <2>2 DEF Ship, RegisterShipment, Untouched, PurchaseRow, LineRow
  <2>3. ASSUME NEW u \in People, Send(o, u) \/ AcceptOverage(o, u) \/ CancelOrder(o, u)
        PROVE  Untouched(o)
    BY <1>2, <2>3 DEF Send, AcceptOverage, CancelOrder, Untouched, PurchaseRow
  <2>4. ASSUME NEW u \in People, RefuseOverage(o, u)
        PROVE  Untouched(o)
    BY <1>2, <2>4 DEF RefuseOverage, BackToSupplier, Untouched, PurchaseRow, LineRow
  <2> QED
    BY <2>1, <2>2, <2>3, <2>4
<1> QED
  BY <1>1, <1>3, NothingMoves DEF Untouched

LEMMA StockPreserves == StockIInv /\ [PurchaseNext]_purchaseVars => StockIInv'
<1> SUFFICES ASSUME StockIInv, [PurchaseNext]_purchaseVars PROVE StockIInv'
  OBVIOUS
<1>0. PurchaseIInv'
  BY StepPreserves DEF StockIInv
<1>1. ASSUME UNCHANGED <<purchase, line, warehouse>>,
             \A w \in WriteOffs : writeOff'[w] = "APPROVED" <=> writeOff[w] = "APPROVED"
      PROVE  StockIInv'
  BY <1>0, <1>1, NothingMoves
<1>2. CASE UNCHANGED purchaseVars
  BY <1>1, <1>2 DEF purchaseVars
<1>3. ASSUME NEW o \in PurchaseOrders, NEW k \in NoticeKinds, ReadNotice(o, k) PROVE StockIInv'
  BY <1>1, <1>3 DEF ReadNotice
<1>4. ASSUME NEW i \in Incidents,
             \/ Report(i) \/ StartReview(i) \/ CommitClose(i)
             \/ \E status \in {"RESOLVED", "CANCELLED"} : BeginClose(i, status)
      PROVE  StockIInv'
  BY <1>1, <1>4 DEF Report, StartReview, CommitClose, BeginClose
<1>5. ASSUME NEW w \in WriteOffs,
             \/ RequestWriteOff(w)
             \/ \E status \in {"REJECTED", "CANCELLED"} : DropWriteOff(w, status)
      PROVE  StockIInv'
  <2>1. writeOff \in [WriteOffs -> WriteOffStatus]
    BY DEF StockIInv, PurchaseIInv, PurchaseTypeOK
  <2> QED
    BY <1>1, <1>5, <2>1 DEF RequestWriteOff, DropWriteOff
<1> QED
  BY <1>0, <1>2, <1>3, <1>4, <1>5, ReceiveEnters, ApproveTakes, OtherSteps DEF PurchaseNext

LEMMA StockStart == PurchaseInit => StockIInv
<1> SUFFICES ASSUME PurchaseInit PROVE StockIInv
  OBVIOUS
<1>1. PurchaseIInv
  BY InitHolds
<1>2. EntersOnce
  BY DEF PurchaseInit, EntersOnce
<1>3. ASSUME NEW v \in Variants
      PROVE  warehouse[v] = SumFunction(Entered(v)) - SumFunction(Discarded(v))
  <2>1. /\ \A o \in PurchaseOrders : Entered(v)[o] = 0
        /\ \A w \in WriteOffs : Discarded(v)[w] = 0
    BY DEF PurchaseInit, Entered, Discarded
  <2>2. /\ SumFunctionOnSet(Entered(v), PurchaseOrders) = 0
        /\ SumFunctionOnSet(Discarded(v), WriteOffs) = 0
    BY <2>1, PurchaseAssumption, SumZero
  <2> QED
    BY <1>1, <2>2, ColumnTypes DEF PurchaseIInv, PurchaseInit
<1> QED
  BY <1>1, <1>2, <1>3 DEF StockIInv, StockIsWhatWasCounted

\* The warehouse has what the keepers counted when each order came in, once, less
\* what was approved to be written off (PurchaseOrderReceivingService, WriteOffService).
THEOREM StockAsCounted == PurchaseSpec => []StockIsWhatWasCounted
<1>1. StockIInv => StockIsWhatWasCounted
  BY DEF StockIInv
<1> QED
  BY <1>1, StockStart, StockPreserves, PTL DEF PurchaseSpec
-----------------------------------------------------------------------------
(* Discounts: one active request at most, and the sale is as it left it *)

RequestInv(r) ==
    LET s == request[r].on IN
    /\ request[r].status = "PENDING" => sale[s].status = "DRAFT"
    /\ request[r].status = "APPROVED" =>
           /\ sale[s].status \in {"DRAFT", "COMPLETED"}
           /\ sale[s].general = request[r].whole
           /\ \A l \in Places : item[s][l].discount = request[r].lines[l]
    /\ request[r].status \in Active =>
           /\ request[r].of \subseteq LinesOf(s)
           /\ \A l \in Places \ request[r].of : request[r].lines[l] = 0

Undiscounted(s) == sale[s].general = 0 /\ \A l \in Places : item[s][l].discount = 0

CapOf(s) ==
    /\ sale[s].general <= MaxDiscountFor(SaleValue(s))
    /\ \A l \in Places : item[s][l].discount <= MaxDiscountFor(Gross(s, l))

SaleOK(s) ==
    /\ \A r \in Requests : request[r].on = s => RequestInv(r)
    /\ \A r1, r2 \in ActiveRequests(s) : r1 = r2
    /\ sale[s].status \in {"NONE", "DRAFT", "COMPLETED"}
       /\ (\A r \in ActiveRequests(s) : request[r].status # "APPROVED") => Undiscounted(s)
    /\ CapOf(s)
    /\ \A r \in asking : request[r].on = s => request[r].status = "PENDING"

DiscountIInv == DiscountTypeOK /\ \A s \in Sales : SaleOK(s)

\* Products and rounded percentages, with nothing but their order.
LEMMA Products == \A a, b \in Nat : a * b \in Nat
OBVIOUS

LEMMA Ordered == \A a, b, c \in Nat : a <= b => a * c <= b * c
<1> SUFFICES ASSUME NEW a \in Nat, NEW b \in Nat, NEW c \in Nat, a <= b PROVE a * c <= b * c
  OBVIOUS
<1>1. (b - a) \in Nat /\ b = a + (b - a)
  OBVIOUS
<1>2. (b - a) * c \in Nat
  BY <1>1, Products
<1>3. b * c = a * c + (b - a) * c
  OBVIOUS
<1> QED
  BY <1>2, <1>3

LEMMA Cap ==
  \A v, w \in Nat : /\ MaxDiscountFor(v) \in Nat
                    /\ v <= w => MaxDiscountFor(v) <= MaxDiscountFor(w)
<1> SUFFICES ASSUME NEW v \in Nat, NEW w \in Nat
             PROVE  /\ MaxDiscountFor(v) \in Nat
                    /\ v <= w => MaxDiscountFor(v) <= MaxDiscountFor(w)
  OBVIOUS
<1>1. MaxPercent \in Nat
  BY DiscountAssumption
<1> DEFINE p == v * MaxPercent
           q == w * MaxPercent
<1>2. p \in Nat /\ q \in Nat /\ (v <= w => p <= q)
  BY <1>1, Products, Ordered
<1>3. MaxDiscountFor(v) = (2 * p + 100) \div 200 /\ MaxDiscountFor(w) = (2 * q + 100) \div 200
  BY DEF MaxDiscountFor, RoundMoney
<1> HIDE DEF p, q
<1>4. (2 * p + 100) \div 200 \in Nat /\ (p <= q => (2 * p + 100) \div 200 <= (2 * q + 100) \div 200)
  BY <1>2
<1> QED
  BY <1>2, <1>3, <1>4

LEMMA SaleRows ==
  ASSUME DiscountTypeOK
  PROVE  /\ \A s \in Sales : /\ sale[s].general \in Nat
                             /\ \A l \in Places : /\ item[s][l].quantity \in 0 .. MaxUnits
                                                  /\ item[s][l].discount \in Nat
                                                  /\ Gross(s, l) \in Nat
                                                  /\ LineTotal(s, l) \in Int
         /\ \A r \in Requests : /\ request[r].on \in Sales /\ request[r].whole \in Nat
                                /\ request[r].status \in RequestStatus
                                /\ request[r].of \subseteq Places
                                /\ request[r].lines \in [Places -> Nat]
<1>1. \A s \in Sales : sale[s] \in SaleRow /\ item[s] \in [Places -> ItemRow]
  BY DEF DiscountTypeOK
<1>2. ASSUME NEW s \in Sales, NEW l \in Places
      PROVE  /\ item[s][l].quantity \in 0 .. MaxUnits /\ item[s][l].discount \in Nat
             /\ Gross(s, l) \in Nat /\ LineTotal(s, l) \in Int
  <2>1. item[s][l] \in ItemRow
    BY <1>1
  <2>2. item[s][l].quantity \in Nat /\ item[s][l].discount \in Nat /\ UnitPrice \in Nat
    BY <2>1, DiscountAssumption DEF ItemRow
  <2>3. item[s][l].quantity * UnitPrice \in Nat
    BY <2>2, Products
  <2> QED
    BY <2>1, <2>2, <2>3 DEF ItemRow, Gross, LineTotal
<1>3. \A r \in Requests : request[r] \in RequestRow
  BY DEF DiscountTypeOK
<1> QED
  BY <1>1, <1>2, <1>3 DEF SaleRow, RequestRow

LEMMA PlacesFinite == IsFiniteSet(Places) /\ \A s \in Sales : LinesOf(s) \subseteq Places
                                                  /\ IsFiniteSet(LinesOf(s))
<1>1. IsFiniteSet(Places)
  BY FS_Interval, DiscountAssumption DEF Places
<1> QED
  BY <1>1, FS_Subset DEF LinesOf

LEMMA ValueType == ASSUME DiscountTypeOK, NEW s \in Sales PROVE SaleValue(s) \in Nat
<1> DEFINE g == [l \in Places |-> Gross(s, l)]
<1>1. \A l \in LinesOf(s) : g[l] \in Nat
  BY SaleRows, PlacesFinite
<1> HIDE DEF g
<1>2. SumFunctionOnSet(g, LinesOf(s)) \in Nat
  BY <1>1, PlacesFinite, SumNat
<1> QED
  BY <1>2 DEF g, SaleValue, Plus

LEMMA ValueTypeNext == ASSUME DiscountTypeOK', NEW s \in Sales PROVE SaleValue(s)' \in Nat
<1> DEFINE g == [l \in Places |-> Gross(s, l)']
           lines == LinesOf(s)'
<1>1. \A l \in Places : Gross(s, l)' \in Nat
  <2> SUFFICES ASSUME NEW l \in Places PROVE Gross(s, l)' \in Nat
    OBVIOUS
  <2>1. item'[s] \in [Places -> ItemRow]
    BY DEF DiscountTypeOK
  <2>2. item'[s][l].quantity \in Nat /\ UnitPrice \in Nat
    BY <2>1, DiscountAssumption DEF ItemRow
  <2>3. item'[s][l].quantity * UnitPrice \in Nat
    BY <2>2, Products
  <2> QED
    BY <2>3 DEF Gross
<1>2. lines \subseteq Places /\ IsFiniteSet(lines)
  BY PlacesFinite, FS_Subset DEF LinesOf
<1>3. \A l \in lines : g[l] \in Nat
  BY <1>1, <1>2
<1> HIDE DEF g, lines
<1>4. SumFunctionOnSet(g, lines) \in Nat
  BY <1>2, <1>3, SumNat
<1> QED
  BY <1>4 DEF g, lines, SaleValue, Plus

LEMMA SameQuantities ==
  ASSUME DiscountTypeOK, DiscountTypeOK', NEW s \in Sales,
         \A l \in Places : item'[s][l].quantity = item[s][l].quantity
  PROVE  /\ LinesOf(s)' = LinesOf(s) /\ SaleValue(s)' = SaleValue(s)
         /\ \A l \in Places : Gross(s, l)' = Gross(s, l)
<1>1. \A l \in Places : Gross(s, l)' = Gross(s, l)
  BY DEF Gross
<1>2. LinesOf(s)' = LinesOf(s)
  BY DEF LinesOf
<1>3. [l \in Places |-> Gross(s, l)]' = [l \in Places |-> Gross(s, l)]
  BY <1>1
<1> QED
  BY <1>1, <1>2, <1>3 DEF SaleValue, Plus

\* What a step leaves alone of a sale.
LEMMA OtherSale ==
  ASSUME DiscountTypeOK, DiscountTypeOK', NEW s \in Sales, SaleOK(s),
         sale'[s] = sale[s], item'[s] = item[s],
         \A r \in Requests : request'[r].on = s => request'[r] = request[r],
         \A r \in ActiveRequests(s) : request'[r] = request[r],
         \A r \in asking' : request'[r].on = s => r \in asking
  PROVE  SaleOK(s)'
<1>1. LinesOf(s)' = LinesOf(s) /\ SaleValue(s)' = SaleValue(s)
      /\ \A l \in Places : Gross(s, l)' = Gross(s, l)
  BY SameQuantities
<1>2. \A r \in Requests : request'[r].on = s => RequestInv(r)'
  BY <1>1 DEF SaleOK, RequestInv
<1>3. ActiveRequests(s)' \subseteq ActiveRequests(s)
      /\ \A r \in ActiveRequests(s)' : request'[r] = request[r]
  BY DEF ActiveRequests
<1>4. CapOf(s)'
  BY <1>1 DEF SaleOK, CapOf
<1>5. \A r1, r2 \in ActiveRequests(s)' : r1 = r2
  BY <1>3 DEF SaleOK
<1>6. sale'[s].status \in {"NONE", "DRAFT", "COMPLETED"}
      /\ (\A r \in ActiveRequests(s)' : request'[r].status # "APPROVED") => Undiscounted(s)'
  <2> SUFFICES ASSUME sale'[s].status \in {"NONE", "DRAFT", "COMPLETED"},
                      \A r \in ActiveRequests(s)' : request'[r].status # "APPROVED",
                      ~Undiscounted(s)'
               PROVE  FALSE
    OBVIOUS
  <2>1. ~Undiscounted(s)
    BY DEF Undiscounted
  <2>2. PICK r \in ActiveRequests(s) : request[r].status = "APPROVED"
    BY <2>1 DEF SaleOK
  <2> QED
    BY <2>2 DEF ActiveRequests
<1>7. \A r \in asking' : request'[r].on = s => request'[r].status = "PENDING"
  BY DEF SaleOK, DiscountTypeOK
<1> QED
  BY <1>2, <1>4, <1>5, <1>6, <1>7 DEF SaleOK

LEMMA PlainSale ==
  ASSUME DiscountTypeOK', NEW s \in Sales, Undiscounted(s)',
         \A r \in Requests : request'[r].on = s => request'[r].status \notin Active,
         \A r \in asking' : request'[r].on # s
  PROVE  SaleOK(s)'
<1>1. ActiveRequests(s)' = {}
  BY DEF ActiveRequests
<1>2. \A r \in Requests : request'[r].on = s => RequestInv(r)'
  BY DEF RequestInv, Active
<1>3. CapOf(s)'
  <2>1. \A n \in Nat : 0 <= MaxDiscountFor(n)
    BY Cap
  <2>2. SaleValue(s)' \in Nat
    BY ValueTypeNext
  <2>3. \A l \in Places : Gross(s, l)' \in Nat
    <3> SUFFICES ASSUME NEW l \in Places PROVE item'[s][l].quantity * UnitPrice \in Nat
      BY DEF Gross
    <3>1. item'[s] \in [Places -> ItemRow]
      BY DEF DiscountTypeOK
    <3>2. item'[s][l].quantity \in Nat /\ UnitPrice \in Nat
      BY <3>1, DiscountAssumption DEF ItemRow
    <3> QED
      BY <3>2, Products
  <2> QED
    BY <2>1, <2>2, <2>3 DEF CapOf, Undiscounted
<1> QED
  BY <1>1, <1>2, <1>3 DEF SaleOK

\* Requests that end leave the rows of the others as they were.
LEMMA Ended ==
  ASSUME DiscountTypeOK, NEW R \in SUBSET Requests, NEW status \in RequestStatus,
         request' = Closed(R, status)
  PROVE  /\ request' \in [Requests -> RequestRow]
         /\ \A r \in Requests : request'[r].on = request[r].on
         /\ \A r \in R : request'[r].status = status
         /\ \A r \in Requests \ R : request'[r] = request[r]
<1>1. \A r \in R :
          /\ request'[r] = [request[r] EXCEPT !.status = status, !.whole = 0,
                                              !.lines = NoAmounts, !.of = {}]
          /\ request[r] \in RequestRow
  BY DEF Closed, DiscountTypeOK
<1>2. \A r \in Requests \ R : request'[r] = request[r]
  BY DEF Closed
<1>3. NoAmounts \in [Places -> Nat]
  BY DEF NoAmounts
<1>4. ASSUME NEW r \in R
      PROVE  /\ request'[r] \in RequestRow /\ request'[r].on = request[r].on
             /\ request'[r].status = status
  <2>1. request[r].on \in Sales
    BY <1>1 DEF RequestRow
  <2>2. request'[r] = [status |-> status, on |-> request[r].on, whole |-> 0,
                       lines |-> NoAmounts, of |-> {}]
    BY <1>1 DEF RequestRow
  <2> QED
    BY <1>3, <2>1, <2>2 DEF RequestRow
<1>5. \A r \in Requests : request'[r] \in RequestRow
  BY <1>2, <1>4 DEF DiscountTypeOK
<1>6. request' = [r \in Requests |-> request'[r]]
  BY DEF Closed
<1> QED
  BY <1>2, <1>4, <1>5, <1>6

-----------------------------------------------------------------------------
(* The draft *)

LEMMA OpenDraftKeeps ==
  ASSUME DiscountIInv, NEW s \in Sales, OpenDraft(s) PROVE DiscountIInv'
<1>0. DiscountTypeOK /\ \A x \in Sales : SaleOK(x)
  BY DEF DiscountIInv
<1>1. /\ sale[s].status = "NONE" /\ UNCHANGED <<item, request, asking>>
      /\ sale'[s] = [sale[s] EXCEPT !.status = "DRAFT"]
      /\ \A x \in Sales \ {s} : sale'[x] = sale[x]
      /\ sale' \in [Sales -> SaleRow]
  <2>1. sale[s] \in SaleRow /\ sale \in [Sales -> SaleRow]
    BY <1>0 DEF DiscountTypeOK
  <2>2. [sale[s] EXCEPT !.status = "DRAFT"] \in SaleRow
    BY <2>1 DEF SaleRow
  <2> QED
    BY <2>1, <2>2 DEF OpenDraft
<1>2. DiscountTypeOK'
  BY <1>0, <1>1 DEF DiscountTypeOK
<1>3. SaleOK(s)'
  <2>1. \A r \in Requests : request[r].on = s => request[r].status \notin Active
    BY <1>0, <1>1 DEF SaleOK, RequestInv, Active
  <2>2. \A r \in asking : request[r].on # s
    BY <1>0, <2>1 DEF SaleOK, Active, DiscountTypeOK
  <2>3. Undiscounted(s)
    BY <1>0, <1>1, <2>1 DEF SaleOK, ActiveRequests
  <2>4. sale'[s].general = sale[s].general
    BY <1>0, <1>1 DEF DiscountTypeOK, SaleRow
  <2>5. Undiscounted(s)'
    BY <1>1, <2>3, <2>4 DEF Undiscounted
  <2> QED
    BY <1>1, <1>2, <2>1, <2>2, <2>5, PlainSale
<1>4. ASSUME NEW x \in Sales \ {s} PROVE SaleOK(x)'
  <2>1. /\ sale'[x] = sale[x] /\ item'[x] = item[x]
        /\ \A r \in Requests : request'[r] = request[r]
        /\ ActiveRequests(x) \subseteq Requests /\ asking' = asking
    BY <1>1 DEF ActiveRequests
  <2> QED
    BY <1>0, <1>2, <2>1, OtherSale
<1> QED
  BY <1>2, <1>3, <1>4 DEF DiscountIInv

\* A line of a draft is written; the rest of the item rows stays.
LEMMA LineWritten ==
  ASSUME DiscountTypeOK, NEW s \in Sales, NEW l \in Places, NEW row \in ItemRow,
         item' = [item EXCEPT ![s][l] = row]
  PROVE  /\ item' \in [Sales -> [Places -> ItemRow]]
         /\ item'[s][l] = row
         /\ \A k \in Places \ {l} : item'[s][k] = item[s][k]
         /\ \A x \in Sales \ {s} : item'[x] = item[x]
<1>1. item \in [Sales -> [Places -> ItemRow]]
  BY DEF DiscountTypeOK
<1> QED
  BY <1>1

\* No request is active: the sale is undiscounted, and so is what it becomes.
LEMMA LinesMove ==
  ASSUME DiscountIInv, NEW s \in Sales, IsDraft(s), ActiveRequests(s) = {},
         NEW l \in Places, NEW q \in 0 .. MaxUnits,
         item' = [item EXCEPT ![s][l] = [quantity |-> q, discount |-> 0]],
         UNCHANGED <<sale, request, asking>>
  PROVE  DiscountIInv'
<1>0. DiscountTypeOK /\ \A x \in Sales : SaleOK(x)
  BY DEF DiscountIInv
<1>1. /\ item' \in [Sales -> [Places -> ItemRow]]
      /\ item'[s][l] = [quantity |-> q, discount |-> 0]
      /\ \A k \in Places \ {l} : item'[s][k] = item[s][k]
      /\ \A x \in Sales \ {s} : item'[x] = item[x]
  <2>1. [quantity |-> q, discount |-> 0] \in ItemRow
    BY DEF ItemRow
  <2> QED
    BY <1>0, <2>1, LineWritten
<1>2. DiscountTypeOK'
  BY <1>0, <1>1 DEF DiscountTypeOK
<1>3. SaleOK(s)'
  <2>1. \A r \in Requests : request[r].on = s => request[r].status \notin Active
    BY DEF ActiveRequests
  <2>2. \A r \in asking : request[r].on # s
    BY <1>0, <2>1 DEF SaleOK, Active, DiscountTypeOK
  <2>3. Undiscounted(s)
    BY <1>0 DEF SaleOK, IsDraft
  <2>4. \A k \in Places : item'[s][k].discount = 0
    BY <1>1, <2>3 DEF Undiscounted
  <2>5. Undiscounted(s)'
    BY <2>3, <2>4 DEF Undiscounted
  <2> QED
    BY <1>2, <2>1, <2>2, <2>5, PlainSale
<1>4. ASSUME NEW x \in Sales \ {s} PROVE SaleOK(x)'
  <2>1. /\ sale'[x] = sale[x] /\ item'[x] = item[x]
        /\ \A r \in Requests : request'[r] = request[r]
        /\ ActiveRequests(x) \subseteq Requests /\ asking' = asking
    BY <1>1 DEF ActiveRequests
  <2> QED
    BY <1>0, <1>2, <2>1, OtherSale
<1> QED
  BY <1>2, <1>3, <1>4 DEF DiscountIInv

LEMMA UpdateKeeps ==
  ASSUME DiscountIInv, NEW s \in Sales, NEW l \in Places, NEW q \in 1 .. MaxUnits,
         UpdateItemQuantity(s, l, q)
  PROVE  DiscountIInv'
<1>1. /\ DiscountTypeOK /\ SaleOK(s) /\ IsDraft(s) /\ ActiveRequests(s) = {}
      /\ item' = [item EXCEPT ![s][l].quantity = q] /\ UNCHANGED <<sale, request, asking>>
  BY DEF DiscountIInv, UpdateItemQuantity
<1>2. item[s][l].discount = 0
  BY <1>1 DEF SaleOK, IsDraft, Undiscounted
<1>3. item[s][l] \in ItemRow /\ item \in [Sales -> [Places -> ItemRow]]
  BY <1>1 DEF DiscountTypeOK
<1>4. [item[s][l] EXCEPT !.quantity = q] = [quantity |-> q, discount |-> 0]
  BY <1>2, <1>3 DEF ItemRow
<1>5. item' = [item EXCEPT ![s][l] = [quantity |-> q, discount |-> 0]]
  BY <1>1, <1>3, <1>4
<1>6. q \in 0 .. MaxUnits
  BY DiscountAssumption
<1> QED
  BY <1>1, <1>5, <1>6, LinesMove

LEMMA RemoveKeeps ==
  ASSUME DiscountIInv, NEW s \in Sales, NEW l \in Places, RemoveItem(s, l) PROVE DiscountIInv'
<1>1. 0 \in 0 .. MaxUnits
  BY DiscountAssumption
<1> QED
  BY <1>1, LinesMove DEF RemoveItem

LEMMA AddKeeps ==
  ASSUME DiscountIInv, NEW s \in Sales, NEW l \in Places, NEW q \in 1 .. MaxUnits,
         AddItem(s, l, q)
  PROVE  DiscountIInv'
<1>0. DiscountTypeOK /\ \A x \in Sales : SaleOK(x)
  BY DEF DiscountIInv
<1>1. /\ IsDraft(s) /\ l \notin LinesOf(s) /\ UNCHANGED <<sale, request, asking>>
      /\ item' = [item EXCEPT ![s][l] = [quantity |-> q, discount |-> 0]]
  BY DEF AddItem, Places
<1>2. /\ item' \in [Sales -> [Places -> ItemRow]]
      /\ item'[s][l] = [quantity |-> q, discount |-> 0]
      /\ \A k \in Places \ {l} : item'[s][k] = item[s][k]
      /\ \A x \in Sales \ {s} : item'[x] = item[x]
  <2>1. [quantity |-> q, discount |-> 0] \in ItemRow
    BY DiscountAssumption DEF ItemRow
  <2> QED
    BY <1>0, <1>1, <2>1, LineWritten
<1>3. DiscountTypeOK'
  BY <1>0, <1>1, <1>2 DEF DiscountTypeOK
<1>4. ASSUME NEW x \in Sales \ {s} PROVE SaleOK(x)'
  <2>1. /\ sale'[x] = sale[x] /\ item'[x] = item[x]
        /\ \A r \in Requests : request'[r] = request[r]
        /\ ActiveRequests(x) \subseteq Requests /\ asking' = asking
    BY <1>1, <1>2 DEF ActiveRequests
  <2> QED
    BY <1>0, <1>3, <2>1, OtherSale
<1>5. SaleOK(s)'
  <2>1. LinesOf(s)' = LinesOf(s) \cup {l}
    BY <1>1, <1>2 DEF LinesOf
  <2>2. item[s][l].discount = 0
    <3>1. CASE \A r \in ActiveRequests(s) : request[r].status # "APPROVED"
      BY <1>0, <1>1, <3>1 DEF SaleOK, IsDraft, Undiscounted
    <3>2. ASSUME NEW r \in ActiveRequests(s), request[r].status = "APPROVED"
          PROVE  item[s][l].discount = 0
      <4>1. request[r].on = s /\ RequestInv(r)
        BY <1>0 DEF SaleOK, ActiveRequests
      <4> QED
        BY <1>1, <3>2, <4>1 DEF RequestInv, Active
    <3> QED
      BY <3>1, <3>2
  <2>3. \A k \in Places : item'[s][k].discount = item[s][k].discount
    BY <1>2, <2>2
  <2>4. \A r \in Requests : request[r].on = s => RequestInv(r)'
    <3> SUFFICES ASSUME NEW r \in Requests, request[r].on = s PROVE RequestInv(r)'
      OBVIOUS
    <3>1. RequestInv(r)
      BY <1>0 DEF SaleOK
    <3> QED
      BY <1>1, <2>1, <2>3, <3>1 DEF RequestInv
  <2>5. CapOf(s)'
    <3>1. SaleValue(s) \in Nat /\ SaleValue(s)' \in Nat /\ SaleValue(s) <= SaleValue(s)'
      <4> DEFINE f == [k \in Places |-> Gross(s, k)]
                 g == [k \in Places |-> Gross(s, k)']
                 L == LinesOf(s)
      <4>1. IsFiniteSet(L) /\ L \subseteq Places
        BY PlacesFinite
      <4>2. \A k \in L : f[k] = g[k] /\ f[k] \in Nat /\ g[k] \in Int
        <5> SUFFICES ASSUME NEW k \in L PROVE f[k] = g[k] /\ f[k] \in Nat
          OBVIOUS
        <5>1. k \in Places /\ k # l /\ Gross(s, k) \in Nat
          BY <1>0, <1>1, <4>1, SaleRows
        <5>2. Gross(s, k)' = Gross(s, k)
          BY <1>2, <5>1 DEF Gross
        <5> QED
          BY <5>1, <5>2
      <4>3. g[l] \in Nat
        <5>1. Gross(s, l)' = q * UnitPrice
          BY <1>2 DEF Gross
        <5>2. q \in Nat /\ UnitPrice \in Nat
          BY DiscountAssumption
        <5>3. q * UnitPrice \in Nat
          BY <5>2, Products
        <5> QED
          BY <5>1, <5>3
      <4>4. l \notin L
        BY <1>1
      <4>5. SaleValue(s) = SumFunctionOnSet(f, L) /\ SaleValue(s)' = SumFunctionOnSet(g, L \cup {l})
        BY <2>1 DEF SaleValue, Plus
      <4> HIDE DEF f, g, L
      <4>6. SumFunctionOnSet(g, L \cup {l}) = SumFunctionOnSet(g, L) + g[l]
        BY <4>1, <4>2, <4>3, <4>4, SumAdded
      <4>7. SumFunctionOnSet(g, L) = SumFunctionOnSet(f, L)
        BY <4>1, <4>2, SumSame
      <4>8. SumFunctionOnSet(f, L) \in Nat
        BY <4>1, <4>2, SumNat
      <4> QED
        BY <4>3, <4>5, <4>6, <4>7, <4>8
    <3>2. sale[s].general <= MaxDiscountFor(SaleValue(s))'
      <4>1. sale[s].general <= MaxDiscountFor(SaleValue(s)) /\ sale[s].general \in Nat
        BY <1>0, SaleRows DEF SaleOK, CapOf
      <4>2. MaxDiscountFor(SaleValue(s))' = MaxDiscountFor(SaleValue(s)')
        OBVIOUS
      <4>3. /\ MaxDiscountFor(SaleValue(s)) <= MaxDiscountFor(SaleValue(s)')
            /\ MaxDiscountFor(SaleValue(s)) \in Nat /\ MaxDiscountFor(SaleValue(s)') \in Nat
        BY <3>1, Cap
      <4> HIDE DEF MaxDiscountFor, SaleValue
      <4> QED
        BY <4>1, <4>2, <4>3
    <3>3. ASSUME NEW k \in Places PROVE item'[s][k].discount <= MaxDiscountFor(Gross(s, k))'
      <4>1. CASE k = l
        <5>1. Gross(s, l)' = q * UnitPrice
          BY <1>2 DEF Gross
        <5>2. q * UnitPrice \in Nat
          BY DiscountAssumption, Products
        <5>3. 0 <= MaxDiscountFor(q * UnitPrice)
          BY <5>2, Cap
        <5>4. MaxDiscountFor(Gross(s, l))' = MaxDiscountFor(q * UnitPrice)
          BY <5>1 DEF MaxDiscountFor
        <5> QED
          BY <1>2, <4>1, <5>3, <5>4
      <4>2. CASE k # l
        <5>1. Gross(s, k)' = Gross(s, k) /\ item'[s][k] = item[s][k]
          BY <1>2, <4>2 DEF Gross
        <5>2. MaxDiscountFor(Gross(s, k))' = MaxDiscountFor(Gross(s, k))
          BY <5>1 DEF MaxDiscountFor
        <5> QED
          BY <1>0, <5>1, <5>2 DEF SaleOK, CapOf
      <4> QED
        BY <4>1, <4>2
    <3> QED
      BY <1>1, <3>2, <3>3 DEF CapOf
  <2>6. Undiscounted(s)' <=> Undiscounted(s)
    BY <1>1, <2>3 DEF Undiscounted
  <2>7. ActiveRequests(s)' = ActiveRequests(s) /\ request' = request /\ asking' = asking
        /\ sale' = sale
    BY <1>1 DEF ActiveRequests
  <2>8. SaleOK(s)
    BY <1>0
  <2> QED
    BY <2>4, <2>5, <2>6, <2>7, <2>8 DEF SaleOK
<1> QED
  BY <1>3, <1>4, <1>5 DEF DiscountIInv

-----------------------------------------------------------------------------
(* The request *)

LEMMA RequestKeeps ==
  ASSUME DiscountIInv, NEW r \in Requests, NEW s \in Sales, NEW of \in SUBSET Places,
         NEW whole \in Amounts, NEW lines \in [Places -> Amounts],
         RequestDiscount(r, s, of, whole, lines)
  PROVE  DiscountIInv'
<1>0. DiscountTypeOK /\ \A x \in Sales : SaleOK(x)
  BY DEF DiscountIInv
<1> DEFINE row == [status |-> "PENDING", on |-> s, whole |-> whole, lines |-> lines, of |-> of]
<1>1. /\ request[r].status = "NONE" /\ IsDraft(s) /\ ActiveRequests(s) = {}
      /\ of \subseteq LinesOf(s) /\ Fits(s, of, whole, lines)
      /\ request' = [request EXCEPT ![r] = row] /\ asking' = asking \cup {r}
      /\ UNCHANGED <<sale, item>>
  BY DEF RequestDiscount, NotifyApprovers
<1>2. row \in RequestRow
  <2>1. whole \in Nat /\ lines \in [Places -> Nat]
    BY DiscountAssumption
  <2> QED
    BY <2>1 DEF RequestRow, RequestStatus
<1>3. /\ request'[r] = row /\ request' \in [Requests -> RequestRow]
      /\ \A x \in Requests \ {r} : request'[x] = request[x]
  <2> HIDE DEF row
  <2> QED
    BY <1>0, <1>1, <1>2 DEF DiscountTypeOK
<1>4. DiscountTypeOK'
  BY <1>0, <1>1, <1>3 DEF DiscountTypeOK
<1>5. ASSUME NEW x \in Sales \ {s} PROVE SaleOK(x)'
  <2>1. \A t \in Requests : request'[t].on = x => request'[t] = request[t]
    BY <1>3
  <2>2. \A t \in ActiveRequests(x) : request'[t] = request[t]
    BY <1>1, <1>3 DEF ActiveRequests, Active
  <2>3. \A t \in asking' : request'[t].on = x => t \in asking
    BY <1>1, <1>3
  <2>4. sale'[x] = sale[x] /\ item'[x] = item[x]
    BY <1>1
  <2> QED
    BY <1>0, <1>4, <2>1, <2>2, <2>3, <2>4, OtherSale
<1>6. SaleOK(s)'
  <2>1. LinesOf(s)' = LinesOf(s) /\ SaleValue(s)' = SaleValue(s)
        /\ \A l \in Places : Gross(s, l)' = Gross(s, l)
    BY <1>0, <1>1, <1>4, SameQuantities
  <2>2. \A l \in Places \ of : lines[l] = 0
    BY <1>1 DEF Fits, LinesFit, NoAmounts
  <2>3. RequestInv(r)'
    BY <1>1, <1>3, <2>1, <2>2 DEF RequestInv, IsDraft, Active
  <2>4. \A t \in Requests \ {r} : request[t].on = s => request[t].status \notin Active
    BY <1>1 DEF ActiveRequests
  <2>5. \A t \in Requests : request'[t].on = s => RequestInv(t)'
    BY <1>1, <1>3, <2>3, <2>4 DEF RequestInv, Active
  <2>6. ActiveRequests(s)' = {r}
    BY <1>3, <2>4 DEF ActiveRequests, Active
  <2>7. Undiscounted(s)'
    BY <1>0, <1>1 DEF SaleOK, IsDraft, Undiscounted
  <2>8. CapOf(s)'
    BY <1>0, <1>1, <2>1 DEF SaleOK, CapOf
  <2>9. \A t \in asking' : request'[t].on = s => request'[t].status = "PENDING"
    BY <1>0, <1>1, <1>3 DEF SaleOK, DiscountTypeOK
  <2> QED
    BY <2>5, <2>6, <2>7, <2>8, <2>9 DEF SaleOK
<1> QED
  BY <1>4, <1>5, <1>6 DEF DiscountIInv

\* What applying amounts does to the rows of the sale.
LEMMA Applied ==
  ASSUME DiscountTypeOK, NEW r \in Requests, NEW whole \in Nat, NEW lines \in [Places -> Nat],
         ApplyAmounts(r, whole, lines)
  PROVE  LET s == request[r].on IN
         /\ s \in Sales /\ sale' \in [Sales -> SaleRow] /\ item' \in [Sales -> [Places -> ItemRow]]
         /\ sale'[s].status = sale[s].status /\ sale'[s].general = whole
         /\ \A l \in Places : /\ item'[s][l].quantity = item[s][l].quantity
                              /\ item'[s][l].discount = IF l \in request[r].of
                                     THEN lines[l] ELSE item[s][l].discount
         /\ \A x \in Sales \ {s} : sale'[x] = sale[x] /\ item'[x] = item[x]
<1> PICK s : s = request[r].on
  OBVIOUS
<1>1. s \in Sales /\ request[r].on = s
  BY SaleRows
<1> DEFINE marked == [l \in Places |->
               IF l \in request[r].of THEN [item[s][l] EXCEPT !.discount = lines[l]]
                                      ELSE item[s][l]]
<1>2. /\ sale' = [sale EXCEPT ![s] = [sale[s] EXCEPT !.general = whole]]
      /\ item' = [item EXCEPT ![s] = marked]
  BY <1>1 DEF ApplyAmounts
<1>3. sale[s] \in SaleRow /\ sale \in [Sales -> SaleRow] /\ item[s] \in [Places -> ItemRow]
      /\ item \in [Sales -> [Places -> ItemRow]]
  BY <1>1 DEF DiscountTypeOK
<1>4. LET row == [sale[s] EXCEPT !.general = whole]
      IN  row \in SaleRow /\ row.status = sale[s].status /\ row.general = whole
  BY <1>3 DEF SaleRow
<1>5. ASSUME NEW l \in Places
      PROVE  /\ marked[l] \in ItemRow /\ marked[l].quantity = item[s][l].quantity
             /\ marked[l].discount = IF l \in request[r].of THEN lines[l] ELSE item[s][l].discount
  <2>1. item[s][l] \in ItemRow /\ lines[l] \in Nat
    BY <1>3
  <2> QED
    BY <2>1 DEF ItemRow
<1>6. marked \in [Places -> ItemRow]
  BY <1>5
<1> HIDE DEF marked
<1>7. sale' \in [Sales -> SaleRow] /\ item' \in [Sales -> [Places -> ItemRow]]
  BY <1>2, <1>3, <1>4, <1>6
<1>8. sale'[s].status = sale[s].status /\ sale'[s].general = whole /\ item'[s] = marked
  BY <1>1, <1>2, <1>3, <1>4
<1>9. \A x \in Sales \ {s} : sale'[x] = sale[x] /\ item'[x] = item[x]
  BY <1>1, <1>2, <1>3
<1> QED
  BY <1>1, <1>5, <1>7, <1>8, <1>9

LEMMA ApproveKeeps ==
  ASSUME DiscountIInv, NEW r \in Requests, NEW whole \in Amounts,
         NEW lines \in [Places -> Amounts], ApproveAmounts(r, whole, lines)
  PROVE  DiscountIInv'
<1>0. DiscountTypeOK /\ \A x \in Sales : SaleOK(x)
  BY DEF DiscountIInv
<1> PICK s : s = request[r].on
  OBVIOUS
<1> PICK of : of = request[r].of
  OBVIOUS
<1> DEFINE row == [request[r] EXCEPT !.status = "APPROVED", !.whole = whole, !.lines = lines]
<1>1. /\ s \in Sales /\ request[r].on = s /\ request[r].of = of /\ request[r] \in RequestRow
      /\ whole \in Nat /\ lines \in [Places -> Nat]
  BY <1>0, SaleRows, DiscountAssumption DEF DiscountTypeOK
<1>2. /\ request[r].status \in Active /\ IsDraft(s) /\ of \subseteq LinesOf(s)
      /\ Fits(s, of, whole, lines) /\ ApplyAmounts(r, whole, lines)
      /\ request' = [request EXCEPT ![r] = row] /\ asking' = asking \ {r}
  BY <1>1 DEF ApproveAmounts, Resolvable, ClearPendingNotices
<1>3. /\ row \in RequestRow /\ row.status = "APPROVED" /\ row.on = s /\ row.of = of
      /\ row.whole = whole /\ row.lines = lines
  BY <1>1 DEF RequestRow, RequestStatus
<1>4. /\ request'[r] = row /\ request' \in [Requests -> RequestRow]
      /\ \A x \in Requests \ {r} : request'[x] = request[x]
  <2> HIDE DEF row
  <2> QED
    BY <1>0, <1>2, <1>3 DEF DiscountTypeOK
<1> HIDE DEF row
<1>5. /\ sale' \in [Sales -> SaleRow] /\ item' \in [Sales -> [Places -> ItemRow]]
      /\ sale'[s].status = sale[s].status /\ sale'[s].general = whole
      /\ \A l \in Places : /\ item'[s][l].quantity = item[s][l].quantity
                           /\ item'[s][l].discount = IF l \in of
                                  THEN lines[l] ELSE item[s][l].discount
      /\ \A x \in Sales \ {s} : sale'[x] = sale[x] /\ item'[x] = item[x]
  BY <1>0, <1>1, <1>2, Applied
<1>6. DiscountTypeOK'
  BY <1>0, <1>2, <1>4, <1>5 DEF DiscountTypeOK
<1>7. \A t \in Requests : request'[t].on = request[t].on
  BY <1>1, <1>3, <1>4
<1>8. ASSUME NEW x \in Sales \ {s} PROVE SaleOK(x)'
  <2>1. \A t \in Requests : request[t].on = x => request'[t] = request[t]
    BY <1>1, <1>4
  <2>2. /\ \A t \in Requests : request'[t].on = x => request'[t] = request[t]
        /\ \A t \in ActiveRequests(x) : request'[t] = request[t]
        /\ \A t \in asking' : request'[t].on = x => t \in asking
    BY <1>2, <1>7, <2>1 DEF ActiveRequests
  <2> QED
    BY <1>0, <1>5, <1>6, <2>2, OtherSale
<1>9. SaleOK(s)'
  <2>1. LinesOf(s)' = LinesOf(s) /\ SaleValue(s)' = SaleValue(s)
        /\ \A l \in Places : Gross(s, l)' = Gross(s, l)
    BY <1>0, <1>1, <1>5, <1>6, SameQuantities
  <2>2. \A l \in Places \ of : lines[l] = 0
    BY <1>2 DEF Fits, LinesFit, NoAmounts
  <2>3. r \in ActiveRequests(s) /\ \A t \in ActiveRequests(s) : t = r
    BY <1>0, <1>1, <1>2 DEF SaleOK, ActiveRequests
  <2>4. ActiveRequests(s)' = {r}
    BY <1>1, <1>3, <1>4, <1>7, <2>3 DEF ActiveRequests, Active
  <2>5. \A l \in Places \ of : item[s][l].discount = 0
    <3>1. CASE request[r].status = "APPROVED"
      <4>1. RequestInv(r)
        BY <1>0, <1>1 DEF SaleOK
      <4> QED
        BY <1>1, <3>1, <4>1 DEF RequestInv, Active
    <3>2. CASE request[r].status # "APPROVED"
      <4>1. Undiscounted(s)
        BY <1>0, <1>1, <1>2, <2>3, <3>2 DEF SaleOK, IsDraft
      <4> QED
        BY <4>1 DEF Undiscounted
    <3> QED
      BY <3>1, <3>2
  <2>6. \A l \in Places : item'[s][l].discount = lines[l]
    BY <1>5, <2>2, <2>5
  <2>7. RequestInv(r)'
    <3>1. request'[r].on = s /\ request'[r].of = of /\ request'[r].lines = lines
          /\ request'[r].whole = whole /\ request'[r].status = "APPROVED"
      BY <1>3, <1>4
    <3> QED
      BY <1>2, <1>5, <2>1, <2>2, <2>6, <3>1 DEF RequestInv, IsDraft
  <2>8. \A t \in Requests : request'[t].on = s => RequestInv(t)'
    <3> SUFFICES ASSUME NEW t \in Requests, t # r, request'[t].on = s PROVE RequestInv(t)'
      BY <2>7
    <3>1. request'[t].status \notin Active
      BY <1>4, <1>7, <2>3 DEF ActiveRequests
    <3> QED
      BY <3>1 DEF RequestInv, Active
  <2>9. CapOf(s)'
    <3>1. CASE of = {}
      <4>1. whole <= MaxDiscountFor(SaleValue(s)) /\ lines = NoAmounts
        BY <1>2, <3>1 DEF Fits, WholeFits
      <4>2. \A l \in Places : 0 <= MaxDiscountFor(Gross(s, l))
        BY <1>0, <1>1, SaleRows, Cap
      <4>3. \A l \in Places : item'[s][l].discount = 0
        BY <2>6, <4>1 DEF NoAmounts
      <4> QED
        BY <1>5, <2>1, <4>1, <4>2, <4>3 DEF CapOf
    <3>2. CASE of # {}
      <4>1. whole = 0 /\ \A l \in of : lines[l] <= MaxDiscountFor(Gross(s, l))
        BY <1>2, <3>2 DEF Fits, LinesFit
      <4>2. 0 <= MaxDiscountFor(SaleValue(s)) /\ \A l \in Places : 0 <= MaxDiscountFor(Gross(s, l))
        BY <1>0, <1>1, SaleRows, ValueType, Cap
      <4>3. \A l \in Places : lines[l] <= MaxDiscountFor(Gross(s, l))
        BY <2>2, <4>1, <4>2
      <4> QED
        BY <1>5, <2>1, <2>6, <4>1, <4>2, <4>3 DEF CapOf
    <3> QED
      BY <3>1, <3>2
  <2>10. \A t \in asking' : request'[t].on = s => request'[t].status = "PENDING"
    BY <1>0, <1>1, <1>2, <1>4, <1>7 DEF SaleOK, DiscountTypeOK
  <2>11. request'[r].status = "APPROVED"
    BY <1>3, <1>4
  <2> QED
    BY <2>4, <2>8, <2>9, <2>10, <2>11 DEF SaleOK
<1> QED
  BY <1>6, <1>8, <1>9 DEF DiscountIInv

\* The sale stays as it is, and some of its requests end.
LEMMA EndingKeeps ==
  ASSUME DiscountIInv, NEW s \in Sales, NEW R \in SUBSET Requests, NEW status \in RequestStatus,
         status \notin Active, request' = Closed(R, status),
         \A r \in R : request[r].on = s /\ request[r].status = "PENDING",
         asking' = asking \ R, UNCHANGED item,
         sale' \in [Sales -> SaleRow], sale'[s].general = sale[s].general,
         sale'[s].status \in {"DRAFT", "COMPLETED", "CANCELLED"}, IsDraft(s),
         \/ sale'[s].status = "DRAFT"
         \/ \A r \in ActiveRequests(s) \ R :
                sale'[s].status = "COMPLETED" /\ request[r].status = "APPROVED",
         \A x \in Sales \ {s} : sale'[x] = sale[x]
  PROVE  DiscountIInv'
<1>0. DiscountTypeOK /\ \A x \in Sales : SaleOK(x)
  BY DEF DiscountIInv
<1>1. /\ request' \in [Requests -> RequestRow]
      /\ \A r \in Requests : request'[r].on = request[r].on
      /\ \A r \in R : request'[r].status = status
      /\ \A r \in Requests \ R : request'[r] = request[r]
  BY <1>0, Ended
<1>2. DiscountTypeOK'
  BY <1>0, <1>1 DEF DiscountTypeOK
<1>3. ASSUME NEW x \in Sales \ {s} PROVE SaleOK(x)'
  <2>1. \A t \in Requests : request[t].on = x => request'[t] = request[t]
    BY <1>1
  <2>2. /\ \A t \in Requests : request'[t].on = x => request'[t] = request[t]
        /\ \A t \in ActiveRequests(x) : request'[t] = request[t]
        /\ \A t \in asking' : request'[t].on = x => t \in asking
    BY <1>1, <2>1 DEF ActiveRequests
  <2> QED
    BY <1>0, <1>2, <2>2, OtherSale
<1>4. SaleOK(s)'
  <2>1. LinesOf(s)' = LinesOf(s) /\ SaleValue(s)' = SaleValue(s)
        /\ \A l \in Places : Gross(s, l)' = Gross(s, l)
    BY <1>0, <1>2, SameQuantities
  <2>2. ActiveRequests(s)' = ActiveRequests(s) \ R
    BY <1>1 DEF ActiveRequests
  <2>3. \A t \in Requests : request'[t].on = s => RequestInv(t)'
    <3> SUFFICES ASSUME NEW t \in Requests, request'[t].on = s PROVE RequestInv(t)'
      OBVIOUS
    <3>1. CASE t \in R
      BY <1>1, <3>1 DEF RequestInv, Active
    <3>2. CASE t \notin R
      <4>1. RequestInv(t) /\ request'[t] = request[t] /\ request[t].on = s
        BY <1>0, <1>1, <3>2 DEF SaleOK
      <4>2. CASE t \in ActiveRequests(s)
        BY <2>1, <3>2, <4>1, <4>2 DEF RequestInv, Active, IsDraft
      <4>3. CASE t \notin ActiveRequests(s)
        BY <4>1, <4>3 DEF RequestInv, ActiveRequests, Active
      <4> QED
        BY <4>2, <4>3
    <3> QED
      BY <3>1, <3>2
  <2>4. CapOf(s)'
    BY <1>0, <2>1 DEF SaleOK, CapOf
  <2>5. (\A t \in ActiveRequests(s)' : request'[t].status # "APPROVED") => Undiscounted(s)'
    <3> SUFFICES ASSUME \A t \in ActiveRequests(s)' : request'[t].status # "APPROVED"
                 PROVE  Undiscounted(s)
      BY DEF Undiscounted
    <3>1. \A t \in ActiveRequests(s) : request[t].status # "APPROVED"
      BY <1>1, <2>2 DEF ActiveRequests
    <3> QED
      BY <1>0, <3>1 DEF SaleOK, IsDraft
  <2>6. \A t \in asking' : request'[t].on = s => request'[t].status = "PENDING"
    BY <1>0, <1>1 DEF SaleOK, DiscountTypeOK
  <2>7. \A r1, r2 \in ActiveRequests(s)' : r1 = r2
    BY <1>0, <2>2 DEF SaleOK
  <2> QED
    BY <2>3, <2>4, <2>5, <2>6, <2>7 DEF SaleOK
<1> QED
  BY <1>2, <1>3, <1>4 DEF DiscountIInv

LEMMA RejectKeeps == ASSUME DiscountIInv, NEW r \in Requests, Reject(r) PROVE DiscountIInv'
<1>0. DiscountTypeOK
  BY DEF DiscountIInv
<1> PICK s : s = request[r].on
  OBVIOUS
<1>1. /\ s \in Sales /\ request[r].on = s /\ request[r].status = "PENDING" /\ IsDraft(s)
      /\ request' = Closed({r}, "REJECTED") /\ asking' = asking \ {r}
      /\ UNCHANGED <<sale, item>>
  BY <1>0, SaleRows DEF Reject, Resolvable, ClearPendingNotices
<1>2. /\ sale' \in [Sales -> SaleRow] /\ sale'[s].general = sale[s].general
      /\ sale'[s].status = "DRAFT" /\ \A x \in Sales \ {s} : sale'[x] = sale[x]
      /\ {r} \in SUBSET Requests /\ "REJECTED" \in RequestStatus /\ "REJECTED" \notin Active
      /\ \A t \in {r} : request[t].on = s /\ request[t].status = "PENDING"
  BY <1>0, <1>1 DEF DiscountTypeOK, IsDraft, RequestStatus, Active
<1> QED
  BY <1>1, <1>2, EndingKeeps

LEMMA StatusWritten ==
  ASSUME DiscountTypeOK, NEW s \in Sales, NEW status \in {"COMPLETED", "CANCELLED"},
         sale' = [sale EXCEPT ![s].status = status]
  PROVE  /\ sale' \in [Sales -> SaleRow] /\ sale'[s].general = sale[s].general
         /\ sale'[s].status = status /\ \A x \in Sales \ {s} : sale'[x] = sale[x]
<1>1. sale[s] \in SaleRow /\ sale \in [Sales -> SaleRow]
  BY DEF DiscountTypeOK
<1>2. LET row == [sale[s] EXCEPT !.status = status]
      IN  row \in SaleRow /\ row.status = status /\ row.general = sale[s].general
  BY <1>1 DEF SaleRow
<1> QED
  BY <1>1, <1>2

LEMMA ChargeKeeps == ASSUME DiscountIInv, NEW s \in Sales, ChargeSale(s) PROVE DiscountIInv'
<1>0. DiscountTypeOK
  BY DEF DiscountIInv
<1> DEFINE pending == {r \in ActiveRequests(s) : request[r].status = "PENDING"}
<1>1. /\ IsDraft(s) /\ sale' = [sale EXCEPT ![s].status = "COMPLETED"] /\ UNCHANGED item
      /\ request' = Closed(pending, "CANCELLED") /\ asking' = asking \ Settled(pending)
  BY DEF ChargeSale
<1>2. Settled(pending) = pending
  BY DEF Settled
<1>3. /\ pending \in SUBSET Requests
      /\ \A r \in pending : request[r].on = s /\ request[r].status = "PENDING"
      /\ \A r \in ActiveRequests(s) \ pending : request[r].status = "APPROVED"
      /\ "CANCELLED" \in RequestStatus /\ "CANCELLED" \notin Active
  BY DEF ActiveRequests, Active, RequestStatus
<1>4. /\ sale' \in [Sales -> SaleRow] /\ sale'[s].general = sale[s].general
      /\ sale'[s].status = "COMPLETED" /\ \A x \in Sales \ {s} : sale'[x] = sale[x]
  BY <1>0, <1>1, StatusWritten
<1> HIDE DEF pending
<1>5. asking' = asking \ pending
  BY <1>1, <1>2
<1> QED
  BY <1>1, <1>3, <1>4, <1>5, EndingKeeps

LEMMA CancelSaleKeeps == ASSUME DiscountIInv, NEW s \in Sales, CancelSale(s) PROVE DiscountIInv'
<1>0. DiscountTypeOK /\ \A x \in Sales : SaleOK(x)
  BY DEF DiscountIInv
<1> DEFINE R == ActiveRequests(s)
<1>1. /\ IsDraft(s) /\ sale' = [sale EXCEPT ![s].status = "CANCELLED"] /\ UNCHANGED item
      /\ request' = Closed(R, "CANCELLED") /\ asking' = asking \ Settled(R)
  BY DEF CancelSale
<1>2. R \in SUBSET Requests /\ "CANCELLED" \in RequestStatus /\ "CANCELLED" \notin Active
  BY DEF ActiveRequests, Active, RequestStatus
<1>3. /\ sale' \in [Sales -> SaleRow] /\ sale'[s].general = sale[s].general
      /\ sale'[s].status = "CANCELLED" /\ \A x \in Sales \ {s} : sale'[x] = sale[x]
  BY <1>0, <1>1, StatusWritten
<1>4. /\ request' \in [Requests -> RequestRow]
      /\ \A r \in Requests : request'[r].on = request[r].on
      /\ \A r \in R : request'[r].status = "CANCELLED"
      /\ \A r \in Requests \ R : request'[r] = request[r]
  <2> HIDE DEF R
  <2> QED
    BY <1>0, <1>1, <1>2, Ended
<1>5. DiscountTypeOK'
  BY <1>0, <1>1, <1>3, <1>4 DEF DiscountTypeOK
<1>6. ASSUME NEW x \in Sales \ {s} PROVE SaleOK(x)'
  <2>1. \A t \in Requests : request[t].on = x => request'[t] = request[t]
    BY <1>4 DEF ActiveRequests
  <2>2. /\ \A t \in Requests : request'[t].on = x => request'[t] = request[t]
        /\ \A t \in ActiveRequests(x) : request'[t] = request[t]
        /\ \A t \in asking' : request'[t].on = x => t \in asking
    BY <1>1, <1>4, <2>1 DEF ActiveRequests
  <2> QED
    BY <1>0, <1>1, <1>3, <1>5, <2>2, OtherSale
<1>7. SaleOK(s)'
  <2>1. \A t \in Requests : request'[t].on = s => request'[t].status \notin Active
    BY <1>4 DEF ActiveRequests, Active
  <2>2. \A t \in asking' : request'[t].on # s
    BY <1>0, <1>1, <1>4 DEF SaleOK, DiscountTypeOK, Settled, ActiveRequests, Active
  <2>3. \A t \in Requests : request'[t].on = s => RequestInv(t)'
    BY <2>1 DEF RequestInv, Active
  <2>4. ActiveRequests(s)' = {}
    BY <2>1 DEF ActiveRequests
  <2>5. SaleValue(s)' = SaleValue(s) /\ \A l \in Places : Gross(s, l)' = Gross(s, l)
    BY <1>0, <1>1, <1>5, SameQuantities
  <2>6. CapOf(s)'
    BY <1>0, <1>1, <1>3, <2>5 DEF SaleOK, CapOf
  <2> QED
    BY <1>3, <2>2, <2>3, <2>4, <2>6 DEF SaleOK
<1> QED
  BY <1>5, <1>6, <1>7 DEF DiscountIInv

LEMMA DiscardKeeps == ASSUME DiscountIInv, NEW s \in Sales, DiscardDraft(s) PROVE DiscountIInv'
<1>0. DiscountTypeOK /\ \A x \in Sales : SaleOK(x)
  BY DEF DiscountIInv
<1> DEFINE R == {r \in Requests : request[r].on = s /\ request[r].status # "NONE"}
           row == [status |-> "DELETED", general |-> 0]
           lines == [l \in Places |-> [quantity |-> 0, discount |-> 0]]
<1>1. /\ IsDraft(s) /\ sale' = [sale EXCEPT ![s] = row] /\ item' = [item EXCEPT ![s] = lines]
      /\ request' = Closed(R, "DELETED") /\ asking' = asking \ Settled(ActiveRequests(s))
  BY DEF DiscardDraft
<1>2. R \in SUBSET Requests /\ "DELETED" \in RequestStatus
  BY DEF RequestStatus
<1>3. row \in SaleRow /\ lines \in [Places -> ItemRow]
  BY DiscountAssumption DEF SaleRow, ItemRow
<1>4. /\ sale' \in [Sales -> SaleRow] /\ sale'[s] = row
      /\ item' \in [Sales -> [Places -> ItemRow]] /\ item'[s] = lines
      /\ \A x \in Sales \ {s} : sale'[x] = sale[x] /\ item'[x] = item[x]
  <2> HIDE DEF row, lines, R
  <2> QED
    BY <1>0, <1>1, <1>3 DEF DiscountTypeOK
<1>5. /\ request' \in [Requests -> RequestRow]
      /\ \A r \in Requests : request'[r].on = request[r].on
      /\ \A r \in R : request'[r].status = "DELETED"
      /\ \A r \in Requests \ R : request'[r] = request[r]
  <2> HIDE DEF R
  <2> QED
    BY <1>0, <1>1, <1>2, Ended
<1>6. DiscountTypeOK'
  BY <1>0, <1>1, <1>4, <1>5 DEF DiscountTypeOK
<1>7. ASSUME NEW x \in Sales \ {s} PROVE SaleOK(x)'
  <2>1. \A t \in Requests : request[t].on = x => request'[t] = request[t]
    BY <1>5
  <2>2. /\ \A t \in Requests : request'[t].on = x => request'[t] = request[t]
        /\ \A t \in ActiveRequests(x) : request'[t] = request[t]
        /\ \A t \in asking' : request'[t].on = x => t \in asking
    BY <1>1, <1>5, <2>1 DEF ActiveRequests
  <2> QED
    BY <1>0, <1>4, <1>6, <2>2, OtherSale
<1>8. SaleOK(s)'
  <2>1. \A t \in Requests : request'[t].on = s => request'[t].status \notin Active
    BY <1>5 DEF Active
  <2>2. \A t \in asking' : request'[t].on # s
    BY <1>0, <1>1, <1>5 DEF SaleOK, DiscountTypeOK, Settled, ActiveRequests, Active
  <2>3. Undiscounted(s)'
    BY <1>4 DEF Undiscounted
  <2> QED
    BY <1>6, <2>1, <2>2, <2>3, PlainSale
<1> QED
  BY <1>6, <1>7, <1>8 DEF DiscountIInv

LEMMA CancelRequestKeeps ==
  ASSUME DiscountIInv, NEW r \in Requests, CancelRequest(r) PROVE DiscountIInv'
<1>0. DiscountTypeOK /\ \A x \in Sales : SaleOK(x)
  BY DEF DiscountIInv
<1> PICK s : s = request[r].on
  OBVIOUS
<1>1. /\ s \in Sales /\ request[r].on = s /\ request[r].status \in Active /\ IsDraft(s)
      /\ request' = Closed({r}, "CANCELLED") /\ asking' = asking \ {r}
      /\ {r} \in SUBSET Requests /\ "CANCELLED" \in RequestStatus /\ "CANCELLED" \notin Active
  BY <1>0, SaleRows
  DEF CancelRequest, Resolvable, ClearPendingNotices, RequestStatus, Active
<1>2. CASE request[r].status = "PENDING"
  <2>1. UNCHANGED <<sale, item>>
    BY <1>2 DEF CancelRequest
  <2>2. /\ sale' \in [Sales -> SaleRow] /\ sale'[s].general = sale[s].general
        /\ sale'[s].status = "DRAFT" /\ \A x \in Sales \ {s} : sale'[x] = sale[x]
        /\ \A t \in {r} : request[t].on = s /\ request[t].status = "PENDING"
    BY <1>0, <1>1, <1>2, <2>1 DEF DiscountTypeOK, IsDraft
  <2> QED
    BY <1>1, <2>1, <2>2, EndingKeeps
<1>3. CASE request[r].status = "APPROVED"
  <2>1. ApplyAmounts(r, 0, NoAmounts) /\ NoAmounts \in [Places -> Nat] /\ 0 \in Nat
    BY <1>3 DEF CancelRequest, RemoveAppliedDiscount, NoAmounts
  <2>2. /\ sale' \in [Sales -> SaleRow] /\ item' \in [Sales -> [Places -> ItemRow]]
        /\ sale'[s].general = 0
        /\ \A l \in Places : item'[s][l].discount = IF l \in request[r].of
                                 THEN NoAmounts[l] ELSE item[s][l].discount
        /\ \A x \in Sales \ {s} : sale'[x] = sale[x] /\ item'[x] = item[x]
    BY <1>0, <1>1, <2>1, Applied
  <2>3. /\ request' \in [Requests -> RequestRow]
        /\ \A t \in Requests : request'[t].on = request[t].on
        /\ request'[r].status = "CANCELLED"
        /\ \A t \in Requests \ {r} : request'[t] = request[t]
    <3>1. /\ request' \in [Requests -> RequestRow]
          /\ \A t \in Requests : request'[t].on = request[t].on
          /\ \A t \in {r} : request'[t].status = "CANCELLED"
          /\ \A t \in Requests \ {r} : request'[t] = request[t]
      BY <1>0, <1>1, Ended
    <3> QED
      BY <3>1
  <2>4. DiscountTypeOK'
    BY <1>0, <1>1, <2>2, <2>3 DEF DiscountTypeOK
  <2>5. ASSUME NEW x \in Sales \ {s} PROVE SaleOK(x)'
    <3>1. \A t \in Requests : request[t].on = x => request'[t] = request[t]
      BY <1>1, <2>3
    <3>2. /\ \A t \in Requests : request'[t].on = x => request'[t] = request[t]
          /\ \A t \in ActiveRequests(x) : request'[t] = request[t]
          /\ \A t \in asking' : request'[t].on = x => t \in asking
      BY <1>1, <2>3, <3>1 DEF ActiveRequests
    <3> QED
      BY <1>0, <2>2, <2>4, <3>2, OtherSale
  <2>6. SaleOK(s)'
    <3>0. r \in ActiveRequests(s) /\ \A t \in ActiveRequests(s) : t = r
      BY <1>0, <1>1 DEF SaleOK, ActiveRequests
    <3>1. \A t \in Requests : request'[t].on = s => request'[t].status \notin Active
      BY <1>1, <2>3, <3>0 DEF ActiveRequests
    <3>2. \A t \in asking' : request'[t].on # s
      <4>1. \A t \in asking : request[t].on = s => t \in ActiveRequests(s)
        BY <1>0, <1>1 DEF SaleOK, ActiveRequests, Active, DiscountTypeOK
      <4> QED
        BY <1>0, <1>1, <2>3, <3>0, <4>1 DEF DiscountTypeOK
    <3>3. \A l \in Places \ request[r].of : item[s][l].discount = 0
      <4>1. RequestInv(r)
        BY <1>0, <1>1 DEF SaleOK
      <4> QED
        BY <1>1, <1>3, <4>1 DEF RequestInv
    <3>4. Undiscounted(s)'
      BY <2>2, <3>3 DEF Undiscounted, NoAmounts
    <3> QED
      BY <1>1, <2>4, <3>1, <3>2, <3>4, PlainSale
  <2> QED
    BY <2>4, <2>5, <2>6 DEF DiscountIInv
<1> QED
  BY <1>1, <1>2, <1>3 DEF Active

LEMMA ReadKeeps ==
  ASSUME DiscountIInv, UNCHANGED <<sale, item, request>>, asking' \subseteq asking
  PROVE  DiscountIInv'
<1>0. DiscountTypeOK /\ \A x \in Sales : SaleOK(x)
  BY DEF DiscountIInv
<1>1. DiscountTypeOK'
  BY <1>0 DEF DiscountTypeOK
<1>2. ASSUME NEW x \in Sales PROVE SaleOK(x)'
  <2>1. /\ \A t \in Requests : request'[t].on = x => request'[t] = request[t]
        /\ \A t \in ActiveRequests(x) : request'[t] = request[t]
        /\ \A t \in asking' : request'[t].on = x => t \in asking
    OBVIOUS
  <2> QED
    BY <1>0, <1>1, <2>1, OtherSale
<1> QED
  BY <1>1, <1>2 DEF DiscountIInv

LEMMA DiscountStart == DiscountInit => DiscountIInv
<1> SUFFICES ASSUME DiscountInit PROVE DiscountIInv
  OBVIOUS
<1>1. PICK on \in Sales : request = [r \in Requests |->
          [status |-> "NONE", on |-> on, whole |-> 0, lines |-> NoAmounts, of |-> {}]]
  BY DEF DiscountInit
<1>2. /\ \A s \in Sales : sale[s] = [status |-> "NONE", general |-> 0]
      /\ \A s \in Sales, l \in Places : item[s][l] = [quantity |-> 0, discount |-> 0]
      /\ \A r \in Requests : request[r].status = "NONE"
      /\ asking = {}
  BY <1>1 DEF DiscountInit
<1>3. DiscountTypeOK
  <2>1. sale \in [Sales -> SaleRow]
    BY DEF DiscountInit, SaleRow
  <2>2. [quantity |-> 0, discount |-> 0] \in ItemRow
    BY DiscountAssumption DEF ItemRow
  <2>3. item \in [Sales -> [Places -> ItemRow]]
    BY <2>2 DEF DiscountInit
  <2>4. [status |-> "NONE", on |-> on, whole |-> 0, lines |-> NoAmounts, of |-> {}] \in RequestRow
    <3>1. NoAmounts \in [Places -> Nat]
      BY DEF NoAmounts
    <3> QED
      BY <3>1 DEF RequestRow, RequestStatus
  <2>5. request \in [Requests -> RequestRow]
    BY <1>1, <2>4
  <2> QED
    BY <1>2, <2>1, <2>3, <2>5 DEF DiscountTypeOK
<1>4. ASSUME NEW s \in Sales PROVE SaleOK(s)
  <2>1. ActiveRequests(s) = {}
    BY <1>2 DEF ActiveRequests, Active
  <2>2. \A r \in Requests : RequestInv(r)
    BY <1>2 DEF RequestInv, Active
  <2>3. Undiscounted(s)
    BY <1>2 DEF Undiscounted
  <2>4. CapOf(s)
    BY <1>3, <2>3, SaleRows, ValueType, Cap DEF CapOf, Undiscounted
  <2> QED
    BY <1>2, <2>1, <2>2, <2>3, <2>4 DEF SaleOK
<1> QED
  BY <1>3, <1>4 DEF DiscountIInv

LEMMA DiscountKeeps == DiscountIInv /\ [DiscountNext]_discountVars => DiscountIInv'
<1> SUFFICES ASSUME DiscountIInv, [DiscountNext]_discountVars PROVE DiscountIInv'
  OBVIOUS
<1>1. CASE UNCHANGED discountVars
  BY <1>1, ReadKeeps DEF discountVars
<1>2. ASSUME NEW s \in Sales, OpenDraft(s) \/ ChargeSale(s) \/ CancelSale(s) \/ DiscardDraft(s)
      PROVE  DiscountIInv'
  BY <1>2, OpenDraftKeeps, ChargeKeeps, CancelSaleKeeps, DiscardKeeps
<1>3. ASSUME NEW s \in Sales, NEW l \in Places, RemoveItem(s, l) PROVE DiscountIInv'
  BY <1>3, RemoveKeeps
<1>4. ASSUME NEW s \in Sales, NEW l \in Places, NEW q \in 1 .. MaxUnits,
             AddItem(s, l, q) \/ UpdateItemQuantity(s, l, q)
      PROVE  DiscountIInv'
  BY <1>4, AddKeeps, UpdateKeeps
<1>5. ASSUME NEW r \in Requests, Reject(r) \/ CancelRequest(r) PROVE DiscountIInv'
  BY <1>5, RejectKeeps, CancelRequestKeeps
<1>6. ASSUME NEW r \in Requests, ReadRequestNotice(r) PROVE DiscountIInv'
  BY <1>6, ReadKeeps DEF ReadRequestNotice
<1>7. ASSUME NEW r \in Requests, NEW whole \in Amounts, NEW lines \in [Places -> Amounts],
             ApproveAmounts(r, whole, lines)
      PROVE  DiscountIInv'
  BY <1>7, ApproveKeeps
<1>8. ASSUME NEW r \in Requests, NEW whole \in Amounts, NEW lines \in [Places -> Amounts],
             NEW s \in Sales, NEW of \in SUBSET Places, RequestDiscount(r, s, of, whole, lines)
      PROVE  DiscountIInv'
  BY <1>8, RequestKeeps
<1> QED
  BY <1>1, <1>2, <1>3, <1>4, <1>5, <1>6, <1>7, <1>8 DEF DiscountNext

\* A request of a sale that is not a draft is not written any more.
LEMMA GuardSilent ==
  ASSUME DiscountIInv, [DiscountNext]_discountVars, NEW r \in Requests
  PROVE  DiscountRequestsGuard(r)
<1>0. DiscountTypeOK
  BY DEF DiscountIInv
<1> SUFFICES ASSUME request[r].status # "NONE", ~IsDraft(request[r].on)
             PROVE  request'[r] = request[r]
  BY DEF DiscountRequestsGuard
<1>1. ASSUME NEW s \in Sales, IsDraft(s), NEW R \in SUBSET Requests, NEW status,
             \A t \in R : request[t].on = s, request' = Closed(R, status)
      PROVE  request'[r] = request[r]
  <2>1. r \notin R
    BY <1>1
  <2> QED
    BY <1>1, <2>1 DEF Closed
<1>2. ASSUME NEW s \in Sales, OpenDraft(s) \/ ChargeSale(s) \/ CancelSale(s) \/ DiscardDraft(s)
      PROVE  request'[r] = request[r]
  <2>1. CASE OpenDraft(s)
    BY <2>1 DEF OpenDraft
  <2>2. CASE ChargeSale(s)
    BY <1>1, <2>2 DEF ChargeSale, ActiveRequests
  <2>3. CASE CancelSale(s)
    BY <1>1, <2>3 DEF CancelSale, ActiveRequests
  <2>4. CASE DiscardDraft(s)
    BY <1>1, <2>4 DEF DiscardDraft
  <2> QED
    BY <1>2, <2>1, <2>2, <2>3, <2>4
<1>3. ASSUME NEW s \in Sales, NEW l \in Places,
             RemoveItem(s, l) \/ \E q \in 1 .. MaxUnits : AddItem(s, l, q) \/ UpdateItemQuantity(s, l, q)
      PROVE  request'[r] = request[r]
  BY <1>3 DEF RemoveItem, AddItem, UpdateItemQuantity
<1>4. ASSUME NEW t \in Requests, Reject(t) \/ CancelRequest(t) PROVE request'[r] = request[r]
  <2>1. /\ IsDraft(request[t].on) /\ {t} \in SUBSET Requests /\ request[t].on \in Sales
        /\ request' = Closed({t}, "REJECTED") \/ request' = Closed({t}, "CANCELLED")
    BY <1>0, <1>4, SaleRows DEF Reject, CancelRequest, Resolvable
  <2> QED
    BY <1>1, <2>1
<1>5. ASSUME NEW t \in Requests, ReadRequestNotice(t) PROVE request'[r] = request[r]
  BY <1>5 DEF ReadRequestNotice
<1>6. ASSUME NEW t \in Requests, NEW whole \in Amounts, NEW lines \in [Places -> Amounts],
             \/ ApproveAmounts(t, whole, lines)
             \/ \E s \in Sales, of \in SUBSET Places : RequestDiscount(t, s, of, whole, lines)
      PROVE  request'[r] = request[r]
  <2>1. t # r
    BY <1>6 DEF ApproveAmounts, Resolvable, RequestDiscount
  <2>2. \E row : request' = [request EXCEPT ![t] = row]
    BY <1>6 DEF ApproveAmounts, RequestDiscount
  <2> QED
    BY <1>0, <2>1, <2>2 DEF DiscountTypeOK
<1>7. CASE UNCHANGED discountVars
  BY <1>7 DEF discountVars
<1> QED
  BY <1>2, <1>3, <1>4, <1>5, <1>6, <1>7 DEF DiscountNext

\* What the invariant says of amounts that are added up.
LEMMA ApprovedAddUp ==
  ASSUME DiscountIInv
  PROVE  DiscountIsTheApproved /\ CapHolds /\ RequestNoticeIsAlive
<1>0. DiscountTypeOK /\ \A x \in Sales : SaleOK(x)
  BY DEF DiscountIInv
<1>1. ASSUME NEW s \in Sales, sale[s].status \in {"DRAFT", "COMPLETED"}
      PROVE  LET approved == {r \in ActiveRequests(s) : request[r].status = "APPROVED"}
             IN  /\ sale[s].general = Plus([r \in Requests |-> request[r].whole], approved)
                 /\ \A l \in Places : item[s][l].discount =
                        Plus([r \in Requests |-> request[r].lines[l]], approved)
  <2> DEFINE approved == {r \in ActiveRequests(s) : request[r].status = "APPROVED"}
             whole == [r \in Requests |-> request[r].whole]
             part(l) == [r \in Requests |-> request[r].lines[l]]
  <2>1. CASE approved = {}
    <3>1. Undiscounted(s)
      BY <1>0, <1>1, <2>1 DEF SaleOK
    <3>2. Plus(whole, approved) = 0 /\ \A l \in Places : Plus(part(l), approved) = 0
      BY <2>1, SumEmpty DEF Plus
    <3> QED
      BY <3>1, <3>2 DEF Undiscounted
  <2>2. CASE approved # {}
    <3>1. PICK r : r \in approved
      BY <2>2
    <3>2. r \in Requests /\ request[r].on = s /\ request[r].status = "APPROVED" /\ approved = {r}
      BY <1>0, <3>1 DEF SaleOK, ActiveRequests
    <3>3. sale[s].general = request[r].whole
          /\ \A l \in Places : item[s][l].discount = request[r].lines[l]
      BY <1>0, <3>2 DEF SaleOK, RequestInv
    <3>4. whole[r] = request[r].whole /\ whole[r] \in Int
      BY <1>0, <3>2, SaleRows
    <3>5. ASSUME NEW l \in Places PROVE part(l)[r] = request[r].lines[l] /\ part(l)[r] \in Int
      BY <1>0, <3>2, SaleRows
    <3> HIDE DEF whole, part
    <3>6. Plus(whole, {r}) = whole[r] /\ \A l \in Places : Plus(part(l), {r}) = part(l)[r]
      BY <3>4, <3>5, SumOne DEF Plus
    <3>7. /\ sale[s].general = Plus(whole, approved)
          /\ \A l \in Places : item[s][l].discount = Plus(part(l), approved)
      BY <3>2, <3>3, <3>4, <3>5, <3>6
    <3> QED
      BY <3>7 DEF whole, part
  <2> QED
    BY <2>1, <2>2
<1>2. CapHolds
  BY <1>0 DEF SaleOK, CapOf, CapHolds
<1>3. RequestNoticeIsAlive
  <2> SUFFICES ASSUME NEW r \in asking
               PROVE  request[r].status = "PENDING" /\ sale[request[r].on].status = "DRAFT"
    BY DEF RequestNoticeIsAlive
  <2>1. r \in Requests /\ request[r].on \in Sales
    BY <1>0, SaleRows DEF DiscountTypeOK
  <2>2. request[r].status = "PENDING" /\ RequestInv(r)
    BY <1>0, <2>1 DEF SaleOK
  <2> QED
    BY <2>2 DEF RequestInv
<1> QED
  BY <1>1, <1>2, <1>3 DEF DiscountIsTheApproved

-----------------------------------------------------------------------------
(* What a line is paid: the shares of the general discount add up to it *)

LEMMA Rounded == ASSUME NEW n \in Int, NEW d \in Nat \ {0} PROVE RoundMoney(n, d) \in Int
BY DEF RoundMoney

LEMMA LastOf ==
  ASSUME NEW S \in SUBSET Int, IsFiniteSet(S), S # {}
  PROVE  Max(S) \in S
<1> DEFINE f == [x \in S |-> x]
<1>1. \E x \in S : \A y \in S : f[y] <= f[x]
  <2>1. \A x \in S : f[x] \in Int
    OBVIOUS
  <2> HIDE DEF f
  <2> QED
    BY <2>1, Largest
<1>2. \E x \in S : \A y \in S : x >= y
  BY <1>1
<1> QED
  BY <1>2 DEF Max

Part(s, k) == RoundMoney(LineTotal(s, k) * sale[s].general, Net(s))

\* A sale that was charged is worth something.
Worth(s) == sale[s].status = "COMPLETED" => Total(s) > 0

LEMMA NetType == ASSUME DiscountTypeOK, NEW s \in Sales PROVE Net(s) \in Int
<1> DEFINE g == [l \in Places |-> LineTotal(s, l)]
<1>1. \A l \in LinesOf(s) : g[l] \in Int
  BY SaleRows, PlacesFinite
<1> HIDE DEF g
<1>2. SumFunctionOnSet(g, LinesOf(s)) \in Int
  BY <1>1, PlacesFinite, SumType
<1> QED
  BY <1>2 DEF g, Net, Plus

LEMMA Shares ==
  ASSUME DiscountTypeOK, NEW s \in Sales, Worth(s), sale[s].status = "COMPLETED"
  PROVE  /\ \A l \in Places : Share(s, l) \in Int /\ Paid(s, l) \in Int
         /\ Plus([l \in Places |-> Paid(s, l)], LinesOf(s)) = Total(s)
<1> DEFINE L == LinesOf(s)
           m == Max(L)
           G == sale[s].general
           N == Net(s)
           part == [k \in Places |-> Part(s, k)]
           share == [k \in Places |-> Share(s, k)]
           paid == [k \in Places |-> Paid(s, k)]
           due == [k \in Places |-> LineTotal(s, k)]
<1>1. /\ G \in Nat /\ N \in Int /\ N - G > 0
      /\ \A l \in Places : due[l] \in Int /\ due[l] = LineTotal(s, l)
  BY NetType, SaleRows DEF Worth, Total
<1>2. L \subseteq Places /\ IsFiniteSet(L) /\ L \subseteq Int
  BY PlacesFinite DEF Places
<1>3. \A l \in Places : part[l] \in Int
  <2> SUFFICES ASSUME NEW l \in Places PROVE Part(s, l) \in Int
    OBVIOUS
  <2>1. LineTotal(s, l) * G \in Int /\ N \in Nat \ {0}
    BY <1>1
  <2> HIDE DEF G, N
  <2>2. RoundMoney(LineTotal(s, l) * G, N) \in Int
    BY <2>1, Rounded
  <2> QED
    BY <2>2 DEF Part, G, N
<1>4. ASSUME G = 0 PROVE \A l \in Places : share[l] = 0
  BY <1>4 DEF Share
<1>5. ASSUME G # 0, NEW l \in Places
      PROVE  share[l] = IF l = m THEN G - Plus(part, L \ {l}) ELSE part[l]
  <2>1. N # 0
    BY <1>1
  <2> QED
    BY <1>5, <2>1, Zenon DEF Share, Part
<1>6. \A l \in Places : Plus(part, L \ {l}) \in Int
  <2> SUFFICES ASSUME NEW l \in Places PROVE Plus(part, L \ {l}) \in Int
    OBVIOUS
  <2>1. IsFiniteSet(L \ {l}) /\ \A x \in L \ {l} : part[x] \in Int
    BY <1>2, <1>3, FS_Subset
  <2> HIDE DEF part, L
  <2> QED
    BY <2>1, SumType DEF Plus
<1>7. \A l \in Places : share[l] \in Int
  <2> SUFFICES ASSUME NEW l \in Places PROVE share[l] \in Int
    OBVIOUS
  <2>1. G \in Int /\ part[l] \in Int /\ Plus(part, L \ {l}) \in Int
    BY <1>1, <1>3, <1>6
  <2>2. CASE G = 0
    BY <1>4, <2>2
  <2>3. CASE G # 0
    <3>1. share[l] = IF l = m THEN G - Plus(part, L \ {l}) ELSE part[l]
      BY <1>5, <2>3
    <3> HIDE DEF share, part, L, m, G
    <3> QED
      BY <2>1, <3>1
  <2> QED
    BY <2>2, <2>3
<1>8. \A l \in Places : paid[l] \in Int /\ due[l] = paid[l] + share[l]
  <2> SUFFICES ASSUME NEW l \in Places PROVE paid[l] \in Int /\ due[l] = paid[l] + share[l]
    OBVIOUS
  <2>1. paid[l] = due[l] - share[l]
    BY DEF Paid
  <2> HIDE DEF paid, due, share
  <2> QED
    BY <1>1, <1>7, <2>1
<1>9. N = Plus(paid, L) + Plus(share, L)
  <2>1. N = Plus(due, L)
    BY DEF Net
  <2>2. \A l \in L : paid[l] \in Int /\ share[l] \in Int /\ due[l] = paid[l] + share[l]
    <3> HIDE DEF paid, due, share, L
    <3> QED
      BY <1>2, <1>7, <1>8
  <2> HIDE DEF N, paid, due, share, L, m, G, part
  <2>3. SumFunctionOnSet(due, L) = SumFunctionOnSet(paid, L) + SumFunctionOnSet(share, L)
    <3>1. IsFiniteSet(L)
      BY <1>2
    <3> QED
      BY <2>2, <3>1, SumLinear
  <2> QED
    BY <2>1, <2>3 DEF Plus
<1>10. Plus(share, L) = G
  <2>1. CASE G = 0
    <3>1. \A l \in L : share[l] = 0
      BY <1>2, <1>4, <2>1
    <3> HIDE DEF share, L, G
    <3> QED
      BY <1>2, <2>1, <3>1, SumZero DEF Plus
  <2>2. CASE G # 0
    <3>1. L # {}
      <4>1. N # 0
        BY <1>1
      <4> QED
        BY <4>1, SumEmpty DEF Net, Plus
    <3>2. m \in L /\ m \in Places
      <4> HIDE DEF L
      <4> QED
        BY <1>2, <3>1, LastOf
    <3>3. share[m] = G - Plus(part, L \ {m}) /\ \A l \in L \ {m} : share[l] = part[l]
      <4> HIDE DEF share, part, L, m, G
      <4> QED
        BY <1>2, <1>5, <2>2, <3>2
    <3> HIDE DEF share, part, L, m, G
    <3>a. \A l \in L : share[l] \in Int
      BY <1>2, <1>7
    <3>b. SumFunctionOnSet(share, L) = share[m] + SumFunctionOnSet(share, L \ {m})
      <4> HIDE DEF N, due, paid
      <4> QED
        <5>1. IsFiniteSet(L) /\ m \in L
          BY <1>2, <3>2
        <5> QED
          BY <3>a, <5>1, SumRemove
    <3>4. Plus(share, L) = share[m] + Plus(share, L \ {m})
      BY <3>b DEF Plus
    <3>5. IsFiniteSet(L \ {m})
      BY <1>2, FS_Subset
    <3>6. Plus(share, L \ {m}) = Plus(part, L \ {m})
      BY <3>3, <3>5, SumSame DEF Plus
    <3> QED
      BY <1>1, <1>6, <3>2, <3>3, <3>4, <3>6
  <2> QED
    BY <2>1, <2>2
<1>11. Plus(paid, L) \in Int
  <2> HIDE DEF paid, L
  <2> QED
    BY <1>2, <1>8, SumType DEF Plus
<1>12. Plus(paid, L) = N - G
  <2> HIDE DEF paid, share, L, N, G
  <2> QED
    BY <1>1, <1>9, <1>10, <1>11
<1>13. Total(s) = N - G
  BY DEF Total
<1> QED
  BY <1>7, <1>8, <1>12, <1>13

-----------------------------------------------------------------------------
(* Returns: what they list of each line *)

Back(s) == {r \in ReturnsOf(s) : return[r].status = "COMPLETED" \/ return[r].replacement # 0}

ReturnInv(r) ==
    /\ return[r].status \in Reserving => Charged(return[r].of)
    /\ \A l \in Places : return[r].quantity[l] = 0 => return[r].amount[l] = 0
    /\ return[r].replacement # 0 => return[r].status \in {"APPROVED", "COMPLETED"}
    /\ return[r].resolution = "PARTIAL_REFUND" => return[r].replacement # 0
    /\ return[r].resolution = "REFUND" => return[r].replacement = 0
    /\ r \in waiting => return[r].status = "PENDING"

\* A line is returned at most once; all of it, for all that was paid; and what
\* came back into the store is what the returns that are settled list.
LineSettled(s, l) ==
    LET R == ReturnsOf(s) IN
    /\ ReturnedUnits(s, l, R) <= item[s][l].quantity
    /\ Charged(s) /\ l \in LinesOf(s) /\ ReturnedUnits(s, l, R) = item[s][l].quantity
       => ReturnedCents(s, l, R) = Paid(s, l)
    /\ brought[s][l] = IF l \in Generic THEN 0 ELSE ReturnedUnits(s, l, Back(s))

ReturnIInv ==
    /\ DiscountIInv /\ SaleReturnTypeOK
    /\ \A s \in Sales : Worth(s)
    /\ \A r \in Returns : ReturnInv(r)
    /\ \A s \in Sales, l \in Places : LineSettled(s, l)

LEMMA ReturnRows ==
  ASSUME SaleReturnTypeOK, NEW r \in Returns
  PROVE  /\ return[r] \in ReturnRow
         /\ return[r].of \in Sales
         /\ \A l \in Places : /\ return[r].quantity[l] \in 0 .. MaxUnits
                              /\ return[r].quantity[l] \in Nat
                              /\ return[r].amount[l] \in Int
<1>1. return[r] \in ReturnRow
  BY DEF SaleReturnTypeOK
<1>2. 0 .. MaxUnits \subseteq Nat
  BY DiscountAssumption
<1> QED
  BY <1>1, <1>2 DEF ReturnRow

\* Sums over any of the returns.
LEMMA Listed ==
  ASSUME SaleReturnTypeOK, NEW R \in SUBSET Returns, NEW s, NEW l \in Places
  PROVE  /\ IsFiniteSet(R)
         /\ ReturnedUnits(s, l, R) \in Nat /\ ReturnedCents(s, l, R) \in Int
         /\ \A r \in R : return[r].quantity[l] <= ReturnedUnits(s, l, R)
         /\ \A r \in R : /\ ReturnedUnits(s, l, R)
                              = return[r].quantity[l] + ReturnedUnits(s, l, R \ {r})
                         /\ ReturnedCents(s, l, R)
                              = return[r].amount[l] + ReturnedCents(s, l, R \ {r})
<1> DEFINE q == [r \in Returns |-> return[r].quantity[l]]
           a == [r \in Returns |-> return[r].amount[l]]
<1>1. IsFiniteSet(R)
  BY SaleReturnAssumption, FS_Subset
<1>2. \A r \in R : q[r] = return[r].quantity[l] /\ a[r] = return[r].amount[l]
  OBVIOUS
<1>3. \A r \in R : q[r] \in Nat /\ q[r] \in Int /\ a[r] \in Int
  BY ReturnRows
<1>4. \A T : /\ ReturnedUnits(s, l, T) = SumFunctionOnSet(q, T)
             /\ ReturnedCents(s, l, T) = SumFunctionOnSet(a, T)
  BY DEF ReturnedUnits, ReturnedCents, Plus
<1> HIDE DEF q, a
<1>5. SumFunctionOnSet(q, R) \in Nat /\ SumFunctionOnSet(a, R) \in Int
  BY <1>1, <1>3, SumNat, SumType
<1>6. ASSUME NEW r \in R
      PROVE  /\ SumFunctionOnSet(q, R) = q[r] + SumFunctionOnSet(q, R \ {r})
             /\ SumFunctionOnSet(a, R) = a[r] + SumFunctionOnSet(a, R \ {r})
             /\ q[r] <= SumFunctionOnSet(q, R)
  BY <1>1, <1>3, SumRemove, SumPart
<1> QED
  BY <1>1, <1>2, <1>4, <1>5, <1>6

\* One more return counts, beside those that are left alone.
LEMMA OneMore ==
  ASSUME SaleReturnTypeOK, SaleReturnTypeOK', NEW R \in SUBSET Returns, NEW s, NEW l \in Places,
         NEW r \in Returns, r \notin R, ReturnsOf(s)' = R \cup {r},
         \A x \in R : return'[x] = return[x]
  PROVE  /\ ReturnedUnits(s, l, ReturnsOf(s))'
              = return'[r].quantity[l] + ReturnedUnits(s, l, R)
         /\ ReturnedCents(s, l, ReturnsOf(s))'
              = return'[r].amount[l] + ReturnedCents(s, l, R)
<1> DEFINE q == [t \in Returns |-> return[t].quantity[l]]
           a == [t \in Returns |-> return[t].amount[l]]
           qn == [t \in Returns |-> return'[t].quantity[l]]
           an == [t \in Returns |-> return'[t].amount[l]]
<1>1. IsFiniteSet(R)
  BY SaleReturnAssumption, FS_Subset
<1>2. return'[r] \in ReturnRow /\ \A t \in R : return'[t] \in ReturnRow
  BY DEF SaleReturnTypeOK
<1>3. qn[r] \in Int /\ an[r] \in Int /\ \A t \in R : qn[t] \in Int /\ an[t] \in Int
  BY <1>2, DiscountAssumption DEF ReturnRow
<1>4. \A t \in R : qn[t] = q[t] /\ an[t] = a[t]
  OBVIOUS
<1>5. /\ ReturnedUnits(s, l, ReturnsOf(s))' = SumFunctionOnSet(qn, R \cup {r})
      /\ ReturnedCents(s, l, ReturnsOf(s))' = SumFunctionOnSet(an, R \cup {r})
      /\ ReturnedUnits(s, l, R) = SumFunctionOnSet(q, R)
      /\ ReturnedCents(s, l, R) = SumFunctionOnSet(a, R)
  BY Zenon DEF ReturnedUnits, ReturnedCents, Plus
<1>6. qn[r] = return'[r].quantity[l] /\ an[r] = return'[r].amount[l]
  OBVIOUS
<1> HIDE DEF q, a, qn, an
<1>7. /\ SumFunctionOnSet(qn, R \cup {r}) = SumFunctionOnSet(qn, R) + qn[r]
      /\ SumFunctionOnSet(an, R \cup {r}) = SumFunctionOnSet(an, R) + an[r]
      /\ SumFunctionOnSet(qn, R) \in Int /\ SumFunctionOnSet(an, R) \in Int
  BY <1>1, <1>3, SumAdded, SumType
<1>8. /\ SumFunctionOnSet(qn, R) = SumFunctionOnSet(q, R)
      /\ SumFunctionOnSet(an, R) = SumFunctionOnSet(a, R)
  BY <1>1, <1>4, SumSame
<1> QED
  BY <1>3, <1>5, <1>6, <1>7, <1>8

\* Sums over returns that a step leaves alone.
LEMMA ListedAlike ==
  ASSUME NEW R \in SUBSET Returns, NEW s, NEW l \in Places,
         \A r \in R : return'[r].quantity = return[r].quantity
                      /\ return'[r].amount = return[r].amount
  PROVE  /\ ReturnedUnits(s, l, R)' = ReturnedUnits(s, l, R)
         /\ ReturnedCents(s, l, R)' = ReturnedCents(s, l, R)
<1> DEFINE q == [r \in Returns |-> return[r].quantity[l]]
           a == [r \in Returns |-> return[r].amount[l]]
           qn == [r \in Returns |-> return'[r].quantity[l]]
           an == [r \in Returns |-> return'[r].amount[l]]
<1>1. IsFiniteSet(R)
  BY SaleReturnAssumption, FS_Subset
<1>2. \A r \in R : qn[r] = q[r] /\ an[r] = a[r]
  OBVIOUS
<1>3. /\ ReturnedUnits(s, l, R) = SumFunctionOnSet(q, R)
      /\ ReturnedCents(s, l, R) = SumFunctionOnSet(a, R)
      /\ ReturnedUnits(s, l, R)' = SumFunctionOnSet(qn, R)
      /\ ReturnedCents(s, l, R)' = SumFunctionOnSet(an, R)
  BY DEF ReturnedUnits, ReturnedCents, Plus
<1> HIDE DEF q, a, qn, an
<1> QED
  BY <1>1, <1>2, <1>3, SumSame

-----------------------------------------------------------------------------
(* Steps of the sale: one that was charged never changes *)

LEMMA ChargedStays ==
  ASSUME DiscountIInv, [DiscountNext]_discountVars, NEW s \in Sales, Charged(s)
  PROVE  sale'[s] = sale[s] /\ item'[s] = item[s]
<1>0. /\ DiscountTypeOK /\ sale[s].status = "COMPLETED" /\ ~IsDraft(s)
      /\ sale \in [Sales -> SaleRow] /\ item \in [Sales -> [Places -> ItemRow]]
  BY DEF DiscountIInv, Charged, IsDraft, DiscountTypeOK
<1>1. CASE UNCHANGED discountVars
  BY <1>1 DEF discountVars
<1>2. ASSUME NEW x \in Sales, OpenDraft(x) \/ ChargeSale(x) \/ CancelSale(x) \/ DiscardDraft(x)
      PROVE  sale'[s] = sale[s] /\ item'[s] = item[s]
  <2>1. x # s
    BY <1>0, <1>2 DEF OpenDraft, ChargeSale, CancelSale, DiscardDraft
  <2>2. CASE OpenDraft(x)
    BY <1>0, <2>1, <2>2 DEF OpenDraft
  <2>3. CASE ChargeSale(x)
    BY <1>0, <2>1, <2>3 DEF ChargeSale
  <2>4. CASE CancelSale(x)
    BY <1>0, <2>1, <2>4 DEF CancelSale
  <2>5. CASE DiscardDraft(x)
    BY <1>0, <2>1, <2>5 DEF DiscardDraft
  <2> QED
    BY <1>2, <2>2, <2>3, <2>4, <2>5
<1>3. ASSUME NEW x \in Sales, NEW l \in Places,
             RemoveItem(x, l) \/ \E q \in 1 .. MaxUnits : AddItem(x, l, q) \/ UpdateItemQuantity(x, l, q)
      PROVE  sale'[s] = sale[s] /\ item'[s] = item[s]
  <2>1. x # s /\ UNCHANGED sale
    BY <1>0, <1>3 DEF RemoveItem, AddItem, UpdateItemQuantity
  <2>2. \E row : item' = [item EXCEPT ![x] = row]
    BY <1>3 DEF RemoveItem, AddItem, UpdateItemQuantity
  <2> QED
    BY <1>0, <2>1, <2>2
<1>4. ASSUME NEW t \in Requests, Reject(t) \/ CancelRequest(t) \/ ReadRequestNotice(t)
      PROVE  sale'[s] = sale[s] /\ item'[s] = item[s]
  <2>1. CASE UNCHANGED <<sale, item>>
    BY <2>1
  <2>2. CASE ~UNCHANGED <<sale, item>>
    <3>1. /\ ApplyAmounts(t, 0, NoAmounts) /\ IsDraft(request[t].on)
      BY <1>4, <2>2
      DEF Reject, CancelRequest, ReadRequestNotice, RemoveAppliedDiscount, Resolvable
    <3>2. NoAmounts \in [Places -> Nat]
      BY DEF NoAmounts
    <3> QED
      BY <1>0, <3>1, <3>2, Applied
  <2> QED
    BY <2>1, <2>2
<1>5. ASSUME NEW t \in Requests, NEW whole \in Amounts, NEW lines \in [Places -> Amounts],
             ApproveAmounts(t, whole, lines)
      PROVE  sale'[s] = sale[s] /\ item'[s] = item[s]
  <2>1. /\ ApplyAmounts(t, whole, lines) /\ IsDraft(request[t].on)
        /\ whole \in Nat /\ lines \in [Places -> Nat]
    BY <1>5, DiscountAssumption DEF ApproveAmounts, Resolvable
  <2> QED
    BY <1>0, <2>1, Applied
<1>6. ASSUME NEW t \in Requests, NEW whole \in Amounts, NEW lines \in [Places -> Amounts],
             NEW x \in Sales, NEW of \in SUBSET Places, RequestDiscount(t, x, of, whole, lines)
      PROVE  sale'[s] = sale[s] /\ item'[s] = item[s]
  BY <1>6 DEF RequestDiscount
<1> QED
  BY <1>1, <1>2, <1>3, <1>4, <1>5, <1>6 DEF DiscountNext

LEMMA BecomesCharged ==
  ASSUME DiscountIInv, [DiscountNext]_discountVars, NEW s \in Sales, ~Charged(s), Charged(s)'
  PROVE  ChargeSale(s)
<1>0. /\ DiscountTypeOK /\ sale[s].status # "COMPLETED" /\ sale'[s].status = "COMPLETED"
      /\ sale \in [Sales -> SaleRow] /\ sale[s] \in SaleRow
  BY DEF DiscountIInv, Charged, DiscountTypeOK
<1>1. CASE UNCHANGED discountVars
  BY <1>0, <1>1 DEF discountVars
<1>2. ASSUME NEW x \in Sales, OpenDraft(x) \/ CancelSale(x) \/ DiscardDraft(x) PROVE FALSE
  <2>1. sale[x] \in SaleRow
    BY <1>0
  <2>2. ([sale[x] EXCEPT !.status = "DRAFT"]).status = "DRAFT"
        /\ ([sale[x] EXCEPT !.status = "CANCELLED"]).status = "CANCELLED"
    BY <2>1 DEF SaleRow
  <2>3. \E row : sale' = [sale EXCEPT ![x] = row] /\ row.status # "COMPLETED"
    <3>1. CASE OpenDraft(x)
      <4>1. sale' = [sale EXCEPT ![x] = [sale[x] EXCEPT !.status = "DRAFT"]]
        BY <3>1 DEF OpenDraft
      <4> QED
        BY <2>2, <4>1
    <3>2. CASE CancelSale(x)
      <4>1. sale' = [sale EXCEPT ![x] = [sale[x] EXCEPT !.status = "CANCELLED"]]
        BY <3>2 DEF CancelSale
      <4> QED
        BY <2>2, <4>1
    <3>3. CASE DiscardDraft(x)
      <4>1. PICK row : row = [status |-> "DELETED", general |-> 0]
        OBVIOUS
      <4>2. sale' = [sale EXCEPT ![x] = row] /\ row.status # "COMPLETED"
        BY <3>3, <4>1 DEF DiscardDraft
      <4> QED
        BY <4>2
    <3> QED
      BY <1>2, <3>1, <3>2, <3>3
  <2> QED
    BY <1>0, <2>3
<1>3. ASSUME NEW x \in Sales, x # s, ChargeSale(x) PROVE FALSE
  BY <1>0, <1>3 DEF ChargeSale
<1>4. ASSUME NEW x \in Sales, NEW l \in Places,
             RemoveItem(x, l) \/ \E q \in 1 .. MaxUnits : AddItem(x, l, q) \/ UpdateItemQuantity(x, l, q)
      PROVE  FALSE
  BY <1>0, <1>4 DEF RemoveItem, AddItem, UpdateItemQuantity
<1>5. ASSUME NEW t \in Requests, Reject(t) \/ CancelRequest(t) \/ ReadRequestNotice(t) PROVE FALSE
  <2>1. CASE UNCHANGED sale
    BY <1>0, <2>1
  <2>2. CASE ~UNCHANGED sale
    <3>1. ApplyAmounts(t, 0, NoAmounts) /\ NoAmounts \in [Places -> Nat]
      BY <1>5, <2>2 DEF Reject, CancelRequest, ReadRequestNotice, RemoveAppliedDiscount, NoAmounts
    <3> QED
      BY <1>0, <3>1, Applied
  <2> QED
    BY <2>1, <2>2
<1>6. ASSUME NEW t \in Requests, NEW whole \in Amounts, NEW lines \in [Places -> Amounts],
             ApproveAmounts(t, whole, lines)
      PROVE  FALSE
  <2>1. ApplyAmounts(t, whole, lines) /\ whole \in Nat /\ lines \in [Places -> Nat]
    BY <1>6, DiscountAssumption DEF ApproveAmounts
  <2> QED
    BY <1>0, <2>1, Applied
<1>7. ASSUME NEW t \in Requests, NEW whole \in Amounts, NEW lines \in [Places -> Amounts],
             NEW x \in Sales, NEW of \in SUBSET Places, RequestDiscount(t, x, of, whole, lines)
      PROVE  FALSE
  BY <1>0, <1>7 DEF RequestDiscount
<1> QED
  BY <1>1, <1>2, <1>3, <1>4, <1>5, <1>6, <1>7 DEF DiscountNext

\* The same lines and discounts are worth the same.
LEMMA PaidAlike ==
  ASSUME NEW s \in Sales, sale'[s].general = sale[s].general, item'[s] = item[s]
  PROVE  /\ LinesOf(s)' = LinesOf(s) /\ Total(s)' = Total(s)
         /\ \A l \in Places : Paid(s, l)' = Paid(s, l)
<1>1. \A l \in Places : LineTotal(s, l)' = LineTotal(s, l)
  BY DEF LineTotal, Gross
<1>2. LinesOf(s)' = LinesOf(s)
  BY DEF LinesOf
<1>3. Net(s)' = Net(s)
  <2>1. [l \in Places |-> LineTotal(s, l)]' = [l \in Places |-> LineTotal(s, l)]
    BY <1>1
  <2> QED
    BY <1>2, <2>1 DEF Net, Plus
<1>4. Total(s)' = Total(s)
  BY <1>3 DEF Total
<1>5. ASSUME NEW l \in Places PROVE Paid(s, l)' = Paid(s, l)
  <2> DEFINE P(k) == RoundMoney(LineTotal(s, k) * sale[s].general, Net(s))
             part == [k \in Places |-> P(k)]
  <2>1. \A k \in Places : P(k)' = P(k)
    BY <1>1, <1>3 DEF RoundMoney
  <2>2. part' = part
    BY <2>1
  <2>3. Share(s, l) = IF sale[s].general = 0 \/ Net(s) = 0 THEN 0
                      ELSE IF l = Max(LinesOf(s))
                           THEN sale[s].general - Plus(part, LinesOf(s) \ {l})
                           ELSE P(l)
    BY Zenon DEF Share
  <2>4. Share(s, l)' = IF sale'[s].general = 0 \/ Net(s)' = 0 THEN 0
                      ELSE IF l = Max(LinesOf(s)')
                           THEN sale'[s].general - Plus(part', LinesOf(s)' \ {l})
                           ELSE P(l)'
    BY Zenon DEF Share, Plus, Max
  <2>5. Share(s, l)' = Share(s, l)
    <3>1. P(l)' = P(l)
      BY <2>1
    <3> HIDE DEF part, P
    <3> QED
      BY <1>2, <1>3, <2>2, <2>3, <2>4, <3>1
  <2> QED
    BY <1>1, <2>5 DEF Paid
<1> QED
  BY <1>2, <1>4, <1>5

LEMMA DraftHasNone ==
  ASSUME ReturnIInv, NEW s \in Sales, ~Charged(s) PROVE ReturnsOf(s) = {}
BY DEF ReturnIInv, ReturnInv, ReturnsOf

LEMMA SaleSteps ==
  ASSUME ReturnIInv, [DiscountNext]_discountVars, UNCHANGED returnVars
  PROVE  ReturnIInv'
<1>0. /\ DiscountIInv /\ DiscountTypeOK /\ SaleReturnTypeOK
      /\ return' = return /\ brought' = brought /\ waiting' = waiting
  BY DEF ReturnIInv, DiscountIInv, returnVars
<1>1. DiscountIInv' /\ DiscountTypeOK'
  BY <1>0, DiscountKeeps DEF DiscountIInv
<1>2. SaleReturnTypeOK'
  BY <1>0 DEF SaleReturnTypeOK
<1>3. ASSUME NEW s \in Sales PROVE Worth(s)'
  <2>1. CASE Charged(s)
    <3>1. sale'[s] = sale[s] /\ item'[s] = item[s]
      BY <1>0, <2>1, ChargedStays
    <3> QED
      BY <3>1, PaidAlike DEF ReturnIInv, Worth
  <2>2. CASE ~Charged(s) /\ Charged(s)'
    <3>1. ChargeSale(s)
      BY <1>0, <2>2, BecomesCharged
    <3>2. item' = item /\ sale'[s].general = sale[s].general /\ Total(s) > 0
      BY <1>0, <3>1, StatusWritten DEF ChargeSale
    <3> QED
      BY <3>2, PaidAlike DEF Worth
  <2>3. CASE ~Charged(s)'
    BY <2>3 DEF Worth, Charged
  <2> QED
    BY <2>1, <2>2, <2>3
<1>4. ASSUME NEW r \in Returns PROVE ReturnInv(r)'
  <2>1. ReturnInv(r) /\ return[r].of \in Sales
    BY <1>0, ReturnRows DEF ReturnIInv
  <2>2. return[r].status \in Reserving => sale'[return[r].of] = sale[return[r].of]
    BY <1>0, <2>1, ChargedStays DEF ReturnInv
  <2> QED
    BY <1>0, <2>1, <2>2 DEF ReturnInv, Charged
<1>5. ASSUME NEW s \in Sales, NEW l \in Places PROVE LineSettled(s, l)'
  <2> DEFINE R == ReturnsOf(s)
  <2>1. ReturnsOf(s)' = R /\ Back(s)' = Back(s)
    BY <1>0 DEF ReturnsOf, Back
  <2>2. \A T : /\ ReturnedUnits(s, l, T)' = ReturnedUnits(s, l, T)
               /\ ReturnedCents(s, l, T)' = ReturnedCents(s, l, T)
    BY <1>0 DEF ReturnedUnits, ReturnedCents, Plus
  <2>a. LineSettled(s, l)
    BY DEF ReturnIInv
  <2>b. brought'[s][l] = IF l \in Generic THEN 0 ELSE ReturnedUnits(s, l, Back(s))'
    <3>1. ReturnedUnits(s, l, Back(s))' = ReturnedUnits(s, l, Back(s))
      BY <1>0, <2>1 DEF ReturnedUnits, Plus
    <3>2. brought[s][l] = IF l \in Generic THEN 0 ELSE ReturnedUnits(s, l, Back(s))
      BY <2>a DEF LineSettled
    <3> QED
      BY <1>0, <3>1, <3>2
  <2>c. /\ ReturnedUnits(s, l, ReturnsOf(s))' = ReturnedUnits(s, l, R)
        /\ ReturnedCents(s, l, ReturnsOf(s))' = ReturnedCents(s, l, R)
    BY <1>0, <2>1 DEF ReturnedUnits, ReturnedCents, Plus
  <2>3. CASE Charged(s)
    <3>1. sale'[s] = sale[s] /\ item'[s] = item[s]
      BY <1>0, <2>3, ChargedStays
    <3>2. LinesOf(s)' = LinesOf(s) /\ Paid(s, l)' = Paid(s, l)
      BY <3>1, PaidAlike
    <3>3. /\ ReturnedUnits(s, l, R) <= item[s][l].quantity
          /\ l \in LinesOf(s) /\ ReturnedUnits(s, l, R) = item[s][l].quantity
             => ReturnedCents(s, l, R) = Paid(s, l)
      BY <2>3, <2>a DEF LineSettled
    <3>4. /\ ReturnedUnits(s, l, ReturnsOf(s))' <= item'[s][l].quantity
          /\ l \in LinesOf(s)' /\ ReturnedUnits(s, l, ReturnsOf(s))' = item'[s][l].quantity
             => ReturnedCents(s, l, ReturnsOf(s))' = Paid(s, l)'
      BY <2>c, <3>1, <3>2, <3>3
    <3> QED
      BY <2>b, <3>4 DEF LineSettled
  <2>4. CASE ~Charged(s)
    <3>1. R = {}
      BY <2>4, DraftHasNone
    <3>2. ReturnedUnits(s, l, R) = 0
      BY <3>1, SumEmpty DEF ReturnedUnits, Plus
    <3>3. item'[s][l].quantity \in 0 .. MaxUnits
      <4>1. item'[s] \in [Places -> ItemRow]
        BY <1>1 DEF DiscountTypeOK
      <4> QED
        BY <4>1 DEF ItemRow
    <3>4. /\ ReturnedUnits(s, l, ReturnsOf(s))' <= item'[s][l].quantity
          /\ l \in LinesOf(s)' => ReturnedUnits(s, l, ReturnsOf(s))' # item'[s][l].quantity
      BY <2>c, <3>2, <3>3 DEF LinesOf
    <3> QED
      BY <2>b, <3>4 DEF LineSettled
  <2> QED
    BY <2>3, <2>4
<1> QED
  BY <1>1, <1>2, <1>3, <1>4, <1>5 DEF ReturnIInv

-----------------------------------------------------------------------------
(* Steps of a return *)

LEMMA Stepped ==
  ASSUME SaleReturnTypeOK, NEW r \in Returns, NEW row \in ReturnRow, Step(r, row)
  PROVE  /\ return' \in [Returns -> ReturnRow] /\ return'[r] = row
         /\ \A x \in Returns \ {r} : return'[x] = return[x]
BY DEF SaleReturnTypeOK, Step

\* A step writes one return, of sale s, and what that sale brought back.
LEMMA OneReturn ==
  ASSUME ReturnIInv, SaleReturnTypeOK', UNCHANGED discountVars, NEW r \in Returns,
         NEW s \in Sales, return'[r].of = s,
         return[r].status \in Reserving => return[r].of = s,
         \A x \in Returns \ {r} : return'[x] = return[x],
         \A x \in Returns \ {r} : x \in waiting' => x \in waiting,
         \A x \in Sales \ {s} : brought'[x] = brought[x],
         ReturnInv(r)', \A l \in Places : LineSettled(s, l)'
  PROVE  ReturnIInv'
<1>0. DiscountIInv /\ SaleReturnTypeOK /\ sale' = sale /\ item' = item
  BY DEF ReturnIInv, discountVars
<1>1. DiscountIInv'
  BY <1>0, DiscountKeeps
<1>2. \A x \in Sales : Worth(x)'
  BY <1>0, PaidAlike DEF ReturnIInv, Worth
<1>3. ASSUME NEW x \in Returns PROVE ReturnInv(x)'
  <2>1. CASE x # r
    <3>1. ReturnInv(x) /\ return'[x] = return[x] /\ (x \in waiting' => x \in waiting)
      BY <2>1 DEF ReturnIInv
    <3> QED
      BY <1>0, <3>1 DEF ReturnInv, Charged
  <2> QED
    BY <2>1
<1>4. ASSUME NEW x \in Sales \ {s}, NEW l \in Places PROVE LineSettled(x, l)'
  <2> PICK R : R = ReturnsOf(x)
    OBVIOUS
  <2> PICK B : B = Back(x)
    OBVIOUS
  <2>1. r \notin R
    BY DEF ReturnsOf
  <2>2. /\ ReturnsOf(x)' = R /\ Back(x)' = B /\ R \in SUBSET Returns /\ B \in SUBSET Returns
        /\ \A t \in R : return'[t] = return[t]
        /\ \A t \in B : return'[t] = return[t]
    BY <2>1 DEF ReturnsOf, Back
  <2>3. /\ ReturnedUnits(x, l, R)' = ReturnedUnits(x, l, R)
        /\ ReturnedCents(x, l, R)' = ReturnedCents(x, l, R)
        /\ ReturnedUnits(x, l, B)' = ReturnedUnits(x, l, B)
    <3>1. \A t \in R : return'[t].quantity = return[t].quantity
                       /\ return'[t].amount = return[t].amount
      BY <2>2
    <3>2. \A t \in B : return'[t].quantity = return[t].quantity
                       /\ return'[t].amount = return[t].amount
      BY <2>2
    <3>3. /\ ReturnedUnits(x, l, R)' = ReturnedUnits(x, l, R)
          /\ ReturnedCents(x, l, R)' = ReturnedCents(x, l, R)
      BY <2>2, <3>1, ListedAlike
    <3>4. ReturnedUnits(x, l, B)' = ReturnedUnits(x, l, B)
      BY <2>2, <3>2, ListedAlike
    <3> QED
      BY <3>3, <3>4
  <2>4. Paid(x, l)' = Paid(x, l) /\ LinesOf(x)' = LinesOf(x)
    BY <1>0, PaidAlike
  <2>5. LineSettled(x, l)
    BY DEF ReturnIInv
  <2>6. brought'[x][l] = brought[x][l]
    OBVIOUS
  <2> QED
    <3>1. /\ ReturnedUnits(x, l, ReturnsOf(x))' = ReturnedUnits(x, l, ReturnsOf(x))
          /\ ReturnedCents(x, l, ReturnsOf(x))' = ReturnedCents(x, l, ReturnsOf(x))
          /\ ReturnedUnits(x, l, Back(x))' = ReturnedUnits(x, l, Back(x))
      BY <2>2, <2>3
    <3> QED
      BY <1>0, <2>4, <2>5, <2>6, <3>1 DEF LineSettled, Charged
<1> QED
  BY <1>1, <1>2, <1>3, <1>4 DEF ReturnIInv

\* Of its sale: the other returns that count, and what they list.
LEMMA TheOthers ==
  ASSUME SaleReturnTypeOK, SaleReturnTypeOK', NEW r \in Returns, NEW s \in Sales,
         \A x \in Returns \ {r} : return'[x] = return[x], NEW l \in Places,
         NEW R, R = ReturnsOf(s) \ {r}
  PROVE  /\ R \in SUBSET Returns
         /\ ReturnedUnits(s, l, R)' = ReturnedUnits(s, l, R)
         /\ ReturnedCents(s, l, R)' = ReturnedCents(s, l, R)
         /\ ReturnedUnits(s, l, R) \in Nat /\ ReturnedCents(s, l, R) \in Int
         /\ r \in ReturnsOf(s) =>
                /\ ReturnedUnits(s, l, ReturnsOf(s))
                     = return[r].quantity[l] + ReturnedUnits(s, l, R)
                /\ ReturnedCents(s, l, ReturnsOf(s))
                     = return[r].amount[l] + ReturnedCents(s, l, R)
         /\ return'[r].of = s /\ return'[r].status \in Reserving =>
                /\ ReturnsOf(s)' = R \cup {r}
                /\ ReturnedUnits(s, l, ReturnsOf(s))'
                     = return'[r].quantity[l] + ReturnedUnits(s, l, R)
                /\ ReturnedCents(s, l, ReturnsOf(s))'
                     = return'[r].amount[l] + ReturnedCents(s, l, R)
         /\ return'[r].status \notin Reserving =>
                /\ ReturnsOf(s)' = R
                /\ ReturnedUnits(s, l, ReturnsOf(s))' = ReturnedUnits(s, l, R)
                /\ ReturnedCents(s, l, ReturnsOf(s))' = ReturnedCents(s, l, R)
<1>1. R \in SUBSET Returns /\ r \notin R /\ R \cup {r} \in SUBSET Returns /\ (R \cup {r}) \ {r} = R
  BY DEF ReturnsOf
<1>2. \A x \in R : return'[x].quantity = return[x].quantity /\ return'[x].amount = return[x].amount
  BY <1>1
<1>3. /\ ReturnedUnits(s, l, R)' = ReturnedUnits(s, l, R)
      /\ ReturnedCents(s, l, R)' = ReturnedCents(s, l, R)
  BY <1>1, <1>2, ListedAlike
<1>4. ReturnedUnits(s, l, R) \in Nat /\ ReturnedCents(s, l, R) \in Int
  BY <1>1, Listed
<1>5. ASSUME r \in ReturnsOf(s)
      PROVE  /\ ReturnedUnits(s, l, ReturnsOf(s))
                  = return[r].quantity[l] + ReturnedUnits(s, l, R)
             /\ ReturnedCents(s, l, ReturnsOf(s))
                  = return[r].amount[l] + ReturnedCents(s, l, R)
  <2>1. ReturnsOf(s) \in SUBSET Returns
    BY DEF ReturnsOf
  <2>2. \A x \in ReturnsOf(s) :
            /\ ReturnedUnits(s, l, ReturnsOf(s))
                 = return[x].quantity[l] + ReturnedUnits(s, l, ReturnsOf(s) \ {x})
            /\ ReturnedCents(s, l, ReturnsOf(s))
                 = return[x].amount[l] + ReturnedCents(s, l, ReturnsOf(s) \ {x})
    BY <2>1, Listed
  <2> QED
    BY <1>5, <2>2, Zenon
<1>6. ASSUME return'[r].of = s, return'[r].status \in Reserving
      PROVE  /\ ReturnsOf(s)' = R \cup {r}
             /\ ReturnedUnits(s, l, ReturnsOf(s))'
                  = return'[r].quantity[l] + ReturnedUnits(s, l, R)
             /\ ReturnedCents(s, l, ReturnsOf(s))'
                  = return'[r].amount[l] + ReturnedCents(s, l, R)
  <2>1. ReturnsOf(s)' = R \cup {r}
    BY <1>6 DEF ReturnsOf
  <2>2. r \notin R /\ R \in SUBSET Returns /\ \A x \in R : return'[x] = return[x]
    BY <1>1
  <2>3. /\ ReturnedUnits(s, l, ReturnsOf(s))'
             = return'[r].quantity[l] + ReturnedUnits(s, l, R)
        /\ ReturnedCents(s, l, ReturnsOf(s))'
             = return'[r].amount[l] + ReturnedCents(s, l, R)
    BY <2>1, <2>2, OneMore, Zenon
  <2> QED
    BY <2>1, <2>3
<1>7. ASSUME return'[r].status \notin Reserving
      PROVE  /\ ReturnsOf(s)' = R
             /\ ReturnedUnits(s, l, ReturnsOf(s))' = ReturnedUnits(s, l, R)
             /\ ReturnedCents(s, l, ReturnsOf(s))' = ReturnedCents(s, l, R)
  <2>1. ReturnsOf(s)' = R
    BY <1>7 DEF ReturnsOf
  <2>2. /\ ReturnedUnits(s, l, ReturnsOf(s))' = ReturnedUnits(s, l, R)'
        /\ ReturnedCents(s, l, ReturnsOf(s))' = ReturnedCents(s, l, R)'
    BY <2>1 DEF ReturnedUnits, ReturnedCents, Plus
  <2> QED
    BY <1>3, <2>1, <2>2
<1> QED
  BY <1>1, <1>3, <1>4, <1>5, <1>6, <1>7

\* What is back in the store, when the step neither brings nor takes away.
LEMMA SameBack ==
  ASSUME NEW r \in Returns, NEW s \in Sales, NEW l \in Places, LineSettled(s, l),
         \A x \in Returns \ {r} : return'[x] = return[x],
         r \notin Back(s), r \notin Back(s)', brought'[s][l] = brought[s][l]
  PROVE  brought'[s][l] = IF l \in Generic THEN 0 ELSE ReturnedUnits(s, l, Back(s))'
<1> PICK B : B = Back(s)
  OBVIOUS
<1>1. B \in SUBSET Returns /\ Back(s)' = B
      /\ \A x \in B : return'[x].quantity = return[x].quantity /\ return'[x].amount = return[x].amount
  BY DEF Back, ReturnsOf
<1>2. ReturnedUnits(s, l, B)' = ReturnedUnits(s, l, B)
  BY <1>1, ListedAlike
<1>3. ReturnedUnits(s, l, Back(s))' = ReturnedUnits(s, l, B)'
  BY <1>1 DEF ReturnedUnits, Plus
<1> QED
  BY <1>2, <1>3 DEF LineSettled

LEMMA PricedType ==
  ASSUME ReturnIInv, NEW s \in Sales, Charged(s), NEW R \in SUBSET Returns,
         NEW units \in [Places -> 0 .. MaxUnits], CanReturn(s, R, units)
  PROVE  Priced(s, R, units) \in [Places -> Int]
<1> SUFFICES ASSUME NEW l \in Places, units[l] # 0
             PROVE  ReturnValue(s, l, R, units[l]) \in Int
  BY DEF Priced
<1>0. DiscountTypeOK /\ SaleReturnTypeOK
  BY DEF ReturnIInv, DiscountIInv
<1>1. Paid(s, l) \in Int
  BY <1>0, Shares DEF ReturnIInv, Charged
<1>2. ReturnedUnits(s, l, R) \in Nat /\ ReturnedCents(s, l, R) \in Int
  BY <1>0, Listed
<1>3. units[l] \in Nat /\ item[s][l].quantity \in Nat /\ item[s][l].quantity # 0
  BY <1>0, <1>2, SaleRows, DiscountAssumption DEF CanReturn
<1>4. Paid(s, l) * units[l] \in Int
  BY <1>1, <1>3
<1>5. RoundMoney(Paid(s, l) * units[l], item[s][l].quantity) \in Int
  BY <1>3, <1>4, Rounded
<1> QED
  BY <1>1, <1>2, <1>5 DEF ReturnValue

\* Listing the lines of a return, for the first time or again.
LEMMA ListKeeps ==
  ASSUME ReturnIInv, NEW r \in Returns, NEW s \in Sales, NEW units \in [Places -> 0 .. MaxUnits],
         NEW resolution \in {"REFUND", "EXCHANGE"}, NEW R, R = ReturnsOf(s) \ {r},
         List(r, s, R, units, resolution), Charged(s),
         return[r].status = "NONE" \/ (return[r].status = "PENDING" /\ return[r].of = s),
         waiting' = waiting \/ waiting' = waiting \cup {r}, UNCHANGED <<brought, discountVars>>
  PROVE  ReturnIInv'
<1>0. /\ SaleReturnTypeOK /\ ReturnInv(r) /\ DiscountTypeOK
      /\ sale' = sale /\ item' = item /\ brought' = brought /\ UNCHANGED discountVars
  BY DEF ReturnIInv, DiscountIInv, discountVars
<1> DEFINE amount == Priced(s, R, units)
           row == [return[r] EXCEPT !.status = "PENDING", !.of = s, !.quantity = units,
                                    !.amount = amount, !.resolution = resolution]
<1>1. R \in SUBSET Returns /\ CanReturn(s, R, units) /\ Step(r, row)
  BY DEF List, ReturnsOf
<1>2. amount \in [Places -> Int]
  BY <1>1, PricedType
<1> HIDE DEF amount
<1>3. return[r] \in ReturnRow /\ return[r].replacement = 0
  BY <1>0, ReturnRows DEF ReturnInv
<1>4. /\ row \in ReturnRow /\ row.status = "PENDING" /\ row.of = s /\ row.quantity = units
      /\ row.amount = amount /\ row.resolution = resolution /\ row.replacement = 0
  BY <1>2, <1>3 DEF ReturnRow, ReturnStatus
<1> HIDE DEF row
<1>5. /\ return' \in [Returns -> ReturnRow] /\ return'[r] = row
      /\ \A x \in Returns \ {r} : return'[x] = return[x]
  BY <1>0, <1>1, <1>4, Stepped
<1>6. SaleReturnTypeOK'
  BY <1>0, <1>5 DEF SaleReturnTypeOK
<1>7. /\ return'[r].status = "PENDING" /\ return'[r].of = s /\ return'[r].quantity = units
      /\ return'[r].amount = amount /\ return'[r].resolution = resolution
      /\ return'[r].replacement = 0
  BY <1>4, <1>5
<1>8. ASSUME NEW l \in Places
      PROVE  /\ units[l] \in Nat /\ amount[l] \in Int
             /\ units[l] <= item[s][l].quantity - ReturnedUnits(s, l, R)
             /\ units[l] = 0 => amount[l] = 0
             /\ units[l] # 0 /\ units[l] = item[s][l].quantity - ReturnedUnits(s, l, R)
                => amount[l] = Paid(s, l) - ReturnedCents(s, l, R)
  <2>1. units[l] \in Nat /\ amount[l] \in Int
    BY <1>2, DiscountAssumption
  <2>2. units[l] <= item[s][l].quantity - ReturnedUnits(s, l, R)
    BY <1>1 DEF CanReturn
  <2>3. amount[l] = IF units[l] = 0 THEN 0 ELSE ReturnValue(s, l, R, units[l])
    BY DEF amount, Priced
  <2>4. units[l] = item[s][l].quantity - ReturnedUnits(s, l, R)
        => ReturnValue(s, l, R, units[l]) = Paid(s, l) - ReturnedCents(s, l, R)
    BY DEF ReturnValue
  <2> QED
    BY <2>1, <2>2, <2>3, <2>4
<1>9. ReturnInv(r)'
  <2>1. resolution # "PARTIAL_REFUND" /\ Charged(s)'
    BY <1>0 DEF Charged
  <2> QED
    BY <1>7, <1>8, <2>1 DEF ReturnInv
<1>10. ASSUME NEW l \in Places PROVE LineSettled(s, l)'
  <2> DEFINE Q == ReturnsOf(s)
             u == ReturnedUnits(s, l, R)
             c == ReturnedCents(s, l, R)
             n == item[s][l].quantity
  <2>1. LineSettled(s, l) /\ n \in Nat
    BY <1>0, SaleRows, DiscountAssumption DEF ReturnIInv
  <2>2. u \in Nat /\ c \in Int
    BY <1>0, <1>1, Listed
  <2>3. /\ ReturnedUnits(s, l, ReturnsOf(s))' = units[l] + u
        /\ ReturnedCents(s, l, ReturnsOf(s))' = amount[l] + c
    BY <1>0, <1>5, <1>6, <1>7, TheOthers DEF Reserving
  <2>4. units[l] = 0 /\ u = n /\ l \in LinesOf(s) => c = Paid(s, l)
    <3> SUFFICES ASSUME units[l] = 0, u = n, l \in LinesOf(s) PROVE c = Paid(s, l)
      OBVIOUS
    <3>1. CASE r \notin Q
      <4>1. R = Q
        BY <3>1
      <4> QED
        BY <2>1, <4>1 DEF LineSettled
    <3>2. CASE r \in Q
      <4>1. /\ ReturnedUnits(s, l, Q) = return[r].quantity[l] + u
            /\ ReturnedCents(s, l, Q) = return[r].amount[l] + c
        BY <1>0, <1>5, <1>6, <3>2, TheOthers
      <4>2. return[r].quantity[l] \in Nat /\ return[r].amount[l] \in Int
        BY <1>0, ReturnRows
      <4>3. ReturnedUnits(s, l, Q) <= n
        BY <2>1 DEF LineSettled
      <4>4. return[r].quantity[l] = 0
        BY <2>1, <2>2, <4>1, <4>2, <4>3
      <4>5. return[r].amount[l] = 0
        BY <1>0, <4>4 DEF ReturnInv
      <4>6. ReturnedUnits(s, l, Q) = n /\ ReturnedCents(s, l, Q) = c
        BY <2>2, <4>1, <4>4, <4>5
      <4> QED
        BY <2>1, <4>6 DEF LineSettled
    <3> QED
      BY <3>1, <3>2
  <2>5. LinesOf(s)' = LinesOf(s) /\ Paid(s, l)' = Paid(s, l)
    BY <1>0, PaidAlike
  <2>6. Paid(s, l) \in Int
    BY <1>0, Shares DEF ReturnIInv, Charged
  <2>7. brought'[s][l] = IF l \in Generic THEN 0 ELSE ReturnedUnits(s, l, Back(s))'
    <3>1. r \notin Back(s) /\ r \notin Back(s)'
      BY <1>0, <1>3, <1>7 DEF Back, ReturnsOf, Reserving
    <3> QED
      BY <1>0, <1>5, <2>1, <3>1, SameBack
  <2>8. /\ ReturnedUnits(s, l, ReturnsOf(s))' <= n
        /\ l \in LinesOf(s) /\ ReturnedUnits(s, l, ReturnsOf(s))' = n
           => ReturnedCents(s, l, ReturnsOf(s))' = Paid(s, l)
    <3> HIDE DEF u, c, n
    <3>1. units[l] \in Nat /\ amount[l] \in Int /\ units[l] <= n - u
          /\ (units[l] = 0 => amount[l] = 0)
          /\ (units[l] # 0 /\ units[l] = n - u => amount[l] = Paid(s, l) - c)
      BY <1>8 DEF n, u, c
    <3> QED
      BY <2>1, <2>2, <2>3, <2>4, <2>6, <3>1
  <2> QED
    BY <1>0, <2>5, <2>7, <2>8 DEF LineSettled
<1> QED
  BY <1>0, <1>5, <1>6, <1>7, <1>9, <1>10, OneReturn DEF Reserving

LEMMA RequestReturnKeeps ==
  ASSUME ReturnIInv, NEW r \in Returns, NEW s \in Sales, NEW units \in [Places -> 0 .. MaxUnits],
         NEW resolution \in {"REFUND", "EXCHANGE"}, RequestReturn(r, s, units, resolution)
  PROVE  ReturnIInv'
<1> PICK R : R = ReturnsOf(s) \ {r}
  OBVIOUS
<1>1. ReturnsOf(s) = R
  BY DEF RequestReturn, ReturnsOf, Reserving
<1>2. /\ List(r, s, R, units, resolution) /\ Charged(s) /\ return[r].status = "NONE"
      /\ waiting' = waiting \cup {r} /\ UNCHANGED <<brought, discountVars>>
  BY <1>1 DEF RequestReturn, NotifyReturn
<1> QED
  BY <1>2, ListKeeps

LEMMA EditReturnKeeps ==
  ASSUME ReturnIInv, NEW r \in Returns, NEW units \in [Places -> 0 .. MaxUnits],
         NEW resolution \in {"REFUND", "EXCHANGE"}, EditReturn(r, units, resolution)
  PROVE  ReturnIInv'
<1> PICK s : s = return[r].of
  OBVIOUS
<1> PICK R : R = ReturnsOf(s) \ {r}
  OBVIOUS
<1>1. s \in Sales /\ return[r].status = "PENDING" /\ Charged(s)
  BY ReturnRows DEF ReturnIInv, ReturnInv, EditReturn, Reserving
<1>2. /\ List(r, s, R, units, resolution)
      /\ waiting' = waiting /\ UNCHANGED <<brought, discountVars>>
  BY DEF EditReturn
<1> QED
  BY <1>1, <1>2, ListKeeps

LEMMA DropKeeps ==
  ASSUME ReturnIInv, NEW r \in Returns, NEW status \in {"REJECTED", "CANCELLED"},
         DropReturn(r, status)
  PROVE  ReturnIInv'
<1> PICK s : s = return[r].of
  OBVIOUS
<1> PICK R : R = ReturnsOf(s) \ {r}
  OBVIOUS
<1> DEFINE row == [return[r] EXCEPT !.status = status, !.quantity = NoAmounts,
                                    !.amount = NoAmounts]
<1>0. /\ SaleReturnTypeOK /\ ReturnInv(r) /\ s \in Sales /\ return[r] \in ReturnRow
      /\ DiscountTypeOK /\ sale' = sale /\ item' = item /\ brought' = brought
      /\ UNCHANGED discountVars
  BY ReturnRows DEF ReturnIInv, DiscountIInv, discountVars, DropReturn
<1>1. /\ return[r].status \in {"PENDING", "APPROVED"} /\ return[r].replacement = 0
      /\ Step(r, row) /\ waiting' = waiting \ {r}
  BY <1>0 DEF DropReturn, Approved, ReturnInv, ClearReturnNotices
<1>2. /\ row \in ReturnRow /\ row.status = status /\ row.of = s /\ row.quantity = NoAmounts
      /\ row.amount = NoAmounts /\ row.resolution = return[r].resolution /\ row.replacement = 0
  <2>1. NoAmounts \in [Places -> 0 .. MaxUnits] /\ NoAmounts \in [Places -> Int]
    BY DiscountAssumption DEF NoAmounts
  <2> QED
    BY <1>0, <1>1, <2>1 DEF ReturnRow, ReturnStatus
<1> HIDE DEF row
<1>3. /\ return' \in [Returns -> ReturnRow] /\ return'[r] = row
      /\ \A x \in Returns \ {r} : return'[x] = return[x]
  BY <1>0, <1>1, <1>2, Stepped
<1>4. SaleReturnTypeOK'
  BY <1>0, <1>1, <1>3 DEF SaleReturnTypeOK
<1>5. /\ return'[r].status = status /\ return'[r].of = s
      /\ return'[r].quantity = NoAmounts /\ return'[r].amount = NoAmounts
      /\ return'[r].resolution = return[r].resolution /\ return'[r].replacement = 0
  BY <1>2, <1>3
<1>6. return[r].resolution # "PARTIAL_REFUND"
  BY <1>0, <1>1 DEF ReturnInv
<1>7. ReturnInv(r)'
  <2>1. \A l \in Places : NoAmounts[l] = 0
    BY DEF NoAmounts
  <2> QED
    BY <1>1, <1>5, <1>6, <2>1 DEF ReturnInv, Reserving
<1>8. ASSUME NEW l \in Places PROVE LineSettled(s, l)'
  <2> DEFINE Q == ReturnsOf(s)
             u == ReturnedUnits(s, l, R)
             c == ReturnedCents(s, l, R)
             n == item[s][l].quantity
  <2>1. LineSettled(s, l) /\ n \in Nat /\ Charged(s)
    BY <1>0, <1>1, SaleRows, DiscountAssumption DEF ReturnIInv, ReturnInv, Reserving
  <2>2. u \in Nat /\ c \in Int /\ r \in Q
    <3>1. R \in SUBSET Returns
      BY DEF ReturnsOf
    <3> QED
      BY <1>0, <1>1, <3>1, Listed DEF ReturnsOf, Reserving
  <2>3. ReturnedUnits(s, l, ReturnsOf(s))' = u /\ ReturnedCents(s, l, ReturnsOf(s))' = c
    <3>1. return'[r].status \notin Reserving
      BY <1>5 DEF Reserving
    <3> QED
      BY <1>0, <1>3, <1>4, <3>1, TheOthers
  <2>4. /\ ReturnedUnits(s, l, Q) = return[r].quantity[l] + u
        /\ ReturnedCents(s, l, Q) = return[r].amount[l] + c
    BY <1>0, <1>3, <1>4, <2>2, TheOthers
  <2>5. /\ return[r].quantity[l] \in Nat /\ return[r].amount[l] \in Int
        /\ (return[r].quantity[l] = 0 => return[r].amount[l] = 0)
    BY <1>0, ReturnRows DEF ReturnInv
  <2>6. /\ ReturnedUnits(s, l, Q) <= n
        /\ l \in LinesOf(s) /\ ReturnedUnits(s, l, Q) = n => ReturnedCents(s, l, Q) = Paid(s, l)
    BY <2>1 DEF LineSettled
  <2>7. /\ u <= n
        /\ l \in LinesOf(s) /\ u = n => c = Paid(s, l)
    <3> HIDE DEF u, c, n, Q
    <3> QED
      BY <2>1, <2>2, <2>4, <2>5, <2>6
  <2>8. LinesOf(s)' = LinesOf(s) /\ Paid(s, l)' = Paid(s, l)
    BY <1>0, PaidAlike
  <2>9. brought'[s][l] = IF l \in Generic THEN 0 ELSE ReturnedUnits(s, l, Back(s))'
    <3>1. r \notin Back(s) /\ r \notin Back(s)'
      BY <1>1, <1>5 DEF Back, ReturnsOf, Reserving
    <3> QED
      BY <1>0, <1>3, <2>1, <3>1, SameBack
  <2> QED
    BY <1>0, <2>3, <2>7, <2>8, <2>9 DEF LineSettled
<1>9. \A x \in Returns \ {r} : x \in waiting' => x \in waiting
  BY <1>1
<1> QED
  BY <1>0, <1>3, <1>4, <1>5, <1>7, <1>8, <1>9, OneReturn

LEMMA Beside ==
  ASSUME SaleReturnTypeOK, NEW C \in SUBSET Returns, NEW r \in C, NEW s \in Sales,
         NEW l \in Places
  PROVE  ReturnedUnits(s, l, C) = return[r].quantity[l] + ReturnedUnits(s, l, C \ {r})
<1> DEFINE q == [x \in Returns |-> return[x].quantity[l]]
<1>1. IsFiniteSet(C) /\ \A x \in C : q[x] \in Int
  BY ReturnRows, SaleReturnAssumption, FS_Subset
<1>2. \A T : ReturnedUnits(s, l, T) = SumFunctionOnSet(q, T)
  BY DEF ReturnedUnits, Plus
<1>3. q[r] = return[r].quantity[l]
  OBVIOUS
<1> HIDE DEF q
<1>4. SumFunctionOnSet(q, C) = q[r] + SumFunctionOnSet(q, C \ {r})
  BY <1>1, SumRemove
<1> QED
  BY <1>2, <1>3, <1>4

LEMMA OneBack ==
  ASSUME SaleReturnTypeOK, NEW B \in SUBSET Returns, NEW r \in Returns, r \notin B,
         NEW s \in Sales, NEW l \in Places, Back(s)' = B \cup {r},
         \A x \in Returns : return'[x].quantity = return[x].quantity
                            /\ return'[x].amount = return[x].amount
  PROVE  ReturnedUnits(s, l, Back(s))' = return[r].quantity[l] + ReturnedUnits(s, l, B)
<1> PICK C : C = B \cup {r}
  OBVIOUS
<1>1. C \in SUBSET Returns /\ r \in C /\ C \ {r} = B
  OBVIOUS
<1>2. ReturnedUnits(s, l, Back(s))' = ReturnedUnits(s, l, C)'
  BY DEF ReturnedUnits, Plus
<1>3. ReturnedUnits(s, l, C)' = ReturnedUnits(s, l, C)
  BY <1>1, ListedAlike
<1>4. ReturnedUnits(s, l, C) = return[r].quantity[l] + ReturnedUnits(s, l, C \ {r})
  BY <1>1, Beside, Zenon
<1> QED
  BY <1>1, <1>2, <1>3, <1>4, Zenon

\* A return that counts goes on counting: what it lists stays, and when it is
\* settled its goods come back.
LEMMA GoesOn ==
  ASSUME ReturnIInv, NEW r \in Returns, NEW row \in ReturnRow, Step(r, row),
         return[r].status \in Reserving, row.status \in Reserving, row.of = return[r].of,
         row.quantity = return[r].quantity, row.amount = return[r].amount,
         row.replacement # 0 => row.status \in {"APPROVED", "COMPLETED"},
         row.resolution = "PARTIAL_REFUND" => row.replacement # 0,
         row.resolution = "REFUND" => row.replacement = 0,
         r \in waiting' => row.status = "PENDING",
         waiting' \subseteq waiting, UNCHANGED discountVars,
         \/ /\ UNCHANGED brought
            /\ row.status = "COMPLETED" \/ row.replacement # 0 <=>
                   return[r].status = "COMPLETED" \/ return[r].replacement # 0
         \/ /\ Restock(r)
            /\ row.status = "COMPLETED" \/ row.replacement # 0
            /\ return[r].status # "COMPLETED" /\ return[r].replacement = 0
  PROVE  ReturnIInv'
<1>a. PICK s : s = return[r].of
  OBVIOUS
<1>0. /\ SaleReturnTypeOK /\ ReturnInv(r) /\ s \in Sales /\ return[r] \in ReturnRow
      /\ DiscountTypeOK /\ sale' = sale /\ item' = item /\ row.of = s
  BY <1>a, ReturnRows DEF ReturnIInv, DiscountIInv, discountVars
<1>1. /\ return' \in [Returns -> ReturnRow] /\ return'[r] = row
      /\ \A x \in Returns \ {r} : return'[x] = return[x]
  BY <1>0, Stepped
<1>2. \A x \in Returns : /\ return'[x].quantity = return[x].quantity
                         /\ return'[x].amount = return[x].amount
                         /\ return'[x].of = return[x].of
                         /\ return'[x].status \in Reserving <=> return[x].status \in Reserving
  BY <1>1
<1>3. ReturnsOf(s)' = ReturnsOf(s)
  BY <1>2 DEF ReturnsOf
<1>4. \A R \in SUBSET Returns, l \in Places :
          /\ ReturnedUnits(s, l, R)' = ReturnedUnits(s, l, R)
          /\ ReturnedCents(s, l, R)' = ReturnedCents(s, l, R)
  BY <1>2, ListedAlike
<1>5. \A x \in Sales \ {s} : brought'[x] = brought[x]
  BY <1>a, <1>0 DEF Restock, SaleReturnTypeOK
<1>6. /\ UNCHANGED brought /\ Back(s)' = Back(s)
      \/ /\ r \notin Back(s) /\ Back(s)' = Back(s) \cup {r}
         /\ \A l \in Places : brought'[s][l] =
                brought[s][l] + (IF l \in Generic THEN 0 ELSE return[r].quantity[l])
  <2>1. \A x \in Returns \ {r} : x \in Back(s)' <=> x \in Back(s)
    BY <1>1, <1>3 DEF Back
  <2>2. /\ r \in Back(s) <=> return[r].status = "COMPLETED" \/ return[r].replacement # 0
        /\ r \in Back(s)' <=> row.status = "COMPLETED" \/ row.replacement # 0
    BY <1>a, <1>0, <1>1, <1>3 DEF Back, ReturnsOf
  <2>3. Back(s) \subseteq Returns /\ Back(s)' \subseteq Returns
    BY DEF Back, ReturnsOf
  <2>4. CASE UNCHANGED brought /\ (row.status = "COMPLETED" \/ row.replacement # 0 <=>
                   return[r].status = "COMPLETED" \/ return[r].replacement # 0)
    BY <2>1, <2>2, <2>3, <2>4
  <2>5. CASE /\ Restock(r)
             /\ row.status = "COMPLETED" \/ row.replacement # 0
             /\ return[r].status # "COMPLETED" /\ return[r].replacement = 0
    <3>1. brought' = [brought EXCEPT ![s] = [l \in Places |->
              brought[s][l] + (IF l \in Generic THEN 0 ELSE return[r].quantity[l])]]
      BY <1>a, <2>5 DEF Restock
    <3>2. brought \in [Sales -> [Places -> Nat]]
      BY <1>0 DEF SaleReturnTypeOK
    <3> QED
      BY <1>0, <2>1, <2>2, <2>3, <2>5, <3>1, <3>2
  <2> QED
    BY <2>4, <2>5
<1>7. brought' \in [Sales -> [Places -> Nat]]
  <2>1. CASE UNCHANGED brought
    BY <1>0, <2>1 DEF SaleReturnTypeOK
  <2>2. CASE Restock(r)
    <3> DEFINE came == [l \in Places |->
                   brought[s][l] + (IF l \in Generic THEN 0 ELSE return[r].quantity[l])]
    <3>1. brought \in [Sales -> [Places -> Nat]]
      BY <1>0 DEF SaleReturnTypeOK
    <3>2. came \in [Places -> Nat]
      BY <1>0, <3>1, ReturnRows
    <3>3. brought' = [brought EXCEPT ![s] = came]
      BY <1>a, <2>2 DEF Restock
    <3> HIDE DEF came
    <3> QED
      BY <3>1, <3>2, <3>3
  <2> QED
    BY <2>1, <2>2
<1>8. SaleReturnTypeOK'
  BY <1>0, <1>1, <1>7 DEF SaleReturnTypeOK
<1>9. ReturnInv(r)'
  <2>1. Charged(s)' /\ \A l \in Places : row.quantity[l] = 0 => row.amount[l] = 0
    BY <1>a, <1>0 DEF ReturnInv, Charged
  <2> QED
    BY <1>a, <1>0, <1>1, <2>1 DEF ReturnInv
<1>10. ASSUME NEW l \in Places PROVE LineSettled(s, l)'
  <2>1. LineSettled(s, l)
    BY <1>0 DEF ReturnIInv
  <2>2. /\ ReturnedUnits(s, l, ReturnsOf(s))' = ReturnedUnits(s, l, ReturnsOf(s))
        /\ ReturnedCents(s, l, ReturnsOf(s))' = ReturnedCents(s, l, ReturnsOf(s))
    <3> PICK R : R = ReturnsOf(s)
      OBVIOUS
    <3>1. R \in SUBSET Returns
      BY DEF ReturnsOf
    <3>2. /\ ReturnedUnits(s, l, R)' = ReturnedUnits(s, l, R)
          /\ ReturnedCents(s, l, R)' = ReturnedCents(s, l, R)
      BY <1>2, <3>1, ListedAlike
    <3>3. /\ ReturnedUnits(s, l, ReturnsOf(s))' = ReturnedUnits(s, l, R)'
          /\ ReturnedCents(s, l, ReturnsOf(s))' = ReturnedCents(s, l, R)'
      BY <1>3 DEF ReturnedUnits, ReturnedCents, Plus
    <3> QED
      BY <3>2, <3>3
  <2>3. brought'[s][l] = IF l \in Generic THEN 0 ELSE ReturnedUnits(s, l, Back(s))'
    <3>a. PICK B : B = Back(s)
      OBVIOUS
    <3>1. B \in SUBSET Returns
      BY <3>a DEF Back, ReturnsOf
    <3>2. ReturnedUnits(s, l, B)' = ReturnedUnits(s, l, B)
      BY <1>2, <3>1, ListedAlike
    <3>3. brought[s][l] = IF l \in Generic THEN 0 ELSE ReturnedUnits(s, l, B)
      BY <2>1, <3>a DEF LineSettled
    <3>4. CASE UNCHANGED brought /\ Back(s)' = B
      <4>1. ReturnedUnits(s, l, Back(s))' = ReturnedUnits(s, l, B)'
        BY <3>4 DEF ReturnedUnits, Plus
      <4> QED
        BY <3>2, <3>3, <3>4, <4>1
    <3>5. CASE /\ r \notin B /\ Back(s)' = B \cup {r}
               /\ brought'[s][l] =
                    brought[s][l] + (IF l \in Generic THEN 0 ELSE return[r].quantity[l])
      <4>1. ReturnedUnits(s, l, Back(s))' = return[r].quantity[l] + ReturnedUnits(s, l, B)
        BY <1>0, <1>2, <1>10, <3>1, <3>5, OneBack
      <4>2. return[r].quantity[l] \in Nat /\ ReturnedUnits(s, l, B) \in Nat
        BY <1>0, <3>1, ReturnRows, Listed
      <4> QED
        BY <3>3, <3>5, <4>1, <4>2
    <3> QED
      BY <1>6, <3>a, <3>4, <3>5
  <2>4. LinesOf(s)' = LinesOf(s) /\ Paid(s, l)' = Paid(s, l)
    BY <1>0, PaidAlike
  <2> QED
    BY <1>0, <2>1, <2>2, <2>3, <2>4 DEF LineSettled, Charged
<1> QED
  BY <1>a, <1>0, <1>1, <1>5, <1>8, <1>9, <1>10, OneReturn

LEMMA Worthy == ASSUME SaleReturnTypeOK, NEW r \in Returns PROVE TotalReturned(r) \in Int
<1>1. \A l \in Places : return[r].amount[l] \in Int
  BY ReturnRows
<1>2. IsFiniteSet(Places)
  BY PlacesFinite
<1> QED
  BY <1>1, <1>2, SumType DEF TotalReturned, Plus

LEMMA ApproveReturnKeeps ==
  ASSUME ReturnIInv, NEW r \in Returns, ApproveReturn(r) PROVE ReturnIInv'
<1> DEFINE row == [return[r] EXCEPT !.status = "APPROVED"]
<1>1. return[r] \in ReturnRow /\ ReturnInv(r) /\ return[r].status = "PENDING"
  BY ReturnRows DEF ReturnIInv, ApproveReturn
<1>2. /\ row \in ReturnRow /\ row.status = "APPROVED" /\ row.of = return[r].of
      /\ row.quantity = return[r].quantity /\ row.amount = return[r].amount
      /\ row.resolution = return[r].resolution /\ row.replacement = return[r].replacement
  BY <1>1 DEF ReturnRow, ReturnStatus
<1>3. Step(r, row) /\ waiting' = waiting \ {r} /\ UNCHANGED <<brought, discountVars>>
  BY DEF ApproveReturn, ClearReturnNotices
<1> HIDE DEF row
<1>4. return[r].replacement = 0 /\ row.resolution # "PARTIAL_REFUND"
  BY <1>1, <1>2 DEF ReturnInv
<1>5. UNCHANGED brought /\ UNCHANGED discountVars /\ waiting' \subseteq waiting /\ r \notin waiting'
  BY <1>3
<1> QED
  BY <1>1, <1>2, <1>3, <1>4, <1>5, GoesOn DEF Reserving

LEMMA ChargeExchangeKeeps ==
  ASSUME ReturnIInv, NEW r \in Returns, NEW total \in ReplacementTotals, ChargeExchange(r, total)
  PROVE  ReturnIInv'
<1> DEFINE short == Credit(r, total) < TotalReturned(r)
           resolution == IF short THEN "PARTIAL_REFUND" ELSE return[r].resolution
           status == IF short THEN return[r].status ELSE "COMPLETED"
           row == [return[r] EXCEPT !.replacement = total, !.resolution = resolution,
                                    !.status = status]
<1>1. /\ return[r] \in ReturnRow /\ ReturnInv(r) /\ return[r].status = "APPROVED"
      /\ return[r].replacement = 0 /\ return[r].resolution = "EXCHANGE"
  BY ReturnRows DEF ReturnIInv, ChargeExchange, Approved
<1>2. Step(r, row)
  BY DEF ChargeExchange
<1>3. Restock(r) /\ UNCHANGED waiting /\ UNCHANGED discountVars
  BY DEF ChargeExchange
<1>4. /\ resolution \in {"PARTIAL_REFUND", "EXCHANGE"} /\ status \in {"APPROVED", "COMPLETED"}
      /\ total # 0 /\ total \in {0} \cup ReplacementTotals
  BY <1>1, SaleReturnAssumption
<1> HIDE DEF short, resolution, status
<1>5. /\ row \in ReturnRow /\ row.status = status /\ row.of = return[r].of
      /\ row.quantity = return[r].quantity /\ row.amount = return[r].amount
      /\ row.resolution = resolution /\ row.replacement = total
  BY <1>1, <1>4 DEF ReturnRow, ReturnStatus
<1> HIDE DEF row
<1>6. r \notin waiting
  BY <1>1 DEF ReturnInv
<1>7. /\ row.status \in Reserving /\ return[r].status \in Reserving
      /\ row.status \in {"APPROVED", "COMPLETED"} /\ row.replacement # 0
      /\ row.resolution # "REFUND" /\ return[r].status # "COMPLETED"
  BY <1>1, <1>4, <1>5 DEF Reserving
<1>8. waiting' \subseteq waiting /\ r \notin waiting'
  BY <1>3, <1>6
<1> QED
  BY <1>1, <1>2, <1>3, <1>5, <1>7, <1>8, GoesOn

LEMMA CompleteRefundKeeps ==
  ASSUME ReturnIInv, NEW r \in Returns, CompleteRefund(r) PROVE ReturnIInv'
<1> DEFINE row == [return[r] EXCEPT !.status = "COMPLETED", !.refund = AmountToRefund(r)]
<1>1. /\ return[r] \in ReturnRow /\ ReturnInv(r) /\ return[r].status = "APPROVED"
      /\ return[r].resolution \in {"REFUND", "PARTIAL_REFUND"} /\ SaleReturnTypeOK
  BY ReturnRows DEF ReturnIInv, CompleteRefund, Approved
<1>2. Step(r, row) /\ UNCHANGED waiting /\ UNCHANGED discountVars
  BY DEF CompleteRefund
<1>3. AmountToRefund(r) \in Int
  <2>1. TotalReturned(r) \in Int
    BY <1>1, Worthy
  <2>2. return[r].replacement \in Int
    <3>1. return[r].replacement \in {0} \cup ReplacementTotals
      BY <1>1 DEF ReturnRow
    <3>2. 0 \in Int /\ ReplacementTotals \subseteq Int
      BY SaleReturnAssumption
    <3> QED
      BY <3>1, <3>2
  <2>3. Credit(r, return[r].replacement) \in Int
    BY <2>1, <2>2 DEF Credit
  <2> QED
    BY <2>1, <2>3 DEF AmountToRefund
<1>4. /\ row \in ReturnRow /\ row.status = "COMPLETED" /\ row.of = return[r].of
      /\ row.quantity = return[r].quantity /\ row.amount = return[r].amount
      /\ row.resolution = return[r].resolution /\ row.replacement = return[r].replacement
  BY <1>1, <1>3 DEF ReturnRow, ReturnStatus
<1> HIDE DEF row
<1>5. waiting' \subseteq waiting /\ r \notin waiting'
  BY <1>1, <1>2 DEF ReturnInv
<1>6. /\ row.status \in Reserving /\ return[r].status \in Reserving
      /\ row.resolution = "PARTIAL_REFUND" => row.replacement # 0
      /\ row.resolution = "REFUND" => row.replacement = 0
      /\ row.replacement # 0 => row.status \in {"APPROVED", "COMPLETED"}
  BY <1>1, <1>4 DEF ReturnInv, Reserving
<1>7. CASE return[r].resolution = "REFUND"
  <2>1. Restock(r) /\ return[r].status # "COMPLETED" /\ return[r].replacement = 0
    BY <1>1, <1>7 DEF CompleteRefund, ReturnInv
  <2> QED
    BY <1>1, <1>2, <1>4, <1>5, <1>6, <2>1, GoesOn
<1>8. CASE return[r].resolution = "PARTIAL_REFUND"
  <2>1. UNCHANGED brought /\ return[r].replacement # 0 /\ row.replacement # 0
    BY <1>1, <1>4, <1>8 DEF CompleteRefund, ReturnInv
  <2> QED
    BY <1>1, <1>2, <1>4, <1>5, <1>6, <2>1, GoesOn
<1> QED
  BY <1>1, <1>7, <1>8

LEMMA ReadReturnKeeps ==
  ASSUME ReturnIInv, NEW r \in Returns, ReadReturnNotice(r) PROVE ReturnIInv'
<1> PICK s : s \in Sales /\ s = return[r].of
  BY ReturnRows DEF ReturnIInv
<1>1. /\ return' = return /\ brought' = brought /\ waiting' = waiting \ {r}
      /\ sale' = sale /\ item' = item /\ UNCHANGED discountVars
      /\ SaleReturnTypeOK /\ ReturnInv(r) /\ \A l \in Places : LineSettled(s, l)
  BY DEF ReadReturnNotice, ReturnIInv, discountVars
<1>2. SaleReturnTypeOK' /\ ReturnInv(r)'
  BY <1>1 DEF SaleReturnTypeOK, ReturnInv, Charged
<1>3. ASSUME NEW l \in Places PROVE LineSettled(s, l)'
  <2>1. /\ ReturnsOf(s)' = ReturnsOf(s) /\ Back(s)' = Back(s)
        /\ Paid(s, l)' = Paid(s, l) /\ LinesOf(s)' = LinesOf(s)
    BY <1>1, PaidAlike DEF ReturnsOf, Back
  <2>2. /\ ReturnedUnits(s, l, ReturnsOf(s))' = ReturnedUnits(s, l, ReturnsOf(s))
        /\ ReturnedCents(s, l, ReturnsOf(s))' = ReturnedCents(s, l, ReturnsOf(s))
        /\ ReturnedUnits(s, l, Back(s))' = ReturnedUnits(s, l, Back(s))
    BY <1>1, <2>1 DEF ReturnedUnits, ReturnedCents, Plus
  <2> QED
    BY <1>1, <2>1, <2>2 DEF LineSettled, Charged
<1> QED
  BY <1>1, <1>2, <1>3, OneReturn

LEMMA ReturnStart == SaleReturnInit => ReturnIInv
<1> SUFFICES ASSUME SaleReturnInit PROVE ReturnIInv
  OBVIOUS
<1>0. DiscountIInv /\ DiscountTypeOK
  BY DiscountStart DEF SaleReturnInit, DiscountIInv
<1>1. PICK s \in Sales : return = [r \in Returns |->
          [status |-> "NONE", of |-> s, resolution |-> "REFUND", quantity |-> NoAmounts,
           amount |-> NoAmounts, replacement |-> 0, refund |-> 0]]
  BY DEF SaleReturnInit
<1>2. /\ NoAmounts \in [Places -> 0 .. MaxUnits] /\ NoAmounts \in [Places -> Int]
      /\ NoAmounts \in [Places -> Nat] /\ \A l \in Places : NoAmounts[l] = 0
  BY DiscountAssumption DEF NoAmounts
<1>3. SaleReturnTypeOK
  BY <1>1, <1>2 DEF SaleReturnTypeOK, SaleReturnInit, ReturnRow, ReturnStatus
<1>4. \A r \in Returns : return[r].status = "NONE" /\ ReturnInv(r)
  BY <1>1, <1>2 DEF ReturnInv, Reserving, SaleReturnInit
<1>5. \A x \in Sales : sale[x].status = "NONE" /\ Worth(x)
  BY DEF SaleReturnInit, DiscountInit, Worth
<1>6. ASSUME NEW x \in Sales, NEW l \in Places PROVE LineSettled(x, l)
  <2>1. ReturnsOf(x) = {} /\ Back(x) = {}
    BY <1>4 DEF ReturnsOf, Back, Reserving
  <2>2. ReturnedUnits(x, l, {}) = 0
    BY SumEmpty DEF ReturnedUnits, Plus
  <2>3. brought[x][l] = 0 /\ item[x][l].quantity \in Nat
    BY <1>0, <1>2, SaleRows, DiscountAssumption DEF SaleReturnInit
  <2>4. ~Charged(x)
    BY <1>5 DEF Charged
  <2> QED
    BY <2>1, <2>2, <2>3, <2>4 DEF LineSettled
<1> QED
  BY <1>0, <1>3, <1>4, <1>5, <1>6 DEF ReturnIInv

LEMMA ReturnKeeps ==
  ReturnIInv /\ [SaleReturnNext]_<<discountVars, returnVars>> => ReturnIInv'
<1> SUFFICES ASSUME ReturnIInv, [SaleReturnNext]_<<discountVars, returnVars>>
             PROVE  ReturnIInv'
  OBVIOUS
<1>1. CASE UNCHANGED <<discountVars, returnVars>>
  BY <1>1, SaleSteps
<1>2. CASE DiscountNext /\ UNCHANGED returnVars
  BY <1>2, SaleSteps
<1>3. ASSUME NEW r \in Returns, ApproveReturn(r) \/ CompleteRefund(r) \/ ReadReturnNotice(r)
      PROVE  ReturnIInv'
  BY <1>3, ApproveReturnKeeps, CompleteRefundKeeps, ReadReturnKeeps
<1>4. ASSUME NEW r \in Returns, NEW status \in {"REJECTED", "CANCELLED"}, DropReturn(r, status)
      PROVE  ReturnIInv'
  BY <1>4, DropKeeps
<1>5. ASSUME NEW r \in Returns, NEW total \in ReplacementTotals, ChargeExchange(r, total)
      PROVE  ReturnIInv'
  BY <1>5, ChargeExchangeKeeps
<1>6. ASSUME NEW r \in Returns, NEW units \in [Places -> 0 .. MaxUnits],
             NEW resolution \in {"REFUND", "EXCHANGE"},
             EditReturn(r, units, resolution)
             \/ \E s \in Sales : RequestReturn(r, s, units, resolution)
      PROVE  ReturnIInv'
  BY <1>6, EditReturnKeeps, RequestReturnKeeps
<1> QED
  BY <1>1, <1>2, <1>3, <1>4, <1>5, <1>6 DEF SaleReturnNext, ReturnNext

-----------------------------------------------------------------------------
(* What the invariant says of what is listed *)

\* A line that was not sold is in no return, for no amount.
LEMMA NotSold ==
  ASSUME ReturnIInv, NEW s \in Sales, NEW l \in Places \ LinesOf(s)
  PROVE  ReturnedCents(s, l, ReturnsOf(s)) = 0
<1>a. PICK R : R = ReturnsOf(s)
  OBVIOUS
<1>0. DiscountTypeOK /\ SaleReturnTypeOK /\ R \in SUBSET Returns
  BY <1>a DEF ReturnIInv, DiscountIInv, ReturnsOf
<1>1. item[s][l].quantity = 0
  BY <1>0, SaleRows, DiscountAssumption DEF LinesOf
<1>2. ReturnedUnits(s, l, R) <= 0 /\ ReturnedUnits(s, l, R) \in Nat
  <2>1. ReturnedUnits(s, l, R) \in Nat
    BY <1>0, Listed
  <2> QED
    BY <1>a, <1>1, <2>1 DEF ReturnIInv, LineSettled
<1>3. ASSUME NEW r \in R PROVE return[r].amount[l] = 0
  <2>1. return[r].quantity[l] <= ReturnedUnits(s, l, R) /\ return[r].quantity[l] \in Nat
    BY <1>0, Listed, ReturnRows
  <2>2. return[r].quantity[l] = 0
    BY <1>2, <2>1
  <2> QED
    BY <1>0, <2>2 DEF ReturnIInv, ReturnInv
<1> DEFINE a == [r \in Returns |-> return[r].amount[l]]
<1>4. IsFiniteSet(R) /\ \A r \in R : a[r] = 0
  BY <1>0, <1>3, SaleReturnAssumption, FS_Subset
<1>5. ReturnedCents(s, l, R) = SumFunctionOnSet(a, R)
  BY DEF ReturnedCents, Plus
<1> HIDE DEF a
<1>6. SumFunctionOnSet(a, R) = 0
  BY <1>4, SumZero
<1> QED
  BY <1>a, <1>5, <1>6

\* By returns or by lines, the cents listed are the same.
LEMMA ByLine ==
  ASSUME SaleReturnTypeOK, NEW s \in Sales, NEW R \in SUBSET Returns
  PROVE  Plus([r \in Returns |-> TotalReturned(r)], R)
           = Plus([l \in Places |-> ReturnedCents(s, l, R)], Places)
<1>a. PICK F : F = [r \in Returns |-> return[r].amount]
  OBVIOUS
<1>b. PICK G : G = [l \in Places |-> [r \in Returns |-> return[r].amount[l]]]
  OBVIOUS
<1>c. PICK row : row = [r \in Returns |-> TotalReturned(r)]
  OBVIOUS
<1>d. PICK col : col = [l \in Places |-> ReturnedCents(s, l, R)]
  OBVIOUS
<1>e. PICK T : T = Places
  OBVIOUS
<1>0. IsFiniteSet(R)
  BY SaleReturnAssumption, FS_Subset
<1>1. IsFiniteSet(T)
  BY <1>e, PlacesFinite
<1>2. Transposed(F, G, R, T)
  BY <1>a, <1>b, <1>e, ReturnRows DEF Transposed
<1>3. \A r \in R : row[r] = SumFunctionOnSet(F[r], T)
  BY <1>a, <1>c, <1>e DEF TotalReturned, Plus
<1>4. \A l \in T : col[l] = SumFunctionOnSet(G[l], R)
  BY <1>b, <1>d, <1>e DEF ReturnedCents, Plus
<1>5. SumFunctionOnSet(row, R) = SumFunctionOnSet(col, T)
  BY <1>0, <1>1, <1>2, <1>3, <1>4, SumSwap
<1> QED
  BY <1>5, <1>c, <1>d, <1>e DEF Plus

LEMMA AllPaid ==
  ASSUME ReturnIInv PROVE AllReturnedIsAllPaid
<1> SUFFICES ASSUME NEW s \in Sales, sale[s].status = "COMPLETED",
                    \A l \in LinesOf(s) : ReturnedUnits(s, l, ReturnsOf(s)) = item[s][l].quantity
             PROVE  Plus([r \in Returns |-> TotalReturned(r)], ReturnsOf(s)) = Total(s)
  BY DEF AllReturnedIsAllPaid
<1>a. PICK R : R = ReturnsOf(s)
  OBVIOUS
<1>b. PICK L : L = LinesOf(s)
  OBVIOUS
<1> DEFINE col == [l \in Places |-> ReturnedCents(s, l, R)]
           paid == [l \in Places |-> Paid(s, l)]
<1>0. /\ SaleReturnTypeOK /\ DiscountTypeOK /\ Worth(s) /\ R \in SUBSET Returns
      /\ IsFiniteSet(Places) /\ IsFiniteSet(L) /\ L \in SUBSET Places
  BY <1>a, <1>b, PlacesFinite DEF ReturnIInv, DiscountIInv, ReturnsOf
<1>1. \A l \in Places : col[l] \in Int
  BY <1>0, Listed
<1>2. \A l \in L : col[l] = paid[l]
  <2> SUFFICES ASSUME NEW l \in L PROVE ReturnedCents(s, l, R) = Paid(s, l)
    BY <1>0
  <2>1. LineSettled(s, l)
    BY <1>0 DEF ReturnIInv
  <2> QED
    BY <1>a, <1>b, <2>1 DEF LineSettled, Charged
<1>3. \A l \in Places \ L : col[l] = 0
  BY <1>a, <1>b, NotSold
<1>4. Plus([l \in Places |-> Paid(s, l)], L) = Total(s)
  BY <1>0, <1>b, Shares
<1>5. Plus([r \in Returns |-> TotalReturned(r)], R) = Plus(col, Places)
  BY <1>0, ByLine
<1>6. Plus(paid, L) = Total(s)
  BY <1>4
<1> HIDE DEF col, paid
<1>7. SumFunctionOnSet(col, Places) = SumFunctionOnSet(col, L) + SumFunctionOnSet(col, Places \ L)
  BY <1>0, <1>1, SumSplit
<1>8. SumFunctionOnSet(col, Places \ L) = 0
  <2>1. IsFiniteSet(Places \ L)
    BY <1>0, FS_Subset
  <2> QED
    BY <1>3, <2>1, SumZero
<1>9. SumFunctionOnSet(col, L) = SumFunctionOnSet(paid, L)
  BY <1>0, <1>2, SumSame
<1>10. SumFunctionOnSet(col, L) \in Int
  BY <1>0, <1>1, SumType
<1>11. Plus(col, Places) = Plus(paid, L)
  BY <1>7, <1>8, <1>9, <1>10 DEF Plus
<1> QED
  BY <1>a, <1>5, <1>6, <1>11

\* The returns that are settled list no more than those that count.
LEMMA BackIsListed ==
  ASSUME SaleReturnTypeOK, NEW s \in Sales, NEW l \in Places
  PROVE  /\ ReturnedUnits(s, l, Back(s)) <= ReturnedUnits(s, l, ReturnsOf(s))
         /\ ReturnedUnits(s, l, ReturnsOf(s)) \in Nat
<1>a. PICK R : R = ReturnsOf(s)
  OBVIOUS
<1>b. PICK B : B = Back(s)
  OBVIOUS
<1> DEFINE q == [r \in Returns |-> return[r].quantity[l]]
<1>1. R \in SUBSET Returns /\ B \in SUBSET R /\ IsFiniteSet(R) /\ IsFiniteSet(R \ B)
  BY <1>a, <1>b, SaleReturnAssumption, FS_Subset DEF ReturnsOf, Back
<1>2. \A r \in R : q[r] \in Nat /\ q[r] \in Int
  BY <1>1, ReturnRows
<1>3. \A T : ReturnedUnits(s, l, T) = SumFunctionOnSet(q, T)
  BY DEF ReturnedUnits, Plus
<1> HIDE DEF q
<1>4. SumFunctionOnSet(q, R) = SumFunctionOnSet(q, B) + SumFunctionOnSet(q, R \ B)
  BY <1>1, <1>2, SumSplit
<1>5. SumFunctionOnSet(q, R \ B) \in Nat /\ SumFunctionOnSet(q, R) \in Nat
  BY <1>1, <1>2, SumNat
<1>6. SumFunctionOnSet(q, B) \in Int
  <2>1. IsFiniteSet(B)
    BY <1>1, FS_Subset
  <2> QED
    BY <1>1, <1>2, <2>1, SumType
<1> QED
  BY <1>a, <1>b, <1>3, <1>4, <1>5, <1>6

LEMMA AddsUp ==
  ASSUME ReturnIInv PROVE ReturnsAddUp /\ RequestNoticesAskForALiveStep
<1>0. SaleReturnTypeOK /\ DiscountIInv
  BY DEF ReturnIInv
<1>1. NeverMoreThanSold
  <2> SUFFICES ASSUME NEW s \in Sales, NEW l \in Places
               PROVE  /\ brought[s][l] <= ReturnedUnits(s, l, ReturnsOf(s))
                      /\ ReturnedUnits(s, l, ReturnsOf(s)) <= item[s][l].quantity
    BY DEF NeverMoreThanSold
  <2>1. LineSettled(s, l)
    BY DEF ReturnIInv
  <2>2. /\ ReturnedUnits(s, l, Back(s)) <= ReturnedUnits(s, l, ReturnsOf(s))
        /\ ReturnedUnits(s, l, ReturnsOf(s)) \in Nat
    BY <1>0, BackIsListed
  <2> QED
    BY <2>1, <2>2 DEF LineSettled
<1>2. BroughtBackOnce
  <2> SUFFICES ASSUME NEW s \in Sales, NEW l \in Places \ Generic
               PROVE  brought[s][l] = ReturnedUnits(s, l, Back(s))
    BY DEF BroughtBackOnce, Back
  <2> QED
    BY DEF ReturnIInv, LineSettled
<1>3. RequestNoticesAskForALiveStep
  <2>1. \A r \in waiting : return[r].status = "PENDING"
    BY <1>0 DEF ReturnIInv, ReturnInv, SaleReturnTypeOK
  <2> QED
    BY <1>0, <2>1, ApprovedAddUp DEF RequestNoticesAskForALiveStep
<1> QED
  BY <1>0, <1>1, <1>2, <1>3, AllPaid DEF ReturnsAddUp

-----------------------------------------------------------------------------
(* The specifications *)

\* In every reachable state of the drafts, the request that is active is alone
\* on its sale, and amounts and lines agree with what it says.
THEOREM DiscountInvariance == DiscountSpec => []DiscountIInv
<1>1. DiscountIInv /\ [DiscountNext]_discountVars => DiscountIInv'
  BY DiscountKeeps
<1> QED
  BY DiscountStart, <1>1, PTL DEF DiscountSpec

\* Only what was approved is discounted, never over the cap, and the trigger of
\* the requests has nothing to refuse: of any number of sales and requests, for
\* any amounts.
THEOREM OnlyApprovedIsDiscounted == DiscountSpec => DiscountsHold
<1>1. DiscountIInv => DiscountTypeOK /\ DiscountIsTheApproved /\ CapHolds
  BY ApprovedAddUp DEF DiscountIInv
<1>2. DiscountIInv /\ [DiscountNext]_discountVars
      => [\A r \in Requests : DiscountRequestsGuard(r)]_discountVars
  BY GuardSilent
<1> QED
  BY DiscountInvariance, <1>1, <1>2, PTL DEF DiscountSpec, DiscountsHold

\* Returns only ask for sales that were charged, and what they list of a line
\* completes it for what was paid for it.
THEOREM ReturnInvariance == SaleReturnSpec => []ReturnIInv
<1>1. ReturnIInv /\ [SaleReturnNext]_<<discountVars, returnVars>> => ReturnIInv'
  BY ReturnKeeps
<1> QED
  BY ReturnStart, <1>1, PTL DEF SaleReturnSpec

\* No step of a return writes the sale: the returns keep what DiscountSpec says.
THEOREM ReturnsLeaveTheSale == SaleReturnSpec => DiscountSpec
<1>1. SaleReturnInit => DiscountInit
  BY DEF SaleReturnInit
<1>2. [SaleReturnNext]_<<discountVars, returnVars>> => [DiscountNext]_discountVars
  BY DEF SaleReturnNext, ReturnNext, ApproveReturn, CompleteRefund, ReadReturnNotice, DropReturn,
         ChargeExchange, EditReturn, RequestReturn
<1> QED
  BY <1>1, <1>2, PTL DEF SaleReturnSpec, DiscountSpec

\* What was sold comes back once, in any number of returns and edits, and the
\* returns that complete a sale are worth its total, to the cent.
THEOREM ReturnsAlwaysAddUp == SaleReturnSpec => []ReturnsAddUp
<1>1. ReturnIInv => ReturnsAddUp
  BY AddsUp
<1> QED
  BY ReturnInvariance, <1>1, PTL

\* No phantom card of a discount or of a return.
THEOREM RequestNoticesAreAlive == SaleReturnSpec => []RequestNoticesAskForALiveStep
<1>1. ReturnIInv => RequestNoticesAskForALiveStep
  BY AddsUp
<1> QED
  BY ReturnInvariance, <1>1, PTL

\* Together: a behaviour of the documents is one of the purchases and one of
\* the sales, which share no state.
THEOREM DocumentsAreBoth == DocumentsSpec => PurchaseSpec /\ SaleReturnSpec
<1>1. DocumentsInit => PurchaseInit /\ SaleReturnInit
  BY DEF DocumentsInit
<1>2. [DocumentsNext]_<<family, purchaseVars, discountVars, returnVars>>
      => [PurchaseNext]_purchaseVars
  BY DEF DocumentsNext
<1>3. [DocumentsNext]_<<family, purchaseVars, discountVars, returnVars>>
      => [SaleReturnNext]_<<discountVars, returnVars>>
  BY DEF DocumentsNext
<1> QED
  BY <1>1, <1>2, <1>3, PTL DEF DocumentsSpec, PurchaseSpec, SaleReturnSpec

\* No phantom card of any document: a notice that is still pending asks for a
\* step that can still be given.
THEOREM NoticesAreAlive == DocumentsSpec => []NoticesAskForALiveStep
<1>1. PurchaseNoticesAskForALiveStep /\ RequestNoticesAskForALiveStep => NoticesAskForALiveStep
  BY DEF NoticesAskForALiveStep
<1> QED
  BY DocumentsAreBoth, PurchaseNoticesAlive, RequestNoticesAreAlive, <1>1, PTL

=============================================================================
