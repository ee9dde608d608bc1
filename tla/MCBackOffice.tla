----------------------------- MODULE MCBackOffice -----------------------------
(* Staff, Outbox, Restock, Catalogue and Handover on small instances.  They  *)
(* share no state, so a behaviour works on a part of one of them, chosen at  *)
(* the start: their states add up instead of multiplying.                    *)
EXTENDS Staff, Outbox, Restock, Catalogue, Handover, TLC

CONSTANTS A, governor, collector, p1, chat, v1, v2, m1, shoe, Nike, nike,
          seller, packer, second, carrier, courier, admin

VARIABLE family

allVars == <<family, staffVars, outboxVars, restockVars, catalogueVars, handoverVars>>

Owner1 == [s \in Stores |-> A]
Seed == [co \in Companies |->
            [r \in Roles |-> IF r = governor THEN Permissions ELSE {"cash.register_payment"}]]

OneUser == [l \in Listeners |-> p1]
OnlyChat == [l \in Listeners |-> {chat}]

TwoBoxes == [w \in Warehouses |-> 2]
OneModel == [v \in Sizes |-> m1]
OnTheShelf == [v \in Sizes |-> IF v = v1 THEN 2 ELSE 1]
\* The second size has run out: it is replaced by the first.
InTheBoxes == [b \in Boxes |-> [v \in Sizes |-> IF v # v1 THEN 0 ELSE IF b[2] = 1 THEN 2 ELSE 1]]

OneProduct == [v \in Variants |-> shoe]
SameName == [s \in Spellings |-> Nike]

\* Two keepers and two runners compete for an order.
Granted ==
    [u \in Hands |->
        CASE u = seller -> {"REQUEST", "CONFIRM_RECEIPT", "CHARGE"}
          [] u \in {packer, second} -> RETURNS_DESK
          [] u \in {carrier, courier} -> {"PICKUP", "CONFIRM_DELIVERY", "REPORT_INCIDENT"}
          [] OTHER -> OrderPermissions]
Assigned == {<<seller, Store>>, <<packer, Depot>>, <<second, Depot>>,
             <<carrier, Depot>>, <<courier, Store>>}
Moves == {<<carrier, Depot>>}

\* The same values stand for requests, transactions and editors.
Alike == Permutations(Users) \cup Permutations(Clients)

BackOfficeInit ==
    /\ family \in {"ADMIN", "COUNTER", "SIGNAL", "PUSH", "CHARGE", "CARRY", "BACK", "TREE", "REFERENCE", "NAME",
                  "ORDER", "TROUBLE"}
    /\ StaffInit /\ grant = Seed
    /\ \A u \in Users : \A r \in Roles : role[A][u][r] # "INACTIVE"
    /\ family # "ADMIN" =>
           \A u \in Users : \A r \in Roles : role[A][u][r] = "ACTIVE"
    /\ OutboxInit /\ RestockInit /\ CatalogueInit /\ HandoverInit
    /\ family \notin {"ORDER", "TROUBLE"} => order.status = "NONE" /\ order.requestedBy = seller

OneCharge ==
    \E c \in Charges : (\E units \in [Sizes -> 0 .. MaxSold] : Choose(c, units)) \/ Plan(c) \/ Charged(c)

\* A box is deactivated while a runner is picking up from it.
BoxGoes ==
    \E b \in Boxes, o \in Orders :
        picking[o] # 0 /\ restock[o].at = b /\ box[b] /\ SwitchBox(b)

BackOfficeNext ==
    /\ UNCHANGED family
    /\ \/ /\ \/ family = "ADMIN" /\ (AccountStep \/ RoleStep(Governs))
             \/ family = "COUNTER" /\ (AccountStep \/ CounterStep)
          /\ UNCHANGED <<outboxVars, restockVars, catalogueVars, handoverVars>>
       \/ /\ \/ family = "SIGNAL" /\ SignalStep
             \/ family = "PUSH" /\ PushStep
          /\ UNCHANGED <<staffVars, restockVars, catalogueVars, handoverVars>>
       \/ /\ \/ family = "CHARGE" /\ ChargeStep
             \/ family = "CARRY" /\ (OneCharge \/ PrepareStep \/ CarryStep \/ BoxGoes)
             \/ family = "BACK" /\ (OneCharge \/ PrepareStep \/ BackStep)
          /\ UNCHANGED <<staffVars, outboxVars, catalogueVars, handoverVars>>
       \/ /\ \/ family = "TREE" /\ TreeStep
             \/ family = "REFERENCE" /\ ReferenceStep
             \/ family = "NAME" /\ NameStep
          /\ UNCHANGED <<staffVars, outboxVars, restockVars, handoverVars>>
       \/ /\ \/ family = "ORDER" /\ (FlowStep \/ DeskStep)
             \/ family = "TROUBLE" /\ (FlowStep \/ TroubleStep)
          /\ UNCHANGED <<staffVars, outboxVars, restockVars, catalogueVars>>

BackOfficeSpec == BackOfficeInit /\ [][BackOfficeNext]_allVars
=============================================================================
