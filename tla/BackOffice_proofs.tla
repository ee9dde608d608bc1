-------------------------- MODULE BackOffice_proofs --------------------------
(***************************************************************************)
(* Proofs about what surrounds the documents: who governs a company and    *)
(* attends its counters (Staff), through whose hands an order goes         *)
(* (Handover), the tree, references and names of the catalogue             *)
(* (Catalogue), and what refills the counter of a store (Restock), for any *)
(* number of people, companies, roles, stores, permissions, posts, rows,   *)
(* requests, warehouses, boxes, sizes, orders, bags and charges.           *)
(*                                                                         *)
(* Staff.  What is known of a transaction in progress is what its locks    *)
(* protect: that somebody still administers the company after its commit,  *)
(* while no other removes anybody from it (PeopleInv); that the register,  *)
(* the store and the access of an opening stay in force (CounterInv).      *)
(*                                                                         *)
(* Handover.  What the properties need beyond themselves is who holds the  *)
(* order at each stage of its flow (HandsInv).  The flows are known        *)
(* through what each of their steps does (FlowFacts), and an operation     *)
(* through what it leaves in the row and in the inbox.                     *)
(*                                                                         *)
(* Catalogue.  A move that is alone looks at the tree it will change: what *)
(* it decided goes on being so (MoveInv), and so do what a deletion read   *)
(* (DeleteInv) and a name that was free (NameInv).  That the tree has no   *)
(* cycle is said of sets of categories (Acyclic).                          *)
(*                                                                         *)
(* Restock.  A charge keeps, from its reading to its reservation, that     *)
(* each line has a warehouse or somebody to be told (ChargeInv).  Until a  *)
(* bag is disturbed, one is in use at most, counting those that pick-ups   *)
(* looked for, and all that is carried is in it (BagInv).  The plan of a   *)
(* charge and the orders that fall are recursions over sets: that they     *)
(* exist is shown on the smallest set they would not be there for          *)
(* (PlanExists, FallingExists).                                            *)
(***************************************************************************)
EXTENDS Staff, Handover, Catalogue, Restock, Sums, TLAPS

-----------------------------------------------------------------------------
(* Staff *)

Pending(c) == working[c] # None /\ working[c].op \in Leaving

AdminsAfter(t) == AdminsIf(t.in, AccountsAfter(t), RolesAfter(t), GrantsAfter(t))

\* What a request that was let in knows of the account it is about.
AskedInv(c) ==
    asked[c] # None /\ asked[c].op = "ACCOUNT" /\ asked[c].checked =>
        IsMember(asked[c].in, asked[c].user)

\* What a transaction that takes somebody away knows until it commits.
PendingInv(c) ==
    Pending(c) =>
        LET t == working[c] IN
        /\ t.op # "REMOVE_PERMISSION" => t.user \in Users /\ IsMember(t.in, t.user)
        /\ t.op # "DEACTIVATE" => t.role \in Roles
        /\ OfItsOwn(t.in) => AdminsAfter(t) # {}

PeopleInv ==
    /\ \A u \in Users : account[u] = "NONE" => \A co \in Companies : ~IsMember(co, u)
    /\ \A c \in Clients : AskedInv(c) /\ PendingInv(c)
    /\ \A c, d \in Clients : c # d /\ Pending(c) /\ Pending(d) => working[c].in # working[d].in
    /\ CompanyKeepsAnAdmin

\* An opening holds its register, which nobody takes out of service meanwhile.
OpeningInv(c) ==
    working[c] # None /\ working[c].op = "OPEN" =>
        \E k \in Registers :
            /\ working[c].registers = {k} /\ working[c].user \in Users
            /\ register[k[1]][k[2]] = "ACTIVE" /\ store[k[1]] = "ACTIVE"
            /\ k \notin late => access[k[1]][working[c].user] = "ACTIVE"

\* A removal holds every register of its store but those created after it began.
RemovingInv(c) ==
    working[c] # None /\ working[c].op = "REMOVE_ACCESS" =>
        \E s \in Stores :
            /\ working[c].user \in Users
            /\ working[c].registers # {} /\ working[c].registers \subseteq RegistersOf(s)
            /\ RegistersOf(s) \subseteq working[c].registers \cup late
            /\ \A k \in working[c].registers : shift[k] # working[c].user

CounterInv ==
    /\ \A c \in Clients : OpeningInv(c) /\ RemovingInv(c)
    /\ \A c, d \in Clients :
           c # d /\ working[c] # None /\ working[d] # None =>
               working[c].registers \cap working[d].registers = {}
    /\ \A s \in Stores : store[s] = "NONE" => RegistersOf(s) = {}
    /\ OpenShiftInService /\ CashierWorksThere

StaffIInv == StaffTypeOK /\ PeopleInv /\ CounterInv

-----------------------------------------------------------------------------
(* Types *)

LEMMA AfterTypes ==
  ASSUME StaffTypeOK, NEW t \in WorkingRow
  PROVE  /\ AccountsAfter(t) \in [Users -> Status]
         /\ RolesAfter(t) \in [Companies -> [Users -> [Roles -> Status]]]
         /\ GrantsAfter(t) \in [Companies -> [Roles -> SUBSET Permissions]]
<1>1. /\ account \in [Users -> Status]
      /\ role \in [Companies -> [Users -> [Roles -> Status]]]
      /\ grant \in [Companies -> [Roles -> SUBSET Permissions]]
  BY DEF StaffTypeOK
<1>2. AccountsAfter(t) \in [Users -> Status]
  BY <1>1 DEF AccountsAfter, Status
<1>3. RolesAfter(t) \in [Companies -> [Users -> [Roles -> Status]]]
  <2> DEFINE f == role[t.in]
             g == f[t.user]
             g1 == [g EXCEPT ![t.role] = "INACTIVE"]
             g2 == [r \in Roles |-> IF r = t.role THEN "ACTIVE"
                                    ELSE IF g[r] = "ACTIVE" THEN "INACTIVE" ELSE g[r]]
  <2>1. t.in \in Companies /\ f \in [Users -> [Roles -> Status]]
    BY <1>1 DEF WorkingRow
  <2>2. ASSUME t.user \in Users
        PROVE  g1 \in [Roles -> Status] /\ g2 \in [Roles -> Status]
    <3>1. g \in [Roles -> Status]
      BY <2>1, <2>2
    <3> QED
      BY <3>1 DEF Status
  <2> HIDE DEF f, g1, g2
  <2>3. /\ [f EXCEPT ![t.user] = g1] \in [Users -> [Roles -> Status]]
        /\ [f EXCEPT ![t.user] = g2] \in [Users -> [Roles -> Status]]
    BY <2>1, <2>2
  <2>4. /\ [role EXCEPT ![t.in] = [f EXCEPT ![t.user] = g1]]
              \in [Companies -> [Users -> [Roles -> Status]]]
        /\ [role EXCEPT ![t.in] = [f EXCEPT ![t.user] = g2]]
              \in [Companies -> [Users -> [Roles -> Status]]]
    BY <1>1, <2>1, <2>3
  <2>5. RolesAfter(t) \in {role, [role EXCEPT ![t.in] = [f EXCEPT ![t.user] = g1]],
                           [role EXCEPT ![t.in] = [f EXCEPT ![t.user] = g2]]}
    BY <1>1, <2>1 DEF RolesAfter, f, g1, g2
  <2> QED
    BY <1>1, <2>4, <2>5
<1>4. GrantsAfter(t) \in [Companies -> [Roles -> SUBSET Permissions]]
  BY <1>1 DEF GrantsAfter
<1> QED
  BY <1>2, <1>3, <1>4

LEMMA BeginTypes ==
  ASSUME StaffTypeOK, NEW c \in Clients, NEW t \in WorkingRow, Begin(c, t)
  PROVE  StaffTypeOK'
<1>1. UNCHANGED <<account, role, grant, store, register, access, shift, late>>
  BY DEF Begin, accountVars, counterVars
<1>2. /\ working' \in [Clients -> WorkingRow \cup {None}]
      /\ asked' \in [Clients -> AskedRow \cup {None}]
  BY DEF Begin, StaffTypeOK
<1> QED
  BY <1>1, <1>2 DEF StaffTypeOK

LEMMA AccountStepTypes ==
  ASSUME StaffTypeOK, AccountStep
  PROVE  StaffTypeOK'
<1> PICK c \in Clients :
        \/ \E co \in Companies, actor \in Users, u \in Users : AskAccount(c, co, actor, u)
        \/ Refuse(c) \/ Deactivate(c) \/ Activate(c) \/ CommitLeaving(c)
  BY DEF AccountStep
<1>1. ASSUME NEW co \in Companies, NEW actor \in Users, NEW u \in Users,
             AskAccount(c, co, actor, u)
      PROVE  StaffTypeOK'
  <2> DEFINE a == [op |-> "ACCOUNT", in |-> co, by |-> actor, holds |-> Codes(co, actor),
                   user |-> u, checked |-> Manageable(co, actor, Codes(co, actor), u)]
  <2>1. Codes(co, actor) \in SUBSET Permissions
    BY DEF Codes, StaffTypeOK
  <2>2. Manageable(co, actor, Codes(co, actor), u) \in BOOLEAN
    BY DEF Manageable
  <2>3. a \in AskedRow
    BY <2>1, <2>2 DEF AskedRow
  <2>4. asked' = [asked EXCEPT ![c] = a] /\ UNCHANGED <<accountVars, working, counterVars>>
    BY <1>1 DEF AskAccount
  <2> HIDE DEF a
  <2> QED
    BY <2>3, <2>4 DEF StaffTypeOK, accountVars, counterVars
<1>2. CASE Refuse(c)
  BY <1>2 DEF Refuse, StaffTypeOK, accountVars, counterVars
<1>3. CASE Deactivate(c)
  <2>1. asked[c] \in AskedRow
    BY <1>3 DEF Deactivate, Asking, StaffTypeOK
  <2>2. Change(c, "DEACTIVATE", asked[c].user, None, None) \in WorkingRow
    BY <2>1 DEF Change, WorkingRow, AskedRow
  <2> QED
    BY <1>3, <2>2, BeginTypes DEF Deactivate
<1>4. CASE Activate(c)
  BY <1>4 DEF Activate, Done, StaffTypeOK, accountVars, counterVars, Status
<1>5. CASE CommitLeaving(c)
  <2>1. working[c] \in WorkingRow
    BY <1>5 DEF CommitLeaving, StaffTypeOK
  <2> QED
    BY <1>5, <2>1, AfterTypes DEF CommitLeaving, StaffTypeOK, counterVars
<1> QED
  BY <1>1, <1>2, <1>3, <1>4, <1>5

LEMMA RoleStepTypes ==
  ASSUME StaffTypeOK, RoleStep(Permissions)
  PROVE  StaffTypeOK'
<1> PICK c \in Clients, r \in Roles :
        \/ ChangeRole(c, r) \/ RemoveRole(c, r) \/ CreateUser(c, r) \/ AddRole(c, r)
        \/ \E p \in Permissions : RemovePermission(c, r, p) \/ GrantPermission(c, r, p)
  BY DEF RoleStep
<1>0. ASSUME asked[c] # None PROVE asked[c] \in AskedRow
  BY <1>0 DEF StaffTypeOK
<1>1. CASE ChangeRole(c, r)
  <2>1. asked[c] \in AskedRow
    BY <1>0, <1>1 DEF ChangeRole, Asking
  <2>2. Change(c, "CHANGE_ROLE", asked[c].user, r, None) \in WorkingRow
    BY <2>1 DEF Change, WorkingRow, AskedRow
  <2> QED
    BY <1>1, <2>2, BeginTypes DEF ChangeRole
<1>2. CASE RemoveRole(c, r)
  <2>1. asked[c] \in AskedRow
    BY <1>0, <1>2 DEF RemoveRole, Asking
  <2>2. Change(c, "REMOVE_ROLE", asked[c].user, r, None) \in WorkingRow
    BY <2>1 DEF Change, WorkingRow, AskedRow
  <2> QED
    BY <1>2, <2>2, BeginTypes DEF RemoveRole
<1>3. CASE CreateUser(c, r)
  <2>0. asked[c].in \in Companies /\ asked[c].user \in Users
    BY <1>0, <1>3 DEF CreateUser, Asking, AskedRow
  <2>1. /\ account' \in [Users -> Status]
        /\ role' \in [Companies -> [Users -> [Roles -> Status]]]
    BY <1>3, <2>0 DEF CreateUser, StaffTypeOK, Status
  <2> QED
    BY <1>3, <2>1 DEF CreateUser, Done, StaffTypeOK, counterVars
<1>4. CASE AddRole(c, r)
  <2>0. asked[c].in \in Companies /\ asked[c].user \in Users
    BY <1>0, <1>4 DEF AddRole, Asking, AskedRow
  <2>1. role' \in [Companies -> [Users -> [Roles -> Status]]]
    BY <1>4, <2>0 DEF AddRole, StaffTypeOK, Status
  <2> QED
    BY <1>4, <2>1 DEF AddRole, Done, StaffTypeOK, counterVars
<1>5. ASSUME NEW p \in Permissions, RemovePermission(c, r, p)
      PROVE  StaffTypeOK'
  <2>1. asked[c] \in AskedRow
    BY <1>0, <1>5 DEF RemovePermission, Asking
  <2>2. Change(c, "REMOVE_PERMISSION", None, r, p) \in WorkingRow
    BY <2>1 DEF Change, WorkingRow, AskedRow
  <2> QED
    BY <1>5, <2>2, BeginTypes DEF RemovePermission
<1>6. ASSUME NEW p \in Permissions, GrantPermission(c, r, p)
      PROVE  StaffTypeOK'
  <2>0. asked[c].in \in Companies
    BY <1>0, <1>6 DEF GrantPermission, Asking, AskedRow
  <2>1. grant' \in [Companies -> [Roles -> SUBSET Permissions]]
    BY <1>6, <2>0 DEF GrantPermission, StaffTypeOK
  <2> QED
    BY <1>6, <2>1 DEF GrantPermission, Done, StaffTypeOK, counterVars
<1> QED
  BY <1>1, <1>2, <1>3, <1>4, <1>5, <1>6

LEMMA CounterStepTypes ==
  ASSUME StaffTypeOK, CounterStep
  PROVE  StaffTypeOK'
<1>1. ASSUME NEW s \in Stores,
             \/ CreateStore(s) \/ \E n \in Numbers : CreateRegister(s, n)
             \/ DeactivateStore(s) \/ ActivateStore(s)
             \/ \E u \in Users : GiveAccess(s, u)
      PROVE  StaffTypeOK'
  <2>1. UNCHANGED <<account, role, grant, asked, working, shift>>
    BY <1>1 DEF CreateStore, CreateRegister, DeactivateStore, ActivateStore, GiveAccess,
                UnchangedPeople, accountVars
  <2>2. CASE CreateStore(s)
    BY <2>1, <2>2, StaffAssumption DEF CreateStore, StaffTypeOK, Status, Numbers
  <2>3. ASSUME NEW n \in Numbers, CreateRegister(s, n) PROVE StaffTypeOK'
    <3>1. late' \subseteq Registers
      BY <2>3 DEF CreateRegister, StaffTypeOK, Registers
    <3> QED
      BY <2>1, <2>3, <3>1 DEF CreateRegister, StaffTypeOK, Status
  <2>4. CASE DeactivateStore(s) \/ ActivateStore(s)
    BY <2>1, <2>4 DEF DeactivateStore, ActivateStore, StaffTypeOK, Status
  <2>5. ASSUME NEW u \in Users, GiveAccess(s, u) PROVE StaffTypeOK'
    BY <2>1, <2>5 DEF GiveAccess, StaffTypeOK, Status
  <2> QED
    BY <1>1, <2>2, <2>3, <2>4, <2>5
<1>2. ASSUME NEW c \in Clients, NEW s \in Stores, NEW u \in Users, RemoveAccess(c, s, u)
      PROVE  StaffTypeOK'
  <2>1. [op |-> "REMOVE_ACCESS", in |-> Owner[s], user |-> u, role |-> None,
         permission |-> None, registers |-> RegistersOf(s)] \in WorkingRow
    BY StaffAssumption DEF WorkingRow, RegistersOf
  <2> QED
    BY <1>2, <2>1 DEF RemoveAccess, StaffTypeOK, accountVars, counterVars
<1>3. ASSUME NEW k \in Registers,
             DeactivateRegister(k) \/ ActivateRegister(k) \/ CloseShift(k)
      PROVE  StaffTypeOK'
  <2>1. k[1] \in Stores /\ k[2] \in Numbers
    BY DEF Registers
  <2>2. UNCHANGED <<account, role, grant, asked, working, store, access, late>>
    BY <1>3 DEF DeactivateRegister, ActivateRegister, CloseShift, UnchangedPeople, accountVars
  <2>3. register' \in [Stores -> [Numbers -> Status]]
    <3> DEFINE f == register[k[1]]
               off == [f EXCEPT ![k[2]] = "INACTIVE"]
               on == [f EXCEPT ![k[2]] = "ACTIVE"]
    <3>1. f \in [Numbers -> Status] /\ register \in [Stores -> [Numbers -> Status]]
      BY <2>1 DEF StaffTypeOK
    <3>2. off \in [Numbers -> Status] /\ on \in [Numbers -> Status]
      BY <3>1 DEF Status
    <3>3. register' \in {register, [register EXCEPT ![k[1]] = off],
                        [register EXCEPT ![k[1]] = on]}
      BY <1>3 DEF DeactivateRegister, ActivateRegister, CloseShift
    <3> HIDE DEF f, off, on
    <3> QED
      BY <2>1, <3>1, <3>2, <3>3
  <2>4. shift' \in [Registers -> Users \cup {None}]
    BY <1>3 DEF DeactivateRegister, ActivateRegister, CloseShift, StaffTypeOK
  <2> QED
    BY <2>2, <2>3, <2>4 DEF StaffTypeOK
<1>4. ASSUME NEW c \in Clients, NEW co \in Companies, NEW u \in Users, AskOpening(c, co, u)
      PROVE  StaffTypeOK'
  <2>1. [op |-> "OPENING", in |-> co, by |-> None, holds |-> {}, user |-> u, checked |-> TRUE]
           \in AskedRow
    BY DEF AskedRow
  <2> QED
    BY <1>4, <2>1 DEF AskOpening, StaffTypeOK, accountVars, counterVars
<1>5. ASSUME NEW c \in Clients, NEW k \in Registers, BeginOpening(c, k)
      PROVE  StaffTypeOK'
  <2>1. asked[c].in \in Companies /\ asked[c].user \in Users
    BY <1>5 DEF BeginOpening, StaffTypeOK, AskedRow
  <2>2. [op |-> "OPEN", in |-> asked[c].in, user |-> asked[c].user, role |-> None,
         permission |-> None, registers |-> {k}] \in WorkingRow
    BY <2>1 DEF WorkingRow
  <2> QED
    BY <1>5, <2>2 DEF BeginOpening, StaffTypeOK, accountVars, counterVars
<1>6. ASSUME NEW c \in Clients, CommitOpening(c) PROVE StaffTypeOK'
  <2>1. working[c].user \in Users \cup {None}
    BY <1>6 DEF CommitOpening, StaffTypeOK, WorkingRow
  <2>2. shift' \in [Registers -> Users \cup {None}]
    BY <1>6, <2>1 DEF CommitOpening, StaffTypeOK
  <2> QED
    BY <1>6, <2>2 DEF CommitOpening, StaffTypeOK, accountVars
<1>7. ASSUME NEW c \in Clients, CommitAccess(c) PROVE StaffTypeOK'
  <2>0. ASSUME NEW s \in Stores
        PROVE  [access[s] EXCEPT ![working[c].user] = "INACTIVE"] \in [Users -> Status]
    BY DEF StaffTypeOK, Status
  <2>1. access' \in [Stores -> [Users -> Status]]
    BY <1>7, <2>0 DEF CommitAccess, StaffTypeOK
  <2> QED
    BY <1>7, <2>1 DEF CommitAccess, StaffTypeOK, accountVars
<1> QED
  BY <1>1, <1>2, <1>3, <1>4, <1>5, <1>6, <1>7 DEF CounterStep

LEMMA TypeStep == StaffTypeOK /\ [StaffNext]_staffVars => StaffTypeOK'
<1>1. ASSUME StaffTypeOK, UNCHANGED staffVars PROVE StaffTypeOK'
  BY <1>1 DEF StaffTypeOK, staffVars
<1> QED
  BY <1>1, AccountStepTypes, RoleStepTypes, CounterStepTypes DEF StaffNext

-----------------------------------------------------------------------------
(* What takes no administrator away from a company                            *)

\* Whoever had a role, a permission or an account in force still has it.
Grew(co) ==
    /\ \A u \in Users : IsMember(co, u) /\ account[u] = "ACTIVE" => account'[u] = "ACTIVE"
    /\ \A u \in Users, r \in Roles :
           role[co][u][r] = "ACTIVE" => role'[co][u][r] = "ACTIVE"
    /\ \A r \in Roles : grant[co][r] \subseteq grant'[co][r]

MembersStay ==
    \A co \in Companies, u \in Users : IsMember(co, u) => IsMember(co, u)'

LEMMA GrewKeepsAdmins ==
  ASSUME NEW co \in Companies, Grew(co)
  PROVE  Admins(co) \subseteq Admins(co)'
  BY DEF Grew, Admins, AdminsIf, IsMember

LEMMA GrewKeepsPending ==
  ASSUME StaffTypeOK, StaffTypeOK', NEW t \in WorkingRow, t.op \in Leaving, Grew(t.in),
         t.op # "REMOVE_PERMISSION" =>
             /\ t.user \in Users /\ IsMember(t.in, t.user)
             /\ role'[t.in][t.user] = role[t.in][t.user],
         t.op # "DEACTIVATE" => t.role \in Roles
  PROVE  AdminsAfter(t) \subseteq AdminsAfter(t)'
<1> DEFINE co == t.in
<1>0. /\ co \in Companies
      /\ account \in [Users -> Status] /\ account' \in [Users -> Status]
      /\ role \in [Companies -> [Users -> [Roles -> Status]]]
      /\ role' \in [Companies -> [Users -> [Roles -> Status]]]
      /\ grant \in [Companies -> [Roles -> SUBSET Permissions]]
      /\ grant' \in [Companies -> [Roles -> SUBSET Permissions]]
  BY DEF StaffTypeOK, WorkingRow
<1> SUFFICES ASSUME NEW u \in Users, u \in AdminsAfter(t)
             PROVE  u \in AdminsAfter(t)'
  BY DEF AdminsAfter, AdminsIf
<1>1. PICK r \in Roles :
        /\ AccountsAfter(t)[u] = "ACTIVE" /\ RolesAfter(t)[co][u][r] = "ACTIVE"
        /\ Governs \subseteq GrantsAfter(t)[co][r]
  BY DEF AdminsAfter, AdminsIf
<1>2. RolesAfter(t)'[co][u][r] = "ACTIVE"
  <2>1. CASE t.op = "REMOVE_ROLE"
    BY <1>0, <1>1, <2>1 DEF RolesAfter, Grew
  <2>2. CASE t.op = "CHANGE_ROLE"
    BY <1>0, <1>1, <2>2 DEF RolesAfter, Grew
  <2>3. CASE t.op \notin {"REMOVE_ROLE", "CHANGE_ROLE"}
    BY <1>0, <1>1, <2>3 DEF RolesAfter, Grew
  <2> QED
    BY <2>1, <2>2, <2>3
<1>3. IsMember(co, u)
  <2>1. CASE t.op = "REMOVE_ROLE"
    BY <1>0, <1>1, <2>1 DEF RolesAfter, IsMember
  <2>2. CASE t.op = "CHANGE_ROLE"
    BY <1>0, <1>1, <2>2 DEF RolesAfter, IsMember
  <2>3. CASE t.op \notin {"REMOVE_ROLE", "CHANGE_ROLE"}
    BY <1>0, <1>1, <2>3 DEF RolesAfter, IsMember
  <2> QED
    BY <2>1, <2>2, <2>3
<1>4. AccountsAfter(t)'[u] = "ACTIVE"
  BY <1>0, <1>1, <1>3 DEF AccountsAfter, Grew
<1>5. Governs \subseteq GrantsAfter(t)'[co][r]
  BY <1>0, <1>1 DEF GrantsAfter, Grew
<1> QED
  BY <1>2, <1>4, <1>5 DEF AdminsAfter, AdminsIf

-----------------------------------------------------------------------------
(* The administrators, step by step                                           *)

\* Steps that write no account, role or permission and begin no removal.
LEMMA PeopleFrame ==
  ASSUME PeopleInv, UNCHANGED accountVars,
         \A c \in Clients : AskedInv(c)',
         \A c \in Clients : Pending(c)' => Pending(c) /\ working'[c] = working[c]
  PROVE  PeopleInv'
<1>1. ASSUME NEW co, NEW u PROVE IsMember(co, u)' = IsMember(co, u)
  BY DEF accountVars, IsMember
<1>2. ASSUME NEW co PROVE OfItsOwn(co)' = OfItsOwn(co) /\ Admins(co)' = Admins(co)
  BY <1>1 DEF accountVars, OfItsOwn, Admins, AdminsIf
<1>3. ASSUME NEW t PROVE AdminsAfter(t)' = AdminsAfter(t)
  BY DEF accountVars, AdminsAfter, AdminsIf, AccountsAfter, RolesAfter, GrantsAfter
<1>4. ASSUME NEW c \in Clients PROVE PendingInv(c)'
  BY <1>1, <1>2, <1>3 DEF PeopleInv, PendingInv
<1>5. CompanyKeepsAnAdmin'
  BY <1>2 DEF PeopleInv, CompanyKeepsAnAdmin
<1>6. \A u \in Users : account'[u] = "NONE" => \A co \in Companies : ~IsMember(co, u)'
  BY <1>1 DEF PeopleInv, accountVars
<1>7. \A c, d \in Clients : c # d /\ Pending(c)' /\ Pending(d)' => working'[c].in # working'[d].in
  BY DEF PeopleInv
<1> QED
  BY <1>4, <1>5, <1>6, <1>7 DEF PeopleInv

\* A removal begins: it counted on the state that its lock keeps.
LEMMA PeopleBegin ==
  ASSUME StaffTypeOK, PeopleInv, NEW c \in Clients, NEW t \in WorkingRow, Begin(c, t),
         t.op \in Leaving,
         t.op # "REMOVE_PERMISSION" => t.user \in Users /\ IsMember(t.in, t.user),
         t.op # "DEACTIVATE" => t.role \in Roles
  PROVE  PeopleInv'
<1>1. /\ UNCHANGED accountVars
      /\ working' = [working EXCEPT ![c] = t] /\ asked' = [asked EXCEPT ![c] = None]
      /\ CompanyFree(t.in) /\ StillHasAdmin(t)
  BY DEF Begin
<1>2. /\ working'[c] = t /\ asked'[c] = None
      /\ \A d \in Clients \ {c} : working'[d] = working[d] /\ asked'[d] = asked[d]
  BY <1>1 DEF StaffTypeOK
<1>3. ASSUME NEW co, NEW u PROVE IsMember(co, u)' = IsMember(co, u)
  BY <1>1 DEF accountVars, IsMember
<1>4. ASSUME NEW co PROVE OfItsOwn(co)' = OfItsOwn(co) /\ Admins(co)' = Admins(co)
  BY <1>1, <1>3 DEF accountVars, OfItsOwn, Admins, AdminsIf
<1>5. ASSUME NEW v PROVE AdminsAfter(v)' = AdminsAfter(v)
  BY <1>1 DEF accountVars, AdminsAfter, AdminsIf, AccountsAfter, RolesAfter, GrantsAfter
<1>6. t.in \in Companies
  BY DEF WorkingRow
<1>7. OfItsOwn(t.in) => AdminsAfter(t) # {}
  BY <1>1, <1>6 DEF StillHasAdmin, AdminsAfter, PeopleInv, CompanyKeepsAnAdmin
<1>8. ASSUME NEW d \in Clients PROVE AskedInv(d)' /\ PendingInv(d)'
  <2>1. CASE d = c
    BY <1>2, <1>3, <1>4, <1>5, <1>7, <2>1 DEF AskedInv, PendingInv
  <2>2. CASE d # c
    BY <1>2, <1>3, <1>4, <1>5, <2>2 DEF AskedInv, PendingInv, Pending, PeopleInv
  <2> QED
    BY <2>1, <2>2
<1>9. \A d, e \in Clients : d # e /\ Pending(d)' /\ Pending(e)' => working'[d].in # working'[e].in
  BY <1>1, <1>2 DEF PeopleInv, Pending, CompanyFree
<1>10. CompanyKeepsAnAdmin'
  BY <1>4 DEF PeopleInv, CompanyKeepsAnAdmin
<1>11. \A u \in Users : account'[u] = "NONE" => \A co \in Companies : ~IsMember(co, u)'
  BY <1>1, <1>3 DEF PeopleInv, accountVars
<1> QED
  BY <1>8, <1>9, <1>10, <1>11 DEF PeopleInv

\* Steps that take nothing away from anybody.
LEMMA PeopleGrow ==
  ASSUME StaffTypeOK, StaffTypeOK', PeopleInv, MembersStay, UNCHANGED working,
         \A co \in Companies : Grew(co),
         \A c \in Clients : asked'[c] \in {asked[c], None},
         \A u \in Users : account'[u] = "NONE" => \A co \in Companies : ~IsMember(co, u)',
         \A c \in Clients : Pending(c) /\ working[c].op # "REMOVE_PERMISSION" =>
             role'[working[c].in][working[c].user] = role[working[c].in][working[c].user]
  PROVE  PeopleInv'
<1>1. \A co \in Companies : OfItsOwn(co)' => OfItsOwn(co)
  BY DEF MembersStay, OfItsOwn
<1>2. CompanyKeepsAnAdmin'
  BY <1>1, GrewKeepsAdmins DEF PeopleInv, CompanyKeepsAnAdmin
<1>3. ASSUME NEW c \in Clients PROVE AskedInv(c)'
  <2>1. asked[c] # None => asked[c] \in AskedRow
    BY DEF StaffTypeOK
  <2> QED
    BY <2>1 DEF PeopleInv, AskedInv, MembersStay, AskedRow
<1>4. ASSUME NEW c \in Clients PROVE PendingInv(c)'
  <2> DEFINE t == working[c]
  <2> SUFFICES ASSUME Pending(c) PROVE PendingInv(c)'
    BY DEF PendingInv, Pending
  <2>1. t \in WorkingRow /\ t.in \in Companies /\ t.op \in Leaving
    BY DEF Pending, StaffTypeOK, WorkingRow
  <2>2. /\ t.op # "REMOVE_PERMISSION" => t.user \in Users /\ IsMember(t.in, t.user)
        /\ t.op # "DEACTIVATE" => t.role \in Roles
        /\ OfItsOwn(t.in) => AdminsAfter(t) # {}
    BY DEF PeopleInv, PendingInv
  <2>3. AdminsAfter(t) \subseteq AdminsAfter(t)'
    <3>1. Grew(t.in)
      BY <2>1
    <3>2. t.op # "REMOVE_PERMISSION" => role'[t.in][t.user] = role[t.in][t.user]
      OBVIOUS
    <3> QED
      BY <2>1, <2>2, <3>1, <3>2, GrewKeepsPending
  <2>4. OfItsOwn(t.in)' => AdminsAfter(t)' # {}
    BY <1>1, <2>1, <2>2, <2>3
  <2>5. t.op # "REMOVE_PERMISSION" => IsMember(t.in, t.user)'
    BY <2>1, <2>2 DEF MembersStay
  <2> QED
    BY <2>2, <2>4, <2>5 DEF PendingInv
<1>5. \A c, d \in Clients : c # d /\ Pending(c)' /\ Pending(d)' => working'[c].in # working'[d].in
  BY DEF PeopleInv, Pending
<1> QED
  BY <1>2, <1>3, <1>4, <1>5 DEF PeopleInv

\* What the commit of a removal leaves of everybody's places.
LEMMA CommitKeepsMembers ==
  ASSUME StaffTypeOK, PeopleInv, NEW c \in Clients, CommitLeaving(c),
         NEW co \in Companies, NEW u \in Users
  PROVE  /\ IsMember(co, u)' <=> IsMember(co, u)
         /\ co # working[c].in => role'[co] = role[co] /\ grant'[co] = grant[co]
         /\ account'[u] # account[u] =>
              account'[u] = "INACTIVE" /\ u = working[c].user /\ IsMember(working[c].in, u)
<1> DEFINE t == working[c]
<1>0. /\ Pending(c) /\ t \in WorkingRow /\ t.in \in Companies
      /\ account' = AccountsAfter(t) /\ role' = RolesAfter(t) /\ grant' = GrantsAfter(t)
      /\ account \in [Users -> Status]
      /\ role \in [Companies -> [Users -> [Roles -> Status]]]
      /\ grant \in [Companies -> [Roles -> SUBSET Permissions]]
  BY DEF CommitLeaving, Pending, StaffTypeOK, WorkingRow
<1>1. /\ t.op # "REMOVE_PERMISSION" => t.user \in Users /\ IsMember(t.in, t.user)
      /\ t.op # "DEACTIVATE" => t.role \in Roles
  BY <1>0 DEF PeopleInv, PendingInv
<1>2. IsMember(co, u)' <=> IsMember(co, u)
  <2>1. CASE t.op = "REMOVE_ROLE"
    BY <1>0, <1>1, <2>1 DEF RolesAfter, IsMember
  <2>2. CASE t.op = "CHANGE_ROLE"
    BY <1>0, <1>1, <2>2 DEF RolesAfter, IsMember
  <2>3. CASE t.op \notin {"REMOVE_ROLE", "CHANGE_ROLE"}
    BY <1>0, <2>3 DEF RolesAfter, IsMember
  <2> QED
    BY <2>1, <2>2, <2>3
<1>3. co # t.in => role'[co] = role[co] /\ grant'[co] = grant[co]
  BY <1>0 DEF RolesAfter, GrantsAfter
<1>4. account'[u] # account[u] =>
        account'[u] = "INACTIVE" /\ u = t.user /\ IsMember(t.in, u)
  BY <1>0, <1>1 DEF AccountsAfter
<1> QED
  BY <1>2, <1>3, <1>4

LEMMA PeopleCommit ==
  ASSUME StaffTypeOK, StaffTypeOK', PeopleInv, NEW c \in Clients, CommitLeaving(c)
  PROVE  PeopleInv'
<1> PICK t \in WorkingRow : t = working[c]
  BY DEF CommitLeaving, StaffTypeOK
<1>0. /\ Pending(c) /\ t.in \in Companies
      /\ account' = AccountsAfter(t) /\ role' = RolesAfter(t) /\ grant' = GrantsAfter(t)
      /\ UNCHANGED asked
      /\ working'[c] = None /\ \A d \in Clients \ {c} : working'[d] = working[d]
  BY DEF CommitLeaving, Pending, StaffTypeOK, WorkingRow
<1>1. \A co \in Companies, u \in Users : IsMember(co, u)' <=> IsMember(co, u)
  BY CommitKeepsMembers
<1>2. \A co \in Companies : OfItsOwn(co)' <=> OfItsOwn(co)
  BY <1>1 DEF OfItsOwn
<1>3. Admins(t.in)' = AdminsAfter(t)
  BY <1>0 DEF Admins, AdminsIf, AdminsAfter
<1>4. ASSUME NEW co \in Companies, co # t.in, OfItsOwn(co)
      PROVE  Grew(co)
  <2>1. \A u \in Users : IsMember(co, u) /\ account[u] = "ACTIVE" => account'[u] = "ACTIVE"
    BY <1>0, <1>4, CommitKeepsMembers DEF OfItsOwn
  <2>2. role'[co] = role[co] /\ grant'[co] = grant[co]
    <3>1. CASE Users = {}
      BY <1>0, <1>4, <3>1 DEF PeopleInv, PendingInv, RolesAfter, GrantsAfter, StaffTypeOK
    <3>2. CASE Users # {}
      BY <1>4, <3>2, CommitKeepsMembers
    <3> QED
      BY <3>1, <3>2
  <2> QED
    BY <2>1, <2>2 DEF Grew
<1>5. CompanyKeepsAnAdmin'
  <2> SUFFICES ASSUME NEW co \in Companies, OfItsOwn(co) PROVE Admins(co)' # {}
    BY <1>2 DEF CompanyKeepsAnAdmin
  <2>1. CASE co = t.in
    BY <1>0, <1>3, <2>1 DEF PeopleInv, PendingInv
  <2>2. CASE co # t.in
    BY <1>4, <2>2, GrewKeepsAdmins DEF PeopleInv, CompanyKeepsAnAdmin
  <2> QED
    BY <2>1, <2>2
<1>6. ASSUME NEW d \in Clients PROVE AskedInv(d)'
  <2>1. asked[d] # None => asked[d] \in AskedRow
    BY DEF StaffTypeOK
  <2> QED
    BY <1>0, <1>1, <2>1 DEF PeopleInv, AskedInv, AskedRow
<1>7. ASSUME NEW d \in Clients PROVE PendingInv(d)'
  <2> SUFFICES ASSUME Pending(d)' PROVE PendingInv(d)'
    BY DEF PendingInv
  <2>0. d # c /\ working'[d] = working[d] /\ Pending(d)
    BY <1>0 DEF Pending
  <2> PICK v \in WorkingRow : v = working[d]
    BY <2>0 DEF Pending, StaffTypeOK
  <2>1. d # c /\ working'[d] = v /\ Pending(d)
    BY <2>0
  <2>2. v.in \in Companies /\ v.op \in Leaving
    BY <2>1 DEF Pending, WorkingRow
  <2>3. v.in # t.in
    BY <1>0, <2>1 DEF PeopleInv
  <2>4. /\ v.op # "REMOVE_PERMISSION" => v.user \in Users /\ IsMember(v.in, v.user)
        /\ v.op # "DEACTIVATE" => v.role \in Roles
        /\ OfItsOwn(v.in) => AdminsAfter(v) # {}
    BY <2>1 DEF PeopleInv, PendingInv
  <2>5. v.op # "REMOVE_PERMISSION" => IsMember(v.in, v.user)'
    BY <1>1, <2>2, <2>4
  <2>6. ASSUME OfItsOwn(v.in) PROVE AdminsAfter(v)' # {}
    <3>1. Grew(v.in)
      BY <1>4, <2>2, <2>3, <2>6
    <3>2. v.op # "REMOVE_PERMISSION" => role'[v.in][v.user] = role[v.in][v.user]
      BY <2>2, <2>3, <2>4, CommitKeepsMembers
    <3>3. AdminsAfter(v) \subseteq AdminsAfter(v)'
      BY <2>2, <2>4, <3>1, <3>2, GrewKeepsPending
    <3> QED
      BY <2>4, <2>6, <3>3
  <2> QED
    BY <1>2, <2>1, <2>2, <2>4, <2>5, <2>6 DEF PendingInv
<1>8. \A d, e \in Clients : d # e /\ Pending(d)' /\ Pending(e)' => working'[d].in # working'[e].in
  BY <1>0 DEF PeopleInv, Pending
<1>9. \A u \in Users : account'[u] = "NONE" => \A co \in Companies : ~IsMember(co, u)'
  BY <1>1, CommitKeepsMembers DEF PeopleInv
<1> QED
  BY <1>5, <1>6, <1>7, <1>8, <1>9 DEF PeopleInv

LEMMA PeopleStep == StaffTypeOK /\ StaffTypeOK' /\ PeopleInv /\ [StaffNext]_staffVars => PeopleInv'
<1> SUFFICES ASSUME StaffTypeOK, StaffTypeOK', PeopleInv, [StaffNext]_staffVars
             PROVE  PeopleInv'
  OBVIOUS
<1>0. ASSUME NEW c \in Clients, asked[c] # None
      PROVE  asked[c] \in AskedRow /\ asked[c].in \in Companies /\ asked[c].user \in Users
  BY <1>0 DEF StaffTypeOK, AskedRow
<1>1. ASSUME UNCHANGED staffVars PROVE PeopleInv'
  <2>1. \A c \in Clients : AskedInv(c)'
    BY <1>1 DEF staffVars, PeopleInv, AskedInv, IsMember
  <2> QED
    BY <1>1, <2>1, PeopleFrame DEF staffVars, accountVars, Pending
<1>2. ASSUME NEW c \in Clients, NEW co \in Companies, NEW actor \in Users, NEW u \in Users,
             AskAccount(c, co, actor, u)
      PROVE  PeopleInv'
  <2> DEFINE a == [op |-> "ACCOUNT", in |-> co, by |-> actor, holds |-> Codes(co, actor),
                   user |-> u, checked |-> Manageable(co, actor, Codes(co, actor), u)]
  <2>1. asked' = [asked EXCEPT ![c] = a] /\ UNCHANGED <<account, role, grant, working>>
    BY <1>2 DEF AskAccount, accountVars
  <2>2. a.checked => IsMember(a.in, a.user)
    BY DEF Manageable
  <2>3. ASSUME NEW d \in Clients PROVE AskedInv(d)'
    <3> HIDE DEF a
    <3>1. CASE d = c
      BY <2>1, <2>2, <3>1 DEF AskedInv, IsMember, StaffTypeOK
    <3>2. CASE d # c
      BY <2>1, <3>2 DEF AskedInv, IsMember, PeopleInv, StaffTypeOK
    <3> QED
      BY <3>1, <3>2
  <2> QED
    BY <2>1, <2>3, PeopleFrame DEF accountVars, Pending
<1>3. ASSUME NEW c \in Clients, Refuse(c) PROVE PeopleInv'
  <2>1. \A d \in Clients : AskedInv(d)'
    BY <1>3 DEF Refuse, accountVars, StaffTypeOK, PeopleInv, AskedInv, IsMember
  <2> QED
    BY <1>3, <2>1, PeopleFrame DEF Refuse, accountVars, Pending
<1>4. ASSUME NEW c \in Clients, Deactivate(c) PROVE PeopleInv'
  <2> DEFINE t == Change(c, "DEACTIVATE", asked[c].user, None, None)
  <2>1. asked[c] \in AskedRow /\ IsMember(asked[c].in, asked[c].user)
    BY <1>0, <1>4 DEF Deactivate, Asking, PeopleInv, AskedInv
  <2>2. t \in WorkingRow /\ t.op \in Leaving /\ t.user \in Users
    BY <2>1 DEF Change, WorkingRow, AskedRow, Leaving
  <2>3. Begin(c, t) /\ t.op = "DEACTIVATE" /\ IsMember(t.in, t.user)
    BY <1>4, <2>1 DEF Deactivate, Change
  <2> HIDE DEF t
  <2> QED
    BY <2>2, <2>3, PeopleBegin
<1>5. ASSUME NEW c \in Clients, Activate(c) PROVE PeopleInv'
  <2> DEFINE a == asked[c]
  <2>0. /\ a.user \in Users /\ account' = [account EXCEPT ![a.user] = "ACTIVE"]
        /\ UNCHANGED <<role, grant, working>> /\ asked' = [asked EXCEPT ![c] = None]
    BY <1>0, <1>5 DEF Activate, Asking, Done
  <2>1. \A co \in Companies, u \in Users : IsMember(co, u)' <=> IsMember(co, u)
    BY <2>0 DEF IsMember
  <2>2. \A co \in Companies : Grew(co)
    BY <2>0 DEF Grew, StaffTypeOK
  <2>3. \A u \in Users : account'[u] = "NONE" => \A co \in Companies : ~IsMember(co, u)'
    BY <2>0, <2>1 DEF PeopleInv, StaffTypeOK
  <2>4. \A d \in Clients : asked'[d] \in {asked[d], None}
    BY <2>0 DEF StaffTypeOK
  <2> QED
    BY <2>0, <2>1, <2>2, <2>3, <2>4, PeopleGrow DEF MembersStay
<1>6. ASSUME NEW c \in Clients, CommitLeaving(c) PROVE PeopleInv'
  BY <1>6, PeopleCommit
<1>7. ASSUME NEW c \in Clients, NEW r \in Roles, ChangeRole(c, r) PROVE PeopleInv'
  <2> DEFINE t == Change(c, "CHANGE_ROLE", asked[c].user, r, None)
  <2>1. asked[c] \in AskedRow /\ IsMember(asked[c].in, asked[c].user)
    BY <1>0, <1>7 DEF ChangeRole, Asking
  <2>2. t \in WorkingRow /\ t.op \in Leaving /\ t.user \in Users /\ t.role \in Roles
    BY <2>1 DEF Change, WorkingRow, AskedRow, Leaving
  <2>3. Begin(c, t) /\ IsMember(t.in, t.user)
    BY <1>7, <2>1 DEF ChangeRole, Change
  <2> HIDE DEF t
  <2> QED
    BY <2>2, <2>3, PeopleBegin
<1>8. ASSUME NEW c \in Clients, NEW r \in Roles, RemoveRole(c, r) PROVE PeopleInv'
  <2> DEFINE t == Change(c, "REMOVE_ROLE", asked[c].user, r, None)
  <2>1. asked[c] \in AskedRow /\ IsMember(asked[c].in, asked[c].user)
    BY <1>0, <1>8 DEF RemoveRole, Asking, IsMember
  <2>2. t \in WorkingRow /\ t.op \in Leaving /\ t.user \in Users /\ t.role \in Roles
    BY <2>1 DEF Change, WorkingRow, AskedRow, Leaving
  <2>3. Begin(c, t) /\ IsMember(t.in, t.user)
    BY <1>8, <2>1 DEF RemoveRole, Change
  <2> HIDE DEF t
  <2> QED
    BY <2>2, <2>3, PeopleBegin
<1>9. ASSUME NEW c \in Clients, NEW r \in Roles, CreateUser(c, r) PROVE PeopleInv'
  <2> DEFINE a == asked[c]
  <2>0. /\ a.user \in Users /\ a.in \in Companies /\ account[a.user] = "NONE"
        /\ account' = [account EXCEPT ![a.user] = "ACTIVE"]
        /\ role' = [role EXCEPT ![a.in][a.user][r] = "ACTIVE"]
        /\ UNCHANGED <<grant, working>> /\ asked' = [asked EXCEPT ![c] = None]
    BY <1>0, <1>9 DEF CreateUser, Asking, Done
  <2>1. \A co \in Companies : ~IsMember(co, a.user)
    BY <2>0 DEF PeopleInv
  <2>2. \A co \in Companies, u \in Users \ {a.user} : role'[co][u] = role[co][u]
    BY <2>0 DEF StaffTypeOK
  <2>3. MembersStay
    BY <2>1, <2>2 DEF MembersStay, IsMember
  <2>4. \A co \in Companies : Grew(co)
    BY <2>0, <2>1, <2>2 DEF Grew, StaffTypeOK, IsMember
  <2>5. \A u \in Users : account'[u] = "NONE" => \A co \in Companies : ~IsMember(co, u)'
    BY <2>0, <2>2 DEF PeopleInv, StaffTypeOK, IsMember
  <2>6. \A d \in Clients : asked'[d] \in {asked[d], None}
    BY <2>0 DEF StaffTypeOK
  <2>7. ASSUME NEW d \in Clients, Pending(d), working[d].op # "REMOVE_PERMISSION"
        PROVE  role'[working[d].in][working[d].user] = role[working[d].in][working[d].user]
    <3>1. working[d].in \in Companies
      BY <2>7 DEF Pending, StaffTypeOK, WorkingRow
    <3>2. working[d].user \in Users /\ IsMember(working[d].in, working[d].user)
      BY <2>7 DEF PeopleInv, PendingInv
    <3> QED
      BY <2>1, <2>2, <3>1, <3>2
  <2> QED
    BY <2>0, <2>3, <2>4, <2>5, <2>6, <2>7, PeopleGrow
<1>10. ASSUME NEW c \in Clients, NEW r \in Roles, AddRole(c, r) PROVE PeopleInv'
  <2> DEFINE a == asked[c]
  <2>0. /\ a.user \in Users /\ a.in \in Companies /\ CompanyFree(a.in)
        /\ IsMember(a.in, a.user)
        /\ role' = [role EXCEPT ![a.in][a.user][r] = "ACTIVE"]
        /\ UNCHANGED <<account, grant, working>> /\ asked' = [asked EXCEPT ![c] = None]
    BY <1>0, <1>10 DEF AddRole, Asking, Done
  <2>1. \A co \in Companies \ {a.in} : role'[co] = role[co]
    BY <2>0 DEF StaffTypeOK
  <2>2. \A co \in Companies, u \in Users : IsMember(co, u)' <=> IsMember(co, u)
    BY <2>0 DEF StaffTypeOK, IsMember
  <2>3. \A co \in Companies : Grew(co)
    BY <2>0 DEF Grew, StaffTypeOK
  <2>4. \A u \in Users : account'[u] = "NONE" => \A co \in Companies : ~IsMember(co, u)'
    BY <2>0, <2>2 DEF PeopleInv
  <2>5. \A d \in Clients : asked'[d] \in {asked[d], None}
    BY <2>0 DEF StaffTypeOK
  <2>6. ASSUME NEW d \in Clients, Pending(d) PROVE role'[working[d].in] = role[working[d].in]
    BY <2>0, <2>1, <2>6 DEF Pending, CompanyFree, StaffTypeOK, WorkingRow
  <2> QED
    BY <2>0, <2>2, <2>3, <2>4, <2>5, <2>6, PeopleGrow DEF MembersStay
<1>11. ASSUME NEW c \in Clients, NEW r \in Roles, NEW p \in Permissions, RemovePermission(c, r, p)
       PROVE  PeopleInv'
  <2> DEFINE t == Change(c, "REMOVE_PERMISSION", None, r, p)
  <2>1. asked[c] \in AskedRow
    BY <1>0, <1>11 DEF RemovePermission, Asking
  <2>2. t \in WorkingRow /\ t.op \in Leaving /\ t.op = "REMOVE_PERMISSION" /\ t.role \in Roles
    BY <2>1 DEF Change, WorkingRow, AskedRow, Leaving
  <2>3. Begin(c, t)
    BY <1>11 DEF RemovePermission
  <2> HIDE DEF t
  <2> QED
    BY <2>2, <2>3, PeopleBegin
<1>12. ASSUME NEW c \in Clients, NEW r \in Roles, NEW p \in Permissions, GrantPermission(c, r, p)
       PROVE  PeopleInv'
  <2> DEFINE a == asked[c]
  <2>0. /\ a.in \in Companies /\ grant' = [grant EXCEPT ![a.in][r] = @ \cup {p}]
        /\ UNCHANGED <<account, role, working>> /\ asked' = [asked EXCEPT ![c] = None]
    BY <1>0, <1>12 DEF GrantPermission, Asking, Done
  <2>1. \A co \in Companies, u \in Users : IsMember(co, u)' <=> IsMember(co, u)
    BY <2>0 DEF IsMember
  <2>2. \A co \in Companies : Grew(co)
    BY <2>0 DEF Grew, StaffTypeOK
  <2>3. \A d \in Clients : asked'[d] \in {asked[d], None}
    BY <2>0 DEF StaffTypeOK
  <2> QED
    BY <2>0, <2>1, <2>2, <2>3, PeopleGrow DEF MembersStay, PeopleInv
<1>13. CASE CounterStep
  <2>1. UNCHANGED accountVars
    BY <1>13 DEF CounterStep, CreateStore, CreateRegister, DeactivateStore, ActivateStore,
                 GiveAccess, RemoveAccess, DeactivateRegister, ActivateRegister, CloseShift,
                 AskOpening, BeginOpening, CommitOpening, CommitAccess, UnchangedPeople
  <2>2. ASSUME NEW c \in Clients, asked'[c] # asked[c]
        PROVE  asked'[c] = None \/ asked'[c].op = "OPENING"
    <3>1. PICK d \in Clients :
            \/ \E co \in Companies, u \in Users : AskOpening(d, co, u)
            \/ \E k \in Registers : BeginOpening(d, k)
      BY <1>13, <2>2 DEF CounterStep, CreateStore, CreateRegister, DeactivateStore,
                   ActivateStore, GiveAccess, RemoveAccess, DeactivateRegister, ActivateRegister,
                   CloseShift, CommitOpening, CommitAccess, UnchangedPeople
    <3>2. asked \in [Clients -> AskedRow \cup {None}]
      BY DEF StaffTypeOK
    <3> QED
      BY <2>2, <3>1, <3>2 DEF AskOpening, BeginOpening
  <2>3. ASSUME NEW c \in Clients, working'[c] # working[c]
        PROVE  working'[c] = None \/ working'[c].op \in {"OPEN", "REMOVE_ACCESS"}
    <3>1. PICK d \in Clients :
            \/ \E s \in Stores, u \in Users : RemoveAccess(d, s, u)
            \/ \E k \in Registers : BeginOpening(d, k)
            \/ CommitOpening(d) \/ CommitAccess(d)
      BY <1>13, <2>3 DEF CounterStep, CreateStore, CreateRegister, DeactivateStore,
                   ActivateStore, GiveAccess, DeactivateRegister, ActivateRegister,
                   CloseShift, AskOpening, UnchangedPeople
    <3>2. working \in [Clients -> WorkingRow \cup {None}]
      BY DEF StaffTypeOK
    <3> QED
      BY <2>3, <3>1, <3>2 DEF RemoveAccess, BeginOpening, CommitOpening, CommitAccess
  <2>4. \A c \in Clients : AskedInv(c)'
    BY <2>1, <2>2 DEF PeopleInv, AskedInv, IsMember, accountVars
  <2>5. \A c \in Clients : Pending(c)' => Pending(c) /\ working'[c] = working[c]
    BY <2>3 DEF Pending, Leaving
  <2> QED
    BY <2>1, <2>4, <2>5, PeopleFrame
<1> QED
  BY <1>1, <1>2, <1>3, <1>4, <1>5, <1>6, <1>7, <1>8, <1>9, <1>10, <1>11, <1>12, <1>13
     DEF StaffNext, AccountStep, RoleStep

-----------------------------------------------------------------------------
(* The counters, step by step                                                 *)

\* Steps that touch no store, register, access or shift and lock no register.
LEMMA CounterFrame ==
  ASSUME CounterInv, UNCHANGED counterVars,
         \A c \in Clients : \/ working'[c] \in {working[c], None}
                            \/ working'[c].op \in Leaving /\ working'[c].registers = {}
  PROVE  CounterInv'
<1>1. \A s \in Stores : RegistersOf(s)' = RegistersOf(s)
  BY DEF counterVars, RegistersOf
<1>2. ASSUME NEW c \in Clients PROVE OpeningInv(c)' /\ RemovingInv(c)'
  BY <1>1 DEF CounterInv, OpeningInv, RemovingInv, counterVars, Leaving
<1>3. ASSUME NEW c \in Clients, NEW d \in Clients, c # d, working'[c] # None, working'[d] # None
      PROVE  working'[c].registers \cap working'[d].registers = {}
  BY <1>3 DEF CounterInv
<1>4. /\ \A s \in Stores : store'[s] = "NONE" => RegistersOf(s)' = {}
      /\ OpenShiftInService' /\ CashierWorksThere'
  BY <1>1 DEF CounterInv, OpenShiftInService, CashierWorksThere, counterVars
<1> QED
  BY <1>2, <1>3, <1>4 DEF CounterInv

\* An open shift or an opening is at a register of the store.
LEMMA InStore ==
  ASSUME StaffTypeOK, NEW k \in Registers, register[k[1]][k[2]] = "ACTIVE"
  PROVE  k[1] \in Stores /\ k[2] \in Numbers /\ k \in RegistersOf(k[1])
BY DEF RegistersOf, Registers

LEMMA CounterAsk ==
  ASSUME StaffTypeOK, CounterInv, AccountStep \/ RoleStep(Permissions)
  PROVE  CounterInv'
<1>1. ASSUME NEW c \in Clients, NEW t, t.op \in Leaving, t.registers = {}, Begin(c, t)
      PROVE  CounterInv'
  <2>1. \A d \in Clients : \/ working'[d] \in {working[d], None}
                           \/ working'[d].op \in Leaving /\ working'[d].registers = {}
    BY <1>1 DEF Begin, StaffTypeOK
  <2> QED
    BY <1>1, <2>1, CounterFrame DEF Begin
<1>2. ASSUME NEW c \in Clients, NEW op \in Leaving, NEW u, NEW r, NEW p
      PROVE  Change(c, op, u, r, p).op \in Leaving /\ Change(c, op, u, r, p).registers = {}
  BY DEF Change
<1>3. CASE AccountStep
  <2> PICK c \in Clients :
        \/ \E co \in Companies, actor \in Users, u \in Users : AskAccount(c, co, actor, u)
        \/ Refuse(c) \/ Deactivate(c) \/ Activate(c) \/ CommitLeaving(c)
    BY <1>3 DEF AccountStep
  <2>1. CASE Deactivate(c)
    BY <1>1, <1>2, <2>1 DEF Deactivate, Leaving
  <2>2. CASE ~Deactivate(c)
    <3>1. UNCHANGED counterVars /\ working' \in {working, [working EXCEPT ![c] = None]}
      BY <2>2 DEF AskAccount, Refuse, Activate, Done, CommitLeaving
    <3>2. \A d \in Clients : working'[d] \in {working[d], None}
      BY <3>1 DEF StaffTypeOK
    <3> QED
      BY <3>1, <3>2, CounterFrame
  <2> QED
    BY <2>1, <2>2
<1>4. CASE RoleStep(Permissions)
  <2> PICK c \in Clients, r \in Roles :
        \/ ChangeRole(c, r) \/ RemoveRole(c, r) \/ CreateUser(c, r) \/ AddRole(c, r)
        \/ \E p \in Permissions : RemovePermission(c, r, p) \/ GrantPermission(c, r, p)
    BY <1>4 DEF RoleStep
  <2>1. CASE ChangeRole(c, r)
    BY <1>1, <1>2, <2>1 DEF ChangeRole, Leaving
  <2>2. CASE RemoveRole(c, r)
    BY <1>1, <1>2, <2>2 DEF RemoveRole, Leaving
  <2>3. ASSUME NEW p \in Permissions, RemovePermission(c, r, p) PROVE CounterInv'
    BY <1>1, <1>2, <2>3 DEF RemovePermission, Leaving
  <2>4. CASE \/ CreateUser(c, r) \/ AddRole(c, r)
             \/ \E p \in Permissions : GrantPermission(c, r, p)
    BY <2>4, CounterFrame DEF CreateUser, AddRole, GrantPermission, Done
  <2> QED
    BY <2>1, <2>2, <2>3, <2>4
<1> QED
  BY <1>3, <1>4

\* A store or a register enters.
LEMMA CounterCreate ==
  ASSUME StaffTypeOK, StaffTypeOK', CounterInv, NEW s \in Stores,
         CreateStore(s) \/ \E n \in Numbers : CreateRegister(s, n)
  PROVE  CounterInv'
<1>0. 1 \in Numbers
  BY StaffAssumption DEF Numbers
<1>1. PICK n \in Numbers : \/ CreateStore(s) /\ n = 1
                           \/ CreateRegister(s, n)
  BY <1>0
<1>2. /\ register' = [register EXCEPT ![s][n] = "ACTIVE"]
      /\ UNCHANGED <<working, access, shift>> /\ late \subseteq late'
      /\ store'[s] = "ACTIVE" /\ \A r \in Stores \ {s} : store'[r] = store[r]
  BY <1>1 DEF CreateStore, CreateRegister, UnchangedPeople, StaffTypeOK
<1>3. ASSUME NEW k \in Registers, register[k[1]][k[2]] = "ACTIVE"
      PROVE  register'[k[1]][k[2]] = "ACTIVE"
  BY <1>2, <1>3, InStore DEF StaffTypeOK
<1>4. ASSUME NEW r \in Stores, r # s PROVE RegistersOf(r)' = RegistersOf(r)
  BY <1>2, <1>4 DEF RegistersOf, StaffTypeOK
<1>5. RegistersOf(s) \subseteq RegistersOf(s)' /\ RegistersOf(s)' \subseteq RegistersOf(s) \cup {<<s, n>>}
  <2>1. \A m \in Numbers : register'[s][m] = IF m = n THEN "ACTIVE" ELSE register[s][m]
    BY <1>2 DEF StaffTypeOK
  <2> QED
    BY <2>1 DEF RegistersOf, Registers
<1>6. ASSUME NEW c \in Clients PROVE OpeningInv(c)'
  BY <1>2, <1>3 DEF CounterInv, OpeningInv, Registers
<1>7. ASSUME NEW c \in Clients PROVE RemovingInv(c)'
  <2> SUFFICES ASSUME working[c] # None, working[c].op = "REMOVE_ACCESS" PROVE RemovingInv(c)'
    BY <1>2 DEF RemovingInv
  <2>1. PICK r \in Stores :
          /\ working[c].user \in Users
          /\ working[c].registers # {} /\ working[c].registers \subseteq RegistersOf(r)
          /\ RegistersOf(r) \subseteq working[c].registers \cup late
          /\ \A k \in working[c].registers : shift[k] # working[c].user
    BY DEF CounterInv, RemovingInv
  <2>2. RegistersOf(r) \subseteq RegistersOf(r)'
    BY <1>4, <1>5
  <2>3. RegistersOf(r)' \subseteq working[c].registers \cup late'
    <3>1. CASE r # s
      BY <1>2, <1>4, <2>1, <3>1
    <3>2. CASE r = s /\ CreateStore(s)
      BY <2>1, <3>2 DEF CounterInv, CreateStore
    <3>3. CASE r = s /\ CreateRegister(s, n)
      <4>1. \E k \in working[c].registers : k[1] = s
        BY <2>1, <3>3 DEF RegistersOf
      <4>2. <<s, n>> \in late'
        BY <3>3, <4>1 DEF CreateRegister
      <4> QED
        BY <1>2, <1>5, <2>1, <3>3, <4>2
    <3> QED
      BY <1>1, <3>1, <3>2, <3>3
  <2> QED
    BY <1>2, <2>1, <2>2, <2>3 DEF RemovingInv
<1>8. \A r \in Stores : store'[r] = "NONE" => RegistersOf(r)' = {}
  BY <1>2, <1>4 DEF CounterInv
<1>9. OpenShiftInService' /\ CashierWorksThere'
  BY <1>2, <1>3 DEF CounterInv, OpenShiftInService, CashierWorksThere, Registers
<1>10. \A c, d \in Clients : c # d /\ working'[c] # None /\ working'[d] # None =>
           working'[c].registers \cap working'[d].registers = {}
  BY <1>2 DEF CounterInv
<1> QED
  BY <1>6, <1>7, <1>8, <1>9, <1>10 DEF CounterInv

LEMMA Switched ==
  ASSUME StaffTypeOK, NEW k \in Registers, NEW x \in Status,
         register' = [register EXCEPT ![k[1]][k[2]] = x]
  PROVE  \A s \in Stores, n \in Numbers :
           /\ s = k[1] /\ n = k[2] => register'[s][n] = x
           /\ ~(s = k[1] /\ n = k[2]) => register'[s][n] = register[s][n]
<1> TAKE s \in Stores, n \in Numbers
<1> DEFINE f == register[k[1]]
           g == [f EXCEPT ![k[2]] = x]
<1>1. k[1] \in Stores /\ k[2] \in Numbers
  BY DEF Registers
<1>2. register' = [register EXCEPT ![k[1]] = g] /\ register \in [Stores -> [Numbers -> Status]]
  BY DEF StaffTypeOK
<1>3. \A m \in Numbers : g[m] = IF m = k[2] THEN x ELSE f[m]
  BY <1>1, <1>2
<1> HIDE DEF g
<1>4. CASE s = k[1]
  <2>1. register'[s] = g
    BY <1>1, <1>2, <1>4
  <2> QED
    BY <1>3, <1>4, <2>1
<1>5. CASE s # k[1]
  BY <1>1, <1>2, <1>5
<1> QED
  BY <1>4, <1>5

\* A register or a store is switched on or off, an access is given, a shift is closed.
LEMMA CounterSwitch ==
  ASSUME StaffTypeOK, StaffTypeOK', CounterInv,
         \/ \E s \in Stores : \/ DeactivateStore(s) \/ ActivateStore(s)
                              \/ \E u \in Users : GiveAccess(s, u)
         \/ \E k \in Registers : DeactivateRegister(k) \/ ActivateRegister(k) \/ CloseShift(k)
  PROVE  CounterInv'
<1>0. UNCHANGED <<working, late>>
  BY DEF DeactivateStore, ActivateStore, GiveAccess, DeactivateRegister, ActivateRegister,
         CloseShift, UnchangedPeople
<1>1. ASSUME NEW s \in Stores PROVE RegistersOf(s)' = RegistersOf(s)
  <2>1. ASSUME NEW n \in Numbers PROVE register'[s][n] = "NONE" <=> register[s][n] = "NONE"
    <3>1. CASE UNCHANGED register
      BY <3>1
    <3>2. ASSUME NEW k \in Registers, DeactivateRegister(k) \/ ActivateRegister(k)
          PROVE  register'[s][n] = "NONE" <=> register[s][n] = "NONE"
      <4>1. {"ACTIVE", "INACTIVE"} \subseteq Status /\ register[k[1]][k[2]] # "NONE"
        BY <3>2 DEF Status, DeactivateRegister, ActivateRegister
      <4>2. CASE ActivateRegister(k)
        <5>1. register' = [register EXCEPT ![k[1]][k[2]] = "ACTIVE"]
          BY <4>2 DEF ActivateRegister
        <5> QED
          BY <4>1, <5>1, Switched
      <4>3. CASE DeactivateRegister(k)
        <5>1. register' = [register EXCEPT ![k[1]][k[2]] = "INACTIVE"]
          BY <4>3 DEF DeactivateRegister
        <5> QED
          BY <4>1, <5>1, Switched
      <4> QED
        BY <3>2, <4>2, <4>3
    <3> QED
      BY <3>1, <3>2 DEF DeactivateStore, ActivateStore, GiveAccess, CloseShift
  <2> QED
    BY <2>1 DEF RegistersOf, Registers
\* A register that is held, or has an open shift, stays in service with its store.
<1>2. ASSUME NEW k \in Registers, register[k[1]][k[2]] = "ACTIVE", store[k[1]] = "ACTIVE",
             shift[k] # None \/ ~RegisterFree(k)
      PROVE  register'[k[1]][k[2]] = "ACTIVE" /\ store'[k[1]] = "ACTIVE"
  <2>0. k[1] \in Stores /\ k[2] \in Numbers /\ k \in RegistersOf(k[1])
    BY <1>2, InStore
  <2>1. ASSUME NEW s \in Stores, DeactivateStore(s)
        PROVE  register'[k[1]][k[2]] = "ACTIVE" /\ store'[k[1]] = "ACTIVE"
    <3>1. k[1] # s
      BY <1>2, <2>0, <2>1 DEF DeactivateStore, OpenShifts
    <3> QED
      BY <1>2, <2>0, <2>1, <3>1 DEF DeactivateStore, StaffTypeOK
  <2>2. ASSUME NEW s \in Stores, ActivateStore(s) \/ \E u \in Users : GiveAccess(s, u)
        PROVE  register'[k[1]][k[2]] = "ACTIVE" /\ store'[k[1]] = "ACTIVE"
    BY <1>2, <2>0, <2>2 DEF ActivateStore, GiveAccess, StaffTypeOK
  <2>3. ASSUME NEW j \in Registers, DeactivateRegister(j)
        PROVE  register'[k[1]][k[2]] = "ACTIVE" /\ store'[k[1]] = "ACTIVE"
    <3>1. j[1] \in Stores /\ j[2] \in Numbers /\ j # k
      BY <1>2, <2>3 DEF DeactivateRegister, Registers
    <3>2. j[1] # k[1] \/ j[2] # k[2]
      BY <3>1 DEF Registers
    <3> QED
      BY <1>2, <2>0, <2>3, <3>1, <3>2 DEF DeactivateRegister, StaffTypeOK
  <2>4. ASSUME NEW j \in Registers, ActivateRegister(j) \/ CloseShift(j)
        PROVE  register'[k[1]][k[2]] = "ACTIVE" /\ store'[k[1]] = "ACTIVE"
    <3>1. CASE ActivateRegister(j)
      <4>1. register' = [register EXCEPT ![j[1]][j[2]] = "ACTIVE"] /\ UNCHANGED store
        BY <3>1 DEF ActivateRegister
      <4>2. "ACTIVE" \in Status
        BY DEF Status
      <4>3. register'[k[1]][k[2]] \in {"ACTIVE", register[k[1]][k[2]]}
        BY <2>0, <4>1, <4>2, Switched
      <4> QED
        BY <1>2, <4>1, <4>3
    <3>2. CASE CloseShift(j)
      BY <1>2, <3>2 DEF CloseShift
    <3> QED
      BY <2>4, <3>1, <3>2
  <2> QED
    BY <2>1, <2>2, <2>3, <2>4
<1>3. ASSUME NEW s \in Stores, NEW u \in Users, access[s][u] = "ACTIVE"
      PROVE  access'[s][u] = "ACTIVE"
  <2>1. CASE UNCHANGED access
    BY <1>3, <2>1
  <2>2. ASSUME NEW r \in Stores, NEW v \in Users, GiveAccess(r, v)
        PROVE  access'[s][u] = "ACTIVE"
    BY <1>3, <2>2 DEF GiveAccess, StaffTypeOK
  <2> QED
    BY <2>1, <2>2 DEF DeactivateStore, ActivateStore, DeactivateRegister, ActivateRegister,
         CloseShift
<1>4. \A k \in Registers : shift'[k] \in {shift[k], None}
  BY DEF DeactivateStore, ActivateStore, GiveAccess, DeactivateRegister, ActivateRegister,
         CloseShift, StaffTypeOK
<1>5. ASSUME NEW c \in Clients PROVE OpeningInv(c)'
  <2> SUFFICES ASSUME working[c] # None, working[c].op = "OPEN" PROVE OpeningInv(c)'
    BY <1>0 DEF OpeningInv
  <2>1. PICK k \in Registers :
            /\ working[c].registers = {k} /\ working[c].user \in Users
            /\ register[k[1]][k[2]] = "ACTIVE" /\ store[k[1]] = "ACTIVE"
            /\ k \notin late => access[k[1]][working[c].user] = "ACTIVE"
    BY DEF CounterInv, OpeningInv
  <2>2. register'[k[1]][k[2]] = "ACTIVE" /\ store'[k[1]] = "ACTIVE"
    BY <1>2, <2>1 DEF RegisterFree
  <2>3. k \notin late => access'[k[1]][working[c].user] = "ACTIVE"
    BY <1>3, <2>1 DEF Registers
  <2> QED
    BY <1>0, <2>1, <2>2, <2>3 DEF OpeningInv
<1>6. ASSUME NEW c \in Clients PROVE RemovingInv(c)'
  <2> SUFFICES ASSUME working[c] # None, working[c].op = "REMOVE_ACCESS" PROVE RemovingInv(c)'
    BY <1>0 DEF RemovingInv
  <2>1. PICK r \in Stores :
          /\ working[c].user \in Users
          /\ working[c].registers # {} /\ working[c].registers \subseteq RegistersOf(r)
          /\ RegistersOf(r) \subseteq working[c].registers \cup late
          /\ \A k \in working[c].registers : shift[k] # working[c].user
    BY DEF CounterInv, RemovingInv
  <2>2. \A k \in working[c].registers : shift'[k] # working[c].user
    BY <1>4, <2>1, StaffAssumption DEF RegistersOf
  <2> QED
    BY <1>0, <1>1, <2>1, <2>2 DEF RemovingInv
<1>7. ASSUME NEW s \in Stores, store'[s] = "NONE" PROVE RegistersOf(s)' = {}
  <2>1. store[s] = "NONE"
    BY <1>7 DEF DeactivateStore, ActivateStore, GiveAccess, DeactivateRegister,
         ActivateRegister, CloseShift, StaffTypeOK
  <2> QED
    BY <1>1, <2>1 DEF CounterInv
<1>8. ASSUME NEW k \in Registers, shift'[k] # None
      PROVE  /\ shift'[k] = shift[k] /\ shift[k] # None /\ k[1] \in Stores
             /\ register'[k[1]][k[2]] = "ACTIVE" /\ store'[k[1]] = "ACTIVE"
  <2>1. shift'[k] = shift[k] /\ shift[k] # None
    BY <1>4, <1>8
  <2> QED
    BY <1>2, <2>1 DEF CounterInv, OpenShiftInService, Registers
<1>9. CashierWorksThere'
  <2> SUFFICES ASSUME NEW k \in Registers, k \notin late, shift'[k] # None
               PROVE  access'[k[1]][shift'[k]] = "ACTIVE"
    BY <1>0 DEF CashierWorksThere
  <2>1. shift[k] \in Users /\ access[k[1]][shift[k]] = "ACTIVE"
    BY <1>8 DEF CounterInv, CashierWorksThere, StaffTypeOK
  <2> QED
    BY <1>3, <1>8, <2>1
<1>10. \A c, d \in Clients : c # d /\ working'[c] # None /\ working'[d] # None =>
           working'[c].registers \cap working'[d].registers = {}
  BY <1>0 DEF CounterInv
<1> QED
  BY <1>5, <1>6, <1>7, <1>8, <1>9, <1>10 DEF CounterInv, OpenShiftInService

\* An access goes, or an opening begins and ends.
LEMMA CounterWork ==
  ASSUME StaffTypeOK, StaffTypeOK', CounterInv, NEW c \in Clients,
         \/ \E s \in Stores, u \in Users : RemoveAccess(c, s, u)
         \/ \E k \in Registers : BeginOpening(c, k)
         \/ CommitOpening(c) \/ CommitAccess(c)
  PROVE  CounterInv'
<1>0. /\ UNCHANGED <<store, register, late>>
      /\ \A d \in Clients \ {c} : working'[d] = working[d]
  BY DEF RemoveAccess, BeginOpening, CommitOpening, CommitAccess, counterVars, StaffTypeOK
<1>1. \A s \in Stores : RegistersOf(s)' = RegistersOf(s)
  BY <1>0 DEF RegistersOf
<1>2. \A s \in Stores : store'[s] = "NONE" => RegistersOf(s)' = {}
  BY <1>0, <1>1 DEF CounterInv
<1>3. ASSUME NEW s \in Stores, NEW u \in Users, RemoveAccess(c, s, u) PROVE CounterInv'
  <2>1. /\ UNCHANGED <<access, shift>>
        /\ working'[c].op = "REMOVE_ACCESS" /\ working'[c].user = u
        /\ working'[c].registers = RegistersOf(s) /\ RegistersOf(s) # {}
        /\ \A k \in RegistersOf(s) : RegisterFree(k) /\ shift[k] # u
    BY <1>3 DEF RemoveAccess, counterVars, StaffTypeOK
  <2>2. ASSUME NEW d \in Clients PROVE OpeningInv(d)' /\ RemovingInv(d)'
    <3>1. CASE d = c
      BY <1>1, <2>1, <3>1 DEF OpeningInv, RemovingInv
    <3>2. CASE d # c
      BY <1>0, <1>1, <2>1, <3>2 DEF CounterInv, OpeningInv, RemovingInv
    <3> QED
      BY <3>1, <3>2
  <2>3. ASSUME NEW d \in Clients, NEW e \in Clients, d # e, working'[d] # None, working'[e] # None
        PROVE  working'[d].registers \cap working'[e].registers = {}
    BY <1>0, <2>1, <2>3 DEF CounterInv, RegisterFree
  <2>4. OpenShiftInService' /\ CashierWorksThere'
    BY <1>0, <2>1 DEF CounterInv, OpenShiftInService, CashierWorksThere
  <2> QED
    BY <1>2, <2>2, <2>3, <2>4 DEF CounterInv
<1>4. ASSUME NEW k \in Registers, BeginOpening(c, k) PROVE CounterInv'
  <2>0. asked[c].user \in Users
    BY <1>4 DEF BeginOpening, StaffTypeOK, AskedRow
  <2> PICK u \in Users : u = asked[c].user
    BY <2>0
  <2>1. /\ UNCHANGED <<access, shift>>
        /\ working'[c].op = "OPEN" /\ working'[c].user = u /\ working'[c].registers = {k}
        /\ register[k[1]][k[2]] = "ACTIVE" /\ store[k[1]] = "ACTIVE"
        /\ access[k[1]][u] = "ACTIVE" /\ RegisterFree(k)
    BY <1>4 DEF BeginOpening, counterVars, StaffTypeOK
  <2>2. ASSUME NEW d \in Clients PROVE OpeningInv(d)' /\ RemovingInv(d)'
    <3>1. CASE d = c
      BY <1>0, <2>1, <3>1 DEF OpeningInv, RemovingInv
    <3>2. CASE d # c
      BY <1>0, <1>1, <2>1, <3>2 DEF CounterInv, OpeningInv, RemovingInv
    <3> QED
      BY <3>1, <3>2
  <2>3. ASSUME NEW d \in Clients, NEW e \in Clients, d # e, working'[d] # None, working'[e] # None
        PROVE  working'[d].registers \cap working'[e].registers = {}
    BY <1>0, <2>1, <2>3 DEF CounterInv, RegisterFree
  <2>4. OpenShiftInService' /\ CashierWorksThere'
    BY <1>0, <2>1 DEF CounterInv, OpenShiftInService, CashierWorksThere
  <2> QED
    BY <1>2, <2>2, <2>3, <2>4 DEF CounterInv
<1>5. ASSUME working'[c] = None
      PROVE  \A d, e \in Clients : d # e /\ working'[d] # None /\ working'[e] # None =>
                 working'[d].registers \cap working'[e].registers = {}
  BY <1>0, <1>5 DEF CounterInv
<1>6. CASE CommitOpening(c)
  <2>1. PICK k \in Registers :
            /\ working[c].registers = {k} /\ working[c].user \in Users
            /\ register[k[1]][k[2]] = "ACTIVE" /\ store[k[1]] = "ACTIVE"
            /\ k \notin late => access[k[1]][working[c].user] = "ACTIVE"
    BY <1>6 DEF CommitOpening, CounterInv, OpeningInv
  <2> PICK u \in Users : u = working[c].user
    BY <2>1
  <2>2. /\ working[c] # None /\ working'[c] = None /\ UNCHANGED access
        /\ \A j \in Registers : shift'[j] = shift[j] \/ (j = k /\ shift'[j] = u)
    <3>1. \/ shift' = shift
          \/ shift' = [j \in Registers |-> IF j \in working[c].registers THEN u ELSE shift[j]]
      BY <1>6 DEF CommitOpening
    <3>2. \A j \in Registers : shift'[j] = shift[j] \/ (j = k /\ shift'[j] = u)
      BY <2>1, <3>1
    <3> QED
      BY <1>6, <3>2 DEF CommitOpening, StaffTypeOK
  <2>3. ASSUME NEW d \in Clients PROVE OpeningInv(d)' /\ RemovingInv(d)'
    <3>1. CASE d = c
      BY <2>2, <3>1 DEF OpeningInv, RemovingInv
    <3>2. CASE d # c
      <4>1. OpeningInv(d)'
        BY <1>0, <2>2, <3>2 DEF CounterInv, OpeningInv
      <4>2. working[d] # None => k \notin working[d].registers
        BY <2>1, <2>2, <3>2 DEF CounterInv
      <4>3. ASSUME working[d] # None, working[d].op = "REMOVE_ACCESS"
            PROVE  \A j \in working[d].registers : shift'[j] = shift[j]
        BY <2>2, <4>2, <4>3 DEF CounterInv, RemovingInv, RegistersOf
      <4>4. RemovingInv(d)'
        BY <1>0, <1>1, <3>2, <4>3 DEF CounterInv, RemovingInv
      <4> QED
        BY <4>1, <4>4
    <3> QED
      BY <3>1, <3>2
  <2>4. OpenShiftInService' /\ CashierWorksThere'
    BY <1>0, <2>1, <2>2 DEF CounterInv, OpenShiftInService, CashierWorksThere
  <2> QED
    BY <1>2, <1>5, <2>2, <2>3, <2>4 DEF CounterInv
<1>7. CASE CommitAccess(c)
  <2>1. PICK s \in Stores :
          /\ working[c].user \in Users
          /\ working[c].registers # {} /\ working[c].registers \subseteq RegistersOf(s)
          /\ RegistersOf(s) \subseteq working[c].registers \cup late
          /\ \A k \in working[c].registers : shift[k] # working[c].user
    BY <1>7 DEF CommitAccess, CounterInv, RemovingInv
  <2> PICK u \in Users : u = working[c].user
    BY <2>1
  <2>2. working[c] # None /\ working'[c] = None /\ UNCHANGED shift
    BY <1>7 DEF CommitAccess, StaffTypeOK
  <2>3. \A r \in Stores : (\E k \in working[c].registers : k[1] = r) <=> r = s
    BY <2>1 DEF RegistersOf
  <2>4. ASSUME NEW r \in Stores, NEW v \in Users, r # s \/ v # u
        PROVE  access'[r][v] = access[r][v]
    <3>1. access' = [x \in Stores |->
             IF \E k \in working[c].registers : k[1] = x
             THEN [access[x] EXCEPT ![u] = "INACTIVE"] ELSE access[x]]
      BY <1>7 DEF CommitAccess
    <3>2. access'[r] = IF r = s THEN [access[r] EXCEPT ![u] = "INACTIVE"] ELSE access[r]
      BY <2>3, <3>1
    <3> QED
      BY <2>4, <3>2 DEF StaffTypeOK
  <2>5. ASSUME NEW d \in Clients PROVE OpeningInv(d)' /\ RemovingInv(d)'
    <3>1. CASE d = c
      BY <2>2, <3>1 DEF OpeningInv, RemovingInv
    <3>2. CASE d # c
      <4>1. RemovingInv(d)'
        BY <1>0, <1>1, <2>2, <3>2 DEF CounterInv, RemovingInv
      <4>2. OpeningInv(d)'
        <5> SUFFICES ASSUME working[d] # None, working[d].op = "OPEN" PROVE OpeningInv(d)'
          BY <1>0, <3>2 DEF OpeningInv
        <5>1. PICK k \in Registers :
            /\ working[d].registers = {k} /\ working[d].user \in Users
            /\ register[k[1]][k[2]] = "ACTIVE" /\ store[k[1]] = "ACTIVE"
            /\ k \notin late => access[k[1]][working[d].user] = "ACTIVE"
          BY DEF CounterInv, OpeningInv
        <5>2. k \notin working[c].registers
          BY <2>2, <3>2, <5>1 DEF CounterInv
        <5>3. k[1] \in Stores /\ k \in RegistersOf(k[1])
          BY <5>1, InStore
        <5>4. k \notin late => k[1] # s
          BY <2>1, <5>2, <5>3
        <5>5. k \notin late => access'[k[1]][working[d].user] = "ACTIVE"
          BY <2>4, <5>1, <5>3, <5>4
        <5> QED
          BY <1>0, <3>2, <5>1, <5>5 DEF OpeningInv
      <4> QED
        BY <4>1, <4>2
    <3> QED
      BY <3>1, <3>2
  <2>6. OpenShiftInService'
    BY <1>0, <2>2 DEF CounterInv, OpenShiftInService
  <2>7. CashierWorksThere'
    <3> SUFFICES ASSUME NEW k \in Registers, k \notin late, shift[k] # None
                 PROVE  access'[k[1]][shift[k]] = "ACTIVE"
      BY <1>0, <2>2 DEF CashierWorksThere
    <3>1. /\ shift[k] \in Users /\ access[k[1]][shift[k]] = "ACTIVE"
          /\ register[k[1]][k[2]] = "ACTIVE"
      BY DEF CounterInv, OpenShiftInService, CashierWorksThere, StaffTypeOK
    <3>2. k[1] \in Stores /\ k \in RegistersOf(k[1])
      BY <3>1, InStore
    <3>3. k[1] # s \/ shift[k] # u
      BY <2>1, <3>2
    <3> QED
      BY <2>4, <3>1, <3>2, <3>3
  <2> QED
    BY <1>2, <1>5, <2>2, <2>5, <2>6, <2>7 DEF CounterInv
<1> QED
  BY <1>3, <1>4, <1>6, <1>7

LEMMA CounterStepInv ==
  StaffTypeOK /\ StaffTypeOK' /\ CounterInv /\ [StaffNext]_staffVars => CounterInv'
<1> SUFFICES ASSUME StaffTypeOK, StaffTypeOK', CounterInv, [StaffNext]_staffVars
             PROVE  CounterInv'
  OBVIOUS
<1>1. CASE UNCHANGED staffVars
  BY <1>1, CounterFrame DEF staffVars, counterVars
<1>2. CASE AccountStep \/ RoleStep(Permissions)
  BY <1>2, CounterAsk
<1>3. ASSUME NEW c \in Clients, NEW co \in Companies, NEW u \in Users, AskOpening(c, co, u)
      PROVE  CounterInv'
  BY <1>3, CounterFrame DEF AskOpening
<1>4. ASSUME NEW s \in Stores, CreateStore(s) \/ \E n \in Numbers : CreateRegister(s, n)
      PROVE  CounterInv'
  BY <1>4, CounterCreate
<1> QED
  BY <1>1, <1>2, <1>3, <1>4, CounterSwitch, CounterWork DEF StaffNext, CounterStep

-----------------------------------------------------------------------------
(* Theorems                                                                   *)

LEMMA StaffStart == StaffInit => StaffIInv
<1> SUFFICES ASSUME StaffInit PROVE StaffIInv
  OBVIOUS
<1>1. StaffTypeOK
  <2>1. account \in [Users -> Status] /\ grant \in [Companies -> [Roles -> SUBSET Permissions]]
    BY DEF StaffInit, Status
  <2>2. /\ asked \in [Clients -> AskedRow \cup {None}]
        /\ working \in [Clients -> WorkingRow \cup {None}]
    BY DEF StaffInit
  <2>3. /\ store \in [Stores -> Status] /\ register \in [Stores -> [Numbers -> Status]]
        /\ access \in [Stores -> [Users -> Status]]
        /\ shift \in [Registers -> Users \cup {None}] /\ late \subseteq Registers
    BY DEF StaffInit, Status
  <2> QED
    BY <2>1, <2>2, <2>3 DEF StaffInit, StaffTypeOK
<1>2. PeopleInv
  BY DEF StaffInit, PeopleInv, AskedInv, PendingInv, Pending, CompanyKeepsAnAdmin
<1>3. \A s \in Stores : RegistersOf(s) = {}
  BY DEF StaffInit, RegistersOf, Registers
<1>4. CounterInv
  BY <1>3 DEF StaffInit, CounterInv, OpeningInv, RemovingInv, OpenShiftInService, CashierWorksThere
<1> QED
  BY <1>1, <1>2, <1>4 DEF StaffIInv

\* The invariant holds of every behaviour: the type of the rows, and what the
\* transactions in progress know of the people and of the counters.
THEOREM StaffInvariance == StaffSpec => []StaffIInv
<1>1. StaffIInv /\ [StaffNext]_staffVars => StaffIInv'
  BY TypeStep, PeopleStep, CounterStepInv DEF StaffIInv
<1> QED
  BY <1>1, StaffStart, PTL DEF StaffSpec

\* Accounts are deactivated, roles changed and permissions withdrawn by several
\* requests at once (assertStillHasAdmin under lockCompany), and every company
\* whose people work for it alone keeps an administrator.
THEOREM AdminRemains == StaffSpec => []CompanyKeepsAnAdmin
<1>1. StaffIInv => CompanyKeepsAnAdmin
  BY DEF StaffIInv, PeopleInv
<1> QED
  BY <1>1, StaffInvariance, PTL

\* However openings race with registers, stores and accesses that are switched off
\* (open, lockStoreRegisters), an open shift keeps its register, its store and the
\* access of its cashier.
THEOREM Attended == StaffSpec => []OpenShiftIsAttended
<1>1. StaffIInv => OpenShiftIsAttended
  BY DEF StaffIInv, CounterInv, OpenShiftIsAttended
<1> QED
  BY <1>1, StaffInvariance, PTL

-----------------------------------------------------------------------------
(* Handover *)

\* What no runner has been offered yet.
Unready ==
    {"NONE", "NEW", "ACCEPTED_BY_WAREHOUSE", "PACKING", "TRANSFER_REQUESTED", "RESTOCK_REQUESTED"}

\* The runner may pick up; before the offer, and while it stands, there is none,
\* unless the order was edited when it was ready.  Of no order nobody hears.
HandsInv ==
    /\ order.runner # Nobody => Has(order.runner, {"PICKUP"})
    /\ order.status \in IN_RUNNER_HANDS => order.runner # Nobody
    /\ ~order.repacked /\ (order.status \in Unready \/ "READY_FOR_RUNNER" \in inbox) =>
           order.runner = Nobody
    /\ order.status = "NONE" => inbox = {} /\ order.correction = NoCorrection

HandsIInv ==
    HandoverTypeOK /\ HandsInv /\ PackedBySomebody /\ OrderNoticesAskForALiveStep

-----------------------------------------------------------------------------
(* The flows *)

LEMMA FourTypes == Types = {"SO", "RE", "TR", "RS"}
BY DEF Types, FLOWS

LEMMA FlowStepFields ==
  ASSUME NEW S, NEW to, NEW effect, NEW permissions, NEW actor,
         NEW step \in FlowSteps(S, to, effect, permissions, actor)
  PROVE  /\ step.from \in S /\ step.to = to /\ step.effect = effect
         /\ step.permissions = permissions /\ step.actor = actor
BY DEF FlowSteps

\* What a step of a flow does to who holds the order.
Sound(type, step) ==
    /\ step.from \notin FINAL_STATUSES \cup {"NONE"} /\ step.to # "NONE"
    /\ step.effect = "READY" => step.from \in Unready /\ step.to \in WAITING_RUNNER_STATUSES
    /\ step.effect # "READY" => step.to \notin WAITING_RUNNER_STATUSES
    /\ step.to \in Unready => step.from \in Unready
    /\ step.effect = "PICK_UP" => step.permissions = {"PICKUP"} /\ step.actor = "ANY" /\ step.to \notin Unready
    /\ step.to \in IN_RUNNER_HANDS => step.effect = "PICK_UP" \/ step.from \in IN_RUNNER_HANDS
    /\ step.effect = "DELIVER" => step.to \in AWAITING_RECEIPT_STATUSES
    /\ step.effect = "TO_PAYMENT" => step.to = "PENDING_PAYMENT"
    /\ step.effect = "CANCEL" => step.to = "CANCELLED"
    /\ type # "RE" /\ step.to \in RUNNER_ENGAGED_STATUSES =>
           step.effect = "READY" \/ step.from \in RUNNER_ENGAGED_STATUSES
    /\ type # "RE" /\ IsWarehouseStep(step) => step.from \notin RUNNER_ENGAGED_STATUSES

LEMMA SoundFlow ==
  ASSUME NEW type \in Types, NEW step \in FLOWS[type]
  PROVE  Sound(type, step)
<1> USE DEF Sound, FINAL_STATUSES, Unready, WAITING_RUNNER_STATUSES, IN_RUNNER_HANDS,
            AWAITING_RECEIPT_STATUSES, RUNNER_ENGAGED_STATUSES, IsWarehouseStep,
            WAREHOUSE_EFFECT_AT, FlowSteps, FLOWS
<1>1. CASE type = "SO"
  BY <1>1, SMTT(60)
<1>2. CASE type = "RE"
  BY <1>2, SMTT(60)
<1>3. CASE type = "TR"
  BY <1>3, SMTT(60)
<1>4. CASE type = "RS"
  BY <1>4, SMTT(60)
<1> QED
  BY <1>1, <1>2, <1>3, <1>4, FourTypes

LEMMA StepStatuses ==
  ASSUME NEW type \in Types, NEW step \in FLOWS[type]
  PROVE  step.from \in Statuses /\ step.to \in Statuses
<1>1. step \in UNION {FLOWS[t] : t \in Types}
  OBVIOUS
<1>2. {step.from, step.to} \subseteq
          UNION {{s.from, s.to} : s \in UNION {FLOWS[t] : t \in Types}}
  BY <1>1
<1> QED
  BY <1>2 DEF Statuses

LEMMA FlowStatuses ==
  ASSUME NEW S, NEW s \in S, NEW to, NEW effect, NEW permissions, NEW actor, NEW type \in Types,
         FlowSteps(S, to, effect, permissions, actor) \subseteq FLOWS[type]
  PROVE  s \in Statuses /\ to \in Statuses
<1> DEFINE step == [from |-> s, to |-> to, effect |-> effect, permissions |-> permissions,
                    actor |-> actor]
<1>1. step \in FLOWS[type]
  BY DEF FlowSteps
<1> QED
  BY <1>1, StepStatuses

LEMMA StatusNames ==
  ASSUME NEW type \in Types
  PROVE  INITIAL_STATUS[type] \in Statuses
         /\ {"NONE", "RECEIVED_BY_SELLER", "CANCELLED", "PACKING", "ACCEPTED_BY_WAREHOUSE",
             "RETURN_REQUESTED", "RECEIVED_BY_WAREHOUSE"} \subseteq Statuses
<1>1. {"NEW", "ACCEPTED_BY_WAREHOUSE", "PACKING"} \subseteq Statuses
  <2>1. FlowSteps({"NEW", "ACCEPTED_BY_WAREHOUSE"}, "PACKING", "PACK", WAREHOUSE, "ANY")
          \subseteq FLOWS["SO"]
    BY DEF FLOWS
  <2> QED
    BY <2>1, FourTypes, FlowStatuses
<1>2. {"RETURN_REQUESTED", "RETURNED"} \subseteq Statuses
  <2>1. FlowSteps({"RETURN_REQUESTED"}, "RETURNED", "CLOSE", {}, "ADMIN") \subseteq FLOWS["SO"]
    BY DEF FLOWS
  <2> QED
    BY <2>1, FourTypes, FlowStatuses
<1>3. {"DELIVERED_TO_STORE", "RECEIVED_BY_SELLER"} \subseteq Statuses
  <2>1. FlowSteps({"DELIVERED_TO_STORE"}, "RECEIVED_BY_SELLER", "RECEIVE", {"CONFIRM_RECEIPT"}, "ANY")
          \subseteq FLOWS["SO"]
    BY DEF FLOWS
  <2> QED
    BY <2>1, FourTypes, FlowStatuses
<1>4. {"WAITING_FOR_RUNNER", "CANCELLED"} \subseteq Statuses
  <2>1. FlowSteps({"WAITING_FOR_RUNNER"}, "CANCELLED", "CANCEL", RECEIPT_OR_WAREHOUSE, "REQUESTER")
          \subseteq FLOWS["RE"]
    BY DEF FLOWS
  <2> QED
    BY <2>1, FourTypes, FlowStatuses
<1>5. "RECEIVED_BY_WAREHOUSE" \in Statuses
  <2>1. FlowSteps({"RECEIVED_BY_WAREHOUSE"}, "RETURNED", "CLOSE_RETURN", RETURNS_DESK, "ANY")
          \subseteq FLOWS["RE"]
    BY DEF FLOWS
  <2> QED
    BY <2>1, FourTypes, FlowStatuses
<1>6. {"TRANSFER_REQUESTED", "RESTOCK_REQUESTED"} \subseteq Statuses
  <2>1. /\ FlowSteps({"TRANSFER_REQUESTED"}, "WAITING_FOR_RUNNER", "READY", WAREHOUSE, "ANY")
             \subseteq FLOWS["TR"]
        /\ FlowSteps({"RESTOCK_REQUESTED"}, "WAITING_FOR_RUNNER", "READY", WAREHOUSE, "ANY")
             \subseteq FLOWS["RS"]
    BY DEF FLOWS
  <2> QED
    BY <2>1, FourTypes, FlowStatuses
<1>7. INITIAL_STATUS[type] \in Statuses
  BY <1>1, <1>4, <1>6, FourTypes DEF INITIAL_STATUS
<1>8. "NONE" \in Statuses
  BY DEF Statuses
<1> QED
  BY <1>1, <1>2, <1>3, <1>4, <1>5, <1>7, <1>8

\* What the service does inside another operation.
LEMMA SoundService ==
  ASSUME NEW type \in Types, NEW s, NEW to, <<s, to>> \in SERVICE_STATUSES[type]
  PROVE  s \notin {"CANCELLED", "NONE"} /\ to \notin Unready \cup RUNNER_ENGAGED_STATUSES
<1> USE DEF SERVICE_STATUSES, Unready, RUNNER_ENGAGED_STATUSES, WAITING_RUNNER_STATUSES,
            IN_RUNNER_HANDS, AWAITING_RECEIPT_STATUSES
<1>1. CASE type = "SO"
  BY <1>1
<1>2. CASE type = "RS"
  BY <1>2
<1>3. CASE type \in {"RE", "TR"}
  BY <1>3
<1> QED
  BY <1>1, <1>2, <1>3, FourTypes

-----------------------------------------------------------------------------
(* Rows and notices *)

LEMMA NoticeKinds ==
  ASSUME NEW type \in NoticeTypes, NEW recipients, NEW actor
  PROVE  Notice(type, recipients, actor) \subseteq {type} \cap NoticeTypes
BY DEF Notice

\* What setStatus leaves is in good hands, if the row is and the news are of it.
LEMMA StatusSet ==
  ASSUME HandsIInv, UNCHANGED works,
         NEW row \in OrderRow, NEW news \in SUBSET NoticeTypes, SetStatus(row, news),
         row.correction = order.correction, order.incident => row.incident,
         order.status = "CANCELLED" => row.status = "CANCELLED", row.status # "NONE",
         row.runner # Nobody => Has(row.runner, {"PICKUP"}),
         row.status \in IN_RUNNER_HANDS => row.runner # Nobody,
         ~row.repacked /\ (row.status \in Unready \/ "READY_FOR_RUNNER" \in news) =>
             row.runner = Nobody,
         row.type # "RE" /\ row.status \in RUNNER_ENGAGED_STATUSES => row.operator # Nobody,
         \A k \in news : k \in DOMAIN NOTICE_ALIVE_WHILE => row.status \in NOTICE_ALIVE_WHILE[k],
         "REQUESTED" \in news => row.operator = Nobody,
         "CORRECTION" \notin news, "INCIDENT" \in news => row.incident,
         "CANCELLED" \in news => row.status = "CANCELLED"
  PROVE  HandsIInv'
<1>1. order' = row /\ inbox' = StillAsking(row) \cup news
  BY DEF SetStatus
<1>2. StillAsking(row) \subseteq inbox
  BY DEF StillAsking
<1>3. HandoverTypeOK'
  BY <1>1, <1>2 DEF HandoverTypeOK, HandsIInv
<1>4. HandsInv'
  <2>1. "READY_FOR_RUNNER" \in StillAsking(row) => row.runner = Nobody
    BY DEF StillAsking
  <2> QED
    BY <1>1, <2>1 DEF HandsInv, Has
<1>5. PackedBySomebody'
  BY <1>1 DEF PackedBySomebody
<1>6. OrderNoticesAskForALiveStep'
  <2>1. \A k \in inbox' : k \in DOMAIN NOTICE_ALIVE_WHILE => row.status \in NOTICE_ALIVE_WHILE[k]
    BY <1>1 DEF StillAsking
  <2>2. "REQUESTED" \in inbox' => row.operator = Nobody
    BY <1>1 DEF StillAsking
  <2>3. /\ "CORRECTION" \in inbox' => HasOpenCorrection
        /\ "INCIDENT" \in inbox' => row.incident
        /\ "CANCELLED" \in inbox' => row.status = "CANCELLED"
    BY <1>1, <1>2 DEF HandsIInv, OrderNoticesAskForALiveStep
  <2> QED
    BY <1>1, <2>1, <2>2, <2>3 DEF OrderNoticesAskForALiveStep, HasOpenCorrection
<1> QED
  BY <1>3, <1>4, <1>5, <1>6 DEF HandsIInv

-----------------------------------------------------------------------------
(* The order goes from hand to hand *)

LEMMA Typed ==
  ASSUME HandsIInv
  PROVE  order \in OrderRow /\ inbox \subseteq NoticeTypes /\ works \subseteq Hands \X Sites
BY DEF HandsIInv, HandoverTypeOK

\* No news: what the row says is enough.
LEMMA RowSet ==
  ASSUME HandsIInv, UNCHANGED works,
         NEW row \in OrderRow, SetStatus(row, {}),
         row.correction = order.correction, order.incident => row.incident,
         order.status = "CANCELLED" => row.status = "CANCELLED", row.status # "NONE",
         row.runner # Nobody => Has(row.runner, {"PICKUP"}),
         row.status \in IN_RUNNER_HANDS => row.runner # Nobody,
         ~row.repacked /\ row.status \in Unready => row.runner = Nobody,
         row.type # "RE" /\ row.status \in RUNNER_ENGAGED_STATUSES => row.operator # Nobody
  PROVE  HandsIInv'
<1>1. SetStatus(row, {}) /\ {} \in SUBSET NoticeTypes
  OBVIOUS
<1> QED
  BY <1>1, StatusSet

LEMMA BornKept ==
  ASSUME HandsIInv, NEW u \in Hands,
         \/ \E type \in Types : Request(u, type)
         \/ CreateHeldBySeller(u)
         \/ CreateReturnFromBin(u)
  PROVE  HandsIInv'
<1> USE DEF Unready, IN_RUNNER_HANDS, AWAITING_RECEIPT_STATUSES, WAITING_RUNNER_STATUSES,
            RUNNER_ENGAGED_STATUSES, INITIAL_STATUS, NOTICE_ALIVE_WHILE
<1>1. ASSUME NEW type \in Types, NEW status \in Statuses, NEW source \in Sites,
             NEW destination \in Sites, NEW news \in SUBSET NoticeTypes,
             order' = Born(u, type, status, source, destination), inbox' = news, UNCHANGED works,
             status \notin IN_RUNNER_HANDS \cup {"NONE"},
             type # "RE" => status \notin RUNNER_ENGAGED_STATUSES,
             \A k \in news : k \in {"REQUESTED", "READY_FOR_RUNNER"} /\ status \in NOTICE_ALIVE_WHILE[k]
      PROVE  HandsIInv'
  <2>1. /\ order' \in OrderRow
        /\ order'.type = type /\ order'.status = status /\ order'.runner = Nobody
        /\ order'.operator = Nobody /\ order'.correction = NoCorrection
    BY <1>1 DEF Born, OrderRow, NoCorrection, Corrected
  <2>2. HandoverTypeOK'
    BY <1>1, <2>1, Typed DEF HandoverTypeOK
  <2>3. HandsInv' /\ PackedBySomebody'
    BY <1>1, <2>1 DEF HandsInv, PackedBySomebody
  <2>4. OrderNoticesAskForALiveStep'
    BY <1>1, <2>1 DEF OrderNoticesAskForALiveStep
  <2> QED
    BY <2>2, <2>3, <2>4 DEF HandsIInv
<1>2. Store \in Sites /\ Depot \in Sites
  BY DEF Sites
<1>3. ASSUME NEW type \in Types, Request(u, type) PROVE HandsIInv'
  <2>1. type \in {"SO", "TR", "RS"}
    BY <1>3, FourTypes DEF Request
  <2> DEFINE news == Notice("REQUESTED", WarehouseStaff, u)
  <2>2. news \in SUBSET NoticeTypes /\ news \subseteq {"REQUESTED"}
    BY DEF Notice, NoticeTypes
  <2>3. INITIAL_STATUS[type] \in Statuses
    BY StatusNames
  <2>4. /\ order' = Born(u, type, INITIAL_STATUS[type], Depot, Store)
        /\ inbox' = news /\ UNCHANGED works
    BY <1>3 DEF Request
  <2> HIDE DEF news
  <2>5. PICK status : status = INITIAL_STATUS[type]
    OBVIOUS
  <2>6. /\ status \notin IN_RUNNER_HANDS \cup {"NONE"} /\ status \notin RUNNER_ENGAGED_STATUSES
        /\ status \in NOTICE_ALIVE_WHILE["REQUESTED"]
    BY <2>1, <2>5
  <2>7. \A k \in news : k \in {"REQUESTED", "READY_FOR_RUNNER"} /\ status \in NOTICE_ALIVE_WHILE[k]
    BY <2>2, <2>6
  <2>8. type \in Types /\ type # "RE" /\ status \in Statuses
    BY <2>1, <2>3, <2>5
  <2>9. order' = Born(u, type, status, Depot, Store) /\ inbox' = news /\ UNCHANGED works
    BY <2>4, <2>5
  <2> QED
    BY <1>1, <1>2, <2>2, <2>6, <2>7, <2>8, <2>9
<1>4. ASSUME CreateHeldBySeller(u) PROVE HandsIInv'
  <2>1. inbox = {}
    BY <1>4 DEF CreateHeldBySeller, HandsIInv, HandsInv
  <2>2. "RECEIVED_BY_SELLER" \in Statuses
    BY StatusNames, FourTypes
  <2> QED
    BY <1>1, <1>2, <1>4, <2>1, <2>2, FourTypes DEF CreateHeldBySeller
<1>5. ASSUME CreateReturnFromBin(u) PROVE HandsIInv'
  <2> DEFINE news == Notice("READY_FOR_RUNNER",
                 {v \in Hands : Has(v, {"PICKUP"}) /\ \E s \in Sites : HasAccess(v, s)}, u)
  <2>1. news \in SUBSET NoticeTypes /\ news \subseteq {"READY_FOR_RUNNER"}
    BY DEF Notice, NoticeTypes
  <2>2. INITIAL_STATUS["RE"] \in Statuses
    BY StatusNames, FourTypes
  <2>3. /\ order' = Born(u, "RE", INITIAL_STATUS["RE"], Store, Depot)
        /\ inbox' = news /\ UNCHANGED works
    BY <1>5 DEF CreateReturnFromBin
  <2> HIDE DEF news
  <2>4. /\ "RE" \in Types /\ INITIAL_STATUS["RE"] \notin IN_RUNNER_HANDS \cup {"NONE"}
        /\ \A k \in news : /\ k \in {"REQUESTED", "READY_FOR_RUNNER"}
                           /\ INITIAL_STATUS["RE"] \in NOTICE_ALIVE_WHILE[k]
    BY <2>1, FourTypes
  <2> QED
    BY <1>1, <1>2, <2>1, <2>2, <2>3, <2>4
<1> QED
  BY <1>3, <1>4, <1>5

LEMMA TransitionKept ==
  ASSUME HandsIInv, NEW u \in Hands, NEW step \in StepsFrom, Transition(u, step)
  PROVE  HandsIInv'
<1> DEFINE row == MovedOn(u, step)
           news == News(u, step)
<1>1. /\ step \in FLOWS[order.type] /\ step.from = order.status /\ order.type \in Types
      /\ SetStatus(row, news) /\ UNCHANGED works
  BY Typed DEF Transition, StepsFrom, OrderRow
<1>2. Sound(order.type, step) /\ step.to \in Statuses
  BY <1>1, SoundFlow, StepStatuses
<1>3. /\ row = [order EXCEPT !.status = step.to, !.operator = row.operator, !.runner = row.runner]
      /\ row.operator = IF step.effect \in {"PACK", "READY"} /\ order.operator = Nobody
                        THEN u ELSE order.operator
      /\ row.runner = IF step.effect = "PICK_UP" /\ order.runner = Nobody THEN u ELSE order.runner
  BY Typed DEF MovedOn, OrderRow
<1>4. row \in OrderRow
  BY <1>2, Typed DEF MovedOn, OrderRow
<1>5. /\ row.status = step.to /\ row.type = order.type /\ row.repacked = order.repacked
      /\ row.correction = order.correction /\ row.incident = order.incident
  BY Typed DEF MovedOn, OrderRow
<1>6. /\ news \in SUBSET NoticeTypes
      /\ news \subseteq {"READY_FOR_RUNNER", "DELIVERED", "PENDING_PAYMENT", "CANCELLED"}
      /\ "READY_FOR_RUNNER" \in news => step.effect = "READY"
      /\ "DELIVERED" \in news => step.effect = "DELIVER"
      /\ "PENDING_PAYMENT" \in news => step.effect = "TO_PAYMENT"
      /\ "CANCELLED" \in news => step.effect = "CANCEL"
  BY DEF News, Notice, NoticeTypes
<1>7. \A k \in news : k \in DOMAIN NOTICE_ALIVE_WHILE => row.status \in NOTICE_ALIVE_WHILE[k]
  BY <1>2, <1>5, <1>6 DEF Sound, NOTICE_ALIVE_WHILE
<1>8. /\ order.status # "CANCELLED" /\ row.status # "NONE"
      /\ "CANCELLED" \in news => row.status = "CANCELLED"
  BY <1>1, <1>2, <1>5, <1>6 DEF Sound, FINAL_STATUSES
<1>9. /\ row.runner # Nobody => Has(row.runner, {"PICKUP"})
      /\ row.status \in IN_RUNNER_HANDS => row.runner # Nobody
      /\ ~row.repacked /\ (row.status \in Unready \/ "READY_FOR_RUNNER" \in news) =>
             row.runner = Nobody
  <2>1. step.effect = "PICK_UP" => Has(u, {"PICKUP"})
    BY <1>2 DEF Transition, StepAllowed, Sound
  <2>2. u # Nobody
    BY HandoverAssumption
  <2>3. step.effect = "PICK_UP" => step.to \notin Unready /\ step.effect # "READY"
    BY <1>2 DEF Sound
  <2>4. step.to \in IN_RUNNER_HANDS => step.effect = "PICK_UP" \/ order.status \in IN_RUNNER_HANDS
    BY <1>1, <1>2 DEF Sound
  <2>5. step.to \in Unready \/ step.effect = "READY" => order.status \in Unready
    BY <1>1, <1>2 DEF Sound
  <2>6. row.runner # Nobody => Has(row.runner, {"PICKUP"})
    BY <1>3, <2>1 DEF HandsIInv, HandsInv
  <2> QED
    BY <1>3, <1>5, <1>6, <2>2, <2>3, <2>4, <2>5, <2>6 DEF HandsIInv, HandsInv
<1>10. row.type # "RE" /\ row.status \in RUNNER_ENGAGED_STATUSES => row.operator # Nobody
  BY <1>1, <1>2, <1>3, <1>5, HandoverAssumption DEF HandsIInv, PackedBySomebody, Sound
<1> HIDE DEF row, news
<1> QED
  BY <1>1, <1>4, <1>5, <1>6, <1>7, <1>8, <1>9, <1>10, StatusSet

LEMMA ElsewhereKept ==
  ASSUME HandsIInv, NEW to \in Statuses, Elsewhere(to)
  PROVE  HandsIInv'
<1> DEFINE row == [order EXCEPT !.status = to]
<1>1. /\ row \in OrderRow /\ row.status = to /\ row.type = order.type
      /\ row.runner = order.runner /\ row.operator = order.operator
      /\ row.repacked = order.repacked /\ row.correction = order.correction
      /\ row.incident = order.incident
  BY Typed DEF OrderRow
<1>2. order.status \notin {"CANCELLED", "NONE"} /\ to \notin Unready \cup RUNNER_ENGAGED_STATUSES
  BY Typed, SoundService DEF Elsewhere, OrderRow
<1>3. SetStatus(row, {}) /\ UNCHANGED works
  BY DEF Elsewhere
<1>4. row.runner # Nobody => Has(row.runner, {"PICKUP"})
  BY <1>1 DEF HandsIInv, HandsInv
<1>5. to \notin IN_RUNNER_HANDS \cup {"NONE"}
  BY <1>2 DEF RUNNER_ENGAGED_STATUSES, Unready
<1> HIDE DEF row
<1> QED
  BY <1>1, <1>2, <1>3, <1>4, <1>5, RowSet

\* An order that loses its last line ends.
LEMMA CancelEmptiedKept ==
  ASSUME HandsIInv, UNCHANGED works, NEW u \in Hands, IsOpen,
         NEW incident \in BOOLEAN, order.incident => incident,
         NEW news \in SUBSET {"INCIDENT"}, "INCIDENT" \in news => incident,
         CancelEmptied([order EXCEPT !.incident = incident], news, u)
  PROVE  HandsIInv'
<1> DEFINE row == [order EXCEPT !.incident = incident, !.status = "CANCELLED"]
           told == IF order.type = "SO" /\ order.status \in PACKED_STATUSES
                   THEN Notice("CANCELLED", WarehouseStaff, u) ELSE {}
<1>1. /\ row \in OrderRow /\ row.status = "CANCELLED" /\ row.runner = order.runner
      /\ row.correction = order.correction /\ row.incident = incident
  BY Typed, StatusNames, FourTypes DEF OrderRow
<1>2. [[order EXCEPT !.incident = incident] EXCEPT !.status = "CANCELLED"] = row
  BY Typed DEF OrderRow
<1>3. SetStatus(row, news \cup told)
  BY <1>2 DEF CancelEmptied
<1>4. /\ news \cup told \in SUBSET NoticeTypes
      /\ news \cup told \subseteq {"INCIDENT", "CANCELLED"}
  BY DEF Notice, NoticeTypes
<1>5. row.status \notin IN_RUNNER_HANDS \cup Unready \cup RUNNER_ENGAGED_STATUSES
  BY <1>1 DEF Unready, IN_RUNNER_HANDS, RUNNER_ENGAGED_STATUSES, AWAITING_RECEIPT_STATUSES,
              WAITING_RUNNER_STATUSES
<1>6. row.runner # Nobody => Has(row.runner, {"PICKUP"})
  BY <1>1 DEF HandsIInv, HandsInv
<1>7. \A k \in news \cup told : k \notin DOMAIN NOTICE_ALIVE_WHILE
  BY <1>4 DEF NOTICE_ALIVE_WHILE
<1>8. "INCIDENT" \in news \cup told => incident
  BY DEF Notice
<1> HIDE DEF row, told
<1> QED
  BY <1>1, <1>3, <1>4, <1>5, <1>6, <1>7, <1>8, StatusSet

LEMMA EditAwayKept ==
  ASSUME HandsIInv, NEW u \in Hands, EditAway(u)
  PROVE  HandsIInv'
<1>1. [order EXCEPT !.incident = order.incident] = order /\ order.incident \in BOOLEAN
  BY Typed DEF OrderRow
<1>2. CancelEmptied([order EXCEPT !.incident = order.incident], {}, u)
  BY <1>1 DEF EditAway
<1>3. UNCHANGED works /\ IsOpen /\ {} \in SUBSET {"INCIDENT"}
  BY DEF EditAway
<1> QED
  BY <1>1, <1>2, <1>3, CancelEmptiedKept

LEMMA ClaimKept ==
  ASSUME HandsIInv, NEW u \in Hands, Claim(u)
  PROVE  HandsIInv'
<1> DEFINE row == [order EXCEPT !.runner = u]
<1>1. /\ row \in OrderRow /\ row.runner = u /\ row.status = order.status /\ row.type = order.type
      /\ row.operator = order.operator /\ row.correction = order.correction
      /\ row.incident = order.incident
  BY Typed DEF OrderRow
<1>2. order.status \notin Unready \cup {"CANCELLED", "NONE"}
  BY DEF Claim, WAITING_RUNNER_STATUSES, Unready
<1>3. SetStatus(row, {}) /\ UNCHANGED works /\ Has(u, {"PICKUP"}) /\ u # Nobody
  BY HandoverAssumption DEF Claim
<1>4. row.type # "RE" /\ row.status \in RUNNER_ENGAGED_STATUSES => row.operator # Nobody
  BY <1>1 DEF HandsIInv, PackedBySomebody
<1> HIDE DEF row
<1> QED
  BY <1>1, <1>2, <1>3, <1>4, RowSet

LEMMA ClaimForWarehouseKept ==
  ASSUME HandsIInv, NEW u \in Hands, ClaimForWarehouse(u)
  PROVE  HandsIInv'
<1> DEFINE row == [order EXCEPT !.operator = u]
<1>1. /\ row \in OrderRow /\ row.operator = u /\ row.status = order.status
      /\ row.runner = order.runner /\ row.repacked = order.repacked
      /\ row.correction = order.correction /\ row.incident = order.incident
  BY Typed DEF OrderRow
<1>2. SetStatus(row, {}) /\ UNCHANGED works /\ u # Nobody
  BY HandoverAssumption DEF ClaimForWarehouse
<1>3. order.status # "NONE"
  <2>1. PICK step \in FLOWS[order.type] : step.from = order.status
    BY DEF ClaimForWarehouse, StepsFrom
  <2> QED
    BY <2>1, SoundFlow, Typed DEF Sound, OrderRow
<1>4. /\ row.runner # Nobody => Has(row.runner, {"PICKUP"})
      /\ row.status \in IN_RUNNER_HANDS => row.runner # Nobody
      /\ ~row.repacked /\ row.status \in Unready => row.runner = Nobody
  BY <1>1 DEF HandsIInv, HandsInv
<1> HIDE DEF row
<1> QED
  BY <1>1, <1>2, <1>3, <1>4, RowSet

-----------------------------------------------------------------------------
(* What is asked and read about it meanwhile *)

\* Who holds the order does not change, but for a keeper who lets go of it.
LEMMA SameHands ==
  ASSUME HandsIInv, NEW row \in OrderRow, order' = row,
         inbox' \subseteq NoticeTypes, works' \subseteq Hands \X Sites,
         row.type = order.type, row.status = order.status, row.runner = order.runner,
         row.repacked = order.repacked,
         row.type # "RE" /\ row.status \in RUNNER_ENGAGED_STATUSES => row.operator # Nobody,
         row.status = "NONE" => inbox' = {} /\ row.correction = NoCorrection,
         order.correction # NoCorrection => row.correction # NoCorrection,
         \A k \in inbox' \cap DOMAIN NOTICE_ALIVE_WHILE :
             \/ k \in inbox
             \/ k # "READY_FOR_RUNNER" /\ row.status \in NOTICE_ALIVE_WHILE[k]
             \/ k \in {"RUNNER_CALLED", "RUNNER_REPLIED"} /\ row.correction # NoCorrection,
         "REQUESTED" \in inbox' => row.operator = Nobody,
         "CORRECTION" \in inbox' => row.correction \notin {NoCorrection, Corrected},
         "INCIDENT" \in inbox' => row.incident,
         "CANCELLED" \in inbox' => "CANCELLED" \in inbox
  PROVE  HandsIInv'
<1>1. HandoverTypeOK'
  BY DEF HandoverTypeOK
<1>2. "READY_FOR_RUNNER" \in inbox' => "READY_FOR_RUNNER" \in inbox
  BY DEF NOTICE_ALIVE_WHILE
<1>3. HandsInv' /\ PackedBySomebody'
  BY <1>2 DEF HandsIInv, HandsInv, PackedBySomebody, Has
<1>4. \A k \in inbox' \cap DOMAIN NOTICE_ALIVE_WHILE :
          \/ row.status \in NOTICE_ALIVE_WHILE[k]
          \/ k \in {"RUNNER_CALLED", "RUNNER_REPLIED"} /\ row.correction # NoCorrection
  BY DEF HandsIInv, OrderNoticesAskForALiveStep
<1>5. "CANCELLED" \in inbox' => row.status = "CANCELLED"
  BY DEF HandsIInv, OrderNoticesAskForALiveStep
<1>6. OrderNoticesAskForALiveStep'
  BY <1>4, <1>5 DEF OrderNoticesAskForALiveStep, HasOpenCorrection
<1> QED
  BY <1>1, <1>3, <1>6 DEF HandsIInv

\* The same for a row that only its inbox changes.
LEMMA SameRow ==
  ASSUME HandsIInv, UNCHANGED order, works' \subseteq Hands \X Sites,
         NEW news \in SUBSET {"HURRY", "RUNNER_CALLED", "RUNNER_REPLIED", "EDITED"},
         inbox' \subseteq inbox \cup news, order.status = "NONE" => news = {},
         "HURRY" \in news => order.status \in BEFORE_PICKUP_STATUSES,
         news \cap {"RUNNER_CALLED", "RUNNER_REPLIED"} # {} => RunnerAnswers
  PROVE  HandsIInv'
<1>1. order \in OrderRow /\ inbox' \subseteq NoticeTypes
  BY Typed DEF NoticeTypes
<1>2. order.type # "RE" /\ order.status \in RUNNER_ENGAGED_STATUSES => order.operator # Nobody
  BY DEF HandsIInv, PackedBySomebody
<1>3. order.status = "NONE" => inbox' = {} /\ order.correction = NoCorrection
  BY DEF HandsIInv, HandsInv
<1>4. \A k \in inbox' \cap DOMAIN NOTICE_ALIVE_WHILE :
          \/ k \in inbox
          \/ k # "READY_FOR_RUNNER" /\ order.status \in NOTICE_ALIVE_WHILE[k]
          \/ k \in {"RUNNER_CALLED", "RUNNER_REPLIED"} /\ order.correction # NoCorrection
  <2>1. /\ NOTICE_ALIVE_WHILE["HURRY"] = BEFORE_PICKUP_STATUSES
        /\ NOTICE_ALIVE_WHILE["RUNNER_CALLED"] = RUNNER_ENGAGED_STATUSES
        /\ NOTICE_ALIVE_WHILE["RUNNER_REPLIED"] = RUNNER_ENGAGED_STATUSES
        /\ "EDITED" \notin DOMAIN NOTICE_ALIVE_WHILE
    BY DEF NOTICE_ALIVE_WHILE
  <2> QED
    BY <2>1 DEF RunnerAnswers, HasOpenCorrection
<1>5. /\ "REQUESTED" \in inbox' => order.operator = Nobody
      /\ "CORRECTION" \in inbox' => order.correction \notin {NoCorrection, Corrected}
      /\ "INCIDENT" \in inbox' => order.incident
      /\ "CANCELLED" \in inbox' => "CANCELLED" \in inbox
  BY DEF HandsIInv, OrderNoticesAskForALiveStep, HasOpenCorrection
<1> QED
  BY <1>1, <1>2, <1>3, <1>4, <1>5, SameHands

LEMMA EditInWarehouseKept ==
  ASSUME HandsIInv, NEW u \in Hands, EditInWarehouse(u)
  PROVE  HandsIInv'
<1> DEFINE row == [order EXCEPT !.status = "PACKING", !.repacked = TRUE]
           news == Notice("EDITED", WarehouseStaff, u)
<1>1. news \in SUBSET NoticeTypes /\ news \subseteq {"EDITED"}
  BY DEF Notice, NoticeTypes
<1>2. UNCHANGED works /\ order.type = "SO" /\ order.status \in BEFORE_PICKUP_STATUSES
  BY DEF EditInWarehouse
<1>3. CASE order.status = "READY_FOR_RUNNER"
  <2>1. /\ row \in OrderRow /\ row.status = "PACKING" /\ row.repacked
        /\ row.runner = order.runner /\ row.correction = order.correction
        /\ row.incident = order.incident
    BY Typed, StatusNames, FourTypes DEF OrderRow
  <2>2. SetStatus(row, news)
    BY <1>3 DEF EditInWarehouse
  <2>3. row.status \notin IN_RUNNER_HANDS \cup RUNNER_ENGAGED_STATUSES
    BY <2>1 DEF IN_RUNNER_HANDS, RUNNER_ENGAGED_STATUSES, WAITING_RUNNER_STATUSES,
                AWAITING_RECEIPT_STATUSES
  <2>4. row.runner # Nobody => Has(row.runner, {"PICKUP"})
    BY <2>1 DEF HandsIInv, HandsInv
  <2>5. \A k \in news : k \notin DOMAIN NOTICE_ALIVE_WHILE
    BY <1>1 DEF NOTICE_ALIVE_WHILE
  <2> HIDE DEF row, news
  <2> QED
    BY <1>1, <1>2, <1>3, <2>1, <2>2, <2>3, <2>4, <2>5, StatusSet
<1>4. CASE order.status # "READY_FOR_RUNNER"
  <2>1. UNCHANGED order /\ inbox' = inbox \cup news
    BY <1>4 DEF EditInWarehouse
  <2>2. order.status # "NONE"
    BY <1>2 DEF BEFORE_PICKUP_STATUSES
  <2>3. news \in SUBSET {"HURRY", "RUNNER_CALLED", "RUNNER_REPLIED", "EDITED"}
    BY <1>1
  <2> HIDE DEF news
  <2> QED
    BY <1>1, <1>2, <2>1, <2>2, <2>3, SameRow, Typed
<1> QED
  BY <1>3, <1>4

LEMMA ReleaseKept ==
  ASSUME HandsIInv, NEW u \in Hands, ReleaseFromWarehouse(u)
  PROVE  HandsIInv'
<1> DEFINE row == [order EXCEPT !.operator = Nobody]
<1>1. /\ row \in OrderRow /\ row.operator = Nobody /\ row.status = order.status
      /\ row.type = order.type /\ row.runner = order.runner /\ row.repacked = order.repacked
      /\ row.correction = order.correction /\ row.incident = order.incident
  BY Typed DEF OrderRow
<1>2. PICK step \in FLOWS[order.type] : step.from = order.status /\ IsWarehouseStep(step)
  BY DEF ReleaseFromWarehouse, StepsFrom
<1>3. /\ order.type # "RE" => order.status \notin RUNNER_ENGAGED_STATUSES
      /\ order.status # "NONE"
  BY <1>2, SoundFlow, Typed DEF Sound, OrderRow
<1>4. order' = row /\ UNCHANGED <<inbox, works>>
  BY DEF ReleaseFromWarehouse
<1>5. /\ "CORRECTION" \in inbox => order.correction \notin {NoCorrection, Corrected}
      /\ "INCIDENT" \in inbox => order.incident
  BY DEF HandsIInv, OrderNoticesAskForALiveStep, HasOpenCorrection
<1> HIDE DEF row
<1> QED
  BY <1>1, <1>3, <1>4, <1>5, SameHands, Typed

LEMMA CorrectionKept ==
  ASSUME HandsIInv, NEW u \in Hands, ReportCorrection(u) \/ AdvanceCorrection(u)
  PROVE  HandsIInv'
<1>1. ASSUME NEW stop \in 0 .. Corrected, order' = [order EXCEPT !.correction = stop],
             inbox' \subseteq inbox \cup {"CORRECTION"}, UNCHANGED works,
             "CORRECTION" \in inbox' => stop # Corrected, order.status # "NONE"
      PROVE  HandsIInv'
  <2> DEFINE row == [order EXCEPT !.correction = stop]
  <2>1. /\ row \in OrderRow /\ row.operator = order.operator /\ row.status = order.status
        /\ row.type = order.type /\ row.runner = order.runner /\ row.repacked = order.repacked
        /\ row.correction = stop /\ row.incident = order.incident /\ stop # NoCorrection
    BY Typed DEF OrderRow, NoCorrection, Corrected
  <2>2. inbox' \subseteq NoticeTypes /\ "CORRECTION" \notin DOMAIN NOTICE_ALIVE_WHILE
    BY <1>1, Typed DEF NoticeTypes, NOTICE_ALIVE_WHILE
  <2>3. /\ "REQUESTED" \in inbox => order.operator = Nobody
        /\ "INCIDENT" \in inbox => order.incident
        /\ order.type # "RE" /\ order.status \in RUNNER_ENGAGED_STATUSES => order.operator # Nobody
    BY DEF HandsIInv, OrderNoticesAskForALiveStep, PackedBySomebody
  <2>4. order' = row
    BY <1>1
  <2> HIDE DEF row
  <2> QED
    BY <1>1, <2>1, <2>2, <2>3, <2>4, SameHands, Typed
<1>2. ASSUME ReportCorrection(u) PROVE HandsIInv'
  <2>1. /\ order' = [order EXCEPT !.correction = 0] /\ order.status # "NONE"
        /\ inbox' \subseteq inbox \cup {"CORRECTION"} /\ UNCHANGED works
    BY <1>2 DEF ReportCorrection, Notice
  <2> QED
    BY <1>1, <2>1 DEF Corrected
<1>3. ASSUME AdvanceCorrection(u) PROVE HandsIInv'
  <2>1. order.correction \in 0 .. Corrected - 1
    BY <1>3, Typed DEF AdvanceCorrection, HasOpenCorrection, OrderRow, NoCorrection, Corrected
  <2>2. PICK stop \in 0 .. Corrected : stop = order.correction + 1
    BY <2>1 DEF Corrected
  <2>3. order' = [order EXCEPT !.correction = stop] /\ order'.correction = stop
    BY <1>3, <2>2, Typed DEF AdvanceCorrection, OrderRow
  <2>4. inbox' \subseteq inbox /\ ("CORRECTION" \in inbox' => stop # Corrected) /\ UNCHANGED works
    BY <1>3, <2>3 DEF AdvanceCorrection, MarkEntityRead
  <2>5. order.status # "NONE"
    BY <2>1 DEF HandsIInv, HandsInv, NoCorrection, Corrected
  <2> QED
    BY <1>1, <2>3, <2>4, <2>5
<1> QED
  BY <1>2, <1>3

LEMMA IncidentKept ==
  ASSUME HandsIInv,
         CloseIncident \/ \E u \in Hands, emptied \in BOOLEAN : ReportIncident(u, emptied)
  PROVE  HandsIInv'
<1>1. ASSUME NEW open \in BOOLEAN, order' = [order EXCEPT !.incident = open],
             inbox' \subseteq inbox \cup {"INCIDENT"}, UNCHANGED works,
             "INCIDENT" \in inbox' => open, order.status = "NONE" => inbox' \subseteq inbox
      PROVE  HandsIInv'
  <2> DEFINE row == [order EXCEPT !.incident = open]
  <2>1. /\ row \in OrderRow /\ row.operator = order.operator /\ row.status = order.status
        /\ row.type = order.type /\ row.runner = order.runner /\ row.repacked = order.repacked
        /\ row.correction = order.correction /\ row.incident = open
    BY Typed DEF OrderRow
  <2>2. inbox' \subseteq NoticeTypes /\ "INCIDENT" \notin DOMAIN NOTICE_ALIVE_WHILE
    BY <1>1, Typed DEF NoticeTypes, NOTICE_ALIVE_WHILE
  <2>3. /\ "REQUESTED" \in inbox => order.operator = Nobody
        /\ "CORRECTION" \in inbox => order.correction \notin {NoCorrection, Corrected}
        /\ order.type # "RE" /\ order.status \in RUNNER_ENGAGED_STATUSES => order.operator # Nobody
        /\ order.status = "NONE" => inbox = {} /\ order.correction = NoCorrection
    BY DEF HandsIInv, HandsInv, OrderNoticesAskForALiveStep, PackedBySomebody, HasOpenCorrection
  <2>4. order' = row
    BY <1>1
  <2> HIDE DEF row
  <2> QED
    BY <1>1, <2>1, <2>2, <2>3, <2>4, SameHands, Typed
<1>2. ASSUME CloseIncident PROVE HandsIInv'
  <2>1. /\ order' = [order EXCEPT !.incident = FALSE] /\ UNCHANGED works
        /\ inbox' \subseteq inbox /\ "INCIDENT" \notin inbox'
    BY <1>2 DEF CloseIncident, MarkEntityRead
  <2> QED
    BY <1>1, <2>1
<1>3. ASSUME NEW u \in Hands, NEW emptied \in BOOLEAN, ReportIncident(u, emptied)
      PROVE  HandsIInv'
  <2> DEFINE news == Notice("INCIDENT", WarehouseStaff \cup {order.requestedBy}, u)
  <2>1. news \in SUBSET {"INCIDENT"}
    BY DEF Notice
  <2>2. IsOpen /\ UNCHANGED works /\ order.status # "NONE"
    BY <1>3 DEF ReportIncident, IsOpen
  <2>3. CASE emptied
    <3>1. CancelEmptied([order EXCEPT !.incident = TRUE], news, u)
      BY <1>3, <2>3 DEF ReportIncident, OpenIncident
    <3> HIDE DEF news
    <3> QED
      BY <2>1, <2>2, <3>1, CancelEmptiedKept
  <2>4. CASE ~emptied
    <3>1. order' = [order EXCEPT !.incident = TRUE] /\ inbox' = inbox \cup news
      BY <1>3, <2>4 DEF ReportIncident, OpenIncident
    <3> HIDE DEF news
    <3> QED
      BY <1>1, <2>1, <2>2, <3>1
  <2> QED
    BY <2>3, <2>4
<1> QED
  BY <1>2, <1>3

LEMMA AskedKept ==
  ASSUME HandsIInv,
         \/ \E u \in Hands :
                RunnerReply(u) \/ \E kind \in {"HURRY", "RUNNER_CALLED"} : Nudge(u, kind)
         \/ \E kind \in NoticeTypes : MarkRead(kind)
         \/ \E post \in Movable : ChangePost(post)
  PROVE  HandsIInv'
<1>1. ~RunnerAnswers \/ order.status # "NONE"
  BY DEF RunnerAnswers, HasOpenCorrection, HandsIInv, HandsInv, RUNNER_ENGAGED_STATUSES,
         WAITING_RUNNER_STATUSES, IN_RUNNER_HANDS, AWAITING_RECEIPT_STATUSES
<1>2. ASSUME NEW u \in Hands, RunnerReply(u) PROVE HandsIInv'
  <2> DEFINE news == Notice("RUNNER_REPLIED", {order.requestedBy}, u)
  <2>1. news \subseteq {"RUNNER_REPLIED"}
    BY DEF Notice
  <2>2. RunnerAnswers /\ UNCHANGED <<order, works>> /\ inbox' = inbox \cup news
    BY <1>2 DEF RunnerReply
  <2> HIDE DEF news
  <2> QED
    BY <1>1, <2>1, <2>2, SameRow, Typed
<1>3. ASSUME NEW u \in Hands, NEW kind \in {"HURRY", "RUNNER_CALLED"}, Nudge(u, kind)
      PROVE  HandsIInv'
  <2>1. UNCHANGED <<order, works>>
    BY <1>3 DEF Nudge
  <2>2. CASE kind = "RUNNER_CALLED"
    <3>1. PICK news \in SUBSET {"RUNNER_CALLED"} : inbox' = inbox \cup news /\ RunnerAnswers
      BY <1>3, <2>2 DEF Nudge, Notice
    <3> QED
      BY <1>1, <2>1, <3>1, SameRow, Typed
  <2>3. CASE kind = "HURRY"
    <3>1. PICK news \in SUBSET {"HURRY"} :
              inbox' = inbox \cup news /\ order.status \in BEFORE_PICKUP_STATUSES
      BY <1>3, <2>3 DEF Nudge, Notice
    <3>2. order.status # "NONE"
      BY <3>1 DEF BEFORE_PICKUP_STATUSES
    <3> QED
      BY <2>1, <3>1, <3>2, SameRow, Typed
  <2> QED
    BY <2>2, <2>3
<1>4. ASSUME UNCHANGED order, inbox' \subseteq inbox, works' \subseteq Hands \X Sites
      PROVE  HandsIInv'
  <2>1. {} \in SUBSET {"HURRY", "RUNNER_CALLED", "RUNNER_REPLIED", "EDITED"}
    OBVIOUS
  <2> QED
    BY <1>4, <2>1, SameRow
<1>5. ASSUME NEW kind \in NoticeTypes, MarkRead(kind) PROVE HandsIInv'
  BY <1>4, <1>5, Typed DEF MarkRead
<1>6. ASSUME NEW post \in Movable, ChangePost(post) PROVE HandsIInv'
  BY <1>4, <1>6, Typed, HandoverAssumption DEF ChangePost
<1> QED
  BY <1>2, <1>3, <1>5, <1>6

-----------------------------------------------------------------------------
(* Theorems *)

LEMMA HandsBegin == HandoverInit => HandsIInv
<1> SUFFICES ASSUME HandoverInit PROVE HandsIInv
  OBVIOUS
<1> USE DEF Unready, IN_RUNNER_HANDS, AWAITING_RECEIPT_STATUSES, WAITING_RUNNER_STATUSES,
            RUNNER_ENGAGED_STATUSES
<1>1. /\ order \in OrderRow /\ order.correction = NoCorrection
      /\ order.runner # Nobody => Has(order.runner, {"PICKUP"})
      /\ order.status \notin IN_RUNNER_HANDS
      /\ order.type # "RE" => order.status \notin RUNNER_ENGAGED_STATUSES
      /\ order.status \in Unready => order.runner = Nobody
  <2>1. PICK u \in Hands, v \in Hands :
          /\ Has(v, {"PICKUP"})
          /\ \/ order = Born(u, "SO", "NONE", Depot, Store)
             \/ order = Born(u, "SO", "ACCEPTED_BY_WAREHOUSE", Depot, Store)
             \/ order = [Born(u, "SO", "RETURN_REQUESTED", Depot, Store) EXCEPT !.runner = v]
             \/ order = [Born(u, "RE", "RECEIVED_BY_WAREHOUSE", Store, Depot) EXCEPT !.runner = v]
    BY DEF HandoverInit
  <2>2. {"NONE", "ACCEPTED_BY_WAREHOUSE", "RETURN_REQUESTED", "RECEIVED_BY_WAREHOUSE"} \subseteq Statuses
    BY StatusNames, FourTypes
  <2>3. order \in OrderRow
    <3>1. /\ u \in Hands /\ v \in Hands /\ Store \in Sites /\ Depot \in Sites
          /\ NoCorrection \in NoCorrection .. Corrected
      BY DEF Sites, NoCorrection, Corrected
    <3>2. CASE order = Born(u, "SO", "NONE", Depot, Store)
      BY <2>2, <3>1, <3>2, FourTypes DEF Born, OrderRow
    <3>3. CASE order = Born(u, "SO", "ACCEPTED_BY_WAREHOUSE", Depot, Store)
      BY <2>2, <3>1, <3>3, FourTypes DEF Born, OrderRow
    <3>4. CASE order = [Born(u, "SO", "RETURN_REQUESTED", Depot, Store) EXCEPT !.runner = v]
      BY <2>2, <3>1, <3>4, FourTypes DEF Born, OrderRow
    <3>5. CASE order = [Born(u, "RE", "RECEIVED_BY_WAREHOUSE", Store, Depot) EXCEPT !.runner = v]
      BY <2>2, <3>1, <3>5, FourTypes DEF Born, OrderRow
    <3> QED
      BY <2>1, <3>2, <3>3, <3>4, <3>5
  <2> QED
    BY <2>1, <2>3 DEF Born
<1>2. inbox = {} /\ works \subseteq Hands \X Sites
  BY HandoverAssumption DEF HandoverInit
<1>3. HandoverTypeOK /\ HandsInv /\ PackedBySomebody /\ OrderNoticesAskForALiveStep
  BY <1>1, <1>2 DEF HandoverTypeOK, HandsInv, PackedBySomebody, OrderNoticesAskForALiveStep
<1> QED
  BY <1>3 DEF HandsIInv

LEMMA HandsStep == HandsIInv /\ [HandoverNext]_handoverVars => HandsIInv'
<1> SUFFICES ASSUME HandsIInv, [HandoverNext]_handoverVars PROVE HandsIInv'
  OBVIOUS
<1>1. CASE FlowStep
  <2>1. ASSUME NEW u \in Hands, NEW step \in StepsFrom, Transition(u, step) PROVE HandsIInv'
    BY <2>1, TransitionKept
  <2>2. ASSUME NEW u \in Hands,
               \/ \E type \in Types : Request(u, type)
               \/ CreateHeldBySeller(u)
               \/ CreateReturnFromBin(u)
        PROVE  HandsIInv'
    BY <2>2, BornKept
  <2>3. ASSUME NEW u \in Hands, EditAway(u) \/ Claim(u) \/ ClaimForWarehouse(u)
        PROVE  HandsIInv'
    BY <2>3, EditAwayKept, ClaimKept, ClaimForWarehouseKept
  <2>4. ASSUME NEW u \in Hands, ReleaseFromWarehouse(u) PROVE HandsIInv'
    BY <2>4, ReleaseKept
  <2>5. ASSUME NEW to \in Statuses, Elsewhere(to) PROVE HandsIInv'
    BY <2>5, ElsewhereKept
  <2> QED
    BY <1>1, <2>1, <2>2, <2>3, <2>4, <2>5 DEF FlowStep
<1>2. CASE DeskStep
  BY <1>2, EditInWarehouseKept, CorrectionKept, AskedKept DEF DeskStep
<1>3. CASE TroubleStep
  BY <1>3, IncidentKept DEF TroubleStep
<1>4. CASE UNCHANGED handoverVars
  BY <1>4 DEF handoverVars, HandsIInv, HandoverTypeOK, HandsInv, PackedBySomebody,
              OrderNoticesAskForALiveStep, HasOpenCorrection, Has
<1> QED
  BY <1>1, <1>2, <1>3, <1>4 DEF HandoverNext

\* Who holds an order at each stage of its flow (transition, claim, editOrder), for
\* any people with any permissions, who change posts as they like.
THEOREM HandsInvariance == HandoverSpec => []HandsIInv
BY HandsBegin, HandsStep, PTL DEF HandoverSpec

LEMMA HandsSuffice == HandsIInv => HandsHold
<1> SUFFICES ASSUME HandsIInv PROVE HandsHold
  OBVIOUS
<1>1. OfferIsOpen
  <2> SUFFICES ASSUME "READY_FOR_RUNNER" \in inbox, ~order.repacked, NEW u \in Runners
               PROVE  CanSee(u)
    BY DEF OfferIsOpen
  <2>1. order.runner = Nobody
    BY DEF HandsIInv, HandsInv
  <2>2. order.status \in WAITING_RUNNER_STATUSES
    BY DEF HandsIInv, OrderNoticesAskForALiveStep, NOTICE_ALIVE_WHILE
  <2>3. u \in Roots \/ (InRunnerScope(u) /\ AtHand(u))
    BY Typed DEF Runners, Has, HasAccess, InRunnerScope, AtHand, OrderRow
  <2> QED
    BY <2>1, <2>2, <2>3 DEF CanSee
<1>2. CarriedByWhoSeesIt
  BY DEF CarriedByWhoSeesIt, HandsIInv, HandsInv, CanSee, Has, InRunnerScope
<1>3. \A u \in Hands : Listed(u) <=> CanSee(u)
  BY DEF Listed, CanSee
<1> QED
  BY <1>1, <1>2, <1>3 DEF HandsHold, HandsIInv

\* Notices, offer, custody and what each one sees hold together for any people,
\* permissions and posts (settleInternalOrderNotices, canSeeOrder, applyVisibility).
THEOREM HandsStay == HandoverSpec => []HandsHold
BY HandsInvariance, HandsSuffice, PTL

-----------------------------------------------------------------------------
(* Catalogue *)

\* A request in progress.
EditRow ==
    {Quiet}
    \cup [op : {"MOVE"}, category : Categories, under : Categories \cup {Root}]
    \cup [op : {"DELETE"}, product : Products, variants : SUBSET Variants, hard : BOOLEAN]
    \cup [op : {"NAME", "SLUG"}, kind : Shared, row : Names, name : Spellings, slug : Nat]

\* However categories are picked, one of them hangs from none of the others.
Acyclic == \A S \in SUBSET Categories : S # {} => \E x \in S : parent[x] \notin S

\* What a move has decided, and goes on being so while it is the only one.
MoveInv(e) ==
    LET m == editing[e] IN
    /\ Exists(m.category) /\ (m.under # Root => Exists(m.under))
    /\ ~crossed => m.under # m.category /\ ~IsDescendant(m.category, m.under)

TreeInv ==
    /\ \A x \in Categories : parent[x] # Root => Exists(parent[x])
    /\ ~crossed => Acyclic /\ \A e, d \in Doing("MOVE") : d = e
    /\ \A e \in Doing("MOVE") : MoveInv(e)

\* A deletion holds its product, whose variants are the ones it read.
DeleteInv(e) ==
    LET p == editing[e].product IN
    /\ product[p] # "NONE" /\ editing[e].variants = VariantsOf(p)
    /\ \A d \in Doing("DELETE") : editing[d].product = p => d = e

ReferenceInv ==
    /\ \A v \in Variants : variant[v] # "NONE" => product[ProductOf[v]] # "NONE"
    /\ \A v \in moved : variant[v] # "NONE"
    /\ \A e \in Doing("DELETE") : DeleteInv(e)

\* A name that is being decided goes on being free while it is the only one.
NameInv ==
    ~sameTime =>
        /\ NamesToldApart
        /\ \A kind \in Shared : \A e \in Deciding(kind) :
               /\ NameFree(kind, editing[e].name, editing[e].row)
               /\ \A d \in Deciding(kind) : d = e

CatalogueIInv ==
    /\ CatalogueTypeOK /\ editing \in [Editors -> EditRow]
    /\ TreeInv /\ ReferenceInv /\ NameInv

-----------------------------------------------------------------------------
(* Requests in progress *)

LEMMA EditRows ==
  ASSUME NEW row \in EditRow
  PROVE  /\ row.op \in {"NONE", "MOVE", "NAME", "SLUG", "DELETE"}
         /\ row.op = "NONE" => row = Quiet
         /\ row.op = "MOVE" => row.category \in Categories /\ row.under \in Categories \cup {Root}
         /\ row.op = "DELETE" =>
                row.product \in Products /\ row.variants \in SUBSET Variants /\ row.hard \in BOOLEAN
         /\ row.op \in {"NAME", "SLUG"} =>
                /\ row.kind \in Shared /\ row.row \in Names
                /\ row.name \in Spellings /\ row.slug \in Nat
BY DEF EditRow, Quiet

LEMMA QuietRow == Quiet \in EditRow /\ Quiet.op = "NONE"
BY DEF EditRow, Quiet

LEMMA TypesKept ==
  ASSUME editing' \in [Editors -> EditRow],
         category' \in [Categories -> RowStatus] /\ parent' \in [Categories -> Categories \cup {Root}],
         product' \in [Products -> RowStatus] /\ variant' \in [Variants -> RowStatus],
         moved' \subseteq Variants /\ named' \subseteq Variants,
         entry' \in [Shared -> [Names -> Entries]],
         crossed' \in BOOLEAN /\ sameTime' \in BOOLEAN
  PROVE  CatalogueTypeOK'
<1>1. \A e \in Editors : editing'[e].op \in {"NONE", "MOVE", "NAME", "SLUG", "DELETE"}
  BY EditRows
<1> QED
  BY <1>1 DEF CatalogueTypeOK

LEMMA TreeKept ==
  ASSUME CatalogueIInv, editing' \in [Editors -> EditRow], UNCHANGED treeVars,
         \A d \in Editors : editing'[d].op = "MOVE" => editing'[d] = editing[d]
  PROVE  TreeInv'
<1>1. \A d \in Doing("MOVE")' : d \in Doing("MOVE") /\ editing'[d] = editing[d]
  BY DEF Doing
<1>2. \A c : Branch(c)' = Branch(c)
  BY DEF Branch, treeVars
<1>3. Acyclic' <=> Acyclic
  BY DEF Acyclic, treeVars
<1>4. \A d \in Doing("MOVE")' : MoveInv(d)'
  <2> TAKE d \in Doing("MOVE")'
  <2>1. MoveInv(d)
    BY <1>1 DEF CatalogueIInv, TreeInv
  <2> QED
    BY <2>1, <1>1, <1>2 DEF MoveInv, Exists, IsDescendant, treeVars
<1> QED
  BY <1>1, <1>3, <1>4 DEF CatalogueIInv, TreeInv, Exists, treeVars

LEMMA ReferencesKept ==
  ASSUME CatalogueIInv, editing' \in [Editors -> EditRow], UNCHANGED referenceVars,
         \A d \in Editors : editing'[d].op = "DELETE" => editing'[d] = editing[d]
  PROVE  ReferenceInv'
<1>1. \A d \in Doing("DELETE")' : d \in Doing("DELETE") /\ editing'[d] = editing[d]
  BY DEF Doing
<1>2. \A p : VariantsOf(p)' = VariantsOf(p)
  BY DEF VariantsOf, referenceVars
<1>3. \A d \in Doing("DELETE")' : DeleteInv(d)'
  <2> TAKE d \in Doing("DELETE")'
  <2>1. DeleteInv(d)
    BY <1>1 DEF CatalogueIInv, ReferenceInv
  <2> QED
    BY <2>1, <1>1, <1>2 DEF DeleteInv, referenceVars
<1> QED
  BY <1>3 DEF CatalogueIInv, ReferenceInv, referenceVars

LEMMA NamesKept ==
  ASSUME CatalogueIInv, editing' \in [Editors -> EditRow], UNCHANGED nameVars,
         \A d \in Editors : editing'[d].op \in {"NAME", "SLUG"} => editing'[d] = editing[d]
  PROVE  NameInv'
<1>1. \A kind \in Shared : \A d \in Deciding(kind)' :
          d \in Deciding(kind) /\ editing'[d] = editing[d]
  BY DEF Doing, Deciding
<1>2. \A kind : NameRows(kind)' = NameRows(kind)
  BY DEF NameRows, nameVars
<1>3. \A kind, s, n : NameFree(kind, s, n)' <=> NameFree(kind, s, n)
  BY <1>2 DEF NameFree, nameVars
<1>4. NamesToldApart' <=> NamesToldApart
  BY <1>2 DEF NamesToldApart, nameVars
<1>5. ASSUME ~sameTime', NEW kind \in Shared, NEW e \in Deciding(kind)'
      PROVE  /\ NameFree(kind, editing[e].name, editing[e].row)'
             /\ \A d \in Deciding(kind)' : d = e
  <2>1. ~sameTime
    BY <1>5 DEF nameVars
  <2>2. e \in Deciding(kind) /\ editing'[e] = editing[e]
    BY <1>1, <1>5
  <2>3. /\ NameFree(kind, editing[e].name, editing[e].row)
        /\ \A d \in Deciding(kind) : d = e
    BY <2>1, <2>2 DEF CatalogueIInv, NameInv
  <2>4. NameFree(kind, editing[e].name, editing[e].row)'
    BY <2>2, <2>3, <1>2 DEF NameFree, nameVars
  <2> QED
    BY <2>3, <2>4, <1>1
<1> QED
  BY <1>4, <1>5 DEF CatalogueIInv, NameInv, nameVars

-----------------------------------------------------------------------------
(* The tree *)

\* The recursive query is closed, and finds nothing else.
LEMMA BranchClosed ==
  ASSUME NEW c, NEW x \in Categories, parent[x] = c \/ parent[x] \in Branch(c)
  PROVE  x \in Branch(c)
BY DEF Branch

LEMMA BranchLeast ==
  ASSUME NEW c, NEW S \in SUBSET Categories,
         \A x \in Categories : parent[x] = c \/ parent[x] \in S => x \in S
  PROVE  Branch(c) \subseteq S
BY DEF Branch

LEMMA BranchHangs ==
  ASSUME NEW c, NEW x \in Branch(c)
  PROVE  parent[x] = c \/ parent[x] \in Branch(c)
<1> DEFINE S == {y \in Branch(c) : parent[y] = c \/ parent[y] \in Branch(c)}
<1>1. S \in SUBSET Categories
  BY DEF Branch
<1>2. ASSUME NEW y \in Categories, parent[y] = c \/ parent[y] \in S PROVE y \in S
  BY <1>2, BranchClosed
<1>3. Branch(c) \subseteq S
  <2> HIDE DEF S
  <2> QED
    BY <1>1, <1>2, BranchLeast
<1> QED
  BY <1>3

LEMMA AcyclicIsATree ==
  ASSUME Acyclic PROVE NoCategoryUnderItself
<1> SUFFICES ASSUME NEW c \in Categories, c \in Branch(c) PROVE FALSE
  BY DEF NoCategoryUnderItself
<1>1. Branch(c) \in SUBSET Categories
  BY DEF Branch
<1>2. PICK x \in Branch(c) : parent[x] \notin Branch(c)
  BY <1>1 DEF Acyclic
<1> QED
  BY <1>2, BranchHangs

\* A category goes under one that is not in its own branch.
LEMMA MovedApart ==
  ASSUME CatalogueTypeOK, Acyclic, NEW c \in Categories, NEW under \in Categories \cup {Root},
         under # c, under \notin Branch(c), parent' = [parent EXCEPT ![c] = under]
  PROVE  Acyclic'
<1>1. parent'[c] = under /\ \A x \in Categories \ {c} : parent'[x] = parent[x]
  BY DEF CatalogueTypeOK
<1> SUFFICES ASSUME NEW S \in SUBSET Categories, S # {}, \A x \in S : parent'[x] \in S
             PROVE  FALSE
  BY DEF Acyclic
<1>2. CASE c \notin S
  BY <1>1, <1>2 DEF Acyclic
<1>3. CASE c \in S
  <2> DEFINE T == S \ (Branch(c) \cup {c})
  <2>1. under \in T
    BY <1>1, <1>3
  <2>2. PICK x \in T : parent[x] \notin T
    <3>1. T \in SUBSET Categories /\ T # {}
      BY <2>1
    <3> HIDE DEF T
    <3> QED
      BY <3>1 DEF Acyclic
  <2>3. parent[x] \in S /\ x \in Categories
    BY <1>1, <2>2
  <2>4. parent[x] = c \/ parent[x] \in Branch(c)
    BY <2>2, <2>3
  <2> QED
    BY <2>2, <2>3, <2>4, BranchClosed
<1> QED
  BY <1>2, <1>3

\* A category that nothing hangs from appears.
LEMMA BornApart ==
  ASSUME CatalogueTypeOK, NEW c \in Categories, NEW under \in Categories \cup {Root}, under # c,
         \A x \in Categories : parent[x] # c, parent' = [parent EXCEPT ![c] = under]
  PROVE  /\ Acyclic => Acyclic'
         /\ \A x : Branch(x)' \subseteq Branch(x) \cup {c}
<1>1. parent'[c] = under /\ \A x \in Categories \ {c} : parent'[x] = parent[x]
  BY DEF CatalogueTypeOK
<1>2. ASSUME Acyclic PROVE Acyclic'
  <2> PICK S : S = {}
    OBVIOUS
  <2>1. Branch(c) \subseteq S
    BY BranchLeast
  <2> QED
    BY <1>2, <2>1, MovedApart
<1>3. ASSUME NEW x PROVE Branch(x)' \subseteq Branch(x) \cup {c}
  <2> DEFINE S == Branch(x) \cup {c}
  <2>1. S \in SUBSET Categories
    BY DEF Branch
  <2>2. ASSUME NEW y \in Categories, parent'[y] = x \/ parent'[y] \in S PROVE y \in S
    BY <1>1, <2>2, BranchClosed
  <2> HIDE DEF S
  <2>3. Branch(x)' \subseteq S
    BY <2>1, <2>2 DEF Branch
  <2> QED
    BY <2>3 DEF S
<1> QED
  BY <1>2, <1>3

\* What a step of the tree leaves alone.
LEMMA TreeAlone ==
  ASSUME CatalogueIInv, editing' \in [Editors -> EditRow],
         category' \in [Categories -> RowStatus], parent' \in [Categories -> Categories \cup {Root}],
         crossed' \in BOOLEAN, UNCHANGED <<referenceVars, nameVars>>, TreeInv',
         \A d \in Editors : editing'[d].op \notin {"NONE", "MOVE"} => editing'[d] = editing[d]
  PROVE  CatalogueIInv'
<1>1. ReferenceInv' /\ NameInv'
  BY ReferencesKept, NamesKept
<1>2. CatalogueTypeOK'
  BY TypesKept DEF CatalogueIInv, CatalogueTypeOK, referenceVars, nameVars
<1> QED
  BY <1>1, <1>2 DEF CatalogueIInv

LEMMA CreateCategoryKeeps ==
  ASSUME CatalogueIInv, NEW c \in Categories, NEW under \in Categories \cup {Root},
         CreateCategory(c, under)
  PROVE  CatalogueIInv'
<1> USE DEF CatalogueIInv
<1>0. CatalogueTypeOK /\ TreeInv
  OBVIOUS
<1>1. /\ Root \notin Categories /\ category[c] = "NONE"
      /\ under # Root => Exists(under)
      /\ category' = [category EXCEPT ![c] = "ACTIVE"] /\ parent' = [parent EXCEPT ![c] = under]
      /\ UNCHANGED <<crossed, editing>>
  BY CatalogueAssumption DEF CreateCategory
<1>2. /\ category' \in [Categories -> RowStatus] /\ parent' \in [Categories -> Categories \cup {Root}]
      /\ crossed' \in BOOLEAN
      /\ \A x \in Categories : Exists(x)' <=> Exists(x) \/ x = c
  BY <1>0, <1>1 DEF CatalogueTypeOK, RowStatus, Exists
<1>3. under # c /\ \A x \in Categories : parent[x] # c
  BY <1>0, <1>1 DEF TreeInv, Exists
<1>4. /\ Acyclic => Acyclic'
      /\ \A x : Branch(x)' \subseteq Branch(x) \cup {c}
  BY <1>0, <1>1, <1>3, BornApart
<1>5. ASSUME NEW x \in Categories, parent'[x] # Root PROVE Exists(parent[x])'
  <2>1. parent[x] \in Categories \cup {Root} /\ parent'[x] = IF x = c THEN under ELSE parent[x]
    BY <1>0, <1>1 DEF CatalogueTypeOK
  <2> QED
    BY <1>0, <1>1, <1>2, <1>5, <2>1 DEF TreeInv
<1>6. ASSUME NEW e \in Doing("MOVE")' PROVE MoveInv(e)'
  <2>1. /\ e \in Doing("MOVE") /\ MoveInv(e) /\ editing'[e] = editing[e]
        /\ editing[e].category \in Categories /\ editing[e].under \in Categories \cup {Root}
    BY <1>0, <1>1, <1>6, EditRows DEF Doing, TreeInv
  <2>2. editing[e].under # c
    BY <1>1, <2>1, CatalogueAssumption DEF MoveInv, Exists
  <2> QED
    BY <1>1, <1>2, <1>4, <2>1, <2>2 DEF MoveInv, IsDescendant
<1>7. TreeInv'
  BY <1>0, <1>1, <1>4, <1>5, <1>6 DEF TreeInv, Doing
<1> QED
  BY <1>1, <1>2, <1>7, TreeAlone DEF CreateCategory, UnchangedTree

LEMMA BeginMoveKeeps ==
  ASSUME CatalogueIInv, NEW e \in Editors, NEW c \in Categories,
         NEW under \in Categories \cup {Root}, BeginMove(e, c, under)
  PROVE  CatalogueIInv'
<1> DEFINE row == [op |-> "MOVE", category |-> c, under |-> under]
<1>0. CatalogueTypeOK /\ TreeInv /\ editing \in [Editors -> EditRow]
  BY DEF CatalogueIInv
<1>1. /\ Root \notin Categories /\ Exists(c)
      /\ under # Root => under # c /\ Exists(under) /\ ~IsDescendant(c, under)
      /\ editing[e] = Quiet /\ editing' = [editing EXCEPT ![e] = row]
      /\ crossed' = (crossed \/ Doing("MOVE") # {}) /\ UNCHANGED <<category, parent>>
  BY CatalogueAssumption DEF BeginMove, Take
<1>2. row \in EditRow /\ row.op = "MOVE" /\ row.category = c /\ row.under = under
  BY DEF EditRow
<1> HIDE DEF row
<1>3. /\ editing' \in [Editors -> EditRow] /\ editing'[e] = row
      /\ \A d \in Editors \ {e} : editing'[d] = editing[d]
  BY <1>0, <1>1, <1>2
<1>4. Doing("MOVE")' = Doing("MOVE") \cup {e}
  BY <1>2, <1>3 DEF Doing
<1>5. \A x : (Branch(x)' = Branch(x)) /\ (Exists(x)' <=> Exists(x))
  BY <1>1 DEF Branch, Exists
<1>6. ~IsDescendant(c, under)
  BY <1>1 DEF IsDescendant, Branch
<1>7. ASSUME NEW d \in Doing("MOVE")' PROVE MoveInv(d)'
  <2>1. CASE d = e
    BY <1>1, <1>2, <1>3, <1>5, <1>6, <2>1 DEF MoveInv, IsDescendant
  <2>2. CASE d # e
    <3>1. MoveInv(d) /\ editing'[d] = editing[d] /\ (~crossed' => ~crossed)
      BY <1>0, <1>1, <1>3, <1>4, <1>7, <2>2 DEF TreeInv, Doing
    <3> QED
      BY <1>5, <3>1 DEF MoveInv, IsDescendant
  <2> QED
    BY <2>1, <2>2
<1>8. ASSUME ~crossed' PROVE Acyclic' /\ \A d, f \in Doing("MOVE")' : f = d
  BY <1>0, <1>1, <1>4, <1>8 DEF TreeInv, Acyclic
<1>9. TreeInv'
  BY <1>0, <1>1, <1>5, <1>7, <1>8 DEF TreeInv
<1>10. \A d \in Editors : editing'[d].op \notin {"NONE", "MOVE"} => editing'[d] = editing[d]
  BY <1>2, <1>3
<1>11. /\ category' \in [Categories -> RowStatus] /\ parent' \in [Categories -> Categories \cup {Root}]
       /\ crossed' \in BOOLEAN
  BY <1>0, <1>1 DEF CatalogueTypeOK
<1>12. UNCHANGED <<referenceVars, nameVars>>
  BY DEF BeginMove, UnchangedTree
<1> QED
  BY <1>3, <1>9, <1>10, <1>11, <1>12, TreeAlone

LEMMA EndMoveKeeps ==
  ASSUME CatalogueIInv, NEW e \in Editors, SaveMove(e) \/ UndoMove(e)
  PROVE  CatalogueIInv'
<1>0. CatalogueTypeOK /\ TreeInv /\ editing \in [Editors -> EditRow]
  BY DEF CatalogueIInv
<1>a. PICK c : c = editing[e].category
  OBVIOUS
<1>b. PICK under : under = editing[e].under
  OBVIOUS
<1>1. /\ e \in Doing("MOVE") /\ MoveInv(e)
      /\ c \in Categories /\ under \in Categories \cup {Root} /\ Root \notin Categories
      /\ editing' = [editing EXCEPT ![e] = Quiet] /\ UNCHANGED <<category, crossed>>
      /\ parent' = [parent EXCEPT ![c] = under] \/ parent' = parent
      /\ UNCHANGED <<referenceVars, nameVars>>
  BY <1>0, <1>a, <1>b, CatalogueAssumption, EditRows
     DEF SaveMove, UndoMove, Leave, Doing, TreeInv, UnchangedTree, treeVars
<1>2. /\ editing' \in [Editors -> EditRow] /\ editing'[e] = Quiet /\ Quiet.op = "NONE"
      /\ \A d \in Editors \ {e} : editing'[d] = editing[d]
  BY <1>0, <1>1, QuietRow
<1>3. Doing("MOVE")' = Doing("MOVE") \ {e}
  BY <1>2 DEF Doing
<1>4. /\ parent \in [Categories -> Categories \cup {Root}]
      /\ parent' \in [Categories -> Categories \cup {Root}] /\ category' \in [Categories -> RowStatus]
      /\ crossed' \in BOOLEAN /\ \A x : Exists(x)' <=> Exists(x)
  BY <1>0, <1>1 DEF CatalogueTypeOK, Exists
<1>5. /\ Exists(c) /\ (under # Root => Exists(under))
      /\ ~crossed => under # c /\ under \notin Branch(c)
  BY <1>1, <1>a, <1>b DEF MoveInv, IsDescendant
<1>6. \A x \in Categories : parent'[x] # Root => Exists(parent[x])'
  BY <1>0, <1>1, <1>4, <1>5 DEF TreeInv
<1>7. ASSUME ~crossed' PROVE Acyclic' /\ Doing("MOVE")' = {}
  <2>1. Acyclic /\ Doing("MOVE")' = {}
    BY <1>0, <1>1, <1>3, <1>7 DEF TreeInv
  <2>2. CASE parent' = parent
    BY <2>1, <2>2 DEF Acyclic
  <2>3. CASE parent' = [parent EXCEPT ![c] = under]
    BY <1>0, <1>1, <1>5, <1>7, <2>1, <2>3, MovedApart
  <2> QED
    BY <1>1, <2>1, <2>2, <2>3
<1>8. ASSUME NEW d \in Doing("MOVE")' PROVE MoveInv(d)'
  <2>1. MoveInv(d) /\ editing'[d] = editing[d] /\ crossed'
    BY <1>0, <1>2, <1>3, <1>4, <1>7, <1>8 DEF TreeInv, Doing
  <2> QED
    BY <1>4, <2>1 DEF MoveInv
<1>9. TreeInv'
  BY <1>6, <1>7, <1>8 DEF TreeInv
<1> QED
  BY <1>1, <1>2, <1>4, <1>9, TreeAlone

LEMMA SwitchCategoryKeeps ==
  ASSUME CatalogueIInv, NEW c \in Categories, DeactivateCategory(c) \/ ActivateCategory(c)
  PROVE  CatalogueIInv'
<1>0. CatalogueTypeOK /\ TreeInv /\ editing \in [Editors -> EditRow]
  BY DEF CatalogueIInv
<1>1. /\ UNCHANGED <<parent, crossed, editing>> /\ UNCHANGED <<referenceVars, nameVars>>
      /\ category' \in [Categories -> RowStatus] /\ \A x \in Categories : Exists(x)' <=> Exists(x)
  BY <1>0 DEF DeactivateCategory, ActivateCategory, UnchangedTree, CatalogueTypeOK, RowStatus, Exists
<1>2. /\ Acyclic' <=> Acyclic
      /\ \A x : Branch(x)' = Branch(x)
      /\ Doing("MOVE")' = Doing("MOVE")
  BY <1>1 DEF Acyclic, Branch, Doing
<1>3. ASSUME NEW d \in Doing("MOVE") PROVE MoveInv(d)'
  <2>1. /\ MoveInv(d) /\ editing[d].category \in Categories
        /\ editing[d].under \in Categories \cup {Root}
    BY <1>0, <1>3, EditRows DEF TreeInv, Doing
  <2> QED
    BY <1>1, <1>2, <2>1 DEF MoveInv, IsDescendant
<1>4. \A x \in Categories : parent'[x] # Root => Exists(parent[x])'
  BY <1>0, <1>1 DEF TreeInv, CatalogueTypeOK
<1>5. TreeInv'
  BY <1>0, <1>1, <1>2, <1>3, <1>4 DEF TreeInv
<1>6. parent' \in [Categories -> Categories \cup {Root}] /\ crossed' \in BOOLEAN
  BY <1>0, <1>1 DEF CatalogueTypeOK
<1> QED
  BY <1>0, <1>1, <1>5, <1>6, TreeAlone

-----------------------------------------------------------------------------
(* Products and variants *)

\* What a step of the references leaves alone.
LEMMA ReferencesAlone ==
  ASSUME CatalogueIInv, editing' \in [Editors -> EditRow],
         product' \in [Products -> RowStatus] /\ variant' \in [Variants -> RowStatus],
         moved' \subseteq Variants /\ named' \subseteq Variants,
         UNCHANGED <<treeVars, nameVars>>, ReferenceInv',
         \A d \in Editors : editing'[d].op \notin {"NONE", "DELETE"} => editing'[d] = editing[d]
  PROVE  CatalogueIInv'
<1>1. TreeInv' /\ NameInv'
  BY TreeKept, NamesKept
<1>2. CatalogueTypeOK'
  BY TypesKept DEF CatalogueIInv, CatalogueTypeOK, treeVars, nameVars
<1> QED
  BY <1>1, <1>2 DEF CatalogueIInv

\* Nothing disappears, no deletion begins, and the ones in progress find what they read.
LEMMA NothingGoes ==
  ASSUME CatalogueIInv, UNCHANGED <<editing, treeVars, nameVars>>,
         product' \in [Products -> RowStatus] /\ variant' \in [Variants -> RowStatus],
         moved' \subseteq Variants /\ named' \subseteq Variants,
         \A p \in Products : product[p] # "NONE" => product'[p] # "NONE",
         \A v \in Variants : variant[v] # "NONE" => variant'[v] # "NONE",
         \A v \in Variants : variant[v] = "NONE" /\ variant'[v] # "NONE" =>
             ProductFree(ProductOf[v]) /\ product'[ProductOf[v]] # "NONE",
         \A v \in moved' : variant'[v] # "NONE"
  PROVE  CatalogueIInv'
<1>0. /\ ReferenceInv /\ editing \in [Editors -> EditRow] /\ ProductOf \in [Variants -> Products]
      /\ editing' = editing /\ Doing("DELETE")' = Doing("DELETE")
  BY CatalogueAssumption DEF CatalogueIInv, Doing
<1>1. ASSUME NEW e \in Doing("DELETE") PROVE DeleteInv(e)'
  <2> PICK p : p = editing[e].product
    OBVIOUS
  <2>1. DeleteInv(e) /\ p \in Products /\ ~ProductFree(p) /\ editing[e].product = p
    BY <1>0, <1>1, EditRows DEF ReferenceInv, Doing, ProductFree
  <2>2. \A v \in Variants : ProductOf[v] = p => (variant[v] # "NONE" <=> variant'[v] # "NONE")
    BY <2>1
  <2>3. VariantsOf(p)' = VariantsOf(p)
    BY <2>2 DEF VariantsOf
  <2> QED
    BY <1>0, <2>1, <2>3 DEF DeleteInv
<1>2. \A v \in Variants : variant'[v] # "NONE" => product'[ProductOf[v]] # "NONE"
  BY <1>0 DEF ReferenceInv
<1>3. ReferenceInv'
  BY <1>0, <1>1, <1>2 DEF ReferenceInv
<1> QED
  BY <1>0, <1>3, ReferencesAlone

LEMMA RowStepKeeps ==
  ASSUME CatalogueIInv,
         \/ \E p \in Products : CreateProduct(p) \/ DeactivateProduct(p) \/ ActivateProduct(p)
         \/ \E v \in Variants :
                CreateVariant(v) \/ SwitchVariant(v) \/ MoveVariant(v) \/ NameVariant(v)
  PROVE  CatalogueIInv'
<1>0. /\ CatalogueTypeOK /\ ReferenceInv /\ ProductOf \in [Variants -> Products]
      /\ product \in [Products -> RowStatus] /\ variant \in [Variants -> RowStatus]
      /\ moved \subseteq Variants /\ named \subseteq Variants
      /\ \A v \in moved : variant[v] # "NONE"
  BY CatalogueAssumption DEF CatalogueIInv, CatalogueTypeOK, ReferenceInv
<1>1. UNCHANGED <<editing, treeVars, nameVars>>
  BY DEF CreateProduct, DeactivateProduct, ActivateProduct, CreateVariant, SwitchVariant,
         MoveVariant, NameVariant, UnchangedReferences
<1>2. ASSUME NEW p \in Products, CreateProduct(p) \/ DeactivateProduct(p) \/ ActivateProduct(p)
      PROVE  CatalogueIInv'
  <2>1. /\ UNCHANGED <<variant, moved, named>> /\ product' \in [Products -> RowStatus]
        /\ \A q \in Products : product[q] # "NONE" => product'[q] # "NONE"
    BY <1>0, <1>2 DEF CreateProduct, DeactivateProduct, ActivateProduct, RowStatus
  <2> QED
    BY <1>0, <1>1, <2>1, NothingGoes
<1>3. ASSUME NEW v \in Variants, CreateVariant(v) \/ SwitchVariant(v) \/ MoveVariant(v) \/ NameVariant(v)
      PROVE  CatalogueIInv'
  <2>1. /\ UNCHANGED product /\ variant' \in [Variants -> RowStatus]
        /\ \A w \in Variants : variant[w] # "NONE" => variant'[w] # "NONE"
        /\ \A w \in Variants : variant[w] = "NONE" /\ variant'[w] # "NONE" =>
               ProductFree(ProductOf[w]) /\ product[ProductOf[w]] # "NONE"
        /\ moved' \subseteq Variants /\ named' \subseteq Variants
        /\ \A w \in moved' : variant[w] # "NONE"
    BY <1>0, <1>3 DEF CreateVariant, SwitchVariant, MoveVariant, NameVariant, RowStatus
  <2>2. \A w \in moved' : variant'[w] # "NONE"
    BY <2>1
  <2> QED
    BY <1>0, <1>1, <2>1, <2>2, NothingGoes
<1> QED
  BY <1>2, <1>3

LEMMA BeginDeleteKeeps ==
  ASSUME CatalogueIInv, NEW e \in Editors, NEW p \in Products, NEW superAdmin \in BOOLEAN,
         BeginDelete(e, p, superAdmin)
  PROVE  CatalogueIInv'
<1> DEFINE row == [op |-> "DELETE", product |-> p, variants |-> VariantsOf(p),
                   hard |-> superAdmin /\ VariantsOf(p) \cap moved = {}]
<1>0. CatalogueTypeOK /\ ReferenceInv /\ editing \in [Editors -> EditRow]
  BY DEF CatalogueIInv
<1>1. /\ product[p] # "NONE" /\ ProductFree(p)
      /\ editing[e] = Quiet /\ editing' = [editing EXCEPT ![e] = row]
      /\ UNCHANGED referenceVars /\ UNCHANGED <<treeVars, nameVars>>
  BY DEF BeginDelete, Take, UnchangedReferences
<1>2. row \in EditRow /\ row.op = "DELETE" /\ row.product = p /\ row.variants = VariantsOf(p)
  <2>1. VariantsOf(p) \in SUBSET Variants /\ row.hard \in BOOLEAN
    BY DEF VariantsOf
  <2> QED
    BY <2>1 DEF EditRow
<1> HIDE DEF row
<1>3. /\ editing' \in [Editors -> EditRow] /\ editing'[e] = row
      /\ \A d \in Editors \ {e} : editing'[d] = editing[d]
  BY <1>0, <1>1, <1>2
<1>4. Doing("DELETE")' = Doing("DELETE") \cup {e} /\ e \notin Doing("DELETE")
  BY <1>1, <1>2, <1>3, QuietRow DEF Doing
<1>5. \A q : VariantsOf(q)' = VariantsOf(q)
  BY <1>1 DEF VariantsOf, referenceVars
<1>6. \A d \in Doing("DELETE") : editing'[d] = editing[d] /\ editing[d].product # p
  BY <1>1, <1>3, <1>4 DEF ProductFree, Doing
<1>7. ASSUME NEW d \in Doing("DELETE")' PROVE DeleteInv(d)'
  <2>1. CASE d = e
    BY <1>1, <1>2, <1>3, <1>4, <1>5, <1>6, <2>1 DEF DeleteInv, referenceVars
  <2>2. CASE d # e
    <3>1. DeleteInv(d) /\ d \in Doing("DELETE")
      BY <1>0, <1>4, <1>7, <2>2 DEF ReferenceInv
    <3> QED
      BY <1>1, <1>2, <1>3, <1>4, <1>5, <1>6, <3>1 DEF DeleteInv, referenceVars
  <2> QED
    BY <2>1, <2>2
<1>8. ReferenceInv'
  BY <1>0, <1>1, <1>7 DEF ReferenceInv, referenceVars
<1>9. \A d \in Editors : editing'[d].op \notin {"NONE", "DELETE"} => editing'[d] = editing[d]
  BY <1>2, <1>3
<1>10. /\ product' \in [Products -> RowStatus] /\ variant' \in [Variants -> RowStatus]
       /\ moved' \subseteq Variants /\ named' \subseteq Variants
  BY <1>0, <1>1 DEF CatalogueTypeOK, referenceVars
<1> QED
  BY <1>1, <1>3, <1>8, <1>9, <1>10, ReferencesAlone

LEMMA EndDeleteKeeps ==
  ASSUME CatalogueIInv, NEW e \in Editors,
         DeactivateReference(e) \/ RemoveReference(e) \/ RefuseRemoval(e)
  PROVE  CatalogueIInv'
<1>0. CatalogueTypeOK /\ ReferenceInv /\ editing \in [Editors -> EditRow]
      /\ product \in [Products -> RowStatus] /\ variant \in [Variants -> RowStatus]
      /\ moved \subseteq Variants /\ named \subseteq Variants /\ ProductOf \in [Variants -> Products]
  BY CatalogueAssumption DEF CatalogueIInv, CatalogueTypeOK
<1>a. PICK p : p = editing[e].product
  OBVIOUS
<1>b. PICK gone : gone = editing[e].variants
  OBVIOUS
<1>1. /\ e \in Doing("DELETE") /\ DeleteInv(e) /\ p \in Products
      /\ gone = VariantsOf(p) /\ product[p] # "NONE"
      /\ editing' = [editing EXCEPT ![e] = Quiet] /\ UNCHANGED <<moved, named, treeVars, nameVars>>
  BY <1>0, <1>a, <1>b, EditRows
     DEF DeactivateReference, RemoveReference, RefuseRemoval, Leave, Doing, ReferenceInv, DeleteInv,
         UnchangedReferences, referenceVars
<1>2. /\ editing' \in [Editors -> EditRow] /\ editing'[e] = Quiet /\ Quiet.op = "NONE"
      /\ \A d \in Editors \ {e} : editing'[d] = editing[d]
  BY <1>0, <1>1, QuietRow
<1>3. Doing("DELETE")' = Doing("DELETE") \ {e}
  BY <1>2 DEF Doing
<1>4. \/ UNCHANGED <<product, variant>>
      \/ \E status \in {"INACTIVE", "NONE"} :
           /\ product' = [product EXCEPT ![p] = status]
           /\ variant' = [v \in Variants |-> IF v \in gone THEN status ELSE variant[v]]
           /\ status = "NONE" => gone \cap moved = {}
  BY <1>a, <1>b DEF DeactivateReference, RemoveReference, RefuseRemoval, Deletable, referenceVars
<1>5. /\ product' \in [Products -> RowStatus] /\ variant' \in [Variants -> RowStatus]
      /\ \A q \in Products \ {p} : product'[q] = product[q]
      /\ \A v \in Variants \ gone : variant'[v] = variant[v]
      /\ product'[p] = "NONE" => \A v \in gone : variant'[v] = "NONE"
      /\ \A v \in gone : variant'[v] = "NONE" => v \notin moved \/ variant[v] = "NONE"
      /\ gone \subseteq Variants
  BY <1>0, <1>1, <1>4 DEF RowStatus, VariantsOf
<1>6. \A v \in Variants : variant'[v] # "NONE" => product'[ProductOf[v]] # "NONE"
  <2> SUFFICES ASSUME NEW v \in Variants, variant'[v] # "NONE" PROVE product'[ProductOf[v]] # "NONE"
    OBVIOUS
  <2>1. CASE ProductOf[v] = p
    BY <1>1, <1>5, <2>1 DEF VariantsOf
  <2>2. CASE ProductOf[v] # p
    BY <1>0, <1>1, <1>5, <2>2 DEF VariantsOf, ReferenceInv
  <2> QED
    BY <2>1, <2>2
<1>7. \A v \in moved' : variant'[v] # "NONE"
  BY <1>0, <1>1, <1>5 DEF ReferenceInv
<1>8. ASSUME NEW d \in Doing("DELETE")' PROVE DeleteInv(d)'
  <2> PICK q : q = editing[d].product
    OBVIOUS
  <2>1. DeleteInv(d) /\ d \in Doing("DELETE") /\ d # e /\ editing'[d] = editing[d]
        /\ q \in Products /\ editing[d].product = q
    BY <1>0, <1>2, <1>3, <1>8, EditRows DEF ReferenceInv, Doing
  <2>2. q # p
    BY <1>1, <1>a, <2>1 DEF DeleteInv
  <2>3. VariantsOf(q)' = VariantsOf(q)
    BY <1>1, <1>5, <2>2 DEF VariantsOf
  <2>4. \A f \in Doing("DELETE")' : f \in Doing("DELETE") /\ editing'[f] = editing[f]
    BY <1>2, <1>3 DEF Doing
  <2> QED
    BY <1>5, <2>1, <2>2, <2>3, <2>4 DEF DeleteInv
<1>9. ReferenceInv'
  BY <1>6, <1>7, <1>8 DEF ReferenceInv
<1>10. \A d \in Editors : editing'[d].op \notin {"NONE", "DELETE"} => editing'[d] = editing[d]
  BY <1>2
<1> QED
  BY <1>0, <1>1, <1>2, <1>5, <1>9, <1>10, ReferencesAlone

-----------------------------------------------------------------------------
(* Names *)

\* What a step of the names leaves alone.
LEMMA NamesAlone ==
  ASSUME CatalogueIInv, editing' \in [Editors -> EditRow],
         entry' \in [Shared -> [Names -> Entries]], sameTime' \in BOOLEAN,
         UNCHANGED <<treeVars, referenceVars>>, NameInv',
         \A d \in Editors : editing'[d].op \notin {"NONE", "NAME", "SLUG"} => editing'[d] = editing[d]
  PROVE  CatalogueIInv'
<1>1. TreeInv' /\ ReferenceInv'
  BY TreeKept, ReferencesKept
<1>2. CatalogueTypeOK'
  BY TypesKept DEF CatalogueIInv, CatalogueTypeOK, treeVars, referenceVars
<1> QED
  BY <1>1, <1>2 DEF CatalogueIInv

\* A row of a shared name and its columns.
LEMMA EntryRows ==
  ASSUME NEW row \in Entries
  PROVE  /\ row # NoEntry => row.status \in {"ACTIVE", "INACTIVE"} /\ row.name \in Spellings
                             /\ row.slug \in Nat
         /\ row.status = "NONE" <=> row = NoEntry
BY DEF Entries, NoEntry

\* Of finitely many numbers one is the least.
LEMMA Least ==
  ASSUME NEW S, IsFiniteSet(S), S # {}, S \subseteq Nat
  PROVE  \E k \in S : \A j \in S : k <= j
<1> DEFINE f == [x \in S |-> -x]
<1>1. \A x \in S : f[x] \in Int /\ f[x] = -x
  OBVIOUS
<1> HIDE DEF f
<1>2. PICK k \in S : \A j \in S : f[j] <= f[k]
  BY <1>1, Largest
<1> QED
  BY <1>1, <1>2

\* Fewer suffixes are used than there are to choose from.
LEMMA FreeNumber ==
  ASSUME NEW used, IsFiniteSet(used)
  PROVE  \E k \in 0 .. Cardinality(used) : k \notin used /\ \A j \in 0 .. k - 1 : j \in used
<1> PICK n : n = Cardinality(used)
  OBVIOUS
<1>1. n \in Nat
  BY FS_CardinalityType
<1>2. IsFiniteSet(0 .. n) /\ Cardinality(0 .. n) = n + 1
  BY <1>1, FS_Interval
<1>3. ~(0 .. n \subseteq used)
  <2> SUFFICES ASSUME 0 .. n \subseteq used PROVE FALSE
    OBVIOUS
  <2>1. Cardinality(0 .. n) <= Cardinality(used)
    BY FS_Subset
  <2> QED
    BY <1>1, <1>2, <2>1
<1> DEFINE S == (0 .. n) \ used
<1>4. IsFiniteSet(S) /\ S # {} /\ S \subseteq Nat
  BY <1>1, <1>2, <1>3, FS_Subset
<1>5. PICK k \in S : \A j \in S : k <= j
  <2> HIDE DEF S
  <2> QED
    BY <1>4, Least
<1>6. ASSUME NEW j \in 0 .. k - 1 PROVE j \in used
  BY <1>1, <1>5, <1>6
<1> QED
  BY <1>1, <1>5, <1>6

LEMMA FreeSlugIsANumber ==
  ASSUME CatalogueTypeOK, NEW s, NEW n
  PROVE  FreeSlug(s, n) \in Nat
<1> DEFINE like == {y \in NameRows("BRAND") \ {n} : Fold[entry["BRAND"][y].name] = Fold[s]}
           used == {entry["BRAND"][x].slug : x \in like}
<1>1. IsFiniteSet(like)
  <2>1. like \subseteq Names /\ IsFiniteSet(Names)
    BY CatalogueAssumption DEF NameRows
  <2> HIDE DEF like
  <2> QED
    BY <2>1, FS_Subset
<1>2. IsFiniteSet(used)
  <2> DEFINE slugs == [x \in like |-> entry["BRAND"][x].slug]
  <2>1. slugs \in Surjection(like, used)
    BY DEF Surjection
  <2> HIDE DEF like, used, slugs
  <2> QED
    BY <1>1, <2>1, FS_Surjection
<1>3. FreeSlug(s, n) =
        CHOOSE k \in 0 .. Cardinality(used) : k \notin used /\ \A j \in 0 .. k - 1 : j \in used
  BY DEF FreeSlug
<1>4. Cardinality(used) \in Nat
  BY <1>2, FS_CardinalityType
<1> HIDE DEF used
<1>5. FreeSlug(s, n) \in 0 .. Cardinality(used)
  BY <1>2, <1>3, FreeNumber
<1> QED
  BY <1>4, <1>5

LEMMA CheckNameKeeps ==
  ASSUME CatalogueIInv, NEW e \in Editors, NEW kind \in Shared, NEW n \in Names,
         NEW s \in Spellings, CheckName(e, kind, n, s)
  PROVE  CatalogueIInv'
<1> DEFINE row == [op |-> IF kind = "BRAND" THEN "NAME" ELSE "SLUG", kind |-> kind, row |-> n,
                   name |-> s, slug |-> 0]
<1>0. CatalogueTypeOK /\ NameInv /\ editing \in [Editors -> EditRow]
  BY DEF CatalogueIInv
<1>1. /\ NameFree(kind, s, n) /\ editing[e] = Quiet /\ editing' = [editing EXCEPT ![e] = row]
      /\ sameTime' = (sameTime \/ Deciding(kind) # {})
      /\ UNCHANGED entry /\ UNCHANGED <<treeVars, referenceVars>>
  BY DEF CheckName, Take, UnchangedNames
<1>2. /\ row \in EditRow /\ row.op \in {"NAME", "SLUG"} /\ row.kind = kind /\ row.row = n
      /\ row.name = s
  BY DEF EditRow
<1> HIDE DEF row
<1>3. /\ editing' \in [Editors -> EditRow] /\ editing'[e] = row
      /\ \A d \in Editors \ {e} : editing'[d] = editing[d]
  BY <1>0, <1>1, <1>2
<1>4. \A k \in Shared : Deciding(k)' = IF k = kind THEN Deciding(k) \cup {e} ELSE Deciding(k)
  <2> TAKE k \in Shared
  <2>1. \A d \in Editors : d \in Deciding(k)' <=> editing'[d].op \in {"NAME", "SLUG"} /\ editing'[d].kind = k
    BY DEF Deciding, Doing
  <2>2. \A d \in Editors : d \in Deciding(k) <=> editing[d].op \in {"NAME", "SLUG"} /\ editing[d].kind = k
    BY DEF Deciding, Doing
  <2>3. e \notin Deciding(k)
    BY <1>1, <2>2, QuietRow
  <2>4. Deciding(k) \subseteq Editors /\ Deciding(k)' \subseteq Editors
    BY DEF Deciding, Doing
  <2> QED
    BY <1>2, <1>3, <2>1, <2>2, <2>3, <2>4
<1>5. \A k : NameRows(k)' = NameRows(k)
  BY <1>1 DEF NameRows
<1>6. \A k \in Shared : \A d \in Deciding(k) \ {e} : editing'[d] = editing[d]
  BY <1>3 DEF Deciding, Doing
<1>7. ASSUME ~sameTime', NEW k \in Shared, NEW d \in Deciding(k)'
      PROVE  /\ NameFree(k, editing[d].name, editing[d].row)'
             /\ \A f \in Deciding(k)' : f = d
  <2>1. ~sameTime /\ Deciding(kind) = {}
    BY <1>0, <1>1, <1>7 DEF CatalogueTypeOK
  <2>2. CASE k = kind
    <3>1. d = e /\ Deciding(k)' = {e}
      BY <1>4, <1>7, <2>1, <2>2
    <3> QED
      BY <1>1, <1>2, <1>3, <1>5, <2>2, <3>1 DEF NameFree
  <2>3. CASE k # kind
    <3>1. d \in Deciding(k) /\ Deciding(k)' = Deciding(k) /\ e \notin Deciding(k)
      BY <1>1, <1>4, <1>7, <2>3, QuietRow DEF Deciding, Doing
    <3>2. /\ NameFree(k, editing[d].name, editing[d].row)
          /\ \A f \in Deciding(k) : f = d
      BY <1>0, <2>1, <3>1 DEF NameInv
    <3> QED
      BY <1>1, <1>5, <1>6, <3>1, <3>2 DEF NameFree
  <2> QED
    BY <2>2, <2>3
<1>8. ASSUME ~sameTime' PROVE NamesToldApart'
  <2>1. NamesToldApart
    BY <1>0, <1>1, <1>8 DEF NameInv
  <2>2. ~sameTime
    BY <1>1, <1>8
  <2> QED
    BY <1>1, <1>5, <2>1, <2>2 DEF NamesToldApart
<1>9. NameInv'
  BY <1>7, <1>8 DEF NameInv
<1>10. \A d \in Editors : editing'[d].op \notin {"NONE", "NAME", "SLUG"} => editing'[d] = editing[d]
  BY <1>2, <1>3
<1>11. entry' \in [Shared -> [Names -> Entries]] /\ sameTime' \in BOOLEAN
  BY <1>0, <1>1 DEF CatalogueTypeOK
<1> QED
  BY <1>1, <1>3, <1>9, <1>10, <1>11, NamesAlone

\* A decision goes on: nothing but its slug changes.
LEMMA ChooseSlugKeeps ==
  ASSUME CatalogueIInv, NEW e \in Editors, ChooseSlug(e)
  PROVE  CatalogueIInv'
<1>0. CatalogueTypeOK /\ NameInv /\ editing \in [Editors -> EditRow]
  BY DEF CatalogueIInv
<1> PICK slug : slug = FreeSlug(editing[e].name, editing[e].row)
  OBVIOUS
<1> DEFINE row == [editing[e] EXCEPT !.op = "SLUG", !.slug = slug]
<1>1. /\ editing[e].op = "NAME" /\ slug \in Nat /\ editing' = [editing EXCEPT ![e] = row]
      /\ UNCHANGED <<entry, sameTime, treeVars, referenceVars>>
  BY <1>0, FreeSlugIsANumber DEF ChooseSlug, Doing, UnchangedNames, nameVars
<1>2. /\ row \in EditRow /\ row.op = "SLUG" /\ row.kind = editing[e].kind
      /\ row.row = editing[e].row /\ row.name = editing[e].name
  <2> PICK old : old = editing[e]
    OBVIOUS
  <2>1. old \in [op : {"NAME", "SLUG"}, kind : Shared, row : Names, name : Spellings, slug : Nat]
    <3>1. old \in EditRow /\ old.op = "NAME"
      BY <1>0, <1>1
    <3> QED
      BY <3>1 DEF EditRow, Quiet
  <2>2. row = [old EXCEPT !.op = "SLUG", !.slug = slug]
    OBVIOUS
  <2> HIDE DEF row
  <2>3. row \in [op : {"NAME", "SLUG"}, kind : Shared, row : Names, name : Spellings, slug : Nat]
        /\ row.op = "SLUG" /\ row.kind = old.kind /\ row.row = old.row /\ row.name = old.name
    BY <1>1, <2>1, <2>2
  <2> QED
    BY <2>3 DEF EditRow
<1> HIDE DEF row
<1>3. /\ editing' \in [Editors -> EditRow] /\ editing'[e] = row
      /\ \A d \in Editors \ {e} : editing'[d] = editing[d]
  BY <1>0, <1>1, <1>2
<1>4. \A k \in Shared : Deciding(k)' = Deciding(k)
  BY <1>1, <1>2, <1>3 DEF Deciding, Doing
<1>5. \A d \in Editors : editing'[d].op \in {"NAME", "SLUG"} =>
          editing'[d].name = editing[d].name /\ editing'[d].row = editing[d].row
  BY <1>2, <1>3
<1>6. \A k : NameRows(k)' = NameRows(k)
  BY <1>1 DEF NameRows
<1>7. ASSUME ~sameTime, NEW k \in Shared, NEW d \in Deciding(k)
      PROVE  /\ NameFree(k, editing[d].name, editing[d].row)'
             /\ \A f \in Deciding(k) : f = d
  <2>1. /\ NameFree(k, editing[d].name, editing[d].row)
        /\ \A f \in Deciding(k) : f = d
    BY <1>0, <1>7 DEF NameInv
  <2>2. editing'[d].name = editing[d].name /\ editing'[d].row = editing[d].row
    BY <1>4, <1>5, <1>7 DEF Deciding, Doing
  <2> QED
    BY <1>1, <1>6, <2>1, <2>2 DEF NameFree
<1>8. ~sameTime => NamesToldApart'
  <2>1. NamesToldApart <=> NamesToldApart'
    BY <1>1, <1>6 DEF NamesToldApart
  <2> QED
    BY <1>0, <2>1 DEF NameInv
<1>9. NameInv'
  BY <1>1, <1>4, <1>7, <1>8 DEF NameInv
<1>10. \A d \in Editors : editing'[d].op \notin {"NONE", "NAME", "SLUG"} => editing'[d] = editing[d]
  BY <1>2, <1>3
<1> QED
  BY <1>0, <1>1, <1>3, <1>9, <1>10, NamesAlone DEF CatalogueTypeOK

LEMMA SaveNameKeeps ==
  ASSUME CatalogueIInv, NEW e \in Editors, SaveName(e)
  PROVE  CatalogueIInv'
<1>0. /\ CatalogueTypeOK /\ NameInv /\ editing \in [Editors -> EditRow]
      /\ entry \in [Shared -> [Names -> Entries]]
  BY DEF CatalogueIInv, CatalogueTypeOK
<1>a. PICK kind : kind = editing[e].kind
  OBVIOUS
<1>b. PICK n : n = editing[e].row
  OBVIOUS
<1>c. PICK s : s = editing[e].name
  OBVIOUS
<1>d. PICK slug : slug = editing[e].slug
  OBVIOUS
<1> DEFINE row == [status |-> IF entry[kind][n] = NoEntry THEN "ACTIVE" ELSE entry[kind][n].status,
                   name |-> s, slug |-> slug]
<1>1. /\ e \in Doing("SLUG") /\ e \in Deciding(kind)
      /\ kind \in Shared /\ n \in Names /\ s \in Spellings /\ slug \in Nat
  BY <1>0, <1>a, <1>b, <1>c, <1>d, EditRows DEF SaveName, Doing, Deciding
<1>2. /\ editing' = [editing EXCEPT ![e] = Quiet] /\ UNCHANGED <<sameTime, treeVars, referenceVars>>
      /\ entry' = entry \/ entry' = [entry EXCEPT ![kind][n] = row]
  BY <1>a, <1>b, <1>c, <1>d DEF SaveName, Leave, UnchangedNames
<1>3. /\ editing' \in [Editors -> EditRow] /\ editing'[e] = Quiet /\ Quiet.op = "NONE"
      /\ \A d \in Editors \ {e} : editing'[d] = editing[d]
  BY <1>0, <1>2, QuietRow
<1>4. row \in Entries /\ row.name = s /\ row # NoEntry
  BY <1>0, <1>1, EntryRows DEF Entries, NoEntry
<1> HIDE DEF row
<1>5. /\ entry' \in [Shared -> [Names -> Entries]]
      /\ \A k \in Shared, x \in Names : k # kind \/ x # n => entry'[k][x] = entry[k][x]
      /\ entry'[kind][n] \in {row, entry[kind][n]}
  BY <1>0, <1>1, <1>2, <1>4
<1>6. \A k \in Shared : Deciding(k)' = Deciding(k) \ {e}
  BY <1>3 DEF Deciding, Doing
<1>7. /\ \A k \in Shared \ {kind} : NameRows(k)' = NameRows(k)
      /\ NameRows(kind)' \subseteq NameRows(kind) \cup {n}
  BY <1>1, <1>5 DEF NameRows
<1>8. ASSUME ~sameTime PROVE NamesToldApart'
  <2>1. /\ NameFree(kind, s, n) /\ NamesToldApart
    BY <1>0, <1>1, <1>8, <1>b, <1>c DEF NameInv
  <2>2. ASSUME NEW k \in Shared, NEW x \in NameRows(k)', NEW y \in NameRows(k)', x # y
        PROVE  Fold[entry'[k][x].name] # Fold[entry'[k][y].name]
    <3>0. x \in Names /\ y \in Names
      BY <2>2 DEF NameRows
    <3>1. CASE k = kind /\ n \in {x, y} /\ entry'[kind][n] = row
      <4>1. ASSUME NEW z \in {x, y}, z # n
            PROVE  Fold[entry'[kind][z].name] # Fold[s]
        <5>1. z \in NameRows(kind) \ {n} /\ entry'[kind][z] = entry[kind][z]
          BY <1>1, <1>5, <1>7, <2>2, <3>0, <3>1, <4>1
        <5> QED
          BY <2>1, <5>1 DEF NameFree
      <4> QED
        BY <1>4, <2>2, <3>1, <4>1
    <3>2. CASE k = kind /\ n \in {x, y} /\ entry'[kind][n] = entry[kind][n]
      <4>1. x \in NameRows(k) /\ y \in NameRows(k)
            /\ entry'[k][x] = entry[k][x] /\ entry'[k][y] = entry[k][y]
        BY <1>1, <1>5, <2>2, <3>0, <3>2 DEF NameRows
      <4> QED
        BY <1>8, <2>1, <2>2, <4>1 DEF NamesToldApart
    <3>3. CASE k # kind \/ n \notin {x, y}
      <4>1. x \in NameRows(k) /\ y \in NameRows(k)
            /\ entry'[k][x] = entry[k][x] /\ entry'[k][y] = entry[k][y]
        BY <1>1, <1>5, <2>2, <3>0, <3>3 DEF NameRows
      <4> QED
        BY <1>8, <2>1, <2>2, <4>1 DEF NamesToldApart
    <3> QED
      BY <1>5, <3>1, <3>2, <3>3
  <2> QED
    BY <2>2 DEF NamesToldApart
<1>9. ASSUME ~sameTime, NEW k \in Shared, NEW d \in Deciding(k)'
      PROVE  /\ NameFree(k, editing[d].name, editing[d].row)'
             /\ \A f \in Deciding(k)' : f = d
  <2>1. /\ d \in Deciding(k) /\ d # e /\ editing'[d] = editing[d]
    BY <1>3, <1>6, <1>9 DEF Deciding, Doing
  <2>2. /\ NameFree(k, editing[d].name, editing[d].row)
        /\ \A f \in Deciding(k) : f = d
    BY <1>0, <1>9, <2>1 DEF NameInv
  <2>3. k # kind
    BY <1>1, <2>1, <2>2
  <2>4. \A x \in NameRows(k) : entry'[k][x] = entry[k][x]
    BY <1>5, <2>3 DEF NameRows
  <2> QED
    BY <1>6, <1>7, <1>9, <2>1, <2>2, <2>3, <2>4 DEF NameFree
<1>10. NameInv'
  BY <1>2, <1>8, <1>9 DEF NameInv
<1>11. \A d \in Editors : editing'[d].op \notin {"NONE", "NAME", "SLUG"} => editing'[d] = editing[d]
  BY <1>3
<1> QED
  BY <1>0, <1>2, <1>3, <1>5, <1>10, <1>11, NamesAlone DEF CatalogueTypeOK

LEMMA SwitchBrandKeeps ==
  ASSUME CatalogueIInv, NEW n \in Names, SwitchBrand(n)
  PROVE  CatalogueIInv'
<1>0. /\ CatalogueTypeOK /\ NameInv /\ editing \in [Editors -> EditRow]
      /\ entry \in [Shared -> [Names -> Entries]] /\ "BRAND" \in Shared
  BY DEF CatalogueIInv, CatalogueTypeOK, Shared
<1>a. PICK old : old = entry["BRAND"][n]
  OBVIOUS
<1> DEFINE row == [old EXCEPT !.status = IF @ = "ACTIVE" THEN "INACTIVE" ELSE "ACTIVE"]
<1>1. /\ old \in Entries /\ old # NoEntry /\ entry' = [entry EXCEPT !["BRAND"][n] = row]
      /\ UNCHANGED <<sameTime, editing, treeVars, referenceVars>>
  BY <1>0, <1>a DEF SwitchBrand, NameRows, UnchangedNames
<1>2. row \in Entries /\ row # NoEntry /\ row.name = old.name
  BY <1>1 DEF Entries, NoEntry
<1> HIDE DEF row
<1>3. /\ entry' \in [Shared -> [Names -> Entries]]
      /\ \A k \in Shared, x \in Names :
             /\ entry'[k][x].name = entry[k][x].name
             /\ entry'[k][x] # NoEntry <=> entry[k][x] # NoEntry
  BY <1>0, <1>1, <1>2, <1>a
<1>4. \A k \in Shared : NameRows(k)' = NameRows(k) /\ Deciding(k)' = Deciding(k)
  BY <1>1, <1>3 DEF NameRows, Deciding, Doing
<1>5. NamesToldApart => NamesToldApart' \/ sameTime
  BY <1>1, <1>3, <1>4 DEF NamesToldApart, NameRows
<1>6. ASSUME ~sameTime, NEW k \in Shared, NEW d \in Deciding(k)
      PROVE  /\ NameFree(k, editing[d].name, editing[d].row)'
             /\ \A f \in Deciding(k)' : f = d
  <2>1. /\ NameFree(k, editing[d].name, editing[d].row)
        /\ \A f \in Deciding(k) : f = d
    BY <1>0, <1>6 DEF NameInv
  <2> QED
    BY <1>1, <1>3, <1>4, <2>1 DEF NameFree, NameRows
<1>7. NameInv'
  BY <1>0, <1>1, <1>4, <1>5, <1>6 DEF NameInv
<1> QED
  BY <1>0, <1>1, <1>3, <1>7, NamesAlone DEF CatalogueTypeOK

-----------------------------------------------------------------------------

LEMMA CatalogueStep == CatalogueIInv /\ [CatalogueNext]_catalogueVars => CatalogueIInv'
<1> SUFFICES ASSUME CatalogueIInv, [CatalogueNext]_catalogueVars PROVE CatalogueIInv'
  OBVIOUS
<1>1. CASE UNCHANGED catalogueVars
  <2>1. UNCHANGED <<treeVars, referenceVars, nameVars, editing>>
    BY <1>1 DEF catalogueVars
  <2>2. NameInv'
    BY <2>1, NamesKept DEF CatalogueIInv
  <2> QED
    BY <2>1, <2>2, NamesAlone DEF CatalogueIInv, CatalogueTypeOK, nameVars
<1>2. CASE TreeStep
  BY <1>2, CreateCategoryKeeps, BeginMoveKeeps, EndMoveKeeps, SwitchCategoryKeeps DEF TreeStep
<1>3. CASE ReferenceStep
  BY <1>3, RowStepKeeps, BeginDeleteKeeps, EndDeleteKeeps DEF ReferenceStep
<1>4. CASE NameStep
  BY <1>4, CheckNameKeeps, ChooseSlugKeeps, SaveNameKeeps, SwitchBrandKeeps DEF NameStep
<1> QED
  BY <1>1, <1>2, <1>3, <1>4 DEF CatalogueNext

LEMMA CatalogueStart == CatalogueInit => CatalogueIInv
<1> SUFFICES ASSUME CatalogueInit PROVE CatalogueIInv
  OBVIOUS
<1> USE DEF CatalogueInit
<1>1. \A op : op # "NONE" => Doing(op) = {}
  BY QuietRow DEF Doing
<1>2. editing \in [Editors -> EditRow]
  BY QuietRow
<1>3. CatalogueTypeOK
  BY QuietRow DEF CatalogueTypeOK, RowStatus, Entries
<1>4. Acyclic
  BY CatalogueAssumption DEF Acyclic
<1>5. TreeInv
  BY <1>1, <1>4 DEF TreeInv
<1>6. ReferenceInv
  BY <1>1 DEF ReferenceInv
<1>7. \A kind \in Shared : NameRows(kind) = {} /\ Deciding(kind) = {}
  BY <1>1 DEF NameRows, Deciding
<1>8. NameInv
  BY <1>7 DEF NameInv, NamesToldApart
<1> QED
  BY <1>2, <1>3, <1>5, <1>6, <1>8 DEF CatalogueIInv

\* What is known of each request in progress: a move, that its category is not above
\* its new parent; a deletion, that it read all the variants of its product; a name,
\* that it is free (assertNewParent, deleteReferenceWithin, assertNameFree).
THEOREM CatalogueInvariance == CatalogueSpec => []CatalogueIInv
<1> QED
  BY CatalogueStart, CatalogueStep, PTL DEF CatalogueSpec

\* The categories are a tree unless two moves cross, what moved once keeps its
\* reference, and names differ in more than capitals unless two were decided at the
\* same time (CategoryService, deleteReferenceWithin, assertNameFree).
THEOREM CatalogueAlwaysHolds == CatalogueSpec => []CatalogueHolds
<1>1. CatalogueIInv => CatalogueHolds
  <2> SUFFICES ASSUME CatalogueIInv PROVE CatalogueHolds
    OBVIOUS
  <2>1. TreeUnlessMovesCross
    BY AcyclicIsATree DEF CatalogueIInv, TreeInv, TreeUnlessMovesCross
  <2>2. HistoryKeepsItsReference
    BY DEF CatalogueIInv, CatalogueTypeOK, ReferenceInv, HistoryKeepsItsReference
  <2>3. NamesToldApart
    BY DEF CatalogueIInv, NameInv, NamesToldApart
  <2> QED
    BY <2>1, <2>2, <2>3 DEF CatalogueHolds, CatalogueIInv
<1> QED
  BY <1>1, CatalogueInvariance, PTL

-----------------------------------------------------------------------------
(* Restock: units of several orders *)

LinesOfOrders == [Orders -> Units]

LEMMA TotalIs ==
  ASSUME RestockAssumption, NEW f \in LinesOfOrders, NEW S \in SUBSET Orders
  PROVE  /\ IsFiniteSet(S) /\ DOMAIN Total(f, S) = Sizes
         /\ \A v \in Sizes : Total(f, S)[v] = SumFunctionOnSet([x \in Orders |-> f[x][v]], S)
<1>1. IsFiniteSet(S)
  BY FS_Subset DEF RestockAssumption
<1>2. DOMAIN f = Orders
  BY DEF LinesOfOrders
<1> QED
  BY <1>1, <1>2 DEF Total

LEMMA TotalNat ==
  ASSUME RestockAssumption, NEW f \in LinesOfOrders, NEW S \in SUBSET Orders
  PROVE  Total(f, S) \in Units
<1>1. ASSUME NEW v \in Sizes PROVE Total(f, S)[v] \in Nat
  <2>1. PICK g : g = [x \in Orders |-> f[x][v]]
    OBVIOUS
  <2>2. \A x \in S : g[x] \in Nat
    BY <2>1 DEF LinesOfOrders, Units
  <2>3. Total(f, S)[v] = SumFunctionOnSet(g, S) /\ IsFiniteSet(S)
    BY <2>1, TotalIs
  <2>4. SumFunctionOnSet(g, S) \in Nat
    BY <2>2, <2>3, SumNat
  <2> QED
    BY <2>3, <2>4
<1>2. Total(f, S) = [v \in Sizes |-> Total(f, S)[v]]
  BY DEF Total
<1> QED
  BY <1>1, <1>2 DEF Units

LEMMA TotalEmpty ==
  ASSUME RestockAssumption, NEW f \in LinesOfOrders
  PROVE  Total(f, {}) = NoUnits
<1>1. \A v \in Sizes : Total(f, {})[v] = 0
  BY TotalIs, SumEmpty
<1>2. Total(f, {}) = [v \in Sizes |-> Total(f, {})[v]]
  BY DEF Total
<1> QED
  BY <1>1, <1>2 DEF NoUnits

LEMMA TotalSame ==
  ASSUME RestockAssumption, NEW f \in LinesOfOrders, NEW g \in LinesOfOrders, NEW S \in SUBSET Orders,
         \A x \in S : f[x] = g[x]
  PROVE  Total(f, S) = Total(g, S)
<1>1. ASSUME NEW v \in Sizes PROVE Total(f, S)[v] = Total(g, S)[v]
  <2>1. PICK a : a = [x \in Orders |-> f[x][v]]
    OBVIOUS
  <2>2. PICK b : b = [x \in Orders |-> g[x][v]]
    OBVIOUS
  <2>3. \A x \in S : a[x] = b[x]
    BY <2>1, <2>2
  <2>4. Total(f, S)[v] = SumFunctionOnSet(a, S) /\ Total(g, S)[v] = SumFunctionOnSet(b, S)
        /\ IsFiniteSet(S)
    BY <2>1, <2>2, TotalIs
  <2> QED
    BY <2>3, <2>4, SumSame
<1>2. /\ Total(f, S) = [v \in Sizes |-> Total(f, S)[v]]
      /\ Total(g, S) = [v \in Sizes |-> Total(g, S)[v]]
  BY DEF Total
<1> QED
  BY <1>1, <1>2

LEMMA TotalAdded ==
  ASSUME RestockAssumption, NEW f \in LinesOfOrders, NEW S \in SUBSET Orders, NEW a \in Orders, a \notin S
  PROVE  \A v \in Sizes : Total(f, S \cup {a})[v] = Total(f, S)[v] + f[a][v]
<1>1. SUFFICES ASSUME NEW v \in Sizes PROVE Total(f, S \cup {a})[v] = Total(f, S)[v] + f[a][v]
  OBVIOUS
<1>2. PICK g : g = [x \in Orders |-> f[x][v]]
  OBVIOUS
<1>3. \A x \in Orders : g[x] \in Int
  BY <1>2 DEF LinesOfOrders, Units
<1>4. PICK T : T = S \cup {a}
  OBVIOUS
<1>5. Total(f, S)[v] = SumFunctionOnSet(g, S) /\ Total(f, T)[v] = SumFunctionOnSet(g, T) /\ IsFiniteSet(S)
  BY <1>2, <1>4, TotalIs
<1>6. SumFunctionOnSet(g, T) = SumFunctionOnSet(g, S) + g[a]
  BY <1>3, <1>4, <1>5, SumAdded
<1> QED
  BY <1>2, <1>4, <1>5, <1>6

LEMMA TotalRemoved ==
  ASSUME RestockAssumption, NEW f \in LinesOfOrders, NEW S \in SUBSET Orders, NEW a \in S
  PROVE  \A v \in Sizes : /\ Total(f, S)[v] = Total(f, S \ {a})[v] + f[a][v]
                          /\ f[a][v] <= Total(f, S)[v]
<1>1. PICK T : T = S \ {a}
  OBVIOUS
<1>2. T \in SUBSET Orders /\ a \notin T /\ T \cup {a} = S /\ a \in Orders
  BY <1>1
<1>3. \A v \in Sizes : Total(f, T \cup {a})[v] = Total(f, T)[v] + f[a][v]
  BY <1>2, TotalAdded
<1>4. \A v \in Sizes : Total(f, T)[v] \in Nat /\ f[a][v] \in Nat
  BY <1>2, TotalNat DEF Units, LinesOfOrders
<1>5. \A v \in Sizes : Total(f, S)[v] = Total(f, T)[v] + f[a][v]
  BY <1>2, <1>3
<1>6. \A v \in Sizes : f[a][v] <= Total(f, S)[v]
  <2>1. SUFFICES ASSUME NEW v \in Sizes PROVE f[a][v] <= Total(f, S)[v]
    OBVIOUS
  <2>2. PICK n : n = Total(f, T)[v]
    OBVIOUS
  <2>3. PICK k : k = f[a][v]
    OBVIOUS
  <2>4. n \in Nat /\ k \in Nat /\ Total(f, S)[v] = n + k
    BY <1>4, <1>5, <2>2, <2>3
  <2> QED
    BY <2>3, <2>4
<1> QED
  BY <1>1, <1>5, <1>6

-----------------------------------------------------------------------------
(* The first of some numbers *)

LEMMA First ==
  ASSUME NEW S \in SUBSET Nat, S # {}
  PROVE  Next1(S) \in S /\ \A d \in S : Next1(S) <= d
<1>1. \E n \in S : \A m \in S : n <= m
  BY Smallest
<1> QED
  BY <1>1 DEF Next1

LEMMA OldestBox ==
  ASSUME RestockAssumption, NEW w, ActiveBoxes(w) # {}
  PROVE  FindStock(w) \in ActiveBoxes(w) /\ FindStock(w) \in Boxes
<1> DEFINE C == {n \in Nat : \E b \in ActiveBoxes(w) : b[2] = n}
<1>1. \A b \in ActiveBoxes(w) : b \in Boxes /\ b[2] \in Nat
  BY DEF ActiveBoxes, Boxes
<1>2. C # {} /\ C \in SUBSET Nat
  BY <1>1
<1> HIDE DEF C
<1>3. PICK n \in C : \A m \in C : n <= m
  BY <1>2, Smallest
<1>4. PICK b \in ActiveBoxes(w) : b[2] = n
  BY <1>3 DEF C
<1>5. \A d \in ActiveBoxes(w) : b[2] <= d[2]
  BY <1>1, <1>3, <1>4 DEF C
<1>6. FindStock(w) \in ActiveBoxes(w)
  BY <1>4, <1>5 DEF FindStock
<1> QED
  BY <1>1, <1>6

-----------------------------------------------------------------------------
(* The restocks that fall *)

\* F falls of T: whoever is covered by what the newer ones of F leave.
Falling(F, T) ==
    \A o \in T :
        o \in F <=> Covers(Minus(keeping.taken, Total(RestockLines, {x \in F : x > o})), restock[o].lines)

LEMMA FallingExists ==
  ASSUME NEW S, IsFiniteSet(S)
  PROVE  S \subseteq Nat => \E F \in SUBSET S : Falling(F, S)
<1>a. PICK C : C = {T \in SUBSET S : ~ \E F \in SUBSET T : Falling(F, T)}
  OBVIOUS
<1>b. C # {} => \E T \in C : \A U \in C : U \subseteq T => U = T
  <2>1. C \in SUBSET SUBSET S
    BY <1>a
  <2> QED
    BY <2>1, SmallestSet
<1>1. SUFFICES ASSUME S \subseteq Nat, C # {} PROVE FALSE
  BY <1>a, <1>1
<1>2. PICK T \in C : \A U \in C : U \subseteq T => U = T
  BY <1>b, <1>1
<1>3. T \subseteq S /\ ~ \E F \in SUBSET T : Falling(F, T)
  BY <1>a
<1>4. T # {}
  <2>1. Falling({}, {})
    BY DEF Falling
  <2> QED
    BY <1>3, <2>1
<1>5. PICK m : m = Next1(T)
  OBVIOUS
<1>6. m \in T /\ (\A d \in T : m <= d) /\ T \subseteq Nat
  BY <1>1, <1>3, <1>4, <1>5, First
<1>7. PICK F \in SUBSET (T \ {m}) : Falling(F, T \ {m})
  <2>1. T \ {m} \notin C
    BY <1>2, <1>6
  <2> QED
    BY <1>a, <1>3, <2>1
<1> DEFINE falls == Covers(Minus(keeping.taken, Total(RestockLines, F)), restock[m].lines)
<1>9. PICK G : IF falls THEN G = F \cup {m} ELSE G = F
  OBVIOUS
<1> HIDE DEF falls
<1>10. \A o \in T : {x \in G : x > o} = IF o = m THEN F ELSE {x \in F : x > o}
  <2>1. \A x \in F : x \in T /\ x # m /\ x \in Nat /\ m \in Nat /\ x > m
    BY <1>6, <1>7
  <2>2. {x \in G : x > m} = F
    <3>1. m \in Nat /\ ~(m > m)
      BY <1>6
    <3> QED
      BY <1>9, <2>1, <3>1
  <2>3. ASSUME NEW o \in T, o # m PROVE {x \in G : x > o} = {x \in F : x > o}
    <3>1. o > m /\ o \in Nat /\ m \in Nat /\ ~(m > o)
      BY <1>6, <2>3
    <3> QED
      BY <1>9, <3>1
  <2> QED
    BY <2>2, <2>3
<1>11. Falling(G, T)
  <2>1. ASSUME NEW o \in T
        PROVE  o \in G <=> Covers(Minus(keeping.taken, Total(RestockLines, {x \in G : x > o})),
                                  restock[o].lines)
    <3>1. CASE o = m
      BY <1>7, <1>9, <1>10, <3>1 DEF falls
    <3>2. CASE o # m
      <4>1. o \in F <=> Covers(Minus(keeping.taken, Total(RestockLines, {x \in F : x > o})), restock[o].lines)
        BY <1>7, <3>2 DEF Falling
      <4> QED
        BY <1>9, <1>10, <3>2, <4>1
    <3> QED
      BY <3>1, <3>2
  <2> QED
    BY <2>1 DEF Falling
<1>12. G \in SUBSET T
  BY <1>6, <1>7, <1>9
<1> QED
  BY <1>3, <1>11, <1>12

\* Of some numbers one is the greatest.
LEMMA Newest ==
  ASSUME NEW D, IsFiniteSet(D), D # {}, \A x \in D : x \in Int
  PROVE  \E x \in D : \A y \in D : y <= x
<1>1. PICK f : f = [x \in D |-> x]
  OBVIOUS
<1>2. \A x \in D : f[x] \in Int /\ f[x] = x
  BY <1>1
<1>3. \E x \in D : \A y \in D : f[y] <= f[x]
  BY <1>2, Largest
<1> QED
  BY <1>2, <1>3

\* Two that fall the same way differ in none: not in the newest they would differ in.
LEMMA FallingOnce ==
  ASSUME NEW S, IsFiniteSet(S), NEW F \in SUBSET S, NEW G \in SUBSET S, Falling(F, S), Falling(G, S)
  PROVE  S \subseteq Nat => F = G
<1>1. SUFFICES ASSUME S \subseteq Nat, F # G PROVE FALSE
  OBVIOUS
<1>2. PICK D : D = {o \in S : ~(o \in F <=> o \in G)}
  OBVIOUS
<1>3. D # {} /\ IsFiniteSet(D) /\ D \subseteq S
  BY <1>1, <1>2, FS_Subset
<1>4. \A x \in D : x \in Int
  BY <1>1, <1>3
<1>5. PICK m \in D : \A y \in D : y <= m
  BY <1>3, <1>4, Newest
<1>6. {x \in F : x > m} = {x \in G : x > m}
  <2>1. \A x \in S : x \in Nat /\ m \in Nat
    BY <1>1, <1>3
  <2>2. \A x \in S : x > m => x \notin D
    BY <1>5, <2>1
  <2> QED
    BY <1>2, <2>2
<1>7. m \in F <=> m \in G
  BY <1>3, <1>6 DEF Falling
<1> QED
  BY <1>2, <1>7

\* There is one way to choose what falls, newest first (cancelUntouchedRestock): it is
\* covered, all together, by what came back, and none of it moved on.
THEOREM FallsFit ==
  ASSUME RestockAssumption, RestockTypeOK, NEW S \in SUBSET Orders, NEW gone
  PROVE  /\ Falls(S, gone) \in SUBSET (S \ gone)
         /\ \A F \in SUBSET (S \ gone) : Falling(F, S \ gone) <=> F = Falls(S, gone)
         /\ Covers(keeping.taken, Total(RestockLines, Falls(S, gone)))
<1>1. PICK T : T = S \ gone
  OBVIOUS
<1>2. T \in SUBSET Orders
  BY <1>1
<1>3. \E F \in SUBSET T : Falling(F, T)
  <2>1. T \in SUBSET Nat /\ IsFiniteSet(T)
    BY <1>2, FS_Subset DEF RestockAssumption
  <2> QED
    BY <2>1, FallingExists
<1>4. PICK F : F = Falls(S, gone)
  OBVIOUS
<1>5. F = CHOOSE G \in SUBSET T : Falling(G, T)
  BY <1>1, <1>4 DEF Falls, Falling
<1>6. F \in SUBSET T /\ Falling(F, T)
  BY <1>3, <1>5
<1>a. \A G \in SUBSET T : Falling(G, T) => G = F
  <2>1. T \in SUBSET Nat /\ IsFiniteSet(T)
    BY <1>2, FS_Subset DEF RestockAssumption
  <2> QED
    BY <1>6, <2>1, FallingOnce
<1>b. \A G \in SUBSET (S \ gone) : Falling(G, S \ gone) <=> G = Falls(S, gone)
  BY <1>1, <1>4, <1>6, <1>a
<1>7. RestockLines \in LinesOfOrders /\ keeping.taken \in Units
      /\ \A o \in Orders : RestockLines[o] = restock[o].lines
  BY DEF RestockLines, LinesOfOrders, RestockTypeOK, RestockRow
<1>8. CASE F = {}
  <2>1. Total(RestockLines, F) = NoUnits
    BY <1>7, <1>8, TotalEmpty
  <2>2. Covers(keeping.taken, Total(RestockLines, F))
    BY <1>7, <2>1 DEF Covers, NoUnits, Units
  <2> QED
    BY <1>1, <1>4, <1>6, <1>b, <2>2
<1>9. CASE F # {}
  <2>1. PICK m : m = Next1(F)
    OBVIOUS
  <2>2. m \in F /\ (\A d \in F : m <= d) /\ F \subseteq Nat /\ m \in Orders
    BY <1>2, <1>6, <1>9, <2>1, First DEF RestockAssumption
  <2>3. {x \in F : x > m} = F \ {m}
    <3>1. \A x \in F : x \in Nat /\ m \in Nat /\ (x > m <=> x # m)
      BY <2>2
    <3> QED
      BY <3>1
  <2>4. PICK rest : rest = F \ {m}
    OBVIOUS
  <2>5. Covers(Minus(keeping.taken, Total(RestockLines, rest)), restock[m].lines)
    BY <1>6, <2>2, <2>3, <2>4 DEF Falling
  <2>6. \A v \in Sizes : Total(RestockLines, F)[v] = Total(RestockLines, rest)[v] + RestockLines[m][v]
    BY <1>2, <1>6, <1>7, <2>2, <2>4, TotalRemoved
  <2>7. Total(RestockLines, rest) \in Units /\ restock[m].lines \in Units
    BY <1>2, <1>6, <1>7, <2>2, <2>4, TotalNat DEF LinesOfOrders
  <2>8. Covers(keeping.taken, Total(RestockLines, F))
    BY <1>7, <2>2, <2>5, <2>6, <2>7 DEF Covers, Minus, Units
  <2> QED
    BY <1>1, <1>4, <1>6, <1>b, <2>8
<1> QED
  BY <1>8, <1>9

-----------------------------------------------------------------------------
(* The orders of the groups *)

Before(S, o) == {d \in S : d < o}

\* Of n numbers there is one for each place in their order.
LEMMA EveryPlace ==
  ASSUME NEW S, IsFiniteSet(S)
  PROVE  S \subseteq Nat =>
             \A k \in Nat : k < Cardinality(S) => \E o \in S : Cardinality(Before(S, o)) = k
<1> DEFINE Vacant(T, k) == k < Cardinality(T) /\ \A o \in T : Cardinality(Before(T, o)) # k
<1>a. PICK C : C = {T \in SUBSET S : \E k \in Nat : Vacant(T, k)}
  OBVIOUS
<1>b. C # {} => \E T \in C : \A U \in C : U \subseteq T => U = T
  <2>1. C \in SUBSET SUBSET S
    BY <1>a
  <2> QED
    BY <2>1, SmallestSet
<1>1. SUFFICES ASSUME S \subseteq Nat, C # {} PROVE FALSE
  BY <1>a, <1>1
<1>2. PICK T \in C : \A U \in C : U \subseteq T => U = T
  BY <1>b, <1>1
<1>3. T \subseteq S /\ T \subseteq Nat
  BY <1>a, <1>1
<1>4. PICK k \in Nat : Vacant(T, k)
  BY <1>a, <1>2
<1>5. IsFiniteSet(T) /\ Cardinality(T) \in Nat
  BY <1>3, FS_Subset, FS_CardinalityType
<1>6. T # {}
  BY <1>4, <1>5, FS_EmptySet
<1>7. PICK m : m = Next1(T)
  OBVIOUS
<1>8. m \in T /\ (\A d \in T : m <= d) /\ m \in Nat
  BY <1>3, <1>6, <1>7, First
<1>9. PICK U : U = T \ {m}
  OBVIOUS
<1>10. Cardinality(U) = Cardinality(T) - 1 /\ IsFiniteSet(U) /\ U \notin C /\ U \subseteq S
  BY <1>2, <1>3, <1>5, <1>8, <1>9, FS_RemoveElement, FS_Subset
<1>11. CASE k = 0
  <2>1. Before(T, m) = {}
    <3>1. \A d \in T : d \in Nat /\ m \in Nat /\ ~(d < m)
      BY <1>3, <1>8
    <3> QED
      BY <3>1 DEF Before
  <2>2. Cardinality(Before(T, m)) = 0
    BY <2>1, FS_EmptySet
  <2> QED
    BY <1>4, <1>8, <1>11, <2>2
<1>12. CASE k # 0
  <2>1. k - 1 \in Nat /\ k - 1 < Cardinality(U)
    BY <1>4, <1>5, <1>10, <1>12
  <2>2. ~Vacant(U, k - 1)
    BY <1>a, <1>10, <2>1
  <2>3. PICK o \in U : Cardinality(Before(U, o)) = k - 1
    BY <2>1, <2>2
  <2>4. Before(T, o) = Before(U, o) \cup {m}
    <3>1. o \in Nat /\ m \in Nat /\ m < o
      BY <1>3, <1>8, <1>9, <2>3
    <3> QED
      BY <1>8, <1>9, <3>1 DEF Before
  <2>5. m \notin Before(U, o) /\ IsFiniteSet(Before(U, o))
    BY <1>9, <1>10, FS_Subset DEF Before
  <2>6. Cardinality(Before(T, o)) = k - 1 + 1
    BY <2>3, <2>4, <2>5, FS_AddElement
  <2> QED
    BY <1>4, <1>9, <2>6
<1> QED
  BY <1>11, <1>12

\* Two numbers have different places.
LEMMA PlacesDiffer ==
  ASSUME NEW S, IsFiniteSet(S), S \subseteq Nat, NEW a \in S, NEW b \in S, a < b
  PROVE  /\ Cardinality(Before(S, a)) \in Nat /\ Cardinality(Before(S, b)) \in Nat
         /\ Cardinality(Before(S, a)) < Cardinality(Before(S, b))
         /\ Cardinality(Before(S, b)) < Cardinality(S)
<1>1. IsFiniteSet(Before(S, a)) /\ IsFiniteSet(Before(S, b))
  BY FS_Subset DEF Before
<1>2. Before(S, b) \subseteq S /\ b \notin Before(S, b) /\ Before(S, b) # S
  <2>1. b \in Nat /\ ~(b < b)
    OBVIOUS
  <2> QED
    BY <2>1 DEF Before
<1>3. Before(S, a) \subseteq Before(S, b) /\ Before(S, a) # Before(S, b)
  <2>1. \A d \in S : d \in Nat /\ a \in Nat /\ b \in Nat /\ (d < a => d < b)
    OBVIOUS
  <2>2. a \in Before(S, b) /\ a \notin Before(S, a)
    BY DEF Before
  <2>3. Before(S, a) \subseteq Before(S, b)
    BY <2>1 DEF Before
  <2> QED
    BY <2>2, <2>3
<1>4. Cardinality(Before(S, a)) < Cardinality(Before(S, b))
  BY <1>1, <1>3, FS_Subset, FS_CardinalityType
<1>5. Cardinality(Before(S, b)) < Cardinality(S)
  BY <1>2, FS_Subset, FS_CardinalityType
<1> QED
  BY <1>1, <1>4, <1>5, FS_CardinalityType

LEMMA PlaceInside ==
  ASSUME NEW S, IsFiniteSet(S), S \subseteq Nat, NEW b \in S
  PROVE  Cardinality(Before(S, b)) \in Nat /\ Cardinality(Before(S, b)) < Cardinality(S)
<1>1. Before(S, b) \subseteq S /\ b \notin Before(S, b) /\ Before(S, b) # S
  <2>1. b \in Nat /\ ~(b < b)
    OBVIOUS
  <2> QED
    BY <2>1 DEF Before
<1>2. IsFiniteSet(Before(S, b))
  BY FS_Subset DEF Before
<1> QED
  BY <1>1, <1>2, FS_Subset, FS_CardinalityType

\* Each group has an unused order, of its own.
LEMMA OrdersOfGroups ==
  ASSUME RestockAssumption, NEW c, Groups(c) \subseteq Warehouses,
         Cardinality(Groups(c)) <= Cardinality(Unused)
  PROVE  /\ \A w \in Groups(c) : OrderOf(c, w) \in Unused
         /\ \A w, g \in Groups(c) : OrderOf(c, w) = OrderOf(c, g) => w = g
<1>1. PICK G : G = Groups(c)
  OBVIOUS
<1>2. PICK U : U = Unused
  OBVIOUS
<1>3. IsFiniteSet(G) /\ G \subseteq Nat /\ IsFiniteSet(U) /\ U \subseteq Nat
  BY <1>1, <1>2, FS_Subset DEF RestockAssumption, Unused
<1>4. Cardinality(G) \in Nat /\ Cardinality(U) \in Nat /\ Cardinality(G) <= Cardinality(U)
  BY <1>1, <1>2, <1>3, FS_CardinalityType
<1>5. ASSUME NEW w \in G
      PROVE  OrderOf(c, w) \in U /\ Cardinality(Before(U, OrderOf(c, w))) = Cardinality(Before(G, w))
  <2>1. PICK P : P = {o \in U : Cardinality(Before(U, o)) = Cardinality(Before(G, w))}
    OBVIOUS
  <2>2. OrderOf(c, w) = Next1(P)
    BY <1>1, <1>2, <2>1 DEF OrderOf, Before
  <2>3. Cardinality(Before(G, w)) \in Nat /\ Cardinality(Before(G, w)) < Cardinality(G)
    BY <1>3, PlaceInside
  <2>4. Cardinality(Before(G, w)) < Cardinality(U)
    BY <1>4, <2>3
  <2>5. \E o \in U : Cardinality(Before(U, o)) = Cardinality(Before(G, w))
    BY <1>3, <2>3, <2>4, EveryPlace
  <2>6. P # {} /\ P \in SUBSET Nat
    BY <1>3, <2>1, <2>5
  <2>7. Next1(P) \in P
    BY <2>6, First
  <2> QED
    BY <2>1, <2>2, <2>7
<1>6. ASSUME NEW w \in G, NEW g \in G, OrderOf(c, w) = OrderOf(c, g) PROVE w = g
  <2>1. Cardinality(Before(G, w)) = Cardinality(Before(G, g))
    BY <1>5, <1>6
  <2>2. ~(w < g) /\ ~(g < w)
    <3>1. ASSUME NEW a \in G, NEW b \in G, a < b PROVE Cardinality(Before(G, a)) # Cardinality(Before(G, b))
      <4>1. PICK i : i = Cardinality(Before(G, a))
        OBVIOUS
      <4>2. PICK j : j = Cardinality(Before(G, b))
        OBVIOUS
      <4>3. i \in Nat /\ j \in Nat /\ i < j
        BY <1>3, <3>1, <4>1, <4>2, PlacesDiffer
      <4>4. i # j
        BY <4>3
      <4> QED
        BY <4>1, <4>2, <4>4
    <3> QED
      BY <2>1, <3>1
  <2>3. w \in Nat /\ g \in Nat
    BY <1>3
  <2> QED
    BY <2>2, <2>3
<1> QED
  BY <1>1, <1>2, <1>5, <1>6

-----------------------------------------------------------------------------
(* The plan of a charge (planBySource) *)

\* What a turn takes of the variants S, and what it leaves.
Taken(lines, S) == Gain(lines, Best(lines, S), S)

Turn(g, lines, S) ==
    [v \in S |-> IF v \in Taken(lines, S) THEN Best(lines, S) ELSE g[S \ Taken(lines, S)][v]]

Planning(g, lines, T) == g = [S \in SUBSET T |-> Turn(g, lines, S)]

LEMMA PlanUnfold ==
  ASSUME NEW lines
  PROVE  LET covered == DOMAIN lines \ MissingLines(lines) IN
         PlanBySource(lines) = (CHOOSE g : Planning(g, lines, covered))[covered]
BY Zenon DEF PlanBySource, Planning, Turn, Taken

\* A warehouse covers most.
LEMMA MostCovered ==
  ASSUME IsFiniteSet(Warehouses), Warehouses # {}, NEW f, \A w \in Warehouses : f[w] \in Nat
  PROVE  \E x \in Warehouses : \A y \in Warehouses : f[y] <= f[x]
<1>1. \A w \in Warehouses : f[w] \in Int
  OBVIOUS
<1> QED
  BY <1>1, Largest

\* The turn takes something, if there is something that a warehouse covers.
LEMMA BestTakes ==
  ASSUME IsFiniteSet(Warehouses), Warehouses # {}, Warehouses \subseteq Nat, NEW lines,
         NEW S, IsFiniteSet(S), S # {}, S \subseteq DOMAIN lines \ MissingLines(lines)
  PROVE  /\ Best(lines, S) \in Warehouses
         /\ Taken(lines, S) # {} /\ Taken(lines, S) \subseteq S
<1>1. PICK f : f = [w \in Warehouses |-> Cardinality(Gain(lines, w, S))]
  OBVIOUS
<1>2. \A w \in Warehouses : IsFiniteSet(Gain(lines, w, S)) /\ f[w] = Cardinality(Gain(lines, w, S))
                            /\ f[w] \in Nat
  BY <1>1, FS_Subset, FS_CardinalityType DEF Gain
<1>3. \E x \in Warehouses : \A y \in Warehouses : f[y] <= f[x]
  BY <1>2, MostCovered
<1>4. PICK x \in Warehouses : \A y \in Warehouses : f[y] <= f[x]
  BY <1>3
<1>5. PICK M : M = {w \in Warehouses : f[w] = f[x]}
  OBVIOUS
<1>6. M # {} /\ M \in SUBSET Nat
  BY <1>5
<1>7. PICK n \in M : \A m \in M : n <= m
  BY <1>6, Smallest
<1>8. n \in Warehouses /\ f[n] = f[x]
  BY <1>5, <1>7
<1>9. ASSUME NEW d \in Warehouses PROVE Better(lines, n, d, S)
  <2>1. CASE f[d] = f[x]
    BY <1>2, <1>5, <1>7, <1>8, <2>1 DEF Better
  <2>2. CASE f[d] # f[x]
    <3>1. f[n] > f[d]
      BY <1>2, <1>4, <1>8, <2>2
    <3> QED
      BY <1>2, <1>8, <3>1 DEF Better
  <2> QED
    BY <2>1, <2>2
<1>10. PICK best : best = Best(lines, S)
  OBVIOUS
<1>11. best \in Warehouses /\ \A d \in Warehouses : Better(lines, best, d, S)
  BY <1>8, <1>9, <1>10 DEF Best
<1>12. PICK v \in S, w \in Warehouses : v \in Gain(lines, w, S)
  <2>1. PICK v \in S : TRUE
    OBVIOUS
  <2>2. v \in DOMAIN lines /\ v \notin MissingLines(lines)
    OBVIOUS
  <2>3. PICK w \in Warehouses : CanCover(w, lines[v])
    BY <2>2 DEF MissingLines
  <2>4. v \in Gain(lines, w, S)
    BY <2>3 DEF Gain
  <2> QED
    BY <2>4
<1>13. f[w] > 0
  <2>1. Cardinality(Gain(lines, w, S)) # 0
    BY <1>2, <1>12, FS_EmptySet
  <2> QED
    BY <1>2, <2>1
<1>14. f[best] >= f[w]
  BY <1>2, <1>11 DEF Better
<1>15. Cardinality(Gain(lines, best, S)) # 0
  BY <1>2, <1>11, <1>13, <1>14
<1>16. Gain(lines, best, S) # {}
  BY <1>15, FS_EmptySet
<1> QED
  BY <1>10, <1>11, <1>16 DEF Taken, Gain

\* Whether every turn that has something to take takes some of it.
Advances(lines, T) ==
    \A S \in SUBSET T : S # {} => Taken(lines, S) # {} /\ Taken(lines, S) \subseteq S

LEMMA TurnSame ==
  ASSUME NEW lines, NEW S, NEW g, NEW h,
         S # {} => g[S \ Taken(lines, S)] = h[S \ Taken(lines, S)]
  PROVE  Turn(g, lines, S) = Turn(h, lines, S)
BY Zenon DEF Turn

LEMMA PlansAgree ==
  ASSUME NEW lines, NEW S, IsFiniteSet(S), NEW T \in SUBSET S, Advances(lines, S),
         NEW g, Planning(g, lines, S), NEW h, Planning(h, lines, T)
  PROVE  \A s \in SUBSET T : g[s] = h[s]
<1>a. PICK C : C = {s \in SUBSET T : g[s] # h[s]}
  OBVIOUS
<1>1. SUFFICES ASSUME C # {} PROVE FALSE
  BY <1>a, <1>1
<1>2. PICK s \in C : \A U \in C : U \subseteq s => U = s
  <2>1. C \in SUBSET SUBSET S
    BY <1>a
  <2> QED
    BY <1>1, <2>1, SmallestSet
<1>3. s \in SUBSET T /\ s \in SUBSET S /\ g[s] # h[s]
  BY <1>a, <1>2
<1>4. s # {} => g[s \ Taken(lines, s)] = h[s \ Taken(lines, s)]
  <2>1. SUFFICES ASSUME s # {} PROVE g[s \ Taken(lines, s)] = h[s \ Taken(lines, s)]
    OBVIOUS
  <2>2. Taken(lines, s) # {} /\ Taken(lines, s) \subseteq s
    BY <1>3, <2>1 DEF Advances
  <2>3. s \ Taken(lines, s) \notin C /\ s \ Taken(lines, s) \in SUBSET T
    BY <1>2, <1>3, <2>2
  <2> QED
    BY <1>a, <2>3
<1>5. Turn(g, lines, s) = Turn(h, lines, s)
  BY <1>4, TurnSame
<1>6. g[s] = Turn(g, lines, s) /\ h[s] = Turn(h, lines, s)
  BY <1>3, Zenon DEF Planning
<1> QED
  BY <1>3, <1>5, <1>6

LEMMA PlanExists ==
  ASSUME NEW lines, NEW S, IsFiniteSet(S), Advances(lines, S)
  PROVE  \E g : Planning(g, lines, S)
<1>a. PICK C : C = {s \in SUBSET S : ~ \E g : Planning(g, lines, s)}
  OBVIOUS
<1>1. SUFFICES ASSUME C # {} PROVE FALSE
  BY <1>a, <1>1
<1>2. PICK T \in C : \A U \in C : U \subseteq T => U = T
  <2>1. C \in SUBSET SUBSET S
    BY <1>a
  <2> QED
    BY <1>1, <2>1, SmallestSet
<1>3. T \subseteq S /\ ~ \E g : Planning(g, lines, T)
  BY <1>a, <1>2
<1> DEFINE G(s) == CHOOSE g : Planning(g, lines, s)
           L(s) == s \ Taken(lines, s)
<1>4. \A s \in SUBSET T : s # T => Planning(G(s), lines, s) /\ IsFiniteSet(s)
  <2>1. \A s \in SUBSET T : s # T => s \notin C /\ s \in SUBSET S
    BY <1>2, <1>3
  <2> QED
    BY <1>a, <2>1, FS_Subset
<1>5. \A s \in SUBSET T : s # {} => L(s) \in SUBSET s /\ L(s) # s
  BY <1>3 DEF Advances
<1>6. \A s \in SUBSET T : Advances(lines, s)
  BY <1>3 DEF Advances
<1> HIDE DEF G
\* k[s] is the plan of s, from the plans of what its first turn leaves.
<1>7. PICK k : k = [s \in SUBSET T |-> G(s)[s]]
  OBVIOUS
<1>8. PICK h : h = [s \in SUBSET T |-> Turn(k, lines, s)]
  OBVIOUS
<1>9. ASSUME NEW s \in SUBSET T, s # T PROVE h[s] = k[s]
  <2>1. Planning(G(s), lines, s) /\ IsFiniteSet(s) /\ Advances(lines, s)
    BY <1>4, <1>6, <1>9
  <2>2. G(s)[s] = Turn(G(s), lines, s)
    BY <2>1, Zenon DEF Planning
  <2>3. s # {} => G(s)[L(s)] = k[L(s)]
    <3>1. SUFFICES ASSUME s # {} PROVE G(s)[L(s)] = k[L(s)]
      OBVIOUS
    <3>2. PICK u : u = L(s)
      OBVIOUS
    <3>3. u \in SUBSET s /\ u # T /\ u \in SUBSET T
      BY <1>5, <1>9, <3>1, <3>2
    <3>4. Planning(G(u), lines, u)
      BY <1>4, <3>3
    <3>5. G(s)[u] = G(u)[u]
      BY <2>1, <3>3, <3>4, PlansAgree
    <3>6. k[u] = G(u)[u]
      BY <1>7, <3>3
    <3> QED
      BY <3>2, <3>5, <3>6
  <2>4. Turn(G(s), lines, s) = Turn(k, lines, s)
    BY <2>3, TurnSame
  <2> QED
    BY <1>7, <1>8, <2>2, <2>4
<1>10. ASSUME NEW s \in SUBSET T PROVE h[s] = Turn(h, lines, s)
  <2>1. s # {} => k[L(s)] = h[L(s)]
    <3>1. SUFFICES ASSUME s # {} PROVE k[L(s)] = h[L(s)]
      OBVIOUS
    <3>2. PICK u : u = L(s)
      OBVIOUS
    <3>3. u \in SUBSET T /\ u # T
      BY <1>5, <1>10, <3>1, <3>2
    <3> QED
      BY <1>9, <3>2, <3>3
  <2>2. Turn(k, lines, s) = Turn(h, lines, s)
    BY <2>1, TurnSame
  <2> QED
    BY <1>8, <2>2
<1>11. Planning(h, lines, T)
  <2>1. PICK r : r = [s \in SUBSET T |-> Turn(h, lines, s)]
    OBVIOUS
  <2>2. \A s \in SUBSET T : h[s] = r[s]
    BY <1>10, <2>1
  <2>3. /\ DOMAIN h = SUBSET T /\ h = [s \in DOMAIN h |-> h[s]]
        /\ DOMAIN r = SUBSET T /\ r = [s \in DOMAIN r |-> r[s]]
    BY <1>8, <2>1
  <2>4. h = r
    BY <2>2, <2>3
  <2> QED
    BY <2>1, <2>4 DEF Planning
<1> QED
  BY <1>3, <1>11

\* The turns of planBySource end, and each variant that some warehouse covers gets one
\* that has all that is asked of it: there is always a warehouse for the pending ones
\* (the break of its loop is never taken).
THEOREM PlanGivesAWarehouse ==
  ASSUME RestockAssumption, NEW lines, IsFiniteSet(DOMAIN lines)
  PROVE  /\ PlanBySource(lines) \in [DOMAIN lines \ MissingLines(lines) -> Warehouses]
         /\ \A v \in DOMAIN lines \ MissingLines(lines) : CanCover(PlanBySource(lines)[v], lines[v])
<1>1. PICK K : K = DOMAIN lines \ MissingLines(lines)
  OBVIOUS
<1>2. IsFiniteSet(K)
  BY <1>1, FS_Subset
<1>3. ASSUME NEW S \in SUBSET K, S # {}
      PROVE  /\ Best(lines, S) \in Warehouses
             /\ Taken(lines, S) # {} /\ Taken(lines, S) \subseteq S
  <2>1. IsFiniteSet(S) /\ S \subseteq DOMAIN lines \ MissingLines(lines)
    BY <1>1, <1>2, FS_Subset
  <2> QED
    BY <1>3, <2>1, BestTakes DEF RestockAssumption
<1>4. Advances(lines, K)
  BY <1>3 DEF Advances
<1>5. PICK g : g = CHOOSE f : Planning(f, lines, K)
  OBVIOUS
<1>6. Planning(g, lines, K)
  BY <1>2, <1>4, <1>5, PlanExists, Zenon
<1>7. PlanBySource(lines) = g[K]
  BY <1>1, <1>5, PlanUnfold, Zenon
<1> DEFINE Fits(s) == g[s] \in [s -> Warehouses] /\ \A v \in s : CanCover(g[s][v], lines[v])
<1>a. PICK C : C = {s \in SUBSET K : ~Fits(s)}
  OBVIOUS
<1>8. C = {}
  <2>1. SUFFICES ASSUME C # {} PROVE FALSE
    BY <2>1
  <2>2. PICK s \in C : \A U \in C : U \subseteq s => U = s
    <3>1. C \in SUBSET SUBSET K
      BY <1>a
    <3> QED
      BY <1>2, <2>1, <3>1, SmallestSet
  <2>3. s \in SUBSET K /\ ~Fits(s)
    BY <1>a, <2>2
  <2>4. g[s] = Turn(g, lines, s)
    BY <1>6, <2>3, Zenon DEF Planning
  <2>5. ASSUME NEW v \in s PROVE g[s][v] \in Warehouses /\ CanCover(g[s][v], lines[v])
    <3>1. PICK u : u = s \ Taken(lines, s)
      OBVIOUS
    <3>2. Best(lines, s) \in Warehouses /\ u \in SUBSET K /\ u \notin C
      BY <1>3, <2>2, <2>3, <2>5, <3>1
    <3>3. Fits(u)
      BY <1>a, <3>2
    <3>4. g[s][v] = IF v \in Taken(lines, s) THEN Best(lines, s) ELSE g[u][v]
      BY <2>4, <2>5, <3>1 DEF Turn
    <3>5. CASE v \in Taken(lines, s)
      <4>1. CanCover(Best(lines, s), lines[v])
        BY <3>5 DEF Taken, Gain
      <4> QED
        BY <3>2, <3>4, <3>5, <4>1
    <3>6. CASE v \notin Taken(lines, s)
      BY <2>5, <3>1, <3>3, <3>4, <3>6
    <3> QED
      BY <3>5, <3>6
  <2>6. g[s] = [v \in s |-> g[s][v]]
    BY <2>4 DEF Turn
  <2> QED
    BY <2>3, <2>5, <2>6
<1>9. Fits(K)
  BY <1>a, <1>8
<1> QED
  BY <1>1, <1>7, <1>9

-----------------------------------------------------------------------------
(* What holds between the steps *)

InHand == {o \in Orders : restock[o].status \in Carried}

\* What a charge in progress asks for is of the model that was sold; once it is
\* planned, each line has its warehouse or the administrators are to be told.
ChargeInv(c) ==
    charge[c].stage # "NONE" =>
        /\ charge[c].sold \in Units /\ charge[c].urgent \in BOOLEAN
        /\ charge[c].unsolved \subseteq Sizes /\ DOMAIN charge[c].lines \subseteq Sizes
        /\ \A v \in DOMAIN charge[c].lines :
               /\ charge[c].lines[v].source \in Sizes /\ charge[c].lines[v].quantity \in Nat
               /\ ModelOf[charge[c].lines[v].source] = ModelOf[v]
               /\ charge[c].lines[v].quantity = charge[c].needed[v]
        /\ DOMAIN charge[c].needed \ DOMAIN charge[c].lines \subseteq charge[c].unsolved
        /\ charge[c].stage = "PLANNED" =>
               /\ DOMAIN charge[c].plan \subseteq DOMAIN charge[c].lines
               /\ \A v \in DOMAIN charge[c].plan : charge[c].plan[v] \in Warehouses
               /\ \A v \in DOMAIN charge[c].lines \ DOMAIN charge[c].plan :
                      charge[c].lines[v].source \in charge[c].unsolved

ChargesInv == DOMAIN charge = Charges /\ \A c \in Charges : ChargeInv(c)

InUse(g) == bag[g].status = "ACTIVE" \/ \E o \in Orders : picking[o] = g

\* Until it is disturbed, one bag is in use at most, and what is carried is in it.
BagInv ==
    /\ \A o \in Orders : picking[o] # 0 => restock[o].status = "WAITING_FOR_RUNNER"
    /\ \A g \in Bags : bag[g].status = "NONE" => bag[g].units = NoUnits
    /\ ~disturbed =>
           /\ \A g \in Bags : bag[g].status # "INACTIVE"
           /\ ActiveBags = {} => InHand = {}
           /\ \A g \in ActiveBags : bag[g].units = Total(RestockLines, InHand)
           /\ \A a, b \in Bags : InUse(a) /\ InUse(b) => a = b

RestockIInv == RestockTypeOK /\ ReturnsCancelTheirShare /\ ChargesInv /\ BagInv

LEMMA LinesAre ==
  /\ RestockTypeOK => /\ RestockLines \in LinesOfOrders
                      /\ \A o \in Orders : RestockLines[o] = restock[o].lines /\ restock[o].lines \in Units
  /\ RestockTypeOK' => /\ RestockLines' \in LinesOfOrders
                       /\ \A o \in Orders : RestockLines'[o] = restock'[o].lines /\ restock'[o].lines \in Units
BY DEF RestockTypeOK, RestockRow, RestockLines, LinesOfOrders

LEMMA UnitsAdd ==
  ASSUME NEW a \in Units, NEW b \in Units
  PROVE  /\ Plus(a, b) \in Units /\ (Covers(a, b) => Minus(a, b) \in Units)
         /\ \A v \in Sizes : Plus(a, b)[v] = a[v] + b[v] /\ Minus(a, b)[v] = a[v] - b[v]
BY DEF Units, Plus, Minus, Covers

LEMMA BagInvSame ==
  ASSUME RestockAssumption, RestockIInv, RestockTypeOK', UNCHANGED bagVars,
         \A o \in Orders : picking[o] # 0 => restock'[o] = restock[o],
         \A o \in Orders : restock'[o].status \in Carried <=> restock[o].status \in Carried,
         \A o \in InHand : restock'[o].lines = restock[o].lines
  PROVE  BagInv'
<1>1. bag' = bag /\ picking' = picking /\ disturbed' = disturbed
  BY DEF bagVars
<1>2. InHand' = InHand /\ InHand \in SUBSET Orders
  BY DEF InHand
<1>3. RestockTypeOK /\ BagInv
  BY DEF RestockIInv
<1>4. Total(RestockLines', InHand) = Total(RestockLines, InHand)
  <2>1. \A o \in InHand : RestockLines'[o] = RestockLines[o]
    BY <1>2, <1>3, LinesAre
  <2>2. RestockLines \in LinesOfOrders /\ RestockLines' \in LinesOfOrders
    BY <1>3, LinesAre
  <2> QED
    BY <1>2, <2>1, <2>2, TotalSame
<1>5. Total(RestockLines, InHand)' = Total(RestockLines, InHand)
  BY <1>2, <1>4 DEF Total
<1>6. \A o \in Orders : picking'[o] # 0 => restock'[o].status = "WAITING_FOR_RUNNER"
  BY <1>1, <1>3 DEF BagInv
<1>7. ActiveBags' = ActiveBags /\ \A g : InUse(g)' <=> InUse(g)
  BY <1>1 DEF ActiveBags, InUse
<1> QED
  BY <1>1, <1>2, <1>3, <1>5, <1>6, <1>7 DEF BagInv

LEMMA ChargesInvSame == ChargesInv /\ charge' = charge => ChargesInv'
BY DEF ChargesInv, ChargeInv

LEMMA ShareSame ==
  ReturnsCancelTheirShare /\ kept' = kept /\ dropped' = dropped => ReturnsCancelTheirShare'
BY DEF ReturnsCancelTheirShare

\* A step of a restock that nobody is picking up, that does not take it into or out of a bag.
LEMMA RowStep ==
  ASSUME RestockAssumption, RestockIInv, NEW o \in Orders, NEW from, NEW row \in RestockRow,
         Step(o, from, row), row.status \in Carried <=> from \in Carried,
         from \in Carried => row.lines = restock[o].lines,
         UNCHANGED <<chargeVars, stockVars, binVars, bagVars, minimum>>
  PROVE  RestockIInv'
<1>1. restock[o].status = from /\ picking[o] = 0 /\ restock' = [restock EXCEPT ![o] = row]
  BY DEF Step, Unlocked
<1>2. \A d \in Orders : restock'[d] = IF d = o THEN row ELSE restock[d]
  BY <1>1 DEF RestockIInv, RestockTypeOK
<1>3. RestockTypeOK'
  <2>1. restock' \in [Orders -> RestockRow]
    BY <1>1 DEF RestockIInv, RestockTypeOK
  <2> QED
    BY <2>1 DEF RestockIInv, RestockTypeOK, chargeVars, stockVars, binVars, bagVars
<1>4. BagInv'
  BY <1>1, <1>2, <1>3, BagInvSame DEF InHand
<1>5. ChargesInv' /\ ReturnsCancelTheirShare'
  BY ChargesInvSame, ShareSame DEF RestockIInv, chargeVars, binVars
<1> QED
  BY <1>3, <1>4, <1>5 DEF RestockIInv

LEMMA ReadyKeeps ==
  ASSUME RestockAssumption, RestockIInv, NEW o \in Orders, NEW found \in [Sizes -> 0 .. MaxSold],
         Ready(o, found)
  PROVE  RestockIInv'
<1>1. PICK b : b = FindStock(restock[o].from)
  OBVIOUS
<1>2. b \in Boxes
  BY <1>1, OldestBox DEF Ready
<1>3. PICK row : row = [restock[o] EXCEPT !.status = "WAITING_FOR_RUNNER", !.lines = found, !.at = b,
                                          !.claimed = TRUE]
  OBVIOUS
<1>4. Step(o, "RESTOCK_REQUESTED", row) /\ UNCHANGED <<chargeVars, stockVars, binVars, bagVars, minimum>>
  BY <1>1, <1>3 DEF Ready
<1>5. found \in Units
  BY DEF Units
<1>6. row \in RestockRow /\ row.status = "WAITING_FOR_RUNNER"
  <2>1. restock[o] \in RestockRow
    BY DEF RestockIInv, RestockTypeOK
  <2>2. row = [status |-> "WAITING_FOR_RUNNER", from |-> restock[o].from, at |-> b, lines |-> found,
               urgent |-> restock[o].urgent, claimed |-> TRUE]
    BY <1>3, <2>1 DEF RestockRow
  <2>3. restock[o].from \in Warehouses /\ restock[o].urgent \in BOOLEAN
    BY <2>1 DEF RestockRow
  <2> QED
    BY <1>2, <1>5, <2>2, <2>3 DEF RestockRow, Reserving
<1>7. row.status \notin Carried /\ "RESTOCK_REQUESTED" \notin Carried
  BY <1>6 DEF Carried
<1> QED
  BY <1>4, <1>6, <1>7, RowStep

\* A keeper takes it, or lets go of it.
LEMMA ClaimKeeps ==
  ASSUME RestockAssumption, RestockIInv, NEW o \in Orders, ClaimRestock(o) \/ ReleaseRestock(o)
  PROVE  RestockIInv'
<1>1. PICK claimed \in BOOLEAN :
         /\ Step(o, "RESTOCK_REQUESTED", [restock[o] EXCEPT !.claimed = claimed])
         /\ UNCHANGED <<chargeVars, stockVars, binVars, bagVars, minimum>>
  BY DEF ClaimRestock, ReleaseRestock
<1>2. PICK row : row = [restock[o] EXCEPT !.claimed = claimed]
  OBVIOUS
<1>3. row \in RestockRow /\ row.status = restock[o].status /\ row.lines = restock[o].lines
  <2>1. restock[o] \in RestockRow
    BY DEF RestockIInv, RestockTypeOK
  <2> QED
    BY <1>1, <1>2, <2>1 DEF RestockRow
<1>4. restock[o].status = "RESTOCK_REQUESTED"
  BY <1>1 DEF Step
<1> QED
  BY <1>1, <1>2, <1>3, <1>4, RowStep

LEMMA StatusStep ==
  ASSUME RestockAssumption, RestockIInv, NEW o \in Orders, NEW from,
         NEW to \in Reserving \cup Carried \cup NotOnTheWay,
         Step(o, from, [restock[o] EXCEPT !.status = to]), to \in Carried <=> from \in Carried,
         UNCHANGED <<chargeVars, stockVars, binVars, bagVars, minimum>>
  PROVE  RestockIInv'
<1>1. PICK row : row = [restock[o] EXCEPT !.status = to]
  OBVIOUS
<1>2. row \in RestockRow /\ row.status = to /\ row.lines = restock[o].lines
  <2>1. restock[o] \in RestockRow
    BY DEF RestockIInv, RestockTypeOK
  <2> QED
    BY <1>1, <2>1 DEF RestockRow
<1> QED
  BY <1>1, <1>2, RowStep

LEMMA CancelRestockKeeps ==
  ASSUME RestockAssumption, RestockIInv, NEW o \in Orders, CancelRestock(o)
  PROVE  RestockIInv'
<1>1. PICK from \in Reserving : Step(o, from, [restock[o] EXCEPT !.status = "CANCELLED"])
  BY DEF CancelRestock
<1>2. "CANCELLED" \in NotOnTheWay /\ "CANCELLED" \notin Carried /\ from \notin Carried
  BY DEF NotOnTheWay, Carried, Reserving
<1> QED
  BY <1>1, <1>2, StatusStep DEF CancelRestock

LEMMA DeliverKeeps ==
  ASSUME RestockAssumption, RestockIInv, NEW o \in Orders, Deliver(o)
  PROVE  RestockIInv'
<1>1. "DELIVERED_TO_STORE" \in Carried /\ "IN_TRANSIT" \in Carried
  BY DEF Carried
<1> QED
  BY <1>1, StatusStep DEF Deliver

LEMMA FinishKeeps ==
  ASSUME RestockAssumption, RestockIInv, NEW o \in Orders, Finish(o)
  PROVE  RestockIInv'
<1>1. "RESTOCKED" \in NotOnTheWay /\ "RESTOCKED" \notin Carried /\ "RECEIVED_BY_STORE" \notin Carried
  BY DEF Carried, NotOnTheWay
<1> QED
  BY <1>1, StatusStep DEF Finish

-----------------------------------------------------------------------------
(* A charge *)

LEMMA AskedIs ==
  ASSUME RestockAssumption, NEW c \in Charges, ChargeInv(c), charge[c].stage = "PLANNED", NEW w
  PROVE  /\ AskedOf(c, w) \in Units
         /\ \A v \in DOMAIN charge[c].plan :
                charge[c].plan[v] = w =>
                    AskedOf(c, w)[charge[c].lines[v].source] >= charge[c].lines[v].quantity
<1>1. PICK lines : lines = charge[c].lines
  OBVIOUS
<1>2. PICK plan : plan = charge[c].plan
  OBVIOUS
<1>3. PICK f : f = [v \in DOMAIN lines |-> lines[v].quantity]
  OBVIOUS
<1>4. /\ DOMAIN lines \subseteq Sizes /\ DOMAIN plan \subseteq DOMAIN lines
      /\ \A v \in DOMAIN lines : lines[v].source \in Sizes /\ lines[v].quantity \in Nat
  BY <1>1, <1>2 DEF ChargeInv
<1> DEFINE S(x) == {v \in DOMAIN plan : plan[v] = w /\ lines[v].source = x}
<1>5. AskedOf(c, w) = [x \in Sizes |-> SumFunctionOnSet(f, S(x))]
  BY <1>1, <1>2, <1>3 DEF AskedOf
<1>6. \A x : S(x) \subseteq DOMAIN lines /\ IsFiniteSet(S(x))
  BY <1>4, FS_Subset DEF RestockAssumption
<1>7. \A x : \A v \in S(x) : f[v] \in Nat /\ f[v] = lines[v].quantity
  BY <1>3, <1>4
<1>8. \A v \in DOMAIN plan : plan[v] = w => v \in S(lines[v].source)
  OBVIOUS
<1> HIDE DEF S
<1>9. \A x : SumFunctionOnSet(f, S(x)) \in Nat
  <2>1. SUFFICES ASSUME NEW x PROVE SumFunctionOnSet(f, S(x)) \in Nat
    OBVIOUS
  <2> QED
    BY <1>6, <1>7, SumNat
<1>10. AskedOf(c, w) \in Units
  BY <1>5, <1>9 DEF Units
<1>11. ASSUME NEW v \in DOMAIN plan, plan[v] = w
       PROVE  AskedOf(c, w)[lines[v].source] >= lines[v].quantity
  <2>1. PICK x : x = lines[v].source
    OBVIOUS
  <2>2. PICK T : T = S(x)
    OBVIOUS
  <2>3. v \in T /\ x \in Sizes /\ IsFiniteSet(T) /\ \A u \in T : f[u] \in Nat
    BY <1>4, <1>6, <1>7, <1>8, <1>11, <2>1, <2>2
  <2>4. f[v] <= SumFunctionOnSet(f, T)
    BY <2>3, SumPart
  <2>5. SumFunctionOnSet(f, T) \in Nat /\ f[v] = lines[v].quantity
    BY <1>7, <1>9, <2>2, <2>3
  <2>6. AskedOf(c, w)[x] = SumFunctionOnSet(f, T)
    BY <1>5, <2>2, <2>3
  <2>7. f[v] \in Nat
    BY <2>3
  <2>8. AskedOf(c, w)[x] >= f[v]
    BY <2>4, <2>5, <2>6, <2>7
  <2> QED
    BY <2>1, <2>5, <2>8
<1> QED
  BY <1>1, <1>2, <1>10, <1>11

LEMMA SourceIsOfTheModel ==
  \A v, n : \A x \in RestockSource(v, n) : x = v \/ (x \in Sizes /\ ModelOf[x] = ModelOf[v])
BY DEF RestockSource

LEMMA ChooseKeeps ==
  ASSUME RestockAssumption, RestockIInv, NEW c \in Charges, NEW units \in [Sizes -> 0 .. MaxSold],
         Choose(c, units)
  PROVE  RestockIInv'
<1> DEFINE needed == [v \in {x \in Sizes : units[x] > OnTheWay[x]} |-> units[v] - OnTheWay[v]]
<1>1. needed = [v \in {x \in Sizes : units[x] > OnTheWay[x]} |-> units[v] - OnTheWay[v]]
  OBVIOUS
<1>2. PICK source \in [DOMAIN needed -> Sizes \cup {0}] :
        /\ \A v \in DOMAIN needed :
            LET found == RestockSource(v, needed[v]) IN
            IF found = {} THEN source[v] = 0 ELSE source[v] \in found
        /\ charge' = [charge EXCEPT ![c] =
               [stage |-> "CHOSEN", sold |-> units, needed |-> needed,
                lines |-> [v \in {x \in DOMAIN needed : source[x] # 0} |->
                              [source |-> source[v], quantity |-> needed[v]]],
                unsolved |-> {v \in DOMAIN needed : source[v] = 0},
                urgent |-> \E v \in DOMAIN needed : source[v] # 0 /\ ModelOf[v] \in Under]]
  BY Zenon DEF Choose
<1> HIDE DEF needed
<1>3. /\ Covers(counter, units) /\ counter' = Minus(counter, units)
      /\ UNCHANGED <<informed, sold, stockVars, restock, binVars, bagVars, minimum>>
  BY DEF Choose
<1>4. units \in Units /\ counter \in Units
  BY DEF Units, RestockIInv, RestockTypeOK
<1>5. OnTheWay \in Units
  BY LinesAre, TotalNat DEF OnTheWay, RestockIInv
<1>6. DOMAIN needed \subseteq Sizes /\ \A v \in DOMAIN needed : needed[v] \in Nat
  BY <1>1, <1>4, <1>5 DEF Units
<1> DEFINE lines == [v \in {x \in DOMAIN needed : source[x] # 0} |->
                        [source |-> source[v], quantity |-> needed[v]]]
<1>7. DOMAIN lines \subseteq Sizes
  BY <1>6
<1>8. ASSUME NEW v \in DOMAIN lines
      PROVE  /\ lines[v].source \in Sizes /\ lines[v].quantity \in Nat
             /\ ModelOf[lines[v].source] = ModelOf[v] /\ lines[v].quantity = needed[v]
  <2>1. v \in DOMAIN needed /\ source[v] # 0 /\ source[v] \in Sizes
    BY <1>2
  <2>2. source[v] \in RestockSource(v, needed[v])
    BY <1>2, <2>1
  <2>3. ModelOf[source[v]] = ModelOf[v]
    BY <2>2, SourceIsOfTheModel
  <2> QED
    BY <1>6, <2>1, <2>3
<1> HIDE DEF lines
<1> DEFINE unsolved == {v \in DOMAIN needed : source[v] = 0}
           urgent == \E v \in DOMAIN needed : source[v] # 0 /\ ModelOf[v] \in Under
<1>9. /\ unsolved \subseteq Sizes /\ urgent \in BOOLEAN
      /\ DOMAIN needed \ DOMAIN lines \subseteq unsolved
  BY <1>6 DEF lines
<1>10. charge' = [charge EXCEPT ![c] = [stage |-> "CHOSEN", sold |-> units, needed |-> needed,
                                        lines |-> lines, unsolved |-> unsolved, urgent |-> urgent]]
  BY <1>2, Zenon DEF lines
<1> HIDE DEF unsolved, urgent
<1>11. DOMAIN charge = Charges
  BY DEF RestockIInv, ChargesInv
<1>12. /\ charge'[c].stage = "CHOSEN" /\ charge'[c].sold = units /\ charge'[c].lines = lines
       /\ charge'[c].unsolved = unsolved /\ charge'[c].urgent = urgent /\ charge'[c].needed = needed
       /\ \A d \in Charges : d # c => charge'[d] = charge[d]
       /\ DOMAIN charge' = Charges
  BY <1>10, <1>11
<1>13. ChargesInv'
  <2>1. ASSUME NEW d \in Charges PROVE ChargeInv(d)'
    <3>1. CASE d = c
      BY <1>4, <1>7, <1>8, <1>9, <1>12, <3>1 DEF ChargeInv
    <3>2. CASE d # c
      BY <1>12, <3>2 DEF ChargeInv, RestockIInv, ChargesInv
    <3> QED
      BY <3>1, <3>2
  <2> QED
    BY <1>12, <2>1 DEF ChargesInv
<1>14. RestockTypeOK'
  <2>1. counter' \in Units
    BY <1>3, <1>4, UnitsAdd
  <2>2. \A d \in Charges : charge'[d].stage \in {"NONE", "CHOSEN", "PLANNED"}
    BY <1>12 DEF RestockIInv, RestockTypeOK
  <2> QED
    BY <1>3, <2>1, <2>2 DEF RestockIInv, RestockTypeOK, stockVars, binVars, bagVars
<1>15. BagInv'
  BY <1>3, <1>14, BagInvSame
<1>16. ReturnsCancelTheirShare'
  BY <1>3, ShareSame DEF RestockIInv, binVars
<1> QED
  BY <1>13, <1>14, <1>15, <1>16 DEF RestockIInv

LEMMA PlanKeeps ==
  ASSUME RestockAssumption, RestockIInv, NEW c \in Charges, Plan(c)
  PROVE  RestockIInv'
<1>1. PICK lines : lines = charge[c].lines
  OBVIOUS
<1>2. PICK plan : plan = PlanBySource(lines)
  OBVIOUS
<1>3. PICK missing : missing = MissingLines(lines)
  OBVIOUS
<1>a. PICK lost : lost = {lines[v].source : v \in missing}
  OBVIOUS
<1>4. charge[c].stage = "CHOSEN" /\ ChargeInv(c) /\ DOMAIN charge = Charges
  BY DEF Plan, RestockIInv, ChargesInv
<1>5. DOMAIN lines \subseteq Sizes /\ IsFiniteSet(DOMAIN lines)
  BY <1>1, <1>4, FS_Subset DEF ChargeInv, RestockAssumption
<1>6. plan \in [DOMAIN lines \ missing -> Warehouses] /\ missing \subseteq DOMAIN lines
  BY <1>2, <1>3, <1>5, PlanGivesAWarehouse DEF MissingLines
<1>7. charge' = [charge EXCEPT ![c] =
           [stage |-> "PLANNED", sold |-> charge[c].sold, needed |-> charge[c].needed, lines |-> lines,
            urgent |-> charge[c].urgent, plan |-> plan, unsolved |-> charge[c].unsolved \cup lost]]
  BY <1>1, <1>2, <1>3, <1>a DEF Plan
<1>8. /\ charge'[c].stage = "PLANNED" /\ charge'[c].sold = charge[c].sold
      /\ charge'[c].needed = charge[c].needed
      /\ charge'[c].lines = lines /\ charge'[c].urgent = charge[c].urgent
      /\ charge'[c].unsolved = charge[c].unsolved \cup lost /\ charge'[c].plan = plan
      /\ \A d \in Charges : d # c => charge'[d] = charge[d]
      /\ DOMAIN charge' = Charges
  BY <1>4, <1>7
<1>9. UNCHANGED <<counter, informed, sold, stockVars, restock, binVars, bagVars, minimum>>
  BY DEF Plan
<1>10. ChargesInv'
  <2>1. ASSUME NEW d \in Charges PROVE ChargeInv(d)'
    <3>1. CASE d = c
      <4>1. /\ charge[c].sold \in Units /\ charge[c].urgent \in BOOLEAN /\ charge[c].unsolved \subseteq Sizes
            /\ \A v \in DOMAIN lines : /\ lines[v].source \in Sizes /\ lines[v].quantity \in Nat
                                       /\ ModelOf[lines[v].source] = ModelOf[v]
                                       /\ lines[v].quantity = charge[c].needed[v]
            /\ DOMAIN charge[c].needed \ DOMAIN lines \subseteq charge[c].unsolved
        BY <1>1, <1>4 DEF ChargeInv
      <4>2. /\ DOMAIN plan \subseteq DOMAIN lines /\ \A v \in DOMAIN plan : plan[v] \in Warehouses
            /\ \A v \in DOMAIN lines \ DOMAIN plan : lines[v].source \in lost
            /\ lost \subseteq Sizes
        BY <1>6, <1>a, <4>1
      <4> QED
        BY <1>5, <1>6, <1>8, <3>1, <4>1, <4>2 DEF ChargeInv
    <3>2. CASE d # c
      BY <1>8, <3>2 DEF ChargeInv, RestockIInv, ChargesInv
    <3> QED
      BY <3>1, <3>2
  <2> QED
    BY <1>8, <2>1 DEF ChargesInv
<1>11. RestockTypeOK'
  <2>1. \A d \in Charges : charge'[d].stage \in {"NONE", "CHOSEN", "PLANNED"}
    BY <1>8 DEF RestockIInv, RestockTypeOK
  <2> QED
    BY <1>9, <2>1 DEF RestockIInv, RestockTypeOK, stockVars, binVars, bagVars
<1>12. BagInv'
  BY <1>9, <1>11, BagInvSame
<1>13. ReturnsCancelTheirShare'
  BY <1>9, ShareSame DEF RestockIInv, binVars
<1> QED
  BY <1>10, <1>11, <1>12, <1>13 DEF RestockIInv

\* A charge that ends, whatever it did to the rest.
LEMMA ChargeEnds ==
  ASSUME RestockIInv, NEW c \in Charges, charge' = [charge EXCEPT ![c] = NoCharge]
  PROVE  ChargesInv' /\ \A d \in Charges : charge'[d].stage \in {"NONE", "CHOSEN", "PLANNED"}
<1>1. DOMAIN charge = Charges /\ NoCharge.stage = "NONE"
  BY DEF RestockIInv, ChargesInv, NoCharge
<1>2. /\ DOMAIN charge' = Charges /\ charge'[c].stage = "NONE"
      /\ \A d \in Charges : d # c => charge'[d] = charge[d]
  BY <1>1
<1>3. ChargesInv'
  <2>1. ASSUME NEW d \in Charges PROVE ChargeInv(d)'
    <3>1. CASE d = c
      BY <1>2, <3>1 DEF ChargeInv
    <3>2. CASE d # c
      BY <1>2, <3>2 DEF ChargeInv, RestockIInv, ChargesInv
    <3> QED
      BY <3>1, <3>2
  <2> QED
    BY <1>2, <2>1 DEF ChargesInv
<1> QED
  BY <1>2, <1>3 DEF RestockIInv, RestockTypeOK

LEMMA UndoneKeeps ==
  ASSUME RestockAssumption, RestockIInv, NEW c \in Charges, Undone(c)
  PROVE  RestockIInv'
<1>1. /\ charge[c].stage = "PLANNED" /\ counter' = Plus(counter, charge[c].sold)
      /\ charge' = [charge EXCEPT ![c] = NoCharge]
      /\ UNCHANGED <<informed, sold, stockVars, restock, binVars, bagVars, minimum>>
  BY DEF Undone
<1>2. counter \in Units /\ charge[c].sold \in Units
  BY <1>1 DEF RestockIInv, RestockTypeOK, ChargesInv, ChargeInv
<1>3. counter' \in Units
  BY <1>1, <1>2, UnitsAdd
<1>4. ChargesInv' /\ \A d \in Charges : charge'[d].stage \in {"NONE", "CHOSEN", "PLANNED"}
  BY <1>1, ChargeEnds
<1>5. RestockTypeOK'
  BY <1>1, <1>3, <1>4 DEF RestockIInv, RestockTypeOK, stockVars, binVars, bagVars
<1>6. BagInv'
  BY <1>1, <1>5, BagInvSame
<1>7. ReturnsCancelTheirShare'
  BY <1>1, ShareSame DEF RestockIInv, binVars
<1> QED
  BY <1>4, <1>5, <1>6, <1>7 DEF RestockIInv

\* The orders of a charge: one for each group, of what is asked of its warehouse.
LEMMA OrdersAre ==
  ASSUME RestockAssumption, RestockIInv, NEW c \in Charges, Charged(c)
  PROVE  /\ \A w \in Groups(c) :
                /\ OrderOf(c, w) \in Unused /\ w \in Warehouses
                /\ restock'[OrderOf(c, w)] =
                       [status |-> "RESTOCK_REQUESTED", from |-> w, at |-> FindStock(w),
                        lines |-> AskedOf(c, w), urgent |-> charge[c].urgent,
                        claimed |-> FALSE]
                /\ restock'[OrderOf(c, w)] \in RestockRow
         /\ \A o \in Orders : restock'[o] = restock[o] \/ \E w \in Groups(c) : o = OrderOf(c, w)
         /\ restock' = [o \in Orders |-> restock'[o]]
<1>1. charge[c].stage = "PLANNED" /\ ChargeInv(c)
  BY DEF Charged, RestockIInv, ChargesInv
<1>2. Groups(c) \subseteq Warehouses
  BY <1>1 DEF ChargeInv, Groups, Range
<1>3. /\ \A w \in Groups(c) : OrderOf(c, w) \in Unused
      /\ \A w, g \in Groups(c) : OrderOf(c, w) = OrderOf(c, g) => w = g
  BY <1>2, OrdersOfGroups DEF Charged
<1> DEFINE Row(w) == [status |-> "RESTOCK_REQUESTED", from |-> w, at |-> FindStock(w),
                      lines |-> AskedOf(c, w), urgent |-> charge[c].urgent,
                        claimed |-> FALSE]
           chosen(o) == CHOOSE g \in Groups(c) : o = OrderOf(c, g)
<1>4. restock' = [o \in Orders |-> IF \E w \in Groups(c) : o = OrderOf(c, w)
                                   THEN Row(chosen(o)) ELSE restock[o]]
  BY DEF Charged
<1>5. ASSUME NEW w \in Groups(c)
      PROVE  restock'[OrderOf(c, w)] = Row(w) /\ Row(w) \in RestockRow
  <2>1. PICK o : o = OrderOf(c, w)
    OBVIOUS
  <2>2. o \in Orders
    BY <1>3, <2>1 DEF Unused
  <2>3. chosen(o) \in Groups(c) /\ o = OrderOf(c, chosen(o))
    BY <2>1
  <2>4. chosen(o) = w
    BY <1>3, <2>1, <2>3
  <2> HIDE DEF chosen
  <2>5. restock'[o] = Row(w)
    BY <1>4, <2>1, <2>2, <2>4
  <2>6. FindStock(w) \in Boxes
    BY OldestBox DEF Charged, CanReserve
  <2>7. AskedOf(c, w) \in Units /\ charge[c].urgent \in BOOLEAN
    BY <1>1, AskedIs DEF ChargeInv
  <2>8. w \in Warehouses
    BY <1>2
  <2>9. Row(w) \in RestockRow
    BY <2>6, <2>7, <2>8 DEF RestockRow, Reserving
  <2> QED
    BY <2>1, <2>5, <2>9
<1>6. \A o \in Orders : restock'[o] = restock[o] \/ \E w \in Groups(c) : o = OrderOf(c, w)
  BY <1>4
<1>7. restock' = [o \in Orders |-> restock'[o]]
  BY <1>4
<1> QED
  BY <1>2, <1>3, <1>5, <1>6, <1>7

LEMMA ChargedKeeps ==
  ASSUME RestockAssumption, RestockIInv, NEW c \in Charges, Charged(c)
  PROVE  RestockIInv'
<1>1. /\ charge[c].stage = "PLANNED" /\ informed' = charge[c].unsolved
      /\ sold' = Plus(sold, charge[c].sold) /\ charge' = [charge EXCEPT ![c] = NoCharge]
      /\ UNCHANGED <<counter, stockVars, binVars, bagVars, minimum>>
  BY DEF Charged, NotifyRestockNeeded
<1>2. sold \in Units /\ charge[c].sold \in Units /\ charge[c].unsolved \subseteq Sizes
  BY <1>1 DEF RestockIInv, RestockTypeOK, ChargesInv, ChargeInv
<1>3. sold' \in Units /\ informed' \subseteq Sizes
  BY <1>1, <1>2, UnitsAdd
<1>4. ChargesInv' /\ \A d \in Charges : charge'[d].stage \in {"NONE", "CHOSEN", "PLANNED"}
  BY <1>1, ChargeEnds
<1>5. ASSUME NEW o \in Orders
      PROVE  /\ restock'[o] \in RestockRow
             /\ \/ restock'[o] = restock[o]
                \/ restock[o].status = "NONE" /\ restock'[o].status = "RESTOCK_REQUESTED"
  <2>1. CASE restock'[o] = restock[o]
    BY <2>1 DEF RestockIInv, RestockTypeOK
  <2>2. CASE \E w \in Groups(c) : o = OrderOf(c, w)
    <3>1. PICK w \in Groups(c) : o = OrderOf(c, w)
      BY <2>2
    <3>2. /\ OrderOf(c, w) \in Unused /\ restock'[OrderOf(c, w)] \in RestockRow
          /\ restock'[OrderOf(c, w)].status = "RESTOCK_REQUESTED"
      <4>1. PICK row : row = [status |-> "RESTOCK_REQUESTED", from |-> w, at |-> FindStock(w),
                              lines |-> AskedOf(c, w), urgent |-> charge[c].urgent,
                        claimed |-> FALSE]
        OBVIOUS
      <4>2. OrderOf(c, w) \in Unused /\ restock'[OrderOf(c, w)] = row /\ row \in RestockRow
        BY <3>1, <4>1, OrdersAre
      <4> QED
        BY <4>1, <4>2
    <3>3. o \in Unused /\ restock'[o] \in RestockRow /\ restock'[o].status = "RESTOCK_REQUESTED"
      BY <3>1, <3>2
    <3> QED
      BY <3>3 DEF Unused
  <2> QED
    BY <2>1, <2>2, OrdersAre
<1>6. RestockTypeOK'
  <2>1. restock' \in [Orders -> RestockRow]
    BY <1>5, OrdersAre
  <2> QED
    BY <1>1, <1>3, <1>4, <2>1 DEF RestockIInv, RestockTypeOK, stockVars, binVars, bagVars
<1>7. BagInv'
  <2>1. \A o \in Orders : picking[o] # 0 => restock[o].status # "NONE"
    BY DEF RestockIInv, BagInv
  <2>2. \A o \in Orders : picking[o] # 0 => restock'[o] = restock[o]
    BY <1>5, <2>1
  <2>3. \A o \in Orders : restock'[o].status \in Carried <=> restock[o].status \in Carried
    BY <1>5 DEF Carried
  <2>4. \A o \in InHand : restock'[o].lines = restock[o].lines
    BY <1>5 DEF InHand, Carried
  <2> QED
    BY <1>1, <1>6, <2>2, <2>3, <2>4, BagInvSame
<1>8. ReturnsCancelTheirShare'
  BY <1>1, ShareSame DEF RestockIInv, binVars
<1> QED
  BY <1>4, <1>6, <1>7, <1>8 DEF RestockIInv
-----------------------------------------------------------------------------
(* The way of a restock that is picked up, and received *)

\* An order whose status moves keeps what it brings.
LEMMA StatusMoved ==
  ASSUME RestockTypeOK, NEW o \in Orders, NEW to \in Reserving \cup Carried \cup NotOnTheWay,
         restock' = [restock EXCEPT ![o] = [restock[o] EXCEPT !.status = to]]
  PROVE  /\ restock' \in [Orders -> RestockRow] /\ RestockLines' = RestockLines
         /\ restock'[o].status = to
         /\ \A d \in Orders : d # o => restock'[d] = restock[d]
<1>1. restock \in [Orders -> RestockRow]
  BY DEF RestockTypeOK
<1>2. PICK row : row = [restock[o] EXCEPT !.status = to]
  OBVIOUS
<1>3. row \in RestockRow /\ row.status = to /\ row.lines = restock[o].lines
  BY <1>1, <1>2 DEF RestockRow
<1>4. /\ restock' \in [Orders -> RestockRow] /\ restock'[o] = row
      /\ \A d \in Orders : d # o => restock'[d] = restock[d]
  BY <1>1, <1>2, <1>3
<1>5. \A d \in Orders : restock'[d].lines = restock[d].lines
  BY <1>3, <1>4
<1>6. RestockLines' = RestockLines
  BY <1>5 DEF RestockLines
<1> QED
  BY <1>3, <1>4, <1>6

LEMMA InHandTotal ==
  ASSUME RestockLines' = RestockLines
  PROVE  Total(RestockLines, InHand)' = Total(RestockLines, InHand')
BY DEF Total

LEMMA LookForBagKeeps ==
  ASSUME RestockAssumption, RestockIInv, NEW o \in Orders, LookForBag(o)
  PROVE  RestockIInv'
<1>1. PICK g : g = FindOrCreateBag(o)
  OBVIOUS
<1>2. /\ restock[o].status = "WAITING_FOR_RUNNER" /\ ActiveBags \cup NewBags # {}
      /\ picking' = [picking EXCEPT ![o] = g]
      /\ disturbed' = (disturbed \/ (ActiveBags = {} /\ Range(picking) # {0}))
      /\ UNCHANGED <<chargeVars, stockVars, restock, binVars, bag, minimum>>
  BY <1>1 DEF LookForBag
<1>3. g \in Bags /\ (ActiveBags # {} => g \in ActiveBags)
  <2>1. ActiveBags \in SUBSET Nat /\ NewBags \in SUBSET Nat
    BY DEF ActiveBags, NewBags, RestockAssumption
  <2>2. ActiveBags \subseteq Bags /\ NewBags \subseteq Bags
    BY DEF ActiveBags, NewBags
  <2>3. CASE ActiveBags = {}
    BY <1>1, <1>2, <2>1, <2>2, <2>3, First DEF FindOrCreateBag
  <2>4. CASE ActiveBags # {}
    BY <1>1, <2>1, <2>2, <2>4, First DEF FindOrCreateBag
  <2> QED
    BY <2>3, <2>4
<1>4. RestockTypeOK /\ BagInv
  BY DEF RestockIInv
<1>5. picking \in [Orders -> Bags \cup {0}] /\ disturbed \in BOOLEAN
  BY <1>4 DEF RestockTypeOK
<1>6. picking' \in [Orders -> Bags \cup {0}] /\ picking'[o] = g
      /\ \A d \in Orders : d # o => picking'[d] = picking[d]
  BY <1>2, <1>3, <1>5
<1>7. RestockTypeOK'
  <2>1. disturbed' \in BOOLEAN
    BY <1>2
  <2> QED
    BY <1>2, <1>4, <1>6, <2>1 DEF RestockTypeOK, chargeVars, stockVars, binVars
<1>8. \A d \in Orders : picking'[d] # 0 => restock'[d].status = "WAITING_FOR_RUNNER"
  BY <1>2, <1>4, <1>6 DEF BagInv
<1>9. ActiveBags' = ActiveBags /\ InHand' = InHand /\ RestockLines' = RestockLines
  BY <1>2 DEF ActiveBags, InHand, RestockLines
<1>10. Total(RestockLines, InHand)' = Total(RestockLines, InHand)
  BY <1>9, InHandTotal
<1>11. ASSUME ~disturbed', NEW a \in Bags, NEW b \in Bags, InUse(a)', InUse(b)'
       PROVE  a = b
  <2>1. ~disturbed /\ (ActiveBags = {} => Range(picking) = {0})
    BY <1>2, <1>11
  <2>2. \A x \in Bags : InUse(x)' => x = g \/ InUse(x)
    BY <1>2, <1>6 DEF InUse
  <2>3. CASE ActiveBags = {}
    <3>1. \A d \in Orders : picking[d] = 0
      BY <1>5, <2>1, <2>3 DEF Range
    <3>2. \A x \in Bags : ~InUse(x)
      BY <2>3, <3>1 DEF InUse, ActiveBags, RestockAssumption
    <3> QED
      BY <1>11, <2>2, <3>2
  <2>4. CASE ActiveBags # {}
    <3>1. InUse(g)
      BY <1>3, <2>4 DEF InUse, ActiveBags
    <3>2. \A x \in Bags : InUse(x) => x = g
      BY <1>3, <1>4, <2>1, <3>1 DEF BagInv
    <3> QED
      BY <1>11, <2>2, <3>2
  <2> QED
    BY <2>3, <2>4
<1>12. ~disturbed' => ~disturbed
  BY <1>2
<1>13. BagInv'
  BY <1>2, <1>4, <1>8, <1>9, <1>10, <1>11, <1>12 DEF BagInv
<1>14. ChargesInv' /\ ReturnsCancelTheirShare'
  BY <1>2, ChargesInvSame, ShareSame DEF RestockIInv, chargeVars, binVars
<1> QED
  BY <1>7, <1>13, <1>14 DEF RestockIInv

\* What is reserved in a box, an order that reserves there being part of it.
LEMMA ReservedIs ==
  ASSUME RestockAssumption, RestockTypeOK, NEW b \in Boxes
  PROVE  /\ ReservedIn(b) \in Units
         /\ \A o \in Orders : restock[o].status \in Reserving /\ restock[o].at = b =>
                                  Covers(ReservedIn(b), restock[o].lines)
         /\ \A v \in Sizes : FreeIn(b)[v] = onHand[b][v] - ReservedIn(b)[v]
<1>1. PICK S : S = {o \in Orders : restock[o].status \in Reserving /\ restock[o].at = b}
  OBVIOUS
<1>2. S \in SUBSET Orders /\ ReservedIn(b) = Total(RestockLines, S)
  BY <1>1 DEF ReservedIn
<1>3. ReservedIn(b) \in Units
  BY <1>2, LinesAre, TotalNat
<1>4. ASSUME NEW o \in Orders, restock[o].status \in Reserving, restock[o].at = b
      PROVE  Covers(ReservedIn(b), restock[o].lines)
  <2>1. o \in S /\ RestockLines[o] = restock[o].lines /\ restock[o].lines \in Units
    BY <1>1, <1>4, LinesAre
  <2>2. \A v \in Sizes : RestockLines[o][v] <= Total(RestockLines, S)[v]
    BY <1>2, <2>1, LinesAre, TotalRemoved
  <2>3. ASSUME NEW v \in Sizes PROVE ReservedIn(b)[v] >= restock[o].lines[v]
    <3>1. PICK i \in Nat : i = ReservedIn(b)[v]
      BY <1>3 DEF Units
    <3>2. PICK j \in Nat : j = restock[o].lines[v]
      BY <2>1 DEF Units
    <3>3. j <= i
      BY <1>2, <2>1, <2>2, <3>1, <3>2
    <3> QED
      BY <3>1, <3>2, <3>3
  <2> QED
    BY <2>3 DEF Covers
<1>5. \A v \in Sizes : FreeIn(b)[v] = onHand[b][v] - ReservedIn(b)[v]
  BY DEF FreeIn, Minus
<1> QED
  BY <1>3, <1>4, <1>5

\* What is picked up is in the box.
LEMMA PickedIsThere ==
  ASSUME RestockAssumption, RestockIInv, NEW o \in Orders, restock[o].status \in Reserving,
         NEW b \in Boxes, NEW others,
         others = IF b = restock[o].at THEN Plus(FreeIn(b), restock[o].lines) ELSE FreeIn(b),
         Covers(others, restock[o].lines)
  PROVE  Covers(onHand[b], restock[o].lines)
<1>1. SUFFICES ASSUME NEW v \in Sizes PROVE onHand[b][v] >= restock[o].lines[v]
  BY DEF Covers
<1>2. PICK h \in Nat : h = onHand[b][v]
  BY DEF RestockIInv, RestockTypeOK, Units
<1>3. PICK k \in Nat : k = restock[o].lines[v]
  BY LinesAre DEF RestockIInv, Units
<1>4. PICK r \in Nat : r = ReservedIn(b)[v]
  BY ReservedIs DEF RestockIInv, Units
<1>5. FreeIn(b)[v] = h - r /\ others[v] >= k
  BY <1>2, <1>3, <1>4, ReservedIs DEF RestockIInv, Covers
<1>6. CASE b = restock[o].at
  <2>1. r >= k
    BY <1>3, <1>4, <1>6, ReservedIs DEF RestockIInv, Covers
  <2>2. others[v] = (h - r) + k
    BY <1>3, <1>5, <1>6 DEF Plus
  <2> QED
    BY <1>2, <1>3, <1>5, <2>1, <2>2
<1>7. CASE b # restock[o].at
  <2>1. others[v] = h - r
    BY <1>5, <1>7
  <2> QED
    BY <1>2, <1>3, <1>5, <2>1
<1> QED
  BY <1>6, <1>7

LEMMA PickUpKeeps ==
  ASSUME RestockAssumption, RestockIInv, NEW o \in Orders, PickUp(o)
  PROVE  RestockIInv'
<1>1. PICK b : b = FindStock(restock[o].from)
  OBVIOUS
<1>2. PICK others : others = IF b = restock[o].at THEN Plus(FreeIn(b), restock[o].lines) ELSE FreeIn(b)
  OBVIOUS
<1>3. PICK g : g = picking[o]
  OBVIOUS
<1> DEFINE fits == ActiveBoxes(restock[o].from) # {} /\ Covers(others, restock[o].lines)
<1>4. /\ g # 0 /\ picking' = [picking EXCEPT ![o] = 0]
      /\ UNCHANGED <<chargeVars, box, binVars, minimum, disturbed>>
      /\ fits \/ UNCHANGED <<restock, onHand, bag>>
      /\ fits =>
           /\ restock' = [restock EXCEPT ![o].status = "IN_TRANSIT"]
           /\ onHand' = [onHand EXCEPT ![b] = Minus(@, restock[o].lines)]
           /\ bag' = [bag EXCEPT ![g] = [status |-> IF @.status = "NONE" THEN "ACTIVE" ELSE @.status,
                                         units |-> Plus(@.units, restock[o].lines)]]
  BY <1>1, <1>2, <1>3 DEF PickUp
<1> HIDE DEF fits
<1>5. RestockTypeOK /\ BagInv
  BY DEF RestockIInv
<1>6. picking \in [Orders -> Bags \cup {0}] /\ g \in Bags /\ restock[o].status = "WAITING_FOR_RUNNER"
  BY <1>3, <1>4, <1>5 DEF RestockTypeOK, BagInv
<1>7. /\ picking' \in [Orders -> Bags \cup {0}] /\ picking'[o] = 0
      /\ \A d \in Orders : d # o => picking'[d] = picking[d]
  BY <1>4, <1>6
<1>8. ChargesInv' /\ ReturnsCancelTheirShare'
  BY <1>4, ChargesInvSame, ShareSame DEF RestockIInv, chargeVars, binVars
<1>9. CASE UNCHANGED <<restock, onHand, bag>>
  <2>1. RestockTypeOK'
    BY <1>4, <1>5, <1>7, <1>9 DEF RestockTypeOK, chargeVars, binVars
  <2>2. \A d \in Orders : picking'[d] # 0 => restock'[d].status = "WAITING_FOR_RUNNER"
    BY <1>5, <1>7, <1>9 DEF BagInv
  <2>3. ActiveBags' = ActiveBags /\ InHand' = InHand /\ RestockLines' = RestockLines
    BY <1>9 DEF ActiveBags, InHand, RestockLines
  <2>4. Total(RestockLines, InHand)' = Total(RestockLines, InHand)
    BY <2>3, InHandTotal
  <2>5. \A x \in Bags : InUse(x)' => InUse(x)
    BY <1>7, <1>9 DEF InUse, RestockAssumption
  <2>6. BagInv'
    BY <1>4, <1>5, <1>9, <2>2, <2>3, <2>4, <2>5 DEF BagInv
  <2> QED
    BY <1>8, <2>1, <2>6 DEF RestockIInv
<1>10. CASE fits
  <2>1. b \in Boxes /\ Covers(others, restock[o].lines)
    BY <1>1, <1>10, OldestBox DEF fits
  <2>2. restock[o].status \in Reserving /\ restock[o].lines \in Units
    BY <1>5, <1>6, LinesAre DEF Reserving
  <2>3. Covers(onHand[b], restock[o].lines)
    BY <1>2, <2>1, <2>2, PickedIsThere
  <2>4. PICK row : row = [status |-> IF bag[g].status = "NONE" THEN "ACTIVE" ELSE bag[g].status,
                          units |-> Plus(bag[g].units, restock[o].lines)]
    OBVIOUS
  <2>5. bag \in [Bags -> [status: {"NONE", "ACTIVE", "INACTIVE"}, units: Units]]
        /\ onHand \in [Boxes -> Units]
    BY <1>5 DEF RestockTypeOK
  <2>6. /\ row \in [status: {"ACTIVE", "INACTIVE"}, units: Units]
        /\ row.units = Plus(bag[g].units, restock[o].lines)
        /\ bag[g].status # "INACTIVE" => row.status = "ACTIVE"
    <3>1. Plus(bag[g].units, restock[o].lines) \in Units
      BY <1>6, <2>2, <2>5, UnitsAdd
    <3> QED
      BY <1>6, <2>4, <2>5, <3>1
  <2>7. bag' = [bag EXCEPT ![g] = row]
    BY <1>4, <1>6, <1>10, <2>4, <2>5
  <2>8. /\ bag' \in [Bags -> [status: {"NONE", "ACTIVE", "INACTIVE"}, units: Units]]
        /\ bag'[g] = row /\ \A x \in Bags : x # g => bag'[x] = bag[x]
    BY <1>6, <2>5, <2>6, <2>7
  <2>9. onHand' \in [Boxes -> Units]
    <3>1. Minus(onHand[b], restock[o].lines) \in Units
      BY <2>1, <2>2, <2>3, <2>5, UnitsAdd
    <3> QED
      BY <1>4, <1>10, <2>1, <2>5, <3>1
  <2>10. restock' = [restock EXCEPT ![o] = [restock[o] EXCEPT !.status = "IN_TRANSIT"]]
    BY <1>4, <1>5, <1>10 DEF RestockTypeOK
  <2>11. /\ restock' \in [Orders -> RestockRow] /\ RestockLines' = RestockLines
         /\ restock'[o].status = "IN_TRANSIT"
         /\ \A d \in Orders : d # o => restock'[d] = restock[d]
    <3>1. "IN_TRANSIT" \in Carried
      BY DEF Carried
    <3> QED
      BY <1>5, <2>10, <3>1, StatusMoved
  <2>12. RestockTypeOK'
    BY <1>4, <1>5, <1>7, <2>8, <2>9, <2>11 DEF RestockTypeOK, chargeVars, binVars
  <2>13. \A d \in Orders : picking'[d] # 0 => restock'[d].status = "WAITING_FOR_RUNNER"
    BY <1>5, <1>7, <2>11 DEF BagInv
  <2>14. \A x \in Bags : bag'[x].status = "NONE" => bag'[x].units = NoUnits
    BY <1>5, <2>6, <2>8 DEF BagInv
  <2>15. InHand' = InHand \cup {o} /\ o \notin InHand /\ InHand \in SUBSET Orders
    BY <1>6, <2>11 DEF InHand, Carried
  <2>16. \A x \in Bags : InUse(x)' => InUse(x) \/ x = g
    BY <1>6, <1>7, <2>8 DEF InUse, RestockAssumption
  <2>17. InUse(g)
    BY <1>3 DEF InUse
  <2>18. ASSUME ~disturbed
         PROVE  /\ \A x \in Bags : InUse(x) => x = g
                /\ \A x \in Bags : bag'[x].status # "INACTIVE"
                /\ ActiveBags' = {g}
    <3>1. \A x \in Bags : InUse(x) => x = g
      BY <1>5, <1>6, <2>17, <2>18 DEF BagInv
    <3>2. \A x \in Bags : bag[x].status # "INACTIVE"
      BY <1>5, <2>18 DEF BagInv
    <3>3. row.status = "ACTIVE"
      BY <1>6, <2>6, <3>2
    <3>4. \A x \in Bags : bag'[x].status # "INACTIVE"
      BY <2>8, <3>2, <3>3
    <3>5. \A x \in Bags : x # g => bag'[x].status # "ACTIVE"
      BY <2>8, <3>1 DEF InUse
    <3>6. ActiveBags' = {g}
      BY <1>6, <2>8, <3>3, <3>5 DEF ActiveBags
    <3> QED
      BY <3>1, <3>4, <3>6
  <2>19. ASSUME ~disturbed
         PROVE  bag'[g].units = Total(RestockLines, InHand)'
    <3>1. bag[g].units = Total(RestockLines, InHand)
      <4>1. CASE bag[g].status = "ACTIVE"
        BY <1>5, <1>6, <2>19, <4>1 DEF BagInv, ActiveBags
      <4>2. CASE bag[g].status = "NONE"
        <5>1. ActiveBags = {}
          BY <2>18, <2>19, <4>2 DEF ActiveBags, InUse
        <5>2. InHand = {} /\ bag[g].units = NoUnits
          BY <1>5, <1>6, <2>19, <4>2, <5>1 DEF BagInv
        <5> QED
          BY <1>5, <5>2, LinesAre, TotalEmpty
      <4>3. bag[g].status # "INACTIVE"
        BY <1>5, <1>6, <2>19 DEF BagInv
      <4> QED
        BY <1>6, <2>5, <4>1, <4>2, <4>3
    <3>2. RestockLines[o] = restock[o].lines /\ RestockLines \in LinesOfOrders
      BY <1>5, LinesAre
    <3>3. PICK S : S = InHand
      OBVIOUS
    <3>4. PICK T : T = InHand \cup {o}
      OBVIOUS
    <3>5. PICK f \in LinesOfOrders : f = RestockLines
      BY <3>2
    <3>6. \A v \in Sizes : Total(f, T)[v] = Total(f, S)[v] + f[o][v]
      BY <2>15, <3>3, <3>4, TotalAdded
    <3>7. T \in SUBSET Orders
      BY <2>15, <3>4
    <3>8. Total(f, T) \in Units
      BY <3>7, TotalNat
    <3>9. bag'[g].units = Plus(Total(f, S), f[o])
      BY <2>6, <2>8, <3>1, <3>2, <3>3, <3>5
    <3>10. bag'[g].units = Total(f, T)
      BY <3>6, <3>8, <3>9 DEF Plus, Units
    <3> QED
      BY <2>11, <2>15, <3>4, <3>5, <3>10, InHandTotal
  <2>20. BagInv'
    <3>1. disturbed' = disturbed
      BY <1>4
    <3>2. ASSUME ~disturbed
          PROVE  /\ \A x \in Bags : bag'[x].status # "INACTIVE"
                 /\ ActiveBags' = {} => InHand' = {}
                 /\ \A x \in ActiveBags' : bag'[x].units = Total(RestockLines, InHand)'
                 /\ \A x, y \in Bags : InUse(x)' /\ InUse(y)' => x = y
      BY <2>16, <2>18, <2>19, <3>2
    <3> QED
      BY <2>13, <2>14, <3>1, <3>2 DEF BagInv
  <2> QED
    BY <1>8, <2>12, <2>20 DEF RestockIInv
<1> QED
  BY <1>4, <1>9, <1>10
LEMMA ReceiveKeeps ==
  ASSUME RestockAssumption, RestockIInv, NEW o \in Orders, Receive(o)
  PROVE  RestockIInv'
<1>1. PICK g : g = Next1(ActiveBags)
  OBVIOUS
<1>2. /\ restock[o].status = "DELIVERED_TO_STORE" /\ picking[o] = 0 /\ ActiveBags # {}
      /\ restock' = [restock EXCEPT ![o] = [restock[o] EXCEPT !.status = "RECEIVED_BY_STORE"]]
      /\ Covers(bag[g].units, restock[o].lines)
      /\ bag' = [bag EXCEPT ![g].units = Minus(@, restock[o].lines)]
      /\ counter' = Plus(counter, restock[o].lines)
      /\ UNCHANGED <<charge, informed, sold, stockVars, binVars, picking, disturbed, minimum>>
  BY <1>1 DEF Receive, Step, Unlocked
<1>3. RestockTypeOK /\ BagInv
  BY DEF RestockIInv
<1>4. g \in ActiveBags /\ g \in Bags
  <2>1. ActiveBags \in SUBSET Nat /\ ActiveBags \subseteq Bags
    BY DEF ActiveBags, RestockAssumption
  <2> QED
    BY <1>1, <1>2, <2>1, First
<1>5. bag \in [Bags -> [status: {"NONE", "ACTIVE", "INACTIVE"}, units: Units]] /\ counter \in Units
      /\ restock[o].lines \in Units
  BY <1>3, LinesAre DEF RestockTypeOK
<1>6. PICK left : left = Minus(bag[g].units, restock[o].lines)
  OBVIOUS
<1>7. left \in Units /\ counter' \in Units
  BY <1>2, <1>4, <1>5, <1>6, UnitsAdd
<1>8. /\ bag' \in [Bags -> [status: {"NONE", "ACTIVE", "INACTIVE"}, units: Units]]
      /\ bag'[g].units = left /\ bag'[g].status = bag[g].status
      /\ \A x \in Bags : x # g => bag'[x] = bag[x]
  BY <1>2, <1>4, <1>5, <1>6, <1>7
<1>9. /\ restock' \in [Orders -> RestockRow] /\ RestockLines' = RestockLines
      /\ restock'[o].status = "RECEIVED_BY_STORE"
      /\ \A d \in Orders : d # o => restock'[d] = restock[d]
  <2>1. "RECEIVED_BY_STORE" \in NotOnTheWay
    BY DEF NotOnTheWay
  <2> QED
    BY <1>2, <1>3, <2>1, StatusMoved
<1>10. RestockTypeOK'
  BY <1>2, <1>3, <1>7, <1>8, <1>9 DEF RestockTypeOK, stockVars, binVars
<1>11. \A d \in Orders : picking'[d] # 0 => restock'[d].status = "WAITING_FOR_RUNNER"
  BY <1>2, <1>3, <1>9 DEF BagInv
<1>12. \A x \in Bags : bag'[x].status = "NONE" => bag'[x].units = NoUnits
  <2>1. bag[g].status = "ACTIVE"
    BY <1>4 DEF ActiveBags
  <2> QED
    BY <1>3, <1>8, <2>1 DEF BagInv
<1>13. InHand' = InHand \ {o} /\ o \in InHand /\ InHand \in SUBSET Orders
  BY <1>2, <1>9 DEF InHand, Carried
<1>14. \A x \in Bags : bag'[x].status = bag[x].status
  BY <1>8
<1>15. ActiveBags' = ActiveBags /\ \A x \in Bags : InUse(x)' => InUse(x)
  BY <1>2, <1>14 DEF ActiveBags, InUse
<1>16. ASSUME ~disturbed, NEW x \in ActiveBags
       PROVE  bag'[x].units = Total(RestockLines, InHand)'
  <2>1. x = g
    <3>1. InUse(x) /\ InUse(g) /\ x \in Bags
      BY <1>4 DEF InUse, ActiveBags
    <3> QED
      BY <1>3, <1>4, <1>16, <3>1 DEF BagInv
  <2>2. PICK S : S = InHand
    OBVIOUS
  <2>3. PICK T : T = InHand \ {o}
    OBVIOUS
  <2>4. PICK f \in LinesOfOrders : f = RestockLines
    BY <1>3, LinesAre
  <2>5. f[o] = restock[o].lines
    BY <1>3, <2>4, LinesAre
  <2>6. o \in S /\ S \in SUBSET Orders /\ T = S \ {o} /\ T \in SUBSET Orders
    BY <1>13, <2>2, <2>3
  <2>7. \A v \in Sizes : Total(f, S)[v] = Total(f, T)[v] + f[o][v]
    BY <2>6, TotalRemoved
  <2>8. Total(f, T) \in Units /\ f[o] \in Units
    BY <1>5, <2>5, <2>6, TotalNat
  <2>9. bag[g].units = Total(f, S)
    BY <1>3, <1>4, <1>16, <2>2, <2>4 DEF BagInv
  <2>10. left = Minus(Total(f, S), f[o])
    BY <1>6, <2>5, <2>9
  <2>11. \A v \in Sizes : left[v] = Total(f, T)[v]
    <3>1. SUFFICES ASSUME NEW v \in Sizes PROVE left[v] = Total(f, T)[v]
      OBVIOUS
    <3>2. PICK i \in Nat : i = Total(f, T)[v]
      BY <2>8 DEF Units
    <3>3. PICK j \in Nat : j = f[o][v]
      BY <2>8 DEF Units
    <3>4. left[v] = Total(f, S)[v] - f[o][v]
      BY <2>10 DEF Minus
    <3> QED
      BY <2>7, <3>2, <3>3, <3>4
  <2>12. left = Total(f, T)
    BY <1>7, <2>8, <2>11 DEF Units
  <2> QED
    BY <1>8, <1>9, <1>13, <2>1, <2>3, <2>4, <2>12, InHandTotal
<1>17. BagInv'
  <2>1. ASSUME ~disturbed
        PROVE  /\ \A x \in Bags : bag'[x].status # "INACTIVE"
               /\ ActiveBags' # {}
               /\ \A x \in ActiveBags' : bag'[x].units = Total(RestockLines, InHand)'
               /\ \A x, y \in Bags : InUse(x)' /\ InUse(y)' => x = y
    BY <1>2, <1>3, <1>14, <1>15, <1>16, <2>1 DEF BagInv
  <2> QED
    BY <1>2, <1>11, <1>12, <2>1 DEF BagInv
<1>18. ChargesInv' /\ ReturnsCancelTheirShare'
  BY <1>2, ChargesInvSame, ShareSame DEF RestockIInv, binVars
<1> QED
  BY <1>10, <1>17, <1>18 DEF RestockIInv

-----------------------------------------------------------------------------
(* What comes back, and the stores and bags *)

\* A step that touches neither restocks nor bags.
LEMMA OthersStay ==
  ASSUME RestockAssumption, RestockIInv, RestockTypeOK', UNCHANGED <<restock, bagVars, charge, kept, dropped>>
  PROVE  RestockIInv'
<1>1. BagInv'
  BY BagInvSame
<1>2. ChargesInv' /\ ReturnsCancelTheirShare'
  BY ChargesInvSame, ShareSame DEF RestockIInv
<1> QED
  BY <1>1, <1>2 DEF RestockIInv

LEMMA SwitchBoxKeeps ==
  ASSUME RestockAssumption, RestockIInv, NEW b \in Boxes, SwitchBox(b)
  PROVE  RestockIInv'
<1>1. RestockTypeOK'
  BY DEF SwitchBox, RestockIInv, RestockTypeOK, chargeVars, binVars, bagVars
<1> QED
  BY <1>1, OthersStay DEF SwitchBox, chargeVars, binVars

LEMMA TakeElsewhereKeeps ==
  ASSUME RestockAssumption, RestockIInv, NEW b \in Boxes, NEW v \in Sizes, TakeElsewhere(b, v)
  PROVE  RestockIInv'
<1>1. onHand \in [Boxes -> Units]
  BY DEF RestockIInv, RestockTypeOK
<1>2. PICK h \in Nat : h = onHand[b][v]
  BY <1>1 DEF Units
<1>3. PICK r \in Nat : r = ReservedIn(b)[v]
  BY ReservedIs DEF RestockIInv, Units
<1>4. h - r > 0
  BY <1>2, <1>3, ReservedIs DEF RestockIInv, TakeElsewhere
<1>5. h - 1 \in Nat
  BY <1>4
<1>6. onHand' = [onHand EXCEPT ![b][v] = h - 1]
  BY <1>2 DEF TakeElsewhere
<1>7. onHand' \in [Boxes -> Units]
  BY <1>1, <1>5, <1>6 DEF Units
<1>8. RestockTypeOK'
  BY <1>7 DEF TakeElsewhere, RestockIInv, RestockTypeOK, chargeVars, binVars, bagVars
<1> QED
  BY <1>8, OthersStay DEF TakeElsewhere, chargeVars, binVars

LEMMA SetMinimumKeeps ==
  ASSUME RestockAssumption, RestockIInv, NEW m \in Range(ModelOf), NEW n \in Minimums, SetMinimum(m, n)
  PROVE  RestockIInv'
<1>1. RestockTypeOK'
  BY DEF SetMinimum, RestockIInv, RestockTypeOK, chargeVars, stockVars, binVars, bagVars
<1> QED
  BY <1>1, OthersStay DEF SetMinimum, chargeVars, binVars

LEMMA ComeBackKeeps ==
  ASSUME RestockAssumption, RestockIInv, NEW v \in Sizes, ComeBack(v)
  PROVE  RestockIInv'
<1>1. bin \in Units /\ bin' = [bin EXCEPT ![v] = @ + 1]
  BY DEF ComeBack, RestockIInv, RestockTypeOK
<1>2. bin' \in Units
  BY <1>1 DEF Units
<1>3. RestockTypeOK'
  BY <1>2 DEF ComeBack, RestockIInv, RestockTypeOK, chargeVars, stockVars, bagVars
<1> QED
  BY <1>3, OthersStay DEF ComeBack, chargeVars

LEMMA TakeFromBinKeeps ==
  ASSUME RestockAssumption, RestockIInv, NEW S \in SUBSET Sizes, TakeFromBin(S)
  PROVE  RestockIInv'
<1>1. PICK taken : taken = [v \in Sizes |-> IF v \in S THEN bin[v] ELSE 0]
  OBVIOUS
<1>2. PICK read : read = {o \in Orders : restock[o].status = "RESTOCK_REQUESTED"}
  OBVIOUS
<1>3. /\ keeping' = [taken |-> taken, read |-> read] /\ bin' = Minus(bin, taken)
      /\ UNCHANGED <<chargeVars, stockVars, restock, kept, dropped, bagVars, minimum>>
  BY <1>1, <1>2 DEF TakeFromBin
<1>4. bin \in Units
  BY DEF RestockIInv, RestockTypeOK
<1>5. taken \in Units /\ Covers(bin, taken)
  BY <1>1, <1>4 DEF Units, Covers
<1>6. bin' \in Units
  BY <1>3, <1>4, <1>5, UnitsAdd
<1>7. keeping'.taken \in Units /\ keeping'.read \subseteq Orders
  BY <1>2, <1>3, <1>5
<1>8. RestockTypeOK'
  BY <1>3, <1>6, <1>7 DEF RestockIInv, RestockTypeOK, chargeVars, stockVars, bagVars
<1> QED
  BY <1>3, <1>8, OthersStay DEF chargeVars

\* What keeping the returns bin in the store cancels was waiting to be prepared.
LEMMA KeepInStoreIs ==
  ASSUME RestockAssumption, RestockTypeOK, KeepInStore, NEW fall, fall = Falls(keeping.read, Moved)
  PROVE  /\ fall \in SUBSET Orders /\ Covers(keeping.taken, Total(RestockLines, fall))
         /\ \A o \in fall : restock[o].status = "RESTOCK_REQUESTED" /\ picking[o] = 0
         /\ restock' = [o \in Orders |-> IF o \in fall THEN [restock[o] EXCEPT !.status = "CANCELLED"] ELSE restock[o]]
         /\ kept' = Plus(kept, keeping.taken) /\ counter' = Plus(counter, keeping.taken)
         /\ dropped' = Plus(dropped, Total(RestockLines, fall)) /\ keeping' = NoKeeping
         /\ UNCHANGED <<charge, informed, sold, stockVars, bin, bagVars, minimum>>
<1>1. PICK read : read = keeping.read
  OBVIOUS
<1>2. PICK gone : gone = Moved
  OBVIOUS
<1>3. read \in SUBSET Orders /\ \A o \in read : picking[o] = 0
  BY <1>1 DEF RestockTypeOK, KeepInStore, Unlocked
<1>4. fall = Falls(read, gone)
  BY <1>1, <1>2
<1>5. fall \in SUBSET (read \ gone) /\ Covers(keeping.taken, Total(RestockLines, fall))
  BY <1>3, <1>4, FallsFit
<1>6. \A o \in fall : restock[o].status = "RESTOCK_REQUESTED"
  BY <1>1, <1>2, <1>5 DEF Moved
<1> QED
  BY <1>3, <1>5, <1>6 DEF KeepInStore

LEMMA KeepInStoreKeeps ==
  ASSUME RestockAssumption, RestockIInv, KeepInStore
  PROVE  RestockIInv'
<1>1. RestockTypeOK
  BY DEF RestockIInv
<1>2. PICK fall : fall = Falls(keeping.read, Moved)
  OBVIOUS
<1>3. PICK back : back = Total(RestockLines, fall)
  OBVIOUS
<1>4. /\ fall \in SUBSET Orders /\ Covers(keeping.taken, back)
      /\ \A o \in fall : restock[o].status = "RESTOCK_REQUESTED" /\ picking[o] = 0
      /\ restock' = [o \in Orders |-> IF o \in fall THEN [restock[o] EXCEPT !.status = "CANCELLED"] ELSE restock[o]]
      /\ kept' = Plus(kept, keeping.taken) /\ counter' = Plus(counter, keeping.taken)
      /\ dropped' = Plus(dropped, back) /\ keeping' = NoKeeping
      /\ UNCHANGED <<charge, informed, sold, stockVars, bin, bagVars, minimum>>
  BY <1>1, <1>2, <1>3, KeepInStoreIs
<1>5. back \in Units
  BY <1>1, <1>3, <1>4, LinesAre, TotalNat
<1>6. {keeping.taken, counter, kept, dropped} \subseteq Units
  BY <1>1 DEF RestockTypeOK
<1>7. {counter', kept', dropped'} \subseteq Units
  BY <1>4, <1>5, <1>6, UnitsAdd
<1>8. Covers(kept', dropped')
  <2>1. SUFFICES ASSUME NEW v \in Sizes PROVE kept'[v] >= dropped'[v]
    BY DEF Covers
  <2>2. kept[v] >= dropped[v] /\ keeping.taken[v] >= back[v]
    BY <1>4 DEF Covers, RestockIInv, ReturnsCancelTheirShare
  <2>3. kept'[v] = kept[v] + keeping.taken[v] /\ dropped'[v] = dropped[v] + back[v]
    BY <1>4 DEF Plus
  <2>4. {kept[v], keeping.taken[v], dropped[v], back[v]} \subseteq Nat
    BY <1>5, <1>6 DEF Units
  <2> QED
    BY <2>2, <2>3, <2>4
<1>9. ASSUME NEW o \in Orders
      PROVE  /\ restock'[o] \in RestockRow
             /\ \/ restock'[o] = restock[o]
                \/ /\ restock[o].status = "RESTOCK_REQUESTED" /\ restock'[o].status = "CANCELLED"
                   /\ picking[o] = 0
  <2>1. restock[o] \in RestockRow
    BY <1>1 DEF RestockTypeOK
  <2>2. CASE o \in fall
    <3>1. PICK row : row = [restock[o] EXCEPT !.status = "CANCELLED"]
      OBVIOUS
    <3>2. row \in RestockRow /\ row.status = "CANCELLED"
      BY <2>1, <3>1 DEF RestockRow, NotOnTheWay
    <3> QED
      BY <1>4, <2>2, <3>1, <3>2
  <2>3. CASE o \notin fall
    BY <1>4, <2>1, <2>3
  <2> QED
    BY <2>2, <2>3
<1>10. RestockTypeOK'
  <2>1. restock' \in [Orders -> RestockRow]
    BY <1>4, <1>9
  <2>2. keeping'.taken \in Units /\ keeping'.read \subseteq Orders
    BY <1>4 DEF NoKeeping, NoUnits, Units
  <2> QED
    BY <1>1, <1>4, <1>7, <2>1, <2>2 DEF RestockTypeOK, stockVars, bagVars
<1>11. BagInv'
  <2>1. \A o \in Orders : picking[o] # 0 => restock'[o] = restock[o]
    BY <1>9
  <2>2. \A o \in Orders : restock'[o].status \in Carried <=> restock[o].status \in Carried
    BY <1>9 DEF Carried
  <2>3. \A o \in InHand : restock'[o].lines = restock[o].lines
    BY <1>9 DEF InHand, Carried
  <2> QED
    BY <1>4, <1>10, <2>1, <2>2, <2>3, BagInvSame
<1>12. ChargesInv' /\ ReturnsCancelTheirShare'
  BY <1>4, <1>8, ChargesInvSame DEF RestockIInv, ReturnsCancelTheirShare
<1> QED
  BY <1>10, <1>11, <1>12 DEF RestockIInv

LEMMA SwitchBagKeeps ==
  ASSUME RestockAssumption, RestockIInv, NEW g \in Bags, SwitchBag(g)
  PROVE  RestockIInv'
<1>1. RestockTypeOK /\ BagInv
  BY DEF RestockIInv
<1>2. /\ bag[g].status # "NONE" /\ disturbed' = TRUE
      /\ bag' = [bag EXCEPT ![g].status = IF @ = "ACTIVE" THEN "INACTIVE" ELSE "ACTIVE"]
      /\ UNCHANGED <<chargeVars, stockVars, restock, binVars, picking, minimum>>
  BY DEF SwitchBag
<1>3. bag \in [Bags -> [status: {"NONE", "ACTIVE", "INACTIVE"}, units: Units]]
  BY <1>1 DEF RestockTypeOK
<1>4. /\ bag' \in [Bags -> [status: {"NONE", "ACTIVE", "INACTIVE"}, units: Units]]
      /\ bag'[g].status # "NONE" /\ \A x \in Bags : x # g => bag'[x] = bag[x]
  BY <1>2, <1>3
<1>5. RestockTypeOK'
  BY <1>1, <1>2, <1>4 DEF RestockTypeOK, chargeVars, stockVars, binVars
<1>6. BagInv'
  BY <1>1, <1>2, <1>4 DEF BagInv
<1>7. ChargesInv' /\ ReturnsCancelTheirShare'
  BY <1>2, ChargesInvSame, ShareSame DEF RestockIInv, chargeVars, binVars
<1> QED
  BY <1>5, <1>6, <1>7 DEF RestockIInv
-----------------------------------------------------------------------------
(* Every step *)

LEMMA RestockStarts ==
  ASSUME RestockAssumption, RestockInit
  PROVE  RestockIInv
<1>1. NoUnits \in Units /\ \A v \in Sizes : NoUnits[v] = 0
  BY DEF NoUnits, Units
<1>2. PICK w : w = CHOOSE x \in Warehouses : TRUE
  OBVIOUS
<1>3. PICK b : b = CHOOSE x \in Boxes : TRUE
  OBVIOUS
<1>4. w \in Warehouses
  BY <1>2 DEF RestockAssumption
<1>5. b \in Boxes
  <2>1. <<w, 1>> \in Boxes
    BY <1>4 DEF Boxes, RestockAssumption
  <2> QED
    BY <1>3, <2>1
<1>6. PICK row : row = [status |-> "NONE", from |-> w, at |-> b, lines |-> NoUnits, urgent |-> FALSE,
                       claimed |-> FALSE]
  OBVIOUS
<1>7. restock = [o \in Orders |-> row]
  BY <1>2, <1>3, <1>6 DEF RestockInit
<1>8. row \in RestockRow /\ row.status = "NONE"
  BY <1>1, <1>4, <1>5, <1>6 DEF RestockRow, NotOnTheWay
<1>9. RestockTypeOK
  <2>1. {counter, bin, sold, kept, dropped} \subseteq Units
    BY <1>1 DEF RestockInit, RestockAssumption, Units
  <2>2. onHand \in [Boxes -> Units] /\ box \in [Boxes -> BOOLEAN] /\ restock \in [Orders -> RestockRow]
    BY <1>7, <1>8 DEF RestockInit, RestockAssumption, Units
  <2>3. \A c \in Charges : charge[c].stage \in {"NONE", "CHOSEN", "PLANNED"}
    BY DEF RestockInit, NoCharge
  <2>4. informed \subseteq Sizes /\ keeping.taken \in Units /\ keeping.read \subseteq Orders
    BY <1>1 DEF RestockInit, NoKeeping
  <2>5. bag \in [Bags -> [status: {"NONE", "ACTIVE", "INACTIVE"}, units: Units]]
        /\ picking \in [Orders -> Bags \cup {0}]
    BY <1>1 DEF RestockInit
  <2>6. minimum \in [Range(ModelOf) -> Minimums \cup {0}] /\ disturbed \in BOOLEAN
    BY DEF RestockInit
  <2> QED
    BY <2>1, <2>2, <2>3, <2>4, <2>5, <2>6 DEF RestockTypeOK
<1>10. ReturnsCancelTheirShare
  BY <1>1 DEF RestockInit, ReturnsCancelTheirShare, Covers
<1>11. ChargesInv
  BY DEF RestockInit, ChargesInv, ChargeInv, NoCharge
<1>12. BagInv
  <2>1. InHand = {}
    BY <1>7, <1>8 DEF InHand, Carried
  <2>2. ActiveBags = {} /\ \A g \in Bags : ~InUse(g)
    BY DEF RestockInit, ActiveBags, InUse, RestockAssumption
  <2>3. \A o \in Orders : picking[o] = 0
    BY DEF RestockInit
  <2>4. \A g \in Bags : bag[g].status = "NONE" /\ bag[g].units = NoUnits
    BY DEF RestockInit
  <2> QED
    BY <2>1, <2>2, <2>3, <2>4 DEF BagInv
<1> QED
  BY <1>9, <1>10, <1>11, <1>12 DEF RestockIInv

LEMMA RestockStays ==
  ASSUME RestockAssumption, RestockIInv, UNCHANGED restockVars
  PROVE  RestockIInv'
<1>1. UNCHANGED <<counter, charge, informed, sold, onHand, box, restock, bin, keeping, kept, dropped,
                  bag, picking, disturbed, minimum>>
  BY DEF restockVars, chargeVars, stockVars, binVars, bagVars
<1>2. RestockTypeOK'
  BY <1>1 DEF RestockIInv, RestockTypeOK
<1> QED
  BY <1>1, <1>2, OthersStay DEF bagVars

LEMMA RestockSteps ==
  ASSUME RestockAssumption, RestockIInv, RestockNext
  PROVE  RestockIInv'
<1>1. CASE ChargeStep
  BY <1>1, ChooseKeeps, PlanKeeps, ChargedKeeps, UndoneKeeps, SwitchBoxKeeps, TakeElsewhereKeeps,
     SetMinimumKeeps DEF ChargeStep
<1>2. CASE PrepareStep
  BY <1>2, ClaimKeeps, ReadyKeeps, CancelRestockKeeps DEF PrepareStep
<1>3. CASE CarryStep
  BY <1>3, LookForBagKeeps, PickUpKeeps, DeliverKeeps, ReceiveKeeps, FinishKeeps, SwitchBagKeeps DEF CarryStep
<1>4. CASE BackStep
  BY <1>4, ComeBackKeeps, TakeFromBinKeeps, KeepInStoreKeeps DEF BackStep
<1> QED
  BY <1>1, <1>2, <1>3, <1>4 DEF RestockNext

\* What holds between the steps of the restocks holds of every behaviour: no balance
\* goes under zero, a charge that is planned accounts for all it sold, and whatever
\* the runner carries is in the one bag in use, however charges, warehouses, runners
\* and returns interleave.
THEOREM RestocksKeepTheirWord == RestockSpec => []RestockIInv
<1>1. RestockInit => RestockIInv
  BY RestockAssumption, RestockStarts
<1>2. RestockIInv /\ [RestockNext]_restockVars => RestockIInv'
  BY RestockAssumption, RestockStays, RestockSteps
<1> QED
  BY <1>1, <1>2, PTL DEF RestockSpec

-----------------------------------------------------------------------------
(* What is reserved in a box is in it *)

LEMMA TotalShrinks ==
  ASSUME RestockAssumption, NEW f \in LinesOfOrders, NEW g \in LinesOfOrders, NEW S \in SUBSET Orders,
         NEW T \in SUBSET S, \A x \in T : g[x] = f[x]
  PROVE  \A v \in Sizes : Total(g, T)[v] <= Total(f, S)[v]
<1>1. SUFFICES ASSUME NEW v \in Sizes PROVE Total(g, T)[v] <= Total(f, S)[v]
  OBVIOUS
<1>2. PICK h : h = [x \in Orders |-> f[x][v]]
  OBVIOUS
<1>3. \A x \in Orders : h[x] \in Nat /\ h[x] \in Int
  BY <1>2 DEF LinesOfOrders, Units
<1>4. PICK R : R = S \ T
  OBVIOUS
<1>5. T \in SUBSET Orders /\ R \in SUBSET Orders /\ Total(g, T) = Total(f, T)
  BY <1>4, TotalSame
<1>6. /\ Total(f, S)[v] = SumFunctionOnSet(h, S) /\ Total(f, T)[v] = SumFunctionOnSet(h, T)
      /\ IsFiniteSet(S) /\ IsFiniteSet(T) /\ IsFiniteSet(R)
  BY <1>2, <1>5, TotalIs
<1>7. SumFunctionOnSet(h, S) = SumFunctionOnSet(h, T) + SumFunctionOnSet(h, R)
  <2>0. IsFiniteSet(S)
    BY <1>6
  <2>1. \A x \in S : h[x] \in Int
    BY <1>3
  <2>2. SumFunctionOnSet(h, S) = SumFunctionOnSet(h, T) + SumFunctionOnSet(h, S \ T)
    BY <2>0, <2>1, SumSplit
  <2> QED
    BY <1>4, <2>2
<1>8. PICK i \in Nat : i = SumFunctionOnSet(h, R)
  BY <1>3, <1>5, <1>6, SumNat
<1>9. PICK j \in Nat : j = SumFunctionOnSet(h, T)
  BY <1>3, <1>5, <1>6, SumNat
<1>10. Total(f, S)[v] = j + i /\ Total(g, T)[v] = j
  BY <1>5, <1>6, <1>7, <1>8, <1>9
<1> QED
  BY <1>10

\* The orders that reserve in box b.
Holders(b) == {o \in Orders : restock[o].status \in Reserving /\ restock[o].at = b}

LEMMA ReservedOf ==
  ASSUME NEW b
  PROVE  /\ ReservedIn(b) = Total(RestockLines, Holders(b)) /\ Holders(b) \in SUBSET Orders
         /\ ReservedIn(b)' = Total(RestockLines', Holders(b)') /\ Holders(b)' \in SUBSET Orders
BY DEF ReservedIn, Holders, Total

\* The step of one order, with respect to what the others reserve in a box.
LEMMA ReservedByOthers ==
  ASSUME RestockAssumption, RestockTypeOK, RestockTypeOK', NEW b \in Boxes, NEW o \in Orders,
         \A d \in Orders \ {o} :
             d \in Holders(b)' => d \in Holders(b) /\ restock'[d].lines = restock[d].lines
  PROVE  \E rest \in Units : \A v \in Sizes :
             /\ rest[v] <= ReservedIn(b)[v]
             /\ o \in Holders(b) => rest[v] + restock[o].lines[v] <= ReservedIn(b)[v]
             /\ o \in Holders(b)' => ReservedIn(b)'[v] = rest[v] + restock'[o].lines[v]
             /\ o \notin Holders(b)' => ReservedIn(b)'[v] = rest[v]
<1>1. PICK f \in LinesOfOrders : f = RestockLines
  BY LinesAre
<1>2. PICK g \in LinesOfOrders : g = RestockLines'
  BY LinesAre
<1>3. PICK S \in SUBSET Orders : S = Holders(b)
  BY ReservedOf
<1>4. PICK T \in SUBSET Orders : T = Holders(b)'
  BY ReservedOf
<1>5. ReservedIn(b) = Total(f, S) /\ ReservedIn(b)' = Total(g, T)
  BY <1>1, <1>2, <1>3, <1>4, ReservedOf
<1>6. \A d \in Orders : f[d] = restock[d].lines /\ g[d] = restock'[d].lines
  BY <1>1, <1>2, LinesAre
<1>7. PICK P \in SUBSET Orders : P = S \ {o}
  OBVIOUS
<1>8. PICK Q \in SUBSET Orders : Q = T \ {o}
  OBVIOUS
<1>9. Q \subseteq P /\ \A d \in Q : g[d] = f[d]
  BY <1>3, <1>4, <1>6, <1>7, <1>8
<1>10. PICK rest \in Units : rest = Total(g, Q)
  BY TotalNat
<1>11. \A v \in Sizes : rest[v] <= Total(f, P)[v]
  BY <1>9, <1>10, TotalShrinks
<1>12. Total(f, P) \in Units /\ Total(f, S) \in Units
  BY TotalNat
<1>13. ASSUME NEW v \in Sizes
       PROVE  /\ rest[v] <= Total(f, S)[v]
              /\ o \in S => rest[v] + f[o][v] <= Total(f, S)[v]
  <2>1. PICK i \in Nat : i = rest[v]
    BY DEF Units
  <2>2. PICK j \in Nat : j = Total(f, P)[v]
    BY <1>12 DEF Units
  <2>3. PICK k \in Nat : k = f[o][v]
    BY DEF LinesOfOrders, Units
  <2>4. PICK n \in Nat : n = Total(f, S)[v]
    BY <1>12 DEF Units
  <2>5. i <= j
    BY <1>11, <2>1, <2>2
  <2>6. CASE o \in S
    <3>1. Total(f, S)[v] = Total(f, S \ {o})[v] + f[o][v]
      BY <2>6, TotalRemoved
    <3>2. n = j + k
      BY <1>7, <2>2, <2>3, <2>4, <3>1
    <3> QED
      BY <2>1, <2>3, <2>4, <2>5, <3>2
  <2>7. CASE o \notin S
    <3>1. P = S
      BY <1>7, <2>7
    <3> QED
      BY <1>11, <2>7, <3>1
  <2> QED
    BY <2>6, <2>7
<1>14. ASSUME NEW v \in Sizes
       PROVE  /\ o \in T => Total(g, T)[v] = rest[v] + g[o][v]
              /\ o \notin T => Total(g, T)[v] = rest[v]
  <2>1. CASE o \in T
    <3>1. Total(g, T)[v] = Total(g, T \ {o})[v] + g[o][v]
      BY <2>1, TotalRemoved
    <3> QED
      BY <1>8, <1>10, <2>1, <3>1
  <2>2. CASE o \notin T
    <3>1. Q = T
      BY <1>8, <2>2
    <3> QED
      BY <1>10, <2>2, <3>1
  <2> QED
    BY <2>1, <2>2
<1>15. ASSUME NEW v \in Sizes
       PROVE  /\ rest[v] <= ReservedIn(b)[v]
              /\ o \in Holders(b) => rest[v] + restock[o].lines[v] <= ReservedIn(b)[v]
              /\ o \in Holders(b)' => ReservedIn(b)'[v] = rest[v] + restock'[o].lines[v]
              /\ o \notin Holders(b)' => ReservedIn(b)'[v] = rest[v]
  <2>1. ReservedIn(b)[v] = Total(f, S)[v] /\ ReservedIn(b)'[v] = Total(g, T)[v]
    BY <1>5
  <2>2. f[o][v] = restock[o].lines[v] /\ g[o][v] = restock'[o].lines[v]
    BY <1>6
  <2> QED
    BY <1>3, <1>4, <1>13, <1>14, <2>1, <2>2
<1> QED
  BY <1>15

\* Nobody reserves in the box who did not, or more than before.
LEMMA NoMoreIn ==
  ASSUME RestockAssumption, RestockTypeOK, RestockTypeOK', NEW b \in Boxes,
         \A o \in Holders(b)' : o \in Holders(b) /\ restock'[o].lines = restock[o].lines
  PROVE  \A v \in Sizes : ReservedIn(b)'[v] <= ReservedIn(b)[v]
<1>1. PICK f \in LinesOfOrders : f = RestockLines
  BY LinesAre
<1>2. PICK g \in LinesOfOrders : g = RestockLines'
  BY LinesAre
<1>3. PICK S \in SUBSET Orders : S = Holders(b)
  BY ReservedOf
<1>4. PICK T \in SUBSET Orders : T = Holders(b)'
  BY ReservedOf
<1>5. T \in SUBSET S /\ \A x \in T : g[x] = f[x]
  BY <1>1, <1>2, <1>3, <1>4, LinesAre
<1>6. \A v \in Sizes : Total(g, T)[v] <= Total(f, S)[v]
  BY <1>5, TotalShrinks
<1> QED
  BY <1>1, <1>2, <1>3, <1>4, <1>6, ReservedOf

LEMMA StillThere ==
  ASSUME RestockAssumption, RestockTypeOK, RestockTypeOK', ReservedIsThere, NEW b \in Boxes,
         onHand'[b] = onHand[b], \A v \in Sizes : ReservedIn(b)'[v] <= ReservedIn(b)[v]
  PROVE  Covers(onHand[b], ReservedIn(b))'
<1>1. SUFFICES ASSUME NEW v \in Sizes PROVE onHand'[b][v] >= ReservedIn(b)'[v]
  BY DEF Covers
<1>2. ReservedIn(b)' \in Units
  BY ReservedOf, LinesAre, TotalNat
<1>3. PICK i \in Nat : i = ReservedIn(b)'[v]
  BY <1>2 DEF Units
<1>4. PICK j \in Nat : j = ReservedIn(b)[v]
  BY ReservedIs DEF Units
<1>5. PICK h \in Nat : h = onHand[b][v]
  BY DEF RestockTypeOK, Units
<1>6. h >= j /\ i <= j
  BY <1>3, <1>4, <1>5 DEF ReservedIsThere, Covers
<1>7. h >= i
  BY <1>6
<1> QED
  BY <1>3, <1>5, <1>7

\* A step after which no box has more reserved than before.
LEMMA NoMoreReserved ==
  ASSUME RestockAssumption, RestockTypeOK, RestockTypeOK', ReservedIsThere, onHand' = onHand,
         \A o \in Orders : restock'[o].status \in Reserving =>
             restock[o].status \in Reserving /\ restock'[o].at = restock[o].at
             /\ restock'[o].lines = restock[o].lines
  PROVE  ReservedIsThere'
<1>1. ASSUME NEW b \in Boxes PROVE Covers(onHand[b], ReservedIn(b))'
  <2>1. \A o \in Holders(b)' : o \in Holders(b) /\ restock'[o].lines = restock[o].lines
    BY DEF Holders
  <2>2. \A v \in Sizes : ReservedIn(b)'[v] <= ReservedIn(b)[v]
    BY <2>1, NoMoreIn
  <2> QED
    BY <2>2, StillThere
<1> QED
  BY <1>1 DEF ReservedIsThere

LEMMA TakeElsewhereLeaves ==
  ASSUME RestockAssumption, RestockTypeOK, RestockTypeOK', ReservedIsThere,
         NEW b \in Boxes, NEW v \in Sizes, TakeElsewhere(b, v)
  PROVE  ReservedIsThere'
<1>1. SUFFICES ASSUME NEW d \in Boxes, NEW x \in Sizes PROVE onHand'[d][x] >= ReservedIn(d)'[x]
  BY DEF ReservedIsThere, Covers
<1>2. restock' = restock /\ onHand' = [onHand EXCEPT ![b][v] = @ - 1] /\ FreeIn(b)[v] > 0
  BY DEF TakeElsewhere
<1>3. ReservedIn(d)' = ReservedIn(d)
  BY <1>2 DEF ReservedIn, RestockLines, Total
<1>4. PICK r \in Nat : r = ReservedIn(d)[x]
  BY ReservedIs DEF Units
<1>5. PICK h \in Nat : h = onHand[d][x]
  BY DEF RestockTypeOK, Units
<1>6. h >= r
  BY <1>4, <1>5 DEF ReservedIsThere, Covers
<1>7. CASE d = b /\ x = v
  <2>1. h - r > 0
    BY <1>2, <1>4, <1>5, <1>7, ReservedIs
  <2>2. onHand'[d][x] = h - 1
    BY <1>2, <1>5, <1>7 DEF RestockTypeOK, Units
  <2>3. h - 1 >= r
    BY <2>1
  <2> QED
    BY <1>3, <1>4, <2>2, <2>3
<1>8. CASE ~(d = b /\ x = v)
  <2>1. onHand'[d][x] = h
    BY <1>2, <1>5, <1>8 DEF RestockTypeOK, Units
  <2> QED
    BY <1>3, <1>4, <1>6, <2>1
<1> QED
  BY <1>7, <1>8

LEMMA ReadyReserves ==
  ASSUME RestockAssumption, RestockTypeOK, RestockTypeOK', ReservedIsThere,
         NEW o \in Orders, NEW found \in [Sizes -> 0 .. MaxSold], Ready(o, found)
  PROVE  ReservedIsThere'
<1>1. PICK a : a = FindStock(restock[o].from)
  OBVIOUS
<1>2. PICK others : others = IF a = restock[o].at THEN Plus(FreeIn(a), restock[o].lines) ELSE FreeIn(a)
  OBVIOUS
<1>3. PICK row : row = [restock[o] EXCEPT !.status = "WAITING_FOR_RUNNER", !.lines = found, !.at = a,
                                          !.claimed = TRUE]
  OBVIOUS
<1>4. /\ restock[o].status = "RESTOCK_REQUESTED" /\ restock' = [restock EXCEPT ![o] = row]
      /\ Covers(others, found) /\ onHand' = onHand
  BY <1>1, <1>2, <1>3 DEF Ready, Step, stockVars
<1>5. restock[o] \in RestockRow /\ found \in Units
  BY DEF RestockTypeOK, Units
<1>6. row.status = "WAITING_FOR_RUNNER" /\ row.lines = found /\ row.at = a
  BY <1>3, <1>5 DEF RestockRow
<1>7. restock'[o] = row /\ \A d \in Orders \ {o} : restock'[d] = restock[d]
  BY <1>4 DEF RestockTypeOK
<1>8. SUFFICES ASSUME NEW b \in Boxes, NEW v \in Sizes PROVE onHand[b][v] >= ReservedIn(b)'[v]
  BY <1>4 DEF ReservedIsThere, Covers
<1>9. \A d \in Orders \ {o} : d \in Holders(b)' => d \in Holders(b) /\ restock'[d].lines = restock[d].lines
  BY <1>7 DEF Holders
<1>10. PICK rest \in Units : \A x \in Sizes :
           /\ rest[x] <= ReservedIn(b)[x]
           /\ o \in Holders(b) => rest[x] + restock[o].lines[x] <= ReservedIn(b)[x]
           /\ o \in Holders(b)' => ReservedIn(b)'[x] = rest[x] + restock'[o].lines[x]
           /\ o \notin Holders(b)' => ReservedIn(b)'[x] = rest[x]
  BY <1>9, ReservedByOthers
<1>11. PICK i \in Nat : i = rest[v]
  BY DEF Units
<1>12. PICK r \in Nat : r = ReservedIn(b)[v]
  BY ReservedIs DEF Units
<1>13. PICK h \in Nat : h = onHand[b][v]
  BY DEF RestockTypeOK, Units
<1>14. PICK k \in Nat : k = restock[o].lines[v]
  BY <1>5 DEF RestockRow, Units
<1>15. PICK n \in Nat : n = found[v]
  BY <1>5 DEF Units
<1>16. h >= r /\ i <= r
  BY <1>10, <1>11, <1>12, <1>13 DEF ReservedIsThere, Covers
<1>17. CASE b # a
  <2>1. o \notin Holders(b)'
    BY <1>6, <1>7, <1>17 DEF Holders
  <2>2. ReservedIn(b)'[v] = i
    BY <1>10, <1>11, <2>1
  <2>3. h >= i
    BY <1>16
  <2> QED
    BY <1>13, <2>2, <2>3
<1>18. CASE b = a
  <2>1. o \in Holders(b)'
    BY <1>6, <1>7, <1>18 DEF Holders, Reserving
  <2>2. ReservedIn(b)'[v] = i + n
    BY <1>6, <1>7, <1>10, <1>11, <1>15, <2>1
  <2>3. others[v] >= n /\ FreeIn(b)[v] = h - r
    BY <1>4, <1>12, <1>13, <1>15, ReservedIs DEF Covers
  <2>4. CASE restock[o].at = b
    <3>1. o \in Holders(b)
      BY <1>4, <2>4 DEF Holders, Reserving
    <3>2. i + k <= r
      BY <1>10, <1>11, <1>12, <1>14, <3>1
    <3>3. others[v] = (h - r) + k
      BY <1>2, <1>14, <1>18, <2>3, <2>4 DEF Plus
    <3>4. h >= i + n
      BY <2>3, <3>2, <3>3
    <3> QED
      BY <1>13, <2>2, <3>4
  <2>5. CASE restock[o].at # b
    <3>1. others[v] = h - r
      BY <1>2, <1>18, <2>3, <2>5
    <3>2. h >= i + n
      BY <1>16, <2>3, <3>1
    <3> QED
      BY <1>13, <2>2, <3>2
  <2> QED
    BY <2>4, <2>5
<1> QED
  BY <1>17, <1>18

LEMMA PickUpTakesItsOwn ==
  ASSUME RestockAssumption, RestockTypeOK, BagInv, RestockTypeOK', ReservedIsThere, NEW o \in Orders, PickUp(o)
  PROVE  ReservedIsThere'
<1>1. PICK a : a = FindStock(restock[o].from)
  OBVIOUS
<1>2. PICK others : others = IF a = restock[o].at THEN Plus(FreeIn(a), restock[o].lines) ELSE FreeIn(a)
  OBVIOUS
<1>3. \/ UNCHANGED <<restock, onHand>>
      \/ /\ restock' = [restock EXCEPT ![o].status = "IN_TRANSIT"]
         /\ onHand' = [onHand EXCEPT ![a] = Minus(@, restock[o].lines)]
         /\ ActiveBoxes(restock[o].from) # {} /\ Covers(others, restock[o].lines)
  BY <1>1, <1>2 DEF PickUp
<1>4. CASE UNCHANGED <<restock, onHand>>
  BY <1>4, NoMoreReserved
<1>5. CASE /\ restock' = [restock EXCEPT ![o].status = "IN_TRANSIT"]
           /\ onHand' = [onHand EXCEPT ![a] = Minus(@, restock[o].lines)]
           /\ ActiveBoxes(restock[o].from) # {} /\ Covers(others, restock[o].lines)
  <2>1. a \in Boxes
    BY <1>1, <1>5, OldestBox
  <2>2. restock[o].status = "WAITING_FOR_RUNNER"
    BY DEF PickUp, BagInv
  <2>3. restock[o].lines \in Units /\ restock'[o].status = "IN_TRANSIT"
        /\ \A d \in Orders \ {o} : restock'[d] = restock[d]
    BY <1>5, LinesAre DEF RestockTypeOK
  <2>4. SUFFICES ASSUME NEW b \in Boxes, NEW v \in Sizes PROVE onHand'[b][v] >= ReservedIn(b)'[v]
    BY DEF ReservedIsThere, Covers
  <2>5. \A d \in Orders \ {o} : d \in Holders(b)' => d \in Holders(b) /\ restock'[d].lines = restock[d].lines
    BY <2>3 DEF Holders
  <2>6. PICK rest \in Units : \A x \in Sizes :
             /\ rest[x] <= ReservedIn(b)[x]
             /\ o \in Holders(b) => rest[x] + restock[o].lines[x] <= ReservedIn(b)[x]
             /\ o \in Holders(b)' => ReservedIn(b)'[x] = rest[x] + restock'[o].lines[x]
             /\ o \notin Holders(b)' => ReservedIn(b)'[x] = rest[x]
    BY <2>5, ReservedByOthers
  <2>7. o \notin Holders(b)'
    BY <2>3 DEF Holders, Reserving
  <2>8. PICK i \in Nat : i = rest[v]
    BY DEF Units
  <2>9. PICK r \in Nat : r = ReservedIn(b)[v]
    BY ReservedIs DEF Units
  <2>10. PICK h \in Nat : h = onHand[b][v]
    BY DEF RestockTypeOK, Units
  <2>11. PICK k \in Nat : k = restock[o].lines[v]
    BY <2>3 DEF Units
  <2>12. h >= r /\ i <= r /\ ReservedIn(b)'[v] = i
    BY <2>6, <2>7, <2>8, <2>9, <2>10 DEF ReservedIsThere, Covers
  <2>13. CASE b # a
    <3>1. onHand'[b][v] = h
      BY <1>5, <2>10, <2>13 DEF RestockTypeOK
    <3>2. h >= i
      BY <2>12
    <3> QED
      BY <2>12, <3>1, <3>2
  <2>14. CASE b = a
    <3>1. onHand'[b][v] = h - k
      BY <1>5, <2>10, <2>11, <2>14 DEF RestockTypeOK, Minus
    <3>2. others[v] >= k /\ FreeIn(b)[v] = h - r
      BY <1>5, <2>9, <2>10, <2>11, ReservedIs DEF Covers
    <3>3. CASE restock[o].at = b
      <4>1. o \in Holders(b)
        BY <2>2, <3>3 DEF Holders, Reserving
      <4>2. i + k <= r
        BY <2>6, <2>8, <2>9, <2>11, <4>1
      <4>3. others[v] = (h - r) + k
        BY <1>2, <2>11, <2>14, <3>2, <3>3 DEF Plus
      <4>4. h - k >= i
        BY <2>12, <4>2
      <4> QED
        BY <2>12, <3>1, <4>4
    <3>4. CASE restock[o].at # b
      <4>1. others[v] = h - r
        BY <1>2, <2>14, <3>2, <3>4
      <4>2. h - k >= i
        BY <2>12, <3>2, <4>1
      <4> QED
        BY <2>12, <3>1, <4>2
    <3> QED
      BY <3>3, <3>4
  <2> QED
    BY <2>13, <2>14
<1> QED
  BY <1>3, <1>4, <1>5

\* A charge reserves in the oldest box of each of its warehouses, what it found free.
LEMMA ChargedReserves ==
  ASSUME RestockAssumption, RestockIInv, RestockTypeOK', ReservedIsThere, NEW c \in Charges, Charged(c)
  PROVE  ReservedIsThere'
<1>1. RestockTypeOK /\ ChargeInv(c) /\ charge[c].stage = "PLANNED"
  BY DEF RestockIInv, ChargesInv, Charged
<1>2. onHand' = onHand /\ \A w \in Groups(c) : CanReserve(c, w)
  BY DEF Charged, stockVars
<1>3. ASSUME NEW w \in Groups(c), NEW d, d = OrderOf(c, w)
      PROVE  /\ d \in Orders /\ restock[d].status = "NONE"
             /\ restock'[d].status = "RESTOCK_REQUESTED" /\ restock'[d].at = FindStock(w)
             /\ restock'[d].lines = AskedOf(c, w)
             /\ FindStock(w) \in Boxes /\ FindStock(w)[1] = w
  <2>1. PICK row : row = [status |-> "RESTOCK_REQUESTED", from |-> w, at |-> FindStock(w),
                          lines |-> AskedOf(c, w), urgent |-> charge[c].urgent,
                          claimed |-> FALSE]
    OBVIOUS
  <2>2. d \in Unused /\ restock'[d] = row
    BY <1>3, <2>1, OrdersAre
  <2>3. FindStock(w) \in ActiveBoxes(w) /\ FindStock(w) \in Boxes
    BY <1>2, OldestBox DEF CanReserve
  <2> QED
    BY <2>1, <2>2, <2>3 DEF Unused, ActiveBoxes
<1>4. ASSUME NEW b \in Boxes PROVE Covers(onHand[b], ReservedIn(b))'
  <2>1. ASSUME NEW d \in Orders, d \in Holders(b)',
               ~(b[1] \in Groups(c) /\ FindStock(b[1]) = b /\ d = OrderOf(c, b[1]))
        PROVE  d \in Holders(b) /\ restock'[d].lines = restock[d].lines
    <3>1. ASSUME NEW w \in Groups(c), d = OrderOf(c, w) PROVE FALSE
      <4>1. restock'[d].at = FindStock(w) /\ FindStock(w)[1] = w
        BY <1>3, <3>1
      <4>2. restock'[d].at = b
        BY <2>1 DEF Holders
      <4> QED
        BY <2>1, <3>1, <4>1, <4>2
    <3>2. restock'[d] = restock[d]
      BY <3>1, OrdersAre
    <3> QED
      BY <2>1, <3>2 DEF Holders
  <2>2. CASE ~(b[1] \in Groups(c) /\ FindStock(b[1]) = b)
    <3>1. \A d \in Holders(b)' : d \in Holders(b) /\ restock'[d].lines = restock[d].lines
      BY <2>1, <2>2 DEF Holders
    <3>2. \A v \in Sizes : ReservedIn(b)'[v] <= ReservedIn(b)[v]
      BY <1>1, <3>1, NoMoreIn
    <3> QED
      BY <1>1, <1>2, <3>2, StillThere
  <2>3. CASE b[1] \in Groups(c) /\ FindStock(b[1]) = b
    <3>1. PICK w \in Groups(c) : w = b[1]
      BY <2>3
    <3>2. PICK o : o = OrderOf(c, w)
      OBVIOUS
    <3>3. /\ o \in Orders /\ restock[o].status = "NONE"
          /\ restock'[o].status = "RESTOCK_REQUESTED" /\ restock'[o].at = b
          /\ restock'[o].lines = AskedOf(c, w)
      BY <1>3, <2>3, <3>1, <3>2
    <3>4. \A d \in Orders \ {o} : d \in Holders(b)' => d \in Holders(b) /\ restock'[d].lines = restock[d].lines
      BY <2>1, <3>1, <3>2
    <3>5. PICK rest \in Units : \A x \in Sizes :
               /\ rest[x] <= ReservedIn(b)[x]
               /\ o \in Holders(b) => rest[x] + restock[o].lines[x] <= ReservedIn(b)[x]
               /\ o \in Holders(b)' => ReservedIn(b)'[x] = rest[x] + restock'[o].lines[x]
               /\ o \notin Holders(b)' => ReservedIn(b)'[x] = rest[x]
      BY <1>1, <3>3, <3>4, ReservedByOthers
    <3>6. o \in Holders(b)'
      BY <3>3 DEF Holders, Reserving
    <3>7. Covers(FreeIn(b), AskedOf(c, w)) /\ AskedOf(c, w) \in Units
      BY <1>1, <1>2, <2>3, <3>1, AskedIs DEF CanReserve
    <3>8. ASSUME NEW v \in Sizes PROVE onHand'[b][v] >= ReservedIn(b)'[v]
      <4>1. PICK i \in Nat : i = rest[v]
        BY DEF Units
      <4>2. PICK r \in Nat : r = ReservedIn(b)[v]
        BY <1>1, ReservedIs DEF Units
      <4>3. PICK h \in Nat : h = onHand[b][v]
        BY <1>1 DEF RestockTypeOK, Units
      <4>4. PICK n \in Nat : n = AskedOf(c, w)[v]
        BY <3>7 DEF Units
      <4>5. FreeIn(b)[v] = h - r /\ FreeIn(b)[v] >= n
        BY <1>1, <3>7, <4>2, <4>3, <4>4, ReservedIs DEF Covers
      <4>6. ReservedIn(b)'[v] = i + n /\ i <= r
        BY <3>3, <3>5, <3>6, <4>1, <4>2, <4>4
      <4>7. h >= i + n
        BY <4>5, <4>6
      <4> QED
        BY <1>2, <4>3, <4>6, <4>7
    <3> QED
      BY <3>8 DEF Covers
  <2> QED
    BY <2>2, <2>3
<1> QED
  BY <1>4 DEF ReservedIsThere

\* The step of a restock that leaves what it reserves as it is, or reserves no more.
LEMMA RowReserves ==
  ASSUME RestockAssumption, RestockTypeOK, RestockTypeOK', ReservedIsThere, onHand' = onHand,
         NEW o \in Orders, NEW from, NEW row, Step(o, from, row),
         row.status \in Reserving => from \in Reserving /\ row.at = restock[o].at /\ row.lines = restock[o].lines
  PROVE  ReservedIsThere'
<1>1. restock[o].status = from /\ restock'[o] = row /\ \A d \in Orders : d # o => restock'[d] = restock[d]
  BY DEF Step, RestockTypeOK
<1> QED
  BY <1>1, NoMoreReserved

LEMMA PrepareReserves ==
  ASSUME RestockAssumption, RestockTypeOK, RestockTypeOK', ReservedIsThere, PrepareStep
  PROVE  ReservedIsThere'
<1>1. PICK o \in Orders : \/ ClaimRestock(o) \/ ReleaseRestock(o) \/ CancelRestock(o)
                          \/ \E found \in [Sizes -> 0 .. MaxSold] : Ready(o, found)
  BY DEF PrepareStep
<1>2. restock[o] \in RestockRow
  BY DEF RestockTypeOK
<1>3. CASE ClaimRestock(o) \/ ReleaseRestock(o)
  <2>1. PICK claimed \in BOOLEAN : Step(o, "RESTOCK_REQUESTED", [restock[o] EXCEPT !.claimed = claimed])
    BY <1>3 DEF ClaimRestock, ReleaseRestock
  <2>2. PICK row : row = [restock[o] EXCEPT !.claimed = claimed]
    OBVIOUS
  <2>3. row.at = restock[o].at /\ row.lines = restock[o].lines
    BY <1>2, <2>2 DEF RestockRow
  <2>4. onHand' = onHand /\ "RESTOCK_REQUESTED" \in Reserving
    BY <1>3 DEF ClaimRestock, ReleaseRestock, stockVars, Reserving
  <2> QED
    BY <2>1, <2>2, <2>3, <2>4, RowReserves
<1>4. CASE CancelRestock(o)
  <2>1. PICK from \in Reserving : Step(o, from, [restock[o] EXCEPT !.status = "CANCELLED"])
    BY <1>4 DEF CancelRestock
  <2>2. PICK row : row = [restock[o] EXCEPT !.status = "CANCELLED"]
    OBVIOUS
  <2>3. row.status \notin Reserving
    BY <1>2, <2>2 DEF RestockRow, Reserving
  <2>4. onHand' = onHand
    BY <1>4 DEF CancelRestock, stockVars
  <2> QED
    BY <2>1, <2>2, <2>3, <2>4, RowReserves
<1>5. CASE \E found \in [Sizes -> 0 .. MaxSold] : Ready(o, found)
  BY <1>5, ReadyReserves
<1> QED
  BY <1>1, <1>3, <1>4, <1>5

LEMMA CarryReserves ==
  ASSUME RestockAssumption, RestockTypeOK, BagInv, RestockTypeOK', ReservedIsThere, CarryStep
  PROVE  ReservedIsThere'
<1>1. CASE \E g \in Bags : SwitchBag(g)
  BY <1>1, NoMoreReserved DEF SwitchBag, stockVars
<1>2. ASSUME NEW o \in Orders, LookForBag(o) PROVE ReservedIsThere'
  BY <1>2, NoMoreReserved DEF LookForBag, stockVars
<1>3. ASSUME NEW o \in Orders, PickUp(o) PROVE ReservedIsThere'
  BY <1>3, PickUpTakesItsOwn
<1>4. ASSUME NEW o \in Orders, NEW to, to \notin Reserving, NEW from,
             Step(o, from, [restock[o] EXCEPT !.status = to]), onHand' = onHand
      PROVE  ReservedIsThere'
  <2>1. PICK row : row = [restock[o] EXCEPT !.status = to]
    OBVIOUS
  <2>2. row.status = to
    BY <2>1 DEF RestockTypeOK, RestockRow
  <2> QED
    BY <1>4, <2>1, <2>2, RowReserves
<1>5. ASSUME NEW o \in Orders, Deliver(o) \/ Receive(o) \/ Finish(o) PROVE ReservedIsThere'
  <2>1. \A to \in {"DELIVERED_TO_STORE", "RECEIVED_BY_STORE", "RESTOCKED"} : to \notin Reserving
    BY DEF Reserving
  <2>2. onHand' = onHand
    BY <1>5 DEF Deliver, Receive, Finish, stockVars
  <2> QED
    BY <1>4, <1>5, <2>1, <2>2 DEF Deliver, Receive, Finish
<1> QED
  BY <1>1, <1>2, <1>3, <1>5 DEF CarryStep

LEMMA BackReserves ==
  ASSUME RestockAssumption, RestockTypeOK, RestockTypeOK', ReservedIsThere, BackStep
  PROVE  ReservedIsThere'
<1>1. CASE (\E v \in Sizes : ComeBack(v)) \/ \E S \in SUBSET Sizes : TakeFromBin(S)
  BY <1>1, NoMoreReserved DEF ComeBack, TakeFromBin, stockVars
<1>2. CASE KeepInStore
  <2>1. PICK fall : fall = Falls(keeping.read, Moved)
    OBVIOUS
  <2>2. /\ onHand' = onHand
        /\ restock' = [o \in Orders |-> IF o \in fall THEN [restock[o] EXCEPT !.status = "CANCELLED"] ELSE restock[o]]
    BY <1>2, <2>1, KeepInStoreIs DEF stockVars
  <2>3. ASSUME NEW o \in Orders, restock'[o].status \in Reserving PROVE restock'[o] = restock[o]
    <3>1. restock[o] \in RestockRow
      BY DEF RestockTypeOK
    <3>2. [restock[o] EXCEPT !.status = "CANCELLED"].status = "CANCELLED"
      BY <3>1 DEF RestockRow
    <3> QED
      BY <2>2, <2>3, <3>2 DEF Reserving
  <2> QED
    BY <2>2, <2>3, NoMoreReserved
<1> QED
  BY <1>1, <1>2 DEF BackStep

LEMMA ChargeStepReserves ==
  ASSUME RestockAssumption, RestockIInv, RestockTypeOK', ReservedIsThere, ChargeStep
  PROVE  ReservedIsThere'
<1>1. RestockTypeOK
  BY DEF RestockIInv
<1>2. ASSUME NEW c \in Charges,
             Plan(c) \/ Undone(c) \/ \E units \in [Sizes -> 0 .. MaxSold] : Choose(c, units)
      PROVE  ReservedIsThere'
  BY <1>1, <1>2, NoMoreReserved DEF Plan, Undone, Choose, stockVars
<1>3. ASSUME NEW c \in Charges, Charged(c) PROVE ReservedIsThere'
  BY <1>3, ChargedReserves
<1>4. CASE \E b \in Boxes : SwitchBox(b)
  BY <1>1, <1>4, NoMoreReserved DEF SwitchBox
<1>5. CASE \E b \in Boxes, v \in Sizes : TakeElsewhere(b, v)
  BY <1>1, <1>5, TakeElsewhereLeaves
<1>6. CASE \E m \in Range(ModelOf), n \in Minimums : SetMinimum(m, n)
  BY <1>1, <1>6, NoMoreReserved DEF SetMinimum, stockVars
<1> QED
  BY <1>2, <1>3, <1>4, <1>5, <1>6 DEF ChargeStep

\* At first nothing is reserved.
LEMMA NothingReserved ==
  ASSUME RestockAssumption, RestockInit, RestockIInv
  PROVE  ReservedIsThere
<1>1. ASSUME NEW b \in Boxes PROVE Covers(onHand[b], ReservedIn(b))
  <2>1. Holders(b) = {}
    BY DEF RestockInit, Holders, Reserving
  <2>2. ReservedIn(b) = NoUnits
    BY <2>1, ReservedOf, LinesAre, TotalEmpty DEF RestockIInv
  <2>3. \A v \in Sizes : onHand[b][v] \in Nat
    BY DEF RestockIInv, RestockTypeOK, Units
  <2> QED
    BY <2>2, <2>3 DEF Covers, NoUnits
<1> QED
  BY <1>1 DEF ReservedIsThere

\* Whatever charges, counts, pick-ups and other documents do at once, and whichever box
\* of a warehouse is in use, what the restocks reserve in each box is in it.
THEOREM ReservedStaysThere == RestockSpec => []ReservedIsThere
<1>1. RestockInit => RestockIInv /\ ReservedIsThere
  BY RestockAssumption, RestockStarts, NothingReserved
<1>2. RestockIInv /\ ReservedIsThere /\ [RestockNext]_restockVars => ReservedIsThere'
  <2>1. SUFFICES ASSUME RestockIInv, ReservedIsThere, [RestockNext]_restockVars PROVE ReservedIsThere'
    OBVIOUS
  <2>2. RestockTypeOK /\ BagInv /\ RestockTypeOK'
    BY <2>1, RestockAssumption, RestockStays, RestockSteps DEF RestockIInv
  <2>3. CASE UNCHANGED restockVars
    BY <2>1, <2>2, <2>3, RestockAssumption, NoMoreReserved DEF restockVars, stockVars
  <2>4. CASE RestockNext
    BY <2>1, <2>2, <2>4, RestockAssumption, ChargeStepReserves, PrepareReserves, CarryReserves, BackReserves
       DEF RestockNext
  <2> QED
    BY <2>1, <2>3, <2>4
<1> QED
  BY <1>1, <1>2, RestocksKeepTheirWord, PTL DEF RestockSpec

-----------------------------------------------------------------------------
(* What the runs check *)

\* The bag a runner's goods are in is the one they will be received from.
LEMMA OneBag ==
  ASSUME RestockAssumption, RestockIInv, ReservedIsThere
  PROVE  RestocksAddUp
<1>1. BagInv
  BY DEF RestockIInv
<1>2. ASSUME ~disturbed, InHand # {}
      PROVE  ActiveBags # {} /\ bag[Next1(ActiveBags)].units = Total(RestockLines, InHand)
  <2>1. ActiveBags # {}
    BY <1>1, <1>2 DEF BagInv
  <2>2. ActiveBags \in SUBSET Nat
    BY DEF ActiveBags, RestockAssumption
  <2>3. Next1(ActiveBags) \in ActiveBags
    BY <2>1, <2>2, First
  <2> QED
    BY <1>1, <1>2, <2>1, <2>3 DEF BagInv
<1>3. BagFoundAgain
  BY <1>2, Zenon DEF BagFoundAgain, InHand
<1> QED
  BY <1>3 DEF RestocksAddUp, RestockIInv

\* The goods of a restock are where its status says: in the box that reserves them, or
\* in the bag they will be received from; and what comes back cancels no more restock
\* than it is.
THEOREM GoodsAreWhereTheyAreSaid == RestockSpec => []RestocksAddUp
<1>1. RestockIInv /\ ReservedIsThere => RestocksAddUp
  BY RestockAssumption, OneBag
<1> QED
  BY <1>1, RestocksKeepTheirWord, ReservedStaysThere, PTL

\* What a step does to kept: only keeping the bin in the store changes it.
LEMMA OnlyKeepingKeeps ==
  ASSUME RestockNext, kept' # kept
  PROVE  KeepInStore
<1>1. CASE ChargeStep
  BY <1>1 DEF ChargeStep, Choose, Plan, Charged, Undone, SwitchBox, TakeElsewhere, SetMinimum, binVars
<1>2. CASE PrepareStep
  BY <1>2 DEF PrepareStep, ClaimRestock, ReleaseRestock, Ready, CancelRestock, binVars
<1>3. CASE CarryStep
  BY <1>3 DEF CarryStep, LookForBag, PickUp, Deliver, Receive, Finish, SwitchBag, binVars
<1>4. CASE BackStep
  BY <1>4 DEF BackStep, ComeBack, TakeFromBin
<1> QED
  BY <1>1, <1>2, <1>3, <1>4 DEF RestockNext

LEMMA TouchedStays ==
  ASSUME RestockAssumption, RestockIInv, RestockNext, kept' # kept, NEW o \in Orders,
         restock'[o].status = "CANCELLED"
  PROVE  restock[o].status \in {"RESTOCK_REQUESTED", "CANCELLED"}
<1>1. KeepInStore /\ RestockTypeOK
  BY OnlyKeepingKeeps DEF RestockIInv
<1>2. PICK fall : fall = Falls(keeping.read, Moved)
  OBVIOUS
<1>3. /\ \A d \in fall : restock[d].status = "RESTOCK_REQUESTED"
      /\ restock' = [d \in Orders |-> IF d \in fall THEN [restock[d] EXCEPT !.status = "CANCELLED"] ELSE restock[d]]
  BY <1>1, <1>2, KeepInStoreIs
<1> QED
  BY <1>3

\* Keeping what came back in the store cancels no restock that was made ready or is on
\* its way, whatever happened between reading the orders and locking them.
THEOREM NobodysWorkIsThrownAway == RestockSpec => TouchedRestockGoesOn
<1> DEFINE P == \A o \in Orders : kept' # kept /\ restock'[o].status = "CANCELLED" =>
                    restock[o].status \in {"RESTOCK_REQUESTED", "CANCELLED"}
<1>1. RestockIInv /\ [RestockNext]_restockVars => [P]_restockVars
  BY RestockAssumption, TouchedStays
<1>2. TouchedRestockGoesOn <=> [][P]_restockVars
  BY Zenon DEF TouchedRestockGoesOn
<1> HIDE DEF P
<1> QED
  BY <1>1, <1>2, RestocksKeepTheirWord, PTL DEF RestockSpec
\* Only a charge that ends sells.
LEMMA OnlyChargesSell ==
  ASSUME RestockIInv, RestockNext, sold' # sold, NEW c \in Charges,
         charge[c].stage = "PLANNED", charge'[c].stage = "NONE"
  PROVE  Charged(c)
<1>1. PICK d \in Charges : Charged(d)
  <2>1. CASE ChargeStep
    BY <2>1 DEF ChargeStep, Choose, Plan, Undone, SwitchBox, TakeElsewhere, SetMinimum, chargeVars
  <2>2. CASE PrepareStep
    BY <2>2 DEF PrepareStep, ClaimRestock, ReleaseRestock, Ready, CancelRestock, chargeVars
  <2>3. CASE CarryStep
    BY <2>3 DEF CarryStep, LookForBag, PickUp, Deliver, Receive, Finish, SwitchBag, chargeVars
  <2>4. CASE BackStep
    BY <2>4 DEF BackStep, ComeBack, TakeFromBin, KeepInStore, chargeVars
  <2> QED
    BY <2>1, <2>2, <2>3, <2>4 DEF RestockNext
<1>2. charge' = [charge EXCEPT ![d] = NoCharge] /\ DOMAIN charge = Charges
  BY <1>1 DEF Charged, RestockIInv, ChargesInv
<1>3. d = c
  BY <1>2
<1> QED
  BY <1>1, <1>3

\* What NoGapForgotten asks of the size v that charge c sold.
Answered(c, v) ==
    \/ v \notin DOMAIN charge[c].lines /\ v \in informed'
    \/ \E x \in Sizes :
          /\ v \in DOMAIN charge[c].lines /\ x = charge[c].lines[v].source
          /\ ModelOf[x] = ModelOf[v]
          /\ \/ x \in informed'
             \/ \E o \in Orders :
                   /\ restock[o].status = "NONE"
                   /\ restock'[o].status = "RESTOCK_REQUESTED"
                   /\ restock'[o].lines[x] >= charge[c].needed[v]

LEMMA GapAnswered ==
  ASSUME RestockAssumption, RestockIInv, NEW c \in Charges, Charged(c),
         NEW v \in DOMAIN charge[c].needed
  PROVE  Answered(c, v)
<1>1. /\ charge[c].stage = "PLANNED" /\ ChargeInv(c) /\ informed' = charge[c].unsolved
  BY DEF Charged, NotifyRestockNeeded, RestockIInv, ChargesInv
<1>2. CASE v \notin DOMAIN charge[c].lines
  BY <1>1, <1>2 DEF ChargeInv, Answered
<1>3. CASE v \in DOMAIN charge[c].lines
  <2>1. PICK x : x = charge[c].lines[v].source
    OBVIOUS
  <2>2. /\ x \in Sizes /\ ModelOf[x] = ModelOf[v]
        /\ charge[c].lines[v].quantity = charge[c].needed[v]
    BY <1>1, <1>3, <2>1 DEF ChargeInv
  <2>3. CASE v \notin DOMAIN charge[c].plan
    <3>1. x \in informed'
      BY <1>1, <1>3, <2>1, <2>3 DEF ChargeInv
    <3> QED
      BY <1>3, <2>1, <2>2, <3>1 DEF Answered
  <2>4. CASE v \in DOMAIN charge[c].plan
    <3>1. PICK w : w = charge[c].plan[v]
      OBVIOUS
    <3>2. w \in Groups(c)
      BY <2>4, <3>1 DEF Groups, Range
    <3>3. AskedOf(c, w)[x] >= charge[c].needed[v]
      BY <1>1, <2>1, <2>2, <2>4, <3>1, AskedIs
    <3>4. PICK row : row = [status |-> "RESTOCK_REQUESTED", from |-> w, at |-> FindStock(w),
                            lines |-> AskedOf(c, w), urgent |-> charge[c].urgent,
                            claimed |-> FALSE]
      OBVIOUS
    <3>5. PICK o : o = OrderOf(c, w)
      OBVIOUS
    <3>6. o \in Unused /\ restock'[o] = row
      BY <3>2, <3>4, <3>5, OrdersAre
    <3>7. o \in Orders /\ restock[o].status = "NONE"
      BY <3>6 DEF Unused
    <3>8. restock'[o].status = "RESTOCK_REQUESTED" /\ restock'[o].lines = AskedOf(c, w)
      BY <3>4, <3>6
    <3> QED
      BY <1>3, <2>1, <2>2, <3>3, <3>7, <3>8 DEF Answered
  <2> QED
    BY <2>3, <2>4
<1> QED
  BY <1>2, <1>3

\* Every size that a charge left short is asked of a warehouse, in the size chosen for
\* it, or named to the administrators: no warehouse losing it between the reading and
\* the reservation makes the charge forget it.
THEOREM EveryGapIsAnswered == RestockSpec => NoGapForgotten
<1> DEFINE P == \A c \in Charges :
        charge[c].stage = "PLANNED" /\ charge'[c].stage = "NONE" /\ sold' # sold =>
            \A v \in DOMAIN charge[c].needed : Answered(c, v)
<1>1. RestockIInv /\ RestockNext => P
  <2>1. SUFFICES ASSUME RestockIInv, RestockNext, NEW c \in Charges, charge[c].stage = "PLANNED",
                        charge'[c].stage = "NONE", sold' # sold, NEW v \in DOMAIN charge[c].needed
                 PROVE  Answered(c, v)
    BY Zenon
  <2>2. Charged(c)
    BY <2>1, OnlyChargesSell
  <2> QED
    BY <2>1, <2>2, RestockAssumption, GapAnswered
<1>2. NoGapForgotten <=> [][P]_restockVars
  BY Zenon DEF NoGapForgotten, Answered
<1> HIDE DEF P
<1>3. RestockIInv /\ [RestockNext]_restockVars => [P]_restockVars
  BY <1>1
<1> QED
  BY <1>2, <1>3, RestocksKeepTheirWord, PTL DEF RestockSpec
=============================================================================
