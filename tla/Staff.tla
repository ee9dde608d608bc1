-------------------------------- MODULE Staff --------------------------------
(***************************************************************************)
(* The people of a company and where they work: accounts, the roles they   *)
(* hold in each company, the permissions of each role, the stores with     *)
(* their registers, who works in which store, and the shifts that are      *)
(* opened for a cashier.                                                   *)
(*                                                                         *)
(* Transactions of several statements that others can overtake are two     *)
(* steps: the first takes the locks and decides, the second commits.       *)
(* Operations whose locks exclude every operation that matters to them are *)
(* one step.  Users of the platform (role of scope GLOBAL), which no       *)
(* company sees or touches, and everything about passwords and tokens are  *)
(* left out.                                                               *)
(***************************************************************************)
EXTENDS Naturals, FiniteSets

CONSTANTS
    Users, Companies, Roles,
    Stores,          \* locations of type STORE
    Owner,           \* Owner[s]: the company of store s
    MaxRegisters,    \* bound of the registers of a store
    Clients,         \* requests that may be in progress at the same time
    None

ASSUME StaffAssumption ==
    /\ Owner \in [Stores -> Companies] /\ MaxRegisters \in Nat \ {0}
    /\ None \notin Users

VARIABLES
    account,   \* rows of users: status
    role,      \* rows of user_company_roles, by company, user and role
    grant,     \* rows of role_permissions: the permissions of a role in a company
    asked,     \* requests that were allowed and have not begun their transaction
    working,   \* transactions in progress: what they lock and will commit
    store,     \* rows of locations: status
    register,  \* rows of cash_registers, by store and number of their code
    access,    \* rows of user_location_access, by store and user
    shift,     \* the cashier of the open shift of each register, or None
    late       \* registers created while somebody's access to the store was going

accountVars == <<account, role, grant>>
counterVars == <<store, register, access, shift, late>>
staffVars == <<account, role, grant, asked, working, store, register, access, shift, late>>

-----------------------------------------------------------------------------
(* Rows *)

Status == {"NONE", "ACTIVE", "INACTIVE"}
Permissions == {"users.manage", "settings.manage", "cash.register_payment"}
Governs == {"users.manage", "settings.manage"}
Numbers == 1 .. MaxRegisters
Registers == Stores \X Numbers

\* checked: what was read about the user before the transaction (findManageable
\* of an account, canCollect of a cashier).  holds: the actor's permissions.
AskedRow == [op: {"ACCOUNT", "OPENING"}, in: Companies, by: Users \cup {None},
             holds: SUBSET Permissions, user: Users, checked: BOOLEAN]

\* A transaction: what it changes, and the registers it has locked.
WorkingRow ==
    [op: {"DEACTIVATE", "CHANGE_ROLE", "REMOVE_ROLE", "REMOVE_PERMISSION", "OPEN", "REMOVE_ACCESS"},
     in: Companies, user: Users \cup {None}, role: Roles \cup {None},
     permission: Permissions \cup {None}, registers: SUBSET Registers]

StaffTypeOK ==
    /\ account \in [Users -> Status]
    /\ role \in [Companies -> [Users -> [Roles -> Status]]]
    /\ grant \in [Companies -> [Roles -> SUBSET Permissions]]
    /\ asked \in [Clients -> AskedRow \cup {None}]
    /\ working \in [Clients -> WorkingRow \cup {None}]
    /\ store \in [Stores -> Status]
    /\ register \in [Stores -> [Numbers -> Status]]
    /\ access \in [Stores -> [Users -> Status]]
    /\ shift \in [Registers -> Users \cup {None}]
    /\ late \subseteq Registers

-----------------------------------------------------------------------------
(* Who may do what *)

\* permissionCodesOfUser
Codes(co, u) == UNION {grant[co][r] : r \in {x \in Roles : role[co][u][x] = "ACTIVE"}}

IsMember(co, u) == \E r \in Roles : role[co][u][r] # "NONE"

\* countCompanyAdmins, over the rows given
AdminsIf(co, accounts, roles, grants) ==
    {u \in Users : /\ accounts[u] = "ACTIVE"
                   /\ \E r \in Roles : roles[co][u][r] = "ACTIVE" /\ Governs \subseteq grants[co][r]}

Admins(co) == AdminsIf(co, account, role, grant)

\* findManageable: a member, of no other company, with no more permissions than the actor.
Manageable(co, actor, holds, u) ==
    /\ IsMember(co, u)
    /\ \A other \in Companies \ {co} : \A r \in Roles : role[other][u][r] # "ACTIVE"
    /\ u # actor => Codes(co, u) \subseteq holds

Free(c) == asked[c] = None /\ working[c] = None

\* The guards let the request in with the permissions the actor has now.
AskAccount(c, co, actor, u) ==
    /\ Free(c)
    /\ account[actor] = "ACTIVE" /\ Codes(co, actor) \cap Governs # {}
    /\ asked' = [asked EXCEPT ![c] =
           [op |-> "ACCOUNT", in |-> co, by |-> actor, holds |-> Codes(co, actor), user |-> u,
            checked |-> Manageable(co, actor, Codes(co, actor), u)]]
    /\ UNCHANGED <<accountVars, working, counterVars>>

\* A request that is refused changes nothing.
Refuse(c) ==
    /\ asked[c] # None
    /\ asked' = [asked EXCEPT ![c] = None]
    /\ UNCHANGED <<accountVars, working, counterVars>>

Asking(c, permission) == asked[c] # None /\ asked[c].op = "ACCOUNT" /\ permission \in asked[c].holds

-----------------------------------------------------------------------------
(* What takes an administrator away *)

AccountsAfter(t) ==
    IF t.op = "DEACTIVATE" THEN [account EXCEPT ![t.user] = "INACTIVE"] ELSE account

RolesAfter(t) ==
    CASE t.op = "REMOVE_ROLE" -> [role EXCEPT ![t.in][t.user][t.role] = "INACTIVE"]
      [] t.op = "CHANGE_ROLE" ->
            [role EXCEPT ![t.in][t.user] =
                [r \in Roles |-> IF r = t.role THEN "ACTIVE"
                                 ELSE IF @[r] = "ACTIVE" THEN "INACTIVE" ELSE @[r]]]
      [] OTHER -> role

GrantsAfter(t) ==
    IF t.op = "REMOVE_PERMISSION" THEN [grant EXCEPT ![t.in][t.role] = @ \ {t.permission}] ELSE grant

\* assertStillHasAdmin: counted before and after the change, inside its transaction.
StillHasAdmin(t) ==
    Admins(t.in) # {} => AdminsIf(t.in, AccountsAfter(t), RolesAfter(t), GrantsAfter(t)) # {}

Leaving == {"DEACTIVATE", "CHANGE_ROLE", "REMOVE_ROLE", "REMOVE_PERMISSION"}

\* Mutant: the company is not locked.
NoCompanyLock(co) == TRUE

\* lockCompany
CompanyFree(co) ==
    \A d \in Clients : working[d] # None => ~(working[d].op \in Leaving /\ working[d].in = co)

AccountFree(u) ==
    \A d \in Clients : working[d] # None => ~(working[d].op = "DEACTIVATE" /\ working[d].user = u)

HasOpenShift(u) == \E k \in Registers : shift[k] = u

\* The transaction has its locks, made its change and counted: it only has to commit.
Begin(c, t) ==
    /\ CompanyFree(t.in) /\ StillHasAdmin(t)
    /\ working' = [working EXCEPT ![c] = t]
    /\ asked' = [asked EXCEPT ![c] = None]
    /\ UNCHANGED <<accountVars, counterVars>>

Change(c, op, u, r, p) ==
    [op |-> op, in |-> asked[c].in, user |-> u, role |-> r, permission |-> p, registers |-> {}]

Deactivate(c) ==
    /\ Asking(c, "users.manage") /\ asked[c].checked
    /\ asked[c].user # asked[c].by /\ AccountFree(asked[c].user)
    /\ ~HasOpenShift(asked[c].user)
    /\ Begin(c, Change(c, "DEACTIVATE", asked[c].user, None, None))

ChangeRole(c, r) ==
    LET a == asked[c] IN
    /\ Asking(c, "users.manage") /\ a.user # a.by
    /\ grant[a.in][r] \subseteq a.holds /\ IsMember(a.in, a.user)
    /\ Codes(a.in, a.user) \subseteq a.holds
    /\ Begin(c, Change(c, "CHANGE_ROLE", a.user, r, None))

RemoveRole(c, r) ==
    LET a == asked[c] IN
    /\ Asking(c, "users.manage") /\ a.user # a.by
    /\ role[a.in][a.user][r] # "NONE" /\ Codes(a.in, a.user) \subseteq a.holds
    /\ Begin(c, Change(c, "REMOVE_ROLE", a.user, r, None))

RemovePermission(c, r, p) ==
    /\ Asking(c, "settings.manage") /\ p \in grant[asked[c].in][r]
    /\ Begin(c, Change(c, "REMOVE_PERMISSION", None, r, p))

CommitLeaving(c) ==
    /\ working[c] # None /\ working[c].op \in Leaving
    /\ account' = AccountsAfter(working[c])
    /\ role' = RolesAfter(working[c])
    /\ grant' = GrantsAfter(working[c])
    /\ working' = [working EXCEPT ![c] = None]
    /\ UNCHANGED <<asked, counterVars>>

-----------------------------------------------------------------------------
(* What never takes one away *)

Done(c) == asked' = [asked EXCEPT ![c] = None] /\ UNCHANGED <<working, counterVars>>

\* Activating locks the account alone.
Activate(c) ==
    /\ Asking(c, "users.manage") /\ asked[c].checked /\ AccountFree(asked[c].user)
    /\ account' = [account EXCEPT ![asked[c].user] = "ACTIVE"]
    /\ UNCHANGED <<role, grant>> /\ Done(c)

\* A new account enters with one role.
CreateUser(c, r) ==
    LET a == asked[c] IN
    /\ Asking(c, "users.manage") /\ account[a.user] = "NONE"
    /\ grant[a.in][r] \subseteq a.holds
    /\ account' = [account EXCEPT ![a.user] = "ACTIVE"]
    /\ role' = [role EXCEPT ![a.in][a.user][r] = "ACTIVE"]
    /\ UNCHANGED grant /\ Done(c)

AddRole(c, r) ==
    LET a == asked[c] IN
    /\ Asking(c, "users.manage") /\ CompanyFree(a.in)
    /\ grant[a.in][r] \subseteq a.holds /\ IsMember(a.in, a.user)
    /\ role[a.in][a.user][r] # "ACTIVE"
    /\ role' = [role EXCEPT ![a.in][a.user][r] = "ACTIVE"]
    /\ UNCHANGED <<account, grant>> /\ Done(c)

\* Giving a permission does not lock the company.
GrantPermission(c, r, p) ==
    LET a == asked[c] IN
    /\ Asking(c, "settings.manage") /\ p \in a.holds \ grant[a.in][r]
    /\ grant' = [grant EXCEPT ![a.in][r] = @ \cup {p}]
    /\ UNCHANGED <<account, role>> /\ Done(c)

-----------------------------------------------------------------------------
(* Stores and registers *)

RegisterFree(k) == \A d \in Clients : working[d] # None => k \notin working[d].registers

RegistersOf(s) == {k \in Registers : k[1] = s /\ register[s][k[2]] # "NONE"}

OpenShifts(s) == {k \in RegistersOf(s) : shift[k] # None}

UnchangedPeople == UNCHANGED <<accountVars, asked, working>>

\* A store is born with its register C1.
CreateStore(s) ==
    /\ store[s] = "NONE"
    /\ store' = [store EXCEPT ![s] = "ACTIVE"]
    /\ register' = [register EXCEPT ![s][1] = "ACTIVE"]
    /\ UnchangedPeople /\ UNCHANGED <<access, shift, late>>

\* nextCashRegisterCode: the number after the highest, under the lock of the store.
CreateRegister(s, n) ==
    /\ store[s] = "ACTIVE" /\ register[s][n] = "NONE"
    /\ \A m \in Numbers : m < n <=> register[s][m] # "NONE"
    /\ register' = [register EXCEPT ![s][n] = "ACTIVE"]
    /\ late' = IF \E d \in Clients : working[d] # None /\ working[d].op = "REMOVE_ACCESS"
                                      /\ \E k \in working[d].registers : k[1] = s
               THEN late \cup {<<s, n>>} ELSE late
    /\ UnchangedPeople /\ UNCHANGED <<store, access, shift>>

DeactivateRegister(k) ==
    /\ register[k[1]][k[2]] # "NONE" /\ RegisterFree(k) /\ shift[k] = None
    /\ register' = [register EXCEPT ![k[1]][k[2]] = "INACTIVE"]
    /\ UnchangedPeople /\ UNCHANGED <<store, access, shift, late>>

ActivateRegister(k) ==
    /\ register[k[1]][k[2]] # "NONE" /\ RegisterFree(k)
    /\ register' = [register EXCEPT ![k[1]][k[2]] = "ACTIVE"]
    /\ UnchangedPeople /\ UNCHANGED <<store, access, shift, late>>

\* Mutant: the store is deactivated without waiting for the openings in progress.
DeactivateStoreNow(s) ==
    /\ store[s] # "NONE" /\ OpenShifts(s) = {}
    /\ store' = [store EXCEPT ![s] = "INACTIVE"]
    /\ UnchangedPeople /\ UNCHANGED <<register, access, shift, late>>

\* lockLocation, then lockStoreRegisters
DeactivateStore(s) ==
    /\ store[s] # "NONE"
    /\ \A k \in RegistersOf(s) : RegisterFree(k)
    /\ OpenShifts(s) = {}
    /\ store' = [store EXCEPT ![s] = "INACTIVE"]
    /\ UnchangedPeople /\ UNCHANGED <<register, access, shift, late>>

ActivateStore(s) ==
    /\ store[s] = "INACTIVE"
    /\ store' = [store EXCEPT ![s] = "ACTIVE"]
    /\ UnchangedPeople /\ UNCHANGED <<register, access, shift, late>>

-----------------------------------------------------------------------------
(* Who works where *)

\* Access is given once to an active member, and switched on and off afterwards.
GiveAccess(s, u) ==
    /\ store[s] # "NONE"
    /\ access[s][u] = "NONE" => \E r \in Roles : role[Owner[s]][u][r] = "ACTIVE"
    /\ access[s][u] # "ACTIVE"
    /\ access' = [access EXCEPT ![s][u] = "ACTIVE"]
    /\ UnchangedPeople /\ UNCHANGED <<store, register, shift, late>>

\* Locks the registers the store has now, and looks for an open shift.
RemoveAccess(c, s, u) ==
    /\ Free(c) /\ access[s][u] # "NONE" /\ RegistersOf(s) # {}
    /\ \A k \in RegistersOf(s) : RegisterFree(k) /\ shift[k] # u
    /\ working' = [working EXCEPT ![c] =
           [op |-> "REMOVE_ACCESS", in |-> Owner[s], user |-> u, role |-> None,
            permission |-> None, registers |-> RegistersOf(s)]]
    /\ UNCHANGED <<accountVars, asked, counterVars>>

CommitAccess(c) ==
    /\ working[c] # None /\ working[c].op = "REMOVE_ACCESS"
    /\ access' = [s \in Stores |->
           IF \E k \in working[c].registers : k[1] = s
           THEN [access[s] EXCEPT ![working[c].user] = "INACTIVE"] ELSE access[s]]
    /\ working' = [working EXCEPT ![c] = None]
    /\ UNCHANGED <<accountVars, asked, store, register, shift, late>>

-----------------------------------------------------------------------------
(* Opening a shift *)

\* canCollect is asked before the transaction.
AskOpening(c, co, cashier) ==
    /\ Free(c) /\ "cash.register_payment" \in Codes(co, cashier)
    /\ asked' = [asked EXCEPT ![c] =
           [op |-> "OPENING", in |-> co, by |-> None, holds |-> {}, user |-> cashier,
            checked |-> TRUE]]
    /\ UNCHANGED <<accountVars, working, counterVars>>

\* With the register locked, reads again all it depends on.
BeginOpening(c, k) ==
    LET u == asked[c].user IN
    /\ asked[c] # None /\ asked[c].op = "OPENING" /\ Owner[k[1]] = asked[c].in
    /\ RegisterFree(k) /\ register[k[1]][k[2]] = "ACTIVE"
    /\ account[u] = "ACTIVE" /\ access[k[1]][u] = "ACTIVE" /\ store[k[1]] = "ACTIVE"
    /\ shift[k] = None /\ ~HasOpenShift(u)
    /\ working' = [working EXCEPT ![c] =
           [op |-> "OPEN", in |-> asked[c].in, user |-> u, role |-> None, permission |-> None,
            registers |-> {k}]]
    /\ asked' = [asked EXCEPT ![c] = None]
    /\ UNCHANGED <<accountVars, counterVars>>

\* The unique indexes admit one open shift of a register and one of a cashier.
CommitOpening(c) ==
    LET u == working[c].user IN
    /\ working[c] # None /\ working[c].op = "OPEN"
    /\ shift' = IF HasOpenShift(u) THEN shift
                ELSE [k \in Registers |-> IF k \in working[c].registers THEN u ELSE shift[k]]
    /\ working' = [working EXCEPT ![c] = None]
    /\ UNCHANGED <<accountVars, asked, store, register, access, late>>

CloseShift(k) ==
    /\ shift[k] # None
    /\ shift' = [shift EXCEPT ![k] = None]
    /\ UnchangedPeople /\ UNCHANGED <<store, register, access, late>>

-----------------------------------------------------------------------------
(* Specification *)

\* Companies have an administrator of their own; people hold a role in one or more.
StaffInit ==
    /\ account \in [Users -> {"NONE", "ACTIVE"}]
    /\ role \in [Companies -> [Users -> [Roles -> Status]]]
    /\ \A u \in Users : account[u] = "NONE" <=> \A co \in Companies : ~IsMember(co, u)
    /\ grant \in [Companies -> [Roles -> SUBSET Permissions]]
    /\ \A co \in Companies : Admins(co) # {}
    /\ asked = [c \in Clients |-> None]
    /\ working = [c \in Clients |-> None]
    /\ store = [s \in Stores |-> "NONE"]
    /\ register = [s \in Stores |-> [n \in Numbers |-> "NONE"]]
    /\ access = [s \in Stores |-> [u \in Users |-> "NONE"]]
    /\ shift = [k \in Registers |-> None]
    /\ late = {}

AccountStep ==
    \E c \in Clients :
        \/ \E co \in Companies, actor \in Users, u \in Users : AskAccount(c, co, actor, u)
        \/ Refuse(c)
        \/ Deactivate(c)
        \/ Activate(c)
        \/ CommitLeaving(c)

\* permissions: those that are given and taken away.
RoleStep(permissions) ==
    \E c \in Clients, r \in Roles :
        \/ ChangeRole(c, r)
        \/ RemoveRole(c, r)
        \/ CreateUser(c, r)
        \/ AddRole(c, r)
        \/ \E p \in permissions : RemovePermission(c, r, p) \/ GrantPermission(c, r, p)

CounterStep ==
    \/ \E s \in Stores :
        \/ CreateStore(s)
        \/ \E n \in Numbers : CreateRegister(s, n)
        \/ DeactivateStore(s)
        \/ ActivateStore(s)
        \/ \E u \in Users : GiveAccess(s, u) \/ \E c \in Clients : RemoveAccess(c, s, u)
    \/ \E k \in Registers : DeactivateRegister(k) \/ ActivateRegister(k) \/ CloseShift(k)
    \/ \E c \in Clients :
        \/ \E co \in Companies, u \in Users : AskOpening(c, co, u)
        \/ \E k \in Registers : BeginOpening(c, k)
        \/ CommitOpening(c)
        \/ CommitAccess(c)

StaffNext == AccountStep \/ RoleStep(Permissions) \/ CounterStep

StaffSpec == StaffInit /\ [][StaffNext]_staffVars

-----------------------------------------------------------------------------
(* Properties *)

\* A company whose people work for no other.
OfItsOwn(co) ==
    \A u \in Users : IsMember(co, u) => \A other \in Companies \ {co} : ~IsMember(other, u)

\* No operation leaves a company without an administrator (LAST_ADMIN_MESSAGE of
\* company-admins): each transaction counts on a state that others are changing,
\* and two administrators may be removing each other.  An account that works for
\* two companies escapes: that it is active in no other is read before the lock.
CompanyKeepsAnAdmin == \A co \in Companies : OfItsOwn(co) => Admins(co) # {}

\* While a shift is open its register and its store are in service, whatever was
\* being deactivated while it was opened (open, lockStoreRegisters).
OpenShiftInService ==
    \A k \in Registers : shift[k] # None =>
        register[k[1]][k[2]] = "ACTIVE" /\ store[k[1]] = "ACTIVE"

\* The cashier of an open shift works in its store (UserLocationAccessService
\* .deactivate); only a register created while the access was being removed, which
\* that removal has not locked, escapes.
CashierWorksThere ==
    \A k \in Registers \ late : shift[k] # None => access[k[1]][shift[k]] = "ACTIVE"

\* An open shift is attended: its store, its register and the access of its cashier
\* are in force.
OpenShiftIsAttended == StaffTypeOK /\ OpenShiftInService /\ CashierWorksThere
=============================================================================
