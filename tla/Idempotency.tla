----------------------------- MODULE Idempotency -----------------------------
(***************************************************************************)
(* The idempotency keys of the mutations (idempotency.ts): a user's action *)
(* is done once although its request arrives several times, at the same    *)
(* time or days apart.                                                     *)
(*                                                                         *)
(* A request runs in one transaction.  Most operations are just wrapped in *)
(* runIdempotent, which claims the key first and works afterwards.  A cash *)
(* movement (CashMovementService.register) locks its shift first, looks    *)
(* for the key twice, and claims it last, when the code was accepted.      *)
(*                                                                         *)
(* A key stands for the whole unique index: company, user, operation and   *)
(* the key the client sent.  A print stands for the fingerprint of what it *)
(* asked for.                                                              *)
(***************************************************************************)
EXTENDS Integers, FiniteSets

CONSTANTS
    Requests,      \* the requests that arrive, each in a transaction of its own
    WrappedKeys,   \* keys of the operations that are only wrapped
    MovementKeys,  \* keys of registerCashMovement
    Prints,        \* fingerprints of inputs
    Shifts,        \* shifts the movements are asked for
    ShiftOf,       \* the shift an input names: part of what is fingerprinted
    Retention,     \* IDEMPOTENCY_RETENTION_DAYS
    MaxDay,        \* bound of the calendar
    None

Keys == WrappedKeys \cup MovementKeys

ASSUME ConstantsAssumption ==
    /\ WrappedKeys \cap MovementKeys = {}
    /\ ShiftOf \in [Prints -> Shifts]
    /\ Retention \in Nat
    /\ MaxDay \in Nat
    /\ None \notin Requests

VARIABLES
    row,        \* committed rows of idempotency_keys, None where there is none
    claim,      \* who has inserted the row of a key and has not committed yet
    request,    \* where each request is, and what it was answered
    performed,  \* the operations committed: whose, and on which day
    shift,      \* of each shift: open or not, and who holds its row locked
    day         \* today

vars == <<row, claim, request, performed, shift, day>>

Days == 0 .. MaxDay

\* What a request asked for, the day its transaction began, and its outcome.
Request ==
    [at     : {"new", "waitShift", "locked", "verify", "claim", "lookup", "work",
               "answered", "refused"},
     key    : Keys \cup {None},
     print  : Prints \cup {None},
     born   : Days,
     answer : Requests \cup {None}]    \* whose resource was loaded for the answer

\* createdAt is now() of the transaction: the day it began.
Row == [print : Prints, resource : Requests, createdAt : Days]

ASSUME NoneAssumption == None \notin Row /\ None \notin Days

TypeOK ==
    /\ row \in [Keys -> Row \cup {None}]
    /\ claim \in [Keys -> Requests \cup {None}]
    /\ request \in [Requests -> Request]
    /\ performed \in [Requests -> Days \cup {None}]
    /\ shift \in [Shifts -> [open : BOOLEAN, holder : Requests \cup {None}]]
    /\ day \in Days

Init ==
    /\ row = [k \in Keys |-> None]
    /\ claim = [k \in Keys |-> None]
    /\ request = [r \in Requests |-> [at |-> "new", key |-> None, print |-> None,
                                      born |-> 0, answer |-> None]]
    /\ performed = [r \in Requests |-> None]
    /\ shift = [s \in Shifts |-> [open |-> TRUE, holder |-> None]]
    /\ day = 0

-----------------------------------------------------------------------------

At(r) == request[r].at
Key(r) == request[r].key
PrintOf(r) == request[r].print
Ended(r) == At(r) \in {"answered", "refused"}

\* The end of a transaction gives back the shift it had locked.
ReleaseShift(r) ==
    shift' = [s \in Shifts |-> IF shift[s].holder = r
                                 THEN [shift[s] EXCEPT !.holder = None]
                                 ELSE shift[s]]

Move(r, to) == request' = [request EXCEPT ![r].at = to]

Refuse(r) == Move(r, "refused") /\ ReleaseShift(r)

Answer(r, resource) ==
    /\ request' = [request EXCEPT ![r].at = "answered", ![r].answer = resource]
    /\ ReleaseShift(r)

\* What a row of the key means for whoever asked with `print`: the resource it
\* names is loaded again, or the input is not the one the key was sent with.
AnswerFromRow(r) ==
    IF row[Key(r)].print = PrintOf(r) THEN Answer(r, row[Key(r)].resource)
                                    ELSE Refuse(r)

-----------------------------------------------------------------------------
(* How a transaction begins.                                                  *)

BeginWrapped(r, k, p) ==
    /\ At(r) = "new"
    /\ request' = [request EXCEPT ![r] = [at |-> "claim", key |-> k, print |-> p,
                                          born |-> day, answer |-> None]]
    /\ UNCHANGED <<row, claim, performed, shift, day>>

\* A movement looks for its key before it touches anything.
BeginMovement(r, k, p) ==
    /\ At(r) = "new"
    /\ LET asked == [at |-> "waitShift", key |-> k, print |-> p,
                     born |-> day, answer |-> None]
       IN  request' = [request EXCEPT ![r] =
             IF row[k] = None THEN asked
             ELSE IF row[k].print = p
               THEN [asked EXCEPT !.at = "answered", !.answer = row[k].resource]
               ELSE [asked EXCEPT !.at = "refused"]]
    /\ UNCHANGED <<row, claim, performed, shift, day>>

(* CashMovementService.register up to the claim.                              *)

LockShift(r) ==
    LET s == ShiftOf[PrintOf(r)]
    IN  /\ At(r) = "waitShift"
        /\ shift[s].holder = None
        /\ IF shift[s].open
             THEN /\ Move(r, "locked")
                  /\ shift' = [shift EXCEPT ![s].holder = r]
             ELSE Refuse(r)
        /\ UNCHANGED <<row, claim, performed, day>>

\* Faulty variant: what the first look saw is believed.
TrustFirstLook(r) ==
    /\ At(r) = "locked"
    /\ Move(r, "verify")
    /\ UNCHANGED <<row, claim, performed, shift, day>>

LookAgain(r) ==
    /\ At(r) = "locked"
    /\ IF row[Key(r)] = None THEN Move(r, "verify") /\ UNCHANGED shift
                             ELSE AnswerFromRow(r)
    /\ UNCHANGED <<row, claim, performed, day>>

\* No access to the store, not enough cash, or a wrong code: what it commits,
\* if anything, is the failed attempt, and never the key.
RejectMovement(r) ==
    /\ At(r) = "verify"
    /\ Refuse(r)
    /\ UNCHANGED <<row, claim, performed, day>>

AcceptMovement(r) ==
    /\ At(r) = "verify"
    /\ Move(r, "claim")
    /\ UNCHANGED <<row, claim, performed, shift, day>>

(* runIdempotent                                                              *)

\* INSERT ... ON CONFLICT DO NOTHING: it waits for whoever has inserted the
\* same key to end; a committed row makes it insert nothing.
Claim(r) ==
    /\ At(r) = "claim"
    /\ claim[Key(r)] = None
    /\ IF row[Key(r)] = None
         THEN Move(r, "work") /\ claim' = [claim EXCEPT ![Key(r)] = r]
         ELSE Move(r, "lookup") /\ UNCHANGED claim
    /\ UNCHANGED <<row, performed, shift, day>>

\* Faulty variant: a row that is gone is waited for instead of refused.
LookupUntilThere(r) ==
    /\ At(r) = "lookup"
    /\ row[Key(r)] # None
    /\ AnswerFromRow(r)
    /\ UNCHANGED <<row, claim, performed, day>>

\* The SELECT that follows: the row may have been purged in between.
Lookup(r) ==
    /\ At(r) = "lookup"
    /\ IF row[Key(r)] = None THEN Refuse(r) ELSE AnswerFromRow(r)
    /\ UNCHANGED <<row, claim, performed, day>>

\* work, the UPDATE of the row with what it created, and the commit of it all.
Commit(r) ==
    /\ At(r) = "work"
    /\ row' = [row EXCEPT ![Key(r)] = [print |-> PrintOf(r), resource |-> r,
                                       createdAt |-> request[r].born]]
    /\ claim' = [claim EXCEPT ![Key(r)] = None]
    /\ performed' = [performed EXCEPT ![r] = day]
    /\ Answer(r, r)
    /\ UNCHANGED day

\* Faulty variant: the key is committed before the work, in a connection of its own.
FailKeepingTheKey(r) ==
    /\ At(r) \notin {"new", "answered", "refused"}
    /\ row' = IF At(r) = "work"
                THEN [row EXCEPT ![Key(r)] = [print |-> PrintOf(r), resource |-> r,
                                              createdAt |-> request[r].born]]
                ELSE row
    /\ claim' = [k \in Keys |-> IF claim[k] = r THEN None ELSE claim[k]]
    /\ Refuse(r)
    /\ UNCHANGED <<performed, day>>

\* An error or a lost connection, at any moment: everything is rolled back.
Fail(r) ==
    /\ At(r) \notin {"new", "answered", "refused"}
    /\ claim' = [k \in Keys |-> IF claim[k] = r THEN None ELSE claim[k]]
    /\ Refuse(r)
    /\ UNCHANGED <<row, performed, day>>

-----------------------------------------------------------------------------
(* Around the requests                                                        *)

\* Faulty variant: a row is purged the day its week is over.
ExpiredEarly(k) == row[k] # None /\ row[k].createdAt + Retention <= day

\* createdAt < now() - 7 days
Expired(k) == row[k] # None /\ row[k].createdAt + Retention < day

\* purgeExpiredSometimes: started by some operation that was done, by another
\* connection and at any later moment; at most 500 rows, so any of them.
Purge ==
    /\ \E r \in Requests : performed[r] # None
    /\ \E expired \in SUBSET {k \in Keys : Expired(k)} :
         /\ expired # {}
         /\ row' = [k \in Keys |-> IF k \in expired THEN None ELSE row[k]]
    /\ UNCHANGED <<claim, request, performed, shift, day>>

CloseShift(s) ==
    /\ shift[s].open /\ shift[s].holder = None
    /\ shift' = [shift EXCEPT ![s].open = FALSE]
    /\ UNCHANGED <<row, claim, request, performed, day>>

Tick ==
    /\ day < MaxDay
    /\ day' = day + 1
    /\ UNCHANGED <<row, claim, request, performed, shift>>

-----------------------------------------------------------------------------

Begin(r) ==
    \/ \E k \in WrappedKeys, p \in Prints : BeginWrapped(r, k, p)
    \/ \E k \in MovementKeys, p \in Prints : BeginMovement(r, k, p)

\* What the server does by itself once a request has begun.
Advance(r) ==
    \/ LookAgain(r) \/ RejectMovement(r) \/ AcceptMovement(r)
    \/ Lookup(r) \/ Commit(r)

\* Where it waits for somebody else.
Wait(r) == LockShift(r) \/ Claim(r)

Next ==
    \/ \E r \in Requests : Begin(r) \/ Advance(r) \/ Wait(r) \/ Fail(r)
    \/ Purge
    \/ \E s \in Shifts : CloseShift(s)
    \/ Tick

Spec == Init /\ [][Next]_vars

\* The server goes on with a request that waits for nothing, and Postgres lets
\* those that wait in, one after another.
Fairness == \A r \in Requests : WF_vars(Advance(r)) /\ SF_vars(Wait(r))

FairSpec == Spec /\ Fairness

-----------------------------------------------------------------------------
(* Properties *)

(* "Una accion del usuario se hace UNA vez aunque la peticion llegue dos":     *)
(* two requests with the same key both did their work only if the second one  *)
(* was committed when the week of the first was over.                         *)
AtMostOnce ==
    \A r, q \in Requests :
      /\ r # q /\ performed[r] # None /\ performed[q] # None /\ Key(r) = Key(q)
      => \/ performed[r] > request[q].born + Retention
         \/ performed[q] > request[r].born + Retention

(* The row of a key "existe si y solo si la operacion quedo confirmada": a row *)
(* names an operation that was done with that key and that input, and an      *)
(* operation of this week has its row; an error never spends the key.         *)
KeyIffConfirmed ==
    /\ \A k \in Keys :
         row[k] # None => LET r == row[k].resource
                          IN  performed[r] # None /\ Key(r) = k /\ PrintOf(r) = row[k].print
    /\ \A r \in Requests :
         performed[r] # None /\ day <= request[r].born + Retention
           => row[Key(r)] # None /\ row[Key(r)].resource = r
    /\ \A k \in Keys : claim[k] # None => At(claim[k]) = "work"

(* Whoever gets an answer gets what was created by a request with his own key  *)
(* and his own input, never somebody else's.                                  *)
AnswerIsYours ==
    \A r \in Requests :
      At(r) = "answered" => LET q == request[r].answer
                            IN  /\ performed[q] # None
                                /\ Key(q) = Key(r) /\ PrintOf(q) = PrintOf(r)

(* A key answers for the work that was done with it, and for nothing else.     *)
KeysAnswerForTheirWork == TypeOK /\ KeyIffConfirmed /\ AnswerIsYours

(* A movement whose twin was already recorded is never judged again (not       *)
(* enough cash, wrong code): the second look, under the lock of the shift,    *)
(* finds it ("un retiro que dejo la gaveta justa fallaria ... en el           *)
(* reintento", CashMovementService.register).                                 *)
DoneMovementNotJudged ==
    \A r, q \in Requests :
      /\ At(r) = "verify" /\ performed[q] # None
      /\ Key(q) = Key(r) /\ PrintOf(q) = PrintOf(r)
      => request[q].born + Retention < day

(* Every request that arrives is answered or refused: nobody waits for a key   *)
(* or a shift for ever.                                                       *)
EveryRequestEnds == \A r \in Requests : At(r) # "new" ~> Ended(r)

=============================================================================
