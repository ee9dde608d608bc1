------------------------- MODULE Idempotency_proofs -------------------------
(***************************************************************************)
(* What a request leaves behind when it commits.  A user's action is done  *)
(* once, and its key answers for it and for nothing else (Idempotency);    *)
(* whoever looks at what it changed is told, and nobody is told of what    *)
(* was undone (Outbox).  For any number of requests, keys, inputs, days,   *)
(* transactions, people, channels, streams and devices.                    *)
(*                                                                         *)
(* Idempotency.  The key is protected by the claim of whoever works under  *)
(* it, and the judgement of a movement by the lock of its shift            *)
(* (RequestInv, KeyInv).                                                   *)
(*                                                                         *)
(* Outbox.  Whoever looks at less than is committed has the news on its    *)
(* way: in its stream, or in the queue of a transaction that has not told  *)
(* it (Heard), and those queues announce exactly what was written          *)
(* (FaithfulQueues).  A device has one row of each person at most          *)
(* (OneRow), so taking it away leaves none.                                *)
(***************************************************************************)
EXTENDS Idempotency, Outbox, Sums, TLAPS

\* The moments at which a movement has the row of its shift.
HoldsShift(r) ==
    \/ At(r) \in {"locked", "verify"}
    \/ At(r) \in {"claim", "lookup", "work"} /\ Key(r) \in MovementKeys

RequestInv(r) ==
    /\ At(r) # "new" => Key(r) \in Keys /\ PrintOf(r) \in Prints
    /\ At(r) \in {"waitShift", "locked", "verify"} => Key(r) \in MovementKeys
    /\ HoldsShift(r) => shift[ShiftOf[PrintOf(r)]].holder = r
    /\ At(r) = "work" => claim[Key(r)] = r /\ row[Key(r)] = None
    /\ performed[r] # None => At(r) = "answered"
    /\ At(r) = "answered" => request[r].answer \in Requests

KeyInv(k) ==
    /\ row[k] # None => row[k].createdAt = request[row[k].resource].born
    /\ claim[k] # None => At(claim[k]) = "work" /\ Key(claim[k]) = k

IdemIInv ==
    /\ TypeOK
    /\ \A r \in Requests : RequestInv(r)
    /\ \A k \in Keys : KeyInv(k)
    /\ KeyIffConfirmed /\ AnswerIsYours /\ AtMostOnce /\ DoneMovementNotJudged

-----------------------------------------------------------------------------
(* Types *)

LEMMA ReleaseTypes ==
  ASSUME TypeOK, NEW r \in Requests, ReleaseShift(r)
  PROVE  shift' \in [Shifts -> [open : BOOLEAN, holder : Requests \cup {None}]]
BY DEF TypeOK, ReleaseShift

LEMMA MoveTypes ==
  ASSUME TypeOK, NEW r \in Requests,
         NEW to \in {"waitShift", "locked", "verify", "claim", "lookup", "work", "refused"},
         Move(r, to)
  PROVE  request' \in [Requests -> Request]
BY DEF TypeOK, Move, Request

\* A row that is found names the request whose resource is the answer.
LEMMA RowTypes ==
  ASSUME TypeOK, NEW k \in Keys, row[k] # None
  PROVE  /\ row[k] \in Row /\ row[k].resource \in Requests /\ row[k].print \in Prints
         /\ row[k].createdAt \in Days
BY DEF TypeOK, Row

LEMMA AnswerTypes ==
  ASSUME TypeOK, NEW r \in Requests, NEW q \in Requests, Answer(r, q)
  PROVE  /\ request' \in [Requests -> Request]
         /\ shift' \in [Shifts -> [open : BOOLEAN, holder : Requests \cup {None}]]
<1> DEFINE a == [request[r] EXCEPT !.at = "answered", !.answer = q]
<1>0. a \in Request
  BY DEF TypeOK, Request
<1>1. request' \in [Requests -> Request]
  <2>1. request' = [request EXCEPT ![r] = a]
    BY DEF Answer
  <2> HIDE DEF a
  <2> QED
    BY <1>0, <2>1 DEF TypeOK
<1> QED
  BY <1>1, ReleaseTypes DEF Answer

LEMMA BeginTypes ==
  ASSUME TypeOK, NEW r \in Requests, Begin(r)
  PROVE  TypeOK'
<1>1. UNCHANGED <<row, claim, performed, shift, day>>
  BY DEF Begin, BeginWrapped, BeginMovement
<1>2. request' \in [Requests -> Request]
  <2>1. ASSUME NEW k \in WrappedKeys, NEW p \in Prints, BeginWrapped(r, k, p)
        PROVE  request' \in [Requests -> Request]
    <3>1. [at |-> "claim", key |-> k, print |-> p, born |-> day, answer |-> None] \in Request
      BY DEF TypeOK, Request, Keys
    <3> QED
      BY <2>1, <3>1 DEF BeginWrapped, TypeOK
  <2>2. ASSUME NEW k \in MovementKeys, NEW p \in Prints, BeginMovement(r, k, p)
        PROVE  request' \in [Requests -> Request]
    <3> DEFINE asked == [at |-> "waitShift", key |-> k, print |-> p, born |-> day, answer |-> None]
    <3>1. /\ asked \in Request /\ [asked EXCEPT !.at = "refused"] \in Request
          /\ row[k] # None =>
               [asked EXCEPT !.at = "answered", !.answer = row[k].resource] \in Request
      <4>1. k \in Keys
        BY DEF Keys
      <4> QED
        BY <4>1, RowTypes DEF TypeOK, Request
    <3>2. \E q \in Request : request' = [request EXCEPT ![r] = q]
      BY <2>2, <3>1 DEF BeginMovement
    <3> QED
      BY <3>2 DEF TypeOK
  <2> QED
    BY <2>1, <2>2 DEF Begin
<1> QED
  BY <1>1, <1>2 DEF TypeOK

LEMMA FromRowTypes ==
  ASSUME TypeOK, NEW r \in Requests, Key(r) \in Keys, row[Key(r)] # None, AnswerFromRow(r)
  PROVE  /\ request' \in [Requests -> Request]
         /\ shift' \in [Shifts -> [open : BOOLEAN, holder : Requests \cup {None}]]
<1>1. CASE row[Key(r)].print = PrintOf(r)
  BY <1>1, RowTypes, AnswerTypes DEF AnswerFromRow
<1>2. CASE row[Key(r)].print # PrintOf(r)
  BY <1>2, MoveTypes, ReleaseTypes DEF AnswerFromRow, Refuse
<1> QED
  BY <1>1, <1>2

LEMMA AdvanceTypes ==
  ASSUME TypeOK, NEW r \in Requests, RequestInv(r), Advance(r) \/ Wait(r) \/ Fail(r)
  PROVE  TypeOK'
<1>0. /\ request \in [Requests -> Request] /\ row \in [Keys -> Row \cup {None}]
      /\ At(r) # "new" => Key(r) \in Keys /\ PrintOf(r) \in Prints
  BY DEF TypeOK, RequestInv
<1>1. CASE LockShift(r)
  <2> DEFINE s == ShiftOf[PrintOf(r)]
  <2>0. s \in Shifts
    BY <1>0, <1>1, ConstantsAssumption DEF LockShift
  <2>1. CASE shift[s].open
    BY <1>1, <2>0, <2>1, MoveTypes DEF LockShift, TypeOK
  <2>2. CASE ~shift[s].open
    BY <1>1, <2>2, MoveTypes, ReleaseTypes DEF LockShift, TypeOK, Refuse
  <2> QED
    BY <2>1, <2>2
<1>2. CASE LookAgain(r)
  <2>1. CASE row[Key(r)] = None
    BY <1>2, <2>1, MoveTypes DEF LookAgain, TypeOK
  <2>2. CASE row[Key(r)] # None
    BY <1>0, <1>2, <2>2, FromRowTypes DEF LookAgain, TypeOK
  <2> QED
    BY <2>1, <2>2
<1>3. CASE RejectMovement(r)
  BY <1>3, MoveTypes, ReleaseTypes DEF RejectMovement, Refuse, TypeOK
<1>4. CASE AcceptMovement(r)
  BY <1>4, MoveTypes DEF AcceptMovement, TypeOK
<1>5. CASE Claim(r)
  BY <1>5, MoveTypes DEF Claim, TypeOK
<1>6. CASE Lookup(r)
  <2>1. CASE row[Key(r)] = None
    BY <1>6, <2>1, MoveTypes, ReleaseTypes DEF Lookup, TypeOK, Refuse
  <2>2. CASE row[Key(r)] # None
    BY <1>0, <1>6, <2>2, FromRowTypes DEF Lookup, TypeOK
  <2> QED
    BY <2>1, <2>2
<1>7. CASE Commit(r)
  <2>1. [print |-> PrintOf(r), resource |-> r, createdAt |-> request[r].born] \in Row
    BY <1>0, <1>7 DEF Commit, Row, Request
  <2>2. /\ row' \in [Keys -> Row \cup {None}] /\ claim' \in [Keys -> Requests \cup {None}]
        /\ performed' \in [Requests -> Days \cup {None}] /\ day' \in Days
    BY <1>7, <2>1 DEF Commit, TypeOK
  <2> QED
    BY <1>7, <2>2, AnswerTypes DEF Commit, TypeOK
<1>8. CASE Fail(r)
  BY <1>8, MoveTypes, ReleaseTypes DEF Fail, Refuse, TypeOK
<1> QED
  BY <1>1, <1>2, <1>3, <1>4, <1>5, <1>6, <1>7, <1>8 DEF Advance, Wait

-----------------------------------------------------------------------------
(* One request moves *)

\* A request that has done nothing yet moves, and commits nothing.
LEMMA LocalStep ==
  ASSUME IdemIInv, TypeOK', NEW r \in Requests, RequestInv(r)',
         ~Ended(r), UNCHANGED <<row, performed, day>>,
         \A q \in Requests \ {r} : request'[q] = request[q],
         \A k \in Keys : \/ claim'[k] = claim[k] /\ claim[k] # r
                         \/ claim[k] \in {None, r} /\ claim'[k] = None
                         \/ /\ claim[k] \in {None, r} /\ claim'[k] = r
                            /\ request'[r].at = "work" /\ request'[r].key = k,
         \A s \in Shifts : shift[s].holder \in {None, r} \/ shift'[s].holder = shift[s].holder,
         request'[r].at = "answered" =>
             LET q == request'[r].answer IN
             /\ q # r /\ performed[q] # None
             /\ Key(q) = request'[r].key /\ PrintOf(q) = request'[r].print,
         request'[r].at = "verify" =>
             \A q \in Requests : performed[q] # None /\ Key(q) = request'[r].key =>
                 request[q].born + Retention < day
  PROVE  IdemIInv'
<1>1. /\ performed[r] = None /\ r # None
      /\ \A q \in Requests : request[q] \in Request /\ request'[q] \in Request
  BY ConstantsAssumption DEF IdemIInv, RequestInv, Ended, TypeOK
<1>2. \A q \in Requests : performed[q] # None => q # r /\ request'[q] = request[q]
  BY <1>1
<1>3. ASSUME NEW k \in Keys, row[k] # None
      PROVE  /\ row[k].resource \in Requests /\ performed[row[k].resource] # None
             /\ request'[row[k].resource] = request[row[k].resource]
  BY <1>2, <1>3, RowTypes DEF IdemIInv, KeyIffConfirmed
<1>4. ASSUME NEW q \in Requests PROVE RequestInv(q)'
  <2>1. CASE q = r
    BY <2>1
  <2>2. CASE q # r
    <3>1. request'[q] = request[q] /\ RequestInv(q)
      BY <2>2 DEF IdemIInv
    <3>2. At(q) # "new" => Key(q) \in Keys /\ ShiftOf[PrintOf(q)] \in Shifts
      BY <3>1, ConstantsAssumption DEF RequestInv
    <3>3. HoldsShift(q) => shift'[ShiftOf[PrintOf(q)]].holder = q
      BY <2>2, <3>1, <3>2, ConstantsAssumption DEF RequestInv, HoldsShift
    <3>4. At(q) = "work" => claim'[Key(q)] = q
      BY <2>2, <3>1, <3>2, ConstantsAssumption DEF RequestInv
    <3> QED
      BY <3>1, <3>3, <3>4 DEF RequestInv, HoldsShift, At, Key, PrintOf
  <2> QED
    BY <2>1, <2>2
<1>5. ASSUME NEW k \in Keys PROVE KeyInv(k)' /\ (claim'[k] # None => At(claim[k])' = "work")
  <2>1. row[k] # None => row[k].createdAt = request'[row[k].resource].born
    BY <1>3 DEF IdemIInv, KeyInv
  <2>2. ASSUME claim'[k] # None
        PROVE  request'[claim'[k]].at = "work" /\ request'[claim'[k]].key = k
    <3>1. CASE claim'[k] = r
      BY <2>2, <3>1
    <3>2. CASE claim'[k] # r
      <4>1. claim'[k] = claim[k] /\ claim[k] # r /\ claim[k] \in Requests
        BY <2>2, <3>2 DEF IdemIInv, TypeOK
      <4> QED
        BY <2>2, <4>1 DEF IdemIInv, KeyInv, At, Key
    <3> QED
      BY <3>1, <3>2
  <2> QED
    BY <2>1, <2>2 DEF KeyInv, At, Key
<1>6. KeyIffConfirmed'
  <2>1. \A k \in Keys : row[k] # None =>
           LET q == row[k].resource
           IN  performed[q] # None /\ request'[q].key = k /\ request'[q].print = row[k].print
    BY <1>3 DEF IdemIInv, KeyIffConfirmed, Key, PrintOf
  <2>2. \A q \in Requests : performed[q] # None /\ day <= request'[q].born + Retention
           => row[request'[q].key] # None /\ row[request'[q].key].resource = q
    BY <1>2 DEF IdemIInv, KeyIffConfirmed, Key
  <2> QED
    BY <1>5, <2>1, <2>2 DEF KeyIffConfirmed, Key, PrintOf, At
<1>7. AnswerIsYours'
  <2> SUFFICES ASSUME NEW q \in Requests, request'[q].at = "answered"
               PROVE  LET p == request'[q].answer IN
                      /\ performed[p] # None
                      /\ request'[p].key = request'[q].key /\ request'[p].print = request'[q].print
    BY DEF AnswerIsYours, At, Key, PrintOf
  <2>1. request'[q].answer \in Requests
    BY <1>4 DEF RequestInv, At
  <2> QED
    BY <1>2, <2>1 DEF IdemIInv, AnswerIsYours, At, Key, PrintOf
<1>8. AtMostOnce'
  BY <1>2 DEF IdemIInv, AtMostOnce, Key
<1>9. DoneMovementNotJudged'
  BY <1>2 DEF IdemIInv, DoneMovementNotJudged, At, Key, PrintOf
<1> QED
  BY <1>4, <1>5, <1>6, <1>7, <1>8, <1>9 DEF IdemIInv

LEMMA NotYet ==
  ASSUME IdemIInv, NEW r \in Requests, At(r) # "answered"
  PROVE  /\ performed[r] = None /\ r # None
         /\ \A k \in Keys : claim[k] = r => At(r) = "work" /\ k = Key(r)
         /\ \A k \in Keys : row[k] # None => row[k].resource \in Requests \ {r}
BY ConstantsAssumption, RowTypes DEF IdemIInv, RequestInv, KeyInv, KeyIffConfirmed

LEMMA Released ==
  ASSUME IdemIInv, NEW r \in Requests, ReleaseShift(r)
  PROVE  \A s \in Shifts : shift[s].holder \in {None, r} \/ shift'[s].holder = shift[s].holder
BY DEF ReleaseShift

LEMMA RefuseStep ==
  ASSUME IdemIInv, TypeOK', NEW r \in Requests, ~Ended(r), At(r) # "new", Refuse(r),
         UNCHANGED <<row, performed, day>>,
         \/ claim' = [k \in Keys |-> IF claim[k] = r THEN None ELSE claim[k]]
         \/ UNCHANGED claim /\ At(r) # "work"
  PROVE  IdemIInv'
<1>1. /\ request'[r].at = "refused"
      /\ request'[r].key = Key(r) /\ request'[r].print = PrintOf(r)
      /\ \A q \in Requests \ {r} : request'[q] = request[q]
  BY DEF Refuse, Move, IdemIInv, TypeOK, Request, Key, PrintOf
<1>2. \A k \in Keys : \/ claim'[k] = claim[k] /\ claim[k] # r
                      \/ claim[k] \in {None, r} /\ claim'[k] = None
  <2>1. CASE claim' = [k \in Keys |-> IF claim[k] = r THEN None ELSE claim[k]]
    BY <2>1
  <2>2. CASE UNCHANGED claim /\ At(r) # "work"
    BY <2>2, NotYet DEF Ended
  <2> QED
    BY <2>1, <2>2
<1>3. RequestInv(r)'
  <2>1. performed[r] = None
    BY NotYet DEF Ended
  <2>2. At(r) # "new" => Key(r) \in Keys /\ PrintOf(r) \in Prints
    BY DEF IdemIInv, RequestInv
  <2> QED
    BY <1>1, <2>1, <2>2 DEF RequestInv, HoldsShift, At, Key, PrintOf
<1> QED
  BY <1>1, <1>2, <1>3, Released, LocalStep DEF Refuse

LEMMA FromRowStep ==
  ASSUME IdemIInv, TypeOK', NEW r \in Requests, At(r) \in {"locked", "lookup"},
         row[Key(r)] # None, AnswerFromRow(r), UNCHANGED <<row, claim, performed, day>>
  PROVE  IdemIInv'
<1>1. CASE row[Key(r)].print # PrintOf(r)
  BY <1>1, RefuseStep DEF AnswerFromRow, Ended
<1>2. CASE row[Key(r)].print = PrintOf(r)
  <2> DEFINE q == row[Key(r)].resource
  <2>0. Key(r) \in Keys
    BY DEF IdemIInv, RequestInv
  <2>1. /\ q \in Requests \ {r} /\ performed[q] # None
        /\ Key(q) = Key(r) /\ PrintOf(q) = PrintOf(r)
    BY <1>2, <2>0, NotYet DEF IdemIInv, KeyIffConfirmed
  <2>2. request' = [request EXCEPT ![r].at = "answered", ![r].answer = q] /\ ReleaseShift(r)
    BY <1>2 DEF AnswerFromRow, Answer
  <2> HIDE DEF q
  <2>3. /\ request'[r].at = "answered" /\ request'[r].answer = q
        /\ request'[r].key = Key(r) /\ request'[r].print = PrintOf(r)
        /\ \A p \in Requests \ {r} : request'[p] = request[p]
    BY <2>2 DEF IdemIInv, TypeOK, Request, Key, PrintOf
  <2>4. \A k \in Keys : claim'[k] = claim[k] /\ claim[k] # r
    BY NotYet
  <2>5. RequestInv(r)'
    BY <2>1, <2>3 DEF RequestInv, IdemIInv, HoldsShift, At, Key, PrintOf
  <2> QED
    BY <2>1, <2>2, <2>3, <2>4, <2>5, Released, LocalStep DEF Ended
<1> QED
  BY <1>1, <1>2

\* A request that moves on with the lock it has or is given.
LEMMA MoveStep ==
  ASSUME IdemIInv, TypeOK', NEW r \in Requests, ~Ended(r), At(r) \notin {"new", "work"},
         NEW to \in {"locked", "verify", "claim", "lookup"}, Move(r, to),
         UNCHANGED <<row, claim, performed, day>>,
         \A s \in Shifts : shift[s].holder \in {None, r} \/ shift'[s].holder = shift[s].holder,
         to \in {"locked", "verify"} => Key(r) \in MovementKeys,
         Key(r) \in MovementKeys => shift'[ShiftOf[PrintOf(r)]].holder = r,
         to = "verify" => row[Key(r)] = None
  PROVE  IdemIInv'
<1>1. /\ request'[r].at = to
      /\ request'[r].key = Key(r) /\ request'[r].print = PrintOf(r)
      /\ \A q \in Requests \ {r} : request'[q] = request[q]
  BY DEF Move, IdemIInv, TypeOK, Request, Key, PrintOf
<1>2. \A k \in Keys : claim'[k] = claim[k] /\ claim[k] # r
  BY NotYet DEF Ended
<1>3. RequestInv(r)'
  BY <1>1, NotYet DEF RequestInv, IdemIInv, HoldsShift, At, Key, PrintOf, Ended
<1>4. to = "verify" =>
        \A q \in Requests : performed[q] # None /\ Key(q) = Key(r) =>
            request[q].born + Retention < day
  <2> SUFFICES ASSUME to = "verify", NEW q \in Requests, performed[q] # None, Key(q) = Key(r)
               PROVE  request[q].born + Retention < day
    OBVIOUS
  <2>1. request[q].born \in Int /\ day \in Int /\ Retention \in Int
    BY ConstantsAssumption DEF IdemIInv, TypeOK, Request, Days
  <2> QED
    BY <2>1 DEF IdemIInv, KeyIffConfirmed
<1> QED
  BY <1>1, <1>2, <1>3, <1>4, LocalStep

LEMMA BeginStep ==
  ASSUME IdemIInv, TypeOK', NEW r \in Requests, Begin(r)
  PROVE  IdemIInv'
<1>0. /\ At(r) = "new" /\ UNCHANGED <<row, claim, performed, shift, day>>
  BY DEF Begin, BeginWrapped, BeginMovement
<1>1. \A k \in Keys : claim'[k] = claim[k] /\ claim[k] # r
  BY <1>0, NotYet
<1>2. performed[r] = None
  BY <1>0, NotYet
<1>3. ASSUME NEW k \in WrappedKeys, NEW p \in Prints, BeginWrapped(r, k, p) PROVE IdemIInv'
  <2>1. /\ request'[r].at = "claim" /\ request'[r].key = k /\ request'[r].print = p
        /\ \A q \in Requests \ {r} : request'[q] = request[q]
    BY <1>3 DEF BeginWrapped, IdemIInv, TypeOK
  <2>2. RequestInv(r)'
    BY <1>0, <1>2, <2>1, ConstantsAssumption
       DEF RequestInv, HoldsShift, At, Key, PrintOf, Keys
  <2> QED
    BY <1>0, <1>1, <2>1, <2>2, LocalStep DEF Ended
<1>4. ASSUME NEW k \in MovementKeys, NEW p \in Prints, BeginMovement(r, k, p) PROVE IdemIInv'
  <2>0. k \in Keys
    BY DEF Keys
  <2>1. /\ request'[r].key = k /\ request'[r].print = p
        /\ \A q \in Requests \ {r} : request'[q] = request[q]
        /\ \/ request'[r].at \in {"waitShift", "refused"}
           \/ /\ request'[r].at = "answered" /\ row[k] # None
              /\ row[k].print = p /\ request'[r].answer = row[k].resource
    BY <1>4 DEF BeginMovement, IdemIInv, TypeOK
  <2>2. request'[r].at = "answered" =>
           LET q == request'[r].answer
           IN  /\ q \in Requests \ {r} /\ performed[q] # None
               /\ Key(q) = k /\ PrintOf(q) = p
    BY <1>0, <2>0, <2>1, NotYet DEF IdemIInv, KeyIffConfirmed
  <2>3. RequestInv(r)'
    BY <1>0, <1>2, <2>0, <2>1, <2>2 DEF RequestInv, HoldsShift, At, Key, PrintOf
  <2> QED
    BY <1>0, <1>1, <2>1, <2>2, <2>3, LocalStep DEF Ended
<1> QED
  BY <1>3, <1>4 DEF Begin

LEMMA AdvanceStep ==
  ASSUME IdemIInv, TypeOK', NEW r \in Requests,
         LockShift(r) \/ LookAgain(r) \/ RejectMovement(r) \/ AcceptMovement(r)
         \/ Claim(r) \/ Lookup(r) \/ Fail(r)
  PROVE  IdemIInv'
<1>0. /\ RequestInv(r) /\ request \in [Requests -> Request]
      /\ At(r) # "new" => Key(r) \in Keys /\ ShiftOf[PrintOf(r)] \in Shifts
  BY ConstantsAssumption DEF IdemIInv, TypeOK, RequestInv
<1>1. CASE LockShift(r)
  <2> DEFINE s == ShiftOf[PrintOf(r)]
  <2>1. /\ At(r) = "waitShift" /\ shift[s].holder = None /\ s \in Shifts
        /\ Key(r) \in MovementKeys /\ UNCHANGED <<row, claim, performed, day>>
    BY <1>0, <1>1 DEF LockShift, RequestInv
  <2>2. CASE shift[s].open
    <3>1. Move(r, "locked") /\ shift' = [shift EXCEPT ![s].holder = r]
      BY <1>1, <2>2 DEF LockShift
    <3>2. /\ shift'[s].holder = r
          /\ \A x \in Shifts : shift[x].holder \in {None, r} \/ shift'[x].holder = shift[x].holder
      BY <2>1, <3>1 DEF IdemIInv, TypeOK
    <3> QED
      BY <2>1, <3>1, <3>2, MoveStep DEF Ended
  <2>3. CASE ~shift[s].open
    BY <1>1, <2>1, <2>3, RefuseStep DEF LockShift, Ended
  <2> QED
    BY <2>2, <2>3
<1>2. CASE LookAgain(r)
  <2>1. /\ At(r) = "locked" /\ UNCHANGED <<row, claim, performed, day>>
        /\ Key(r) \in MovementKeys /\ shift[ShiftOf[PrintOf(r)]].holder = r
    BY <1>0, <1>2 DEF LookAgain, RequestInv, HoldsShift
  <2>2. CASE row[Key(r)] = None
    BY <1>2, <2>1, <2>2, MoveStep DEF LookAgain, Ended
  <2>3. CASE row[Key(r)] # None
    BY <1>2, <2>1, <2>3, FromRowStep DEF LookAgain
  <2> QED
    BY <2>2, <2>3
<1>3. CASE RejectMovement(r)
  BY <1>3, RefuseStep DEF RejectMovement, Ended
<1>4. CASE AcceptMovement(r)
  <2>1. /\ At(r) = "verify" /\ Move(r, "claim") /\ UNCHANGED <<row, claim, performed, shift, day>>
        /\ Key(r) \in MovementKeys /\ shift[ShiftOf[PrintOf(r)]].holder = r
    BY <1>0, <1>4 DEF AcceptMovement, RequestInv, HoldsShift
  <2> QED
    BY <2>1, MoveStep DEF Ended
<1>5. CASE Claim(r)
  <2>1. /\ At(r) = "claim" /\ UNCHANGED <<row, performed, shift, day>>
        /\ Key(r) \in Keys /\ claim[Key(r)] = None
        /\ Key(r) \in MovementKeys => shift[ShiftOf[PrintOf(r)]].holder = r
    BY <1>0, <1>5 DEF Claim, RequestInv, HoldsShift
  <2>2. CASE row[Key(r)] # None
    BY <1>5, <2>1, <2>2, MoveStep DEF Claim, Ended
  <2>3. CASE row[Key(r)] = None
    <3>1. /\ Move(r, "work") /\ claim' = [claim EXCEPT ![Key(r)] = r]
          /\ claim \in [Keys -> Requests \cup {None}]
      BY <1>5, <2>3 DEF Claim, IdemIInv, TypeOK
    <3>2. /\ request'[r].at = "work"
          /\ request'[r].key = Key(r) /\ request'[r].print = PrintOf(r)
          /\ \A q \in Requests \ {r} : request'[q] = request[q]
      BY <1>0, <3>1 DEF Move, Request, Key, PrintOf
    <3>3. \A k \in Keys : IF k = Key(r) THEN claim[k] = None /\ claim'[k] = r
                                      ELSE claim'[k] = claim[k] /\ claim[k] # r
      BY <2>1, <3>1, NotYet
    <3>4. RequestInv(r)'
      BY <1>0, <2>1, <2>3, <3>2, <3>3, NotYet DEF RequestInv, HoldsShift, At, Key, PrintOf
    <3> QED
      BY <2>1, <3>2, <3>3, <3>4, LocalStep DEF Ended
  <2> QED
    BY <2>2, <2>3
<1>6. CASE Lookup(r)
  <2>1. CASE row[Key(r)] = None
    BY <1>6, <2>1, RefuseStep DEF Lookup, Ended
  <2>2. CASE row[Key(r)] # None
    BY <1>6, <2>2, FromRowStep DEF Lookup
  <2> QED
    BY <2>1, <2>2
<1>7. CASE Fail(r)
  BY <1>7, RefuseStep DEF Fail, Ended
<1> QED
  BY <1>1, <1>2, <1>3, <1>4, <1>5, <1>6, <1>7

-----------------------------------------------------------------------------
(* The commit, and what happens around the requests *)

\* Whoever commits has the key for itself, and its movement the shift: every other
\* request that did the same work did it when the key was not yet kept, and no
\* movement of the same input is being judged.
LEMMA CommitStep ==
  ASSUME IdemIInv, TypeOK', NEW r \in Requests, Commit(r)
  PROVE  IdemIInv'
<1> DEFINE k == Key(r)
<1>0. /\ At(r) = "work" /\ k \in Keys /\ PrintOf(r) \in Prints /\ ShiftOf[PrintOf(r)] \in Shifts
      /\ claim[k] = r /\ row[k] = None /\ performed[r] = None /\ r # None
      /\ request \in [Requests -> Request] /\ day \in Int /\ day # None /\ Retention \in Int
      /\ \A q \in Requests : request[q].born \in Int /\ request'[q].born \in Int
      /\ row \in [Keys -> Row \cup {None}] /\ claim \in [Keys -> Requests \cup {None}]
      /\ performed \in [Requests -> Days \cup {None}]
  BY ConstantsAssumption, NoneAssumption, NotYet
     DEF Commit, IdemIInv, RequestInv, TypeOK, Request, Days
<1>1. PICK new \in Row : /\ row' = [row EXCEPT ![k] = new] /\ new # None
                         /\ new.print = PrintOf(r) /\ new.resource = r
                         /\ new.createdAt = request[r].born
  <2>1. [print |-> PrintOf(r), resource |-> r, createdAt |-> request[r].born] \in Row
    BY <1>0 DEF Row, Request
  <2> QED
    BY <2>1, NoneAssumption DEF Commit
<1>2. /\ row'[k] = new /\ \A j \in Keys \ {k} : row'[j] = row[j]
      /\ claim'[k] = None /\ \A j \in Keys \ {k} : claim'[j] = claim[j]
      /\ performed'[r] = day /\ \A q \in Requests \ {r} : performed'[q] = performed[q]
      /\ day' = day /\ ReleaseShift(r)
  BY <1>0, <1>1 DEF Commit, Answer
<1>3. /\ request'[r].at = "answered" /\ request'[r].answer = r
      /\ request'[r].key = k /\ request'[r].print = PrintOf(r) /\ request'[r].born = request[r].born
      /\ \A q \in Requests \ {r} : request'[q] = request[q]
  BY <1>0 DEF Commit, Answer, Request, Key, PrintOf
<1> HIDE DEF k
<1>4. \A q \in Requests : /\ request'[q].key = Key(q) /\ request'[q].print = PrintOf(q)
                          /\ request'[q].born = request[q].born
  BY <1>3 DEF k, Key, PrintOf
\* The others that worked under the key.
<1>5. ASSUME NEW q \in Requests, q # r, performed[q] # None, Key(q) = k
      PROVE  request[q].born + Retention < day
  BY <1>0, <1>5 DEF IdemIInv, KeyIffConfirmed
<1>6. ASSUME NEW q \in Requests PROVE RequestInv(q)'
  <2>1. CASE q = r
    BY <1>0, <1>3, <2>1 DEF RequestInv, HoldsShift, At, Key, PrintOf
  <2>2. CASE q # r
    <3>1. request'[q] = request[q] /\ RequestInv(q) /\ performed'[q] = performed[q]
      BY <1>2, <1>3, <2>2 DEF IdemIInv
    <3>2. At(q) # "new" => Key(q) \in Keys /\ ShiftOf[PrintOf(q)] \in Shifts
      BY <3>1, ConstantsAssumption DEF RequestInv
    <3>3. HoldsShift(q) => shift'[ShiftOf[PrintOf(q)]].holder = q
      BY <1>2, <2>2, <3>1, <3>2 DEF RequestInv, HoldsShift, ReleaseShift
    <3>4. At(q) = "work" => Key(q) # k /\ claim'[Key(q)] = q /\ row'[Key(q)] = None
      BY <1>0, <1>2, <2>2, <3>1, <3>2 DEF RequestInv
    <3> QED
      BY <3>1, <3>3, <3>4 DEF RequestInv, HoldsShift, At, Key, PrintOf
  <2> QED
    BY <2>1, <2>2
<1>7. ASSUME NEW j \in Keys
      PROVE  /\ row'[j] # None =>
                  /\ performed'[row'[j].resource] # None
                  /\ request'[row'[j].resource].key = j
                  /\ request'[row'[j].resource].print = row'[j].print
                  /\ request'[row'[j].resource].born = row'[j].createdAt
             /\ claim'[j] # None =>
                  request'[claim'[j]].at = "work" /\ request'[claim'[j]].key = j
  <2>1. CASE j = k
    BY <1>0, <1>1, <1>2, <1>3, <2>1
  <2>2. CASE j # k
    <3>1. row'[j] = row[j] /\ claim'[j] = claim[j] /\ KeyInv(j)
      BY <1>2, <2>2 DEF IdemIInv
    <3>2. ASSUME row[j] # None
          PROVE  /\ row[j].resource \in Requests \ {r} /\ performed[row[j].resource] # None
                 /\ request[row[j].resource].key = j
                 /\ request[row[j].resource].print = row[j].print
                 /\ request[row[j].resource].born = row[j].createdAt
      BY <1>0, <3>1, <3>2, NotYet DEF IdemIInv, KeyIffConfirmed, KeyInv, Key, PrintOf
    <3>3. ASSUME claim[j] # None
          PROVE  /\ claim[j] \in Requests \ {r}
                 /\ request[claim[j]].at = "work" /\ request[claim[j]].key = j
      BY <1>0, <2>2, <3>1, <3>3, NotYet DEF k, KeyInv, At, Key
    <3> QED
      BY <1>2, <1>3, <3>1, <3>2, <3>3
  <2> QED
    BY <2>1, <2>2
<1>8. ASSUME NEW q \in Requests, performed'[q] # None, day <= request[q].born + Retention
      PROVE  row'[Key(q)] # None /\ row'[Key(q)].resource = q
  <2>1. CASE q = r
    BY <1>1, <1>2, <2>1 DEF k
  <2>2. CASE q # r
    <3>1. performed[q] # None /\ Key(q) # k /\ Key(q) \in Keys
      BY <1>0, <1>2, <1>5, <1>8, <2>2 DEF IdemIInv, RequestInv
    <3> QED
      BY <1>2, <1>8, <3>1 DEF IdemIInv, KeyIffConfirmed
  <2> QED
    BY <2>1, <2>2
<1>9. KeyIffConfirmed'
  <2>1. \A q \in Requests : performed'[q] # None /\ day' <= request'[q].born + Retention
          => row'[request'[q].key] # None /\ row'[request'[q].key].resource = q
    BY <1>2, <1>4, <1>8
  <2> QED
    BY <1>7, <2>1 DEF KeyIffConfirmed, At, Key, PrintOf
<1>10. AnswerIsYours'
  <2> SUFFICES ASSUME NEW q \in Requests, request'[q].at = "answered"
               PROVE  LET p == request'[q].answer IN
                      /\ performed'[p] # None
                      /\ request'[p].key = request'[q].key /\ request'[p].print = request'[q].print
    BY DEF AnswerIsYours, At, Key, PrintOf
  <2>1. CASE q = r
    BY <1>0, <1>2, <1>3, <2>1
  <2>2. CASE q # r
    <3>1. /\ At(q) = "answered" /\ request'[q].answer = request[q].answer
          /\ request[q].answer \in Requests
      BY <1>3, <2>2 DEF IdemIInv, RequestInv, At
    <3>2. /\ performed[request[q].answer] # None
          /\ Key(request[q].answer) = Key(q) /\ PrintOf(request[q].answer) = PrintOf(q)
      BY <3>1 DEF IdemIInv, AnswerIsYours
    <3>3. performed'[request[q].answer] # None
      BY <1>0, <1>2, <3>1, <3>2
    <3> QED
      BY <1>4, <3>1, <3>2, <3>3
  <2> QED
    BY <2>1, <2>2
<1>11. AtMostOnce'
  <2> SUFFICES ASSUME NEW p \in Requests, NEW q \in Requests, p # q,
                      performed'[p] # None, performed'[q] # None, Key(p) = Key(q)
               PROVE  \/ performed'[p] > request[q].born + Retention
                      \/ performed'[q] > request[p].born + Retention
    BY <1>4 DEF AtMostOnce, Key
  <2>1. CASE p = r
    BY <1>0, <1>2, <1>5, <2>1 DEF k
  <2>2. CASE q = r
    BY <1>0, <1>2, <1>5, <2>2 DEF k
  <2>3. CASE p # r /\ q # r
    BY <1>2, <2>3 DEF IdemIInv, AtMostOnce
  <2> QED
    BY <2>1, <2>2, <2>3
<1>12. DoneMovementNotJudged'
  <2> SUFFICES ASSUME NEW p \in Requests, NEW q \in Requests,
                      request'[p].at = "verify", performed'[q] # None,
                      Key(q) = Key(p), PrintOf(q) = PrintOf(p)
               PROVE  request[q].born + Retention < day
    BY <1>2, <1>4 DEF DoneMovementNotJudged, At, Key, PrintOf
  <2>1. p # r /\ At(p) = "verify"
    BY <1>3 DEF At
  <2>2. CASE q = r
    <3>1. /\ Key(p) \in MovementKeys /\ shift[ShiftOf[PrintOf(p)]].holder = p
          /\ Key(p) \in MovementKeys => shift[ShiftOf[PrintOf(r)]].holder = r
      BY <1>0, <2>1, <2>2 DEF IdemIInv, RequestInv, HoldsShift
    <3> QED
      BY <2>1, <2>2, <3>1
  <2>3. CASE q # r
    BY <1>2, <2>1, <2>3 DEF IdemIInv, DoneMovementNotJudged
  <2> QED
    BY <2>2, <2>3
<1> QED
  BY <1>6, <1>7, <1>9, <1>10, <1>11, <1>12 DEF IdemIInv, KeyInv, At, Key

LEMMA AroundStep ==
  ASSUME IdemIInv, Purge \/ (\E s \in Shifts : CloseShift(s)) \/ Tick \/ UNCHANGED vars
  PROVE  IdemIInv'
<1>0. /\ UNCHANGED <<claim, request, performed>>
      /\ \A q \in Requests : request[q].born \in Int
      /\ day \in Int /\ day' \in Int /\ day <= day' /\ Retention \in Int
  BY ConstantsAssumption DEF IdemIInv, TypeOK, Request, Days, Purge, CloseShift, Tick, vars
<1>1. \A k \in Keys : row'[k] = row[k] \/ (row'[k] = None /\ Expired(k))
  BY DEF IdemIInv, TypeOK, Purge, CloseShift, Tick, vars
<1>2. \A s \in Shifts : shift'[s].holder = shift[s].holder
  BY DEF IdemIInv, TypeOK, Purge, CloseShift, Tick, vars
<1>3. TypeOK'
  <2>1. row' \in [Keys -> Row \cup {None}]
    <3>1. CASE Purge
      BY <3>1 DEF IdemIInv, TypeOK, Purge
    <3>2. CASE ~Purge
      BY <3>2 DEF IdemIInv, TypeOK, CloseShift, Tick, vars
    <3> QED
      BY <3>1, <3>2
  <2>2. shift' \in [Shifts -> [open : BOOLEAN, holder : Requests \cup {None}]]
    <3>1. ASSUME NEW s \in Shifts, CloseShift(s)
          PROVE  shift' \in [Shifts -> [open : BOOLEAN, holder : Requests \cup {None}]]
      BY <3>1 DEF IdemIInv, TypeOK, CloseShift
    <3>2. CASE UNCHANGED shift
      BY <3>2 DEF IdemIInv, TypeOK
    <3> QED
      BY <3>1, <3>2 DEF Purge, Tick, vars
  <2>3. day' \in Days
    BY ConstantsAssumption DEF IdemIInv, TypeOK, Purge, CloseShift, Tick, vars, Days
  <2> QED
    BY <1>0, <2>1, <2>2, <2>3 DEF IdemIInv, TypeOK
<1>4. ASSUME NEW r \in Requests PROVE RequestInv(r)'
  <2>1. RequestInv(r) /\ (At(r) # "new" => Key(r) \in Keys /\ ShiftOf[PrintOf(r)] \in Shifts)
    BY ConstantsAssumption DEF IdemIInv, RequestInv
  <2>2. HoldsShift(r) => shift'[ShiftOf[PrintOf(r)]].holder = r
    BY <1>2, <2>1 DEF RequestInv, HoldsShift
  <2>3. At(r) = "work" => row'[Key(r)] = None
    BY <1>1, <2>1 DEF RequestInv
  <2> QED
    BY <1>0, <2>1, <2>2, <2>3 DEF RequestInv, HoldsShift, At, Key, PrintOf
<1>5. \A k \in Keys : KeyInv(k)'
  BY <1>0, <1>1 DEF IdemIInv, KeyInv, At, Key
<1>6. KeyIffConfirmed'
  <2>1. ASSUME NEW r \in Requests, performed[r] # None, day' <= request[r].born + Retention
        PROVE  row'[Key(r)] # None /\ row'[Key(r)].resource = r
    <3>1. row[Key(r)] # None /\ row[Key(r)].resource = r /\ Key(r) \in Keys
      BY <1>0, <2>1 DEF IdemIInv, KeyIffConfirmed, RequestInv
    <3>2. ~Expired(Key(r))
      BY <1>0, <2>1, <3>1 DEF IdemIInv, KeyInv, Expired
    <3> QED
      BY <1>1, <3>1, <3>2
  <2> QED
    BY <1>0, <1>1, <2>1 DEF IdemIInv, KeyIffConfirmed, At, Key, PrintOf
<1>7. AnswerIsYours' /\ AtMostOnce'
  BY <1>0 DEF IdemIInv, AnswerIsYours, AtMostOnce, At, Key, PrintOf
<1>8. DoneMovementNotJudged'
  <2> SUFFICES ASSUME NEW p \in Requests, NEW q \in Requests,
                      At(p) = "verify", performed[q] # None,
                      Key(q) = Key(p), PrintOf(q) = PrintOf(p)
               PROVE  request[q].born + Retention < day'
    BY <1>0 DEF DoneMovementNotJudged, At, Key, PrintOf
  <2>1. request[q].born + Retention < day
    BY DEF IdemIInv, DoneMovementNotJudged
  <2>2. request[q].born + Retention \in Int
    BY <1>0
  <2> QED
    BY <1>0, <2>1, <2>2
<1> QED
  BY <1>3, <1>4, <1>5, <1>6, <1>7, <1>8 DEF IdemIInv

LEMMA IdemStep == IdemIInv /\ [Next]_vars => IdemIInv'
<1> SUFFICES ASSUME IdemIInv, [Next]_vars PROVE IdemIInv'
  OBVIOUS
<1>1. ASSUME NEW r \in Requests, Begin(r) PROVE IdemIInv'
  BY <1>1, BeginTypes, BeginStep DEF IdemIInv
<1>2. ASSUME NEW r \in Requests, Advance(r) \/ Wait(r) \/ Fail(r) PROVE IdemIInv'
  <2>1. TypeOK'
    BY <1>2, AdvanceTypes DEF IdemIInv
  <2> QED
    BY <1>2, <2>1, AdvanceStep, CommitStep DEF Advance, Wait
<1> QED
  BY <1>1, <1>2, AroundStep DEF Next

LEMMA IdemStart == Init => IdemIInv
<1> SUFFICES ASSUME Init PROVE IdemIInv
  OBVIOUS
<1>1. TypeOK
  BY ConstantsAssumption DEF Init, TypeOK, Request, Days
<1>2. \A r \in Requests : /\ At(r) = "new" /\ performed[r] = None
  BY DEF Init, At
<1>3. \A r \in Requests : RequestInv(r)
  BY <1>2 DEF RequestInv, HoldsShift
<1>4. \A k \in Keys : row[k] = None /\ claim[k] = None
  BY DEF Init
<1> QED
  BY <1>1, <1>2, <1>3, <1>4
     DEF IdemIInv, KeyInv, KeyIffConfirmed, AnswerIsYours, AtMostOnce, DoneMovementNotJudged

-----------------------------------------------------------------------------
(* Theorems *)

\* What claims and locks protect holds of every behaviour of the requests.
THEOREM Protected == Spec => []IdemIInv
BY IdemStart, IdemStep, PTL DEF Spec

\* Two requests of one key both do their work only when the second commits after
\* the key's retention (runIdempotent, purgeExpiredSometimes).
THEOREM DoneOnce == Spec => []AtMostOnce
<1>1. IdemIInv => AtMostOnce
  BY DEF IdemIInv
<1> QED
  BY <1>1, Protected, PTL

\* A key names the operation that was confirmed under it with the same input, and
\* whoever is answered gets it (runIdempotent, findIdempotentResource).
THEOREM KeysAnswer == Spec => []KeysAnswerForTheirWork
<1>1. IdemIInv => KeysAnswerForTheirWork
  BY DEF IdemIInv, KeysAnswerForTheirWork
<1> QED
  BY <1>1, Protected, PTL

\* A movement that was recorded is not judged again while its key is kept: the
\* second look is taken under the lock of the shift (CashMovementService.register).
THEOREM NotJudgedTwice == Spec => []DoneMovementNotJudged
<1>1. IdemIInv => DoneMovementNotJudged
  BY DEF IdemIInv
<1> QED
  BY <1>1, Protected, PTL


-----------------------------------------------------------------------------
(* Outbox *)

\* What a stream still has to tell of a channel, or lost of it.
Known(s, ch) ==
    ch \in s.ask \/ ch \in s.dropped \/ \E i \in DOMAIN s.buffer : s.buffer[i] = ch

\* Who is behind with this stream will know.
Heard(s, l) ==
    s.open =>
        \A ch \in Wants[l] :
            s.view[ch] < version[Belongs[l]][ch] =>
                \/ Known(s, ch)
                \/ \E w \in Writers : /\ writer[w].status = "COMMITTED"
                                      /\ Count(writer[w].queue, Belongs[l], ch) > 0

\* What a transaction wrote is what it announces.
FaithfulQueues == \A w \in Writers : writer[w].queue = writer[w].changes

\* A device has one row of each user at most.
OneRow(rows) == \A i, j \in DOMAIN rows : rows[i].endpoint = rows[j].endpoint => i = j

SignalIInv ==
    /\ FaithfulQueues /\ AnnouncedIsCommitted
    /\ NobodySleepsOnASignal /\ \A l \in Listeners : Heard(stream[l], l)

DeviceIInv == SwitchedOffStaysOff /\ \A p \in People : OneRow(device[p])

OutboxIInv == OutboxTypeOK /\ SignalIInv /\ DeviceIInv

-----------------------------------------------------------------------------
(* Counting the signals of a queue *)

LEMMA CountNat ==
  ASSUME NEW queue \in Seq(Signal), NEW p, NEW ch
  PROVE  /\ Count(queue, p, ch) \in Nat
         /\ Count(queue, p, ch) > 0 <=> \E i \in 1 .. Len(queue) : queue[i] = [to |-> p, channel |-> ch]
<1> DEFINE D == {i \in DOMAIN queue : queue[i] = [to |-> p, channel |-> ch]}
<1>1. IsFiniteSet(1 .. Len(queue))
  BY FS_Interval
<1>2. DOMAIN queue = 1 .. Len(queue)
  OBVIOUS
<1>3. IsFiniteSet(D)
  <2>1. D \subseteq 1 .. Len(queue)
    BY <1>2
  <2> QED
    BY <1>1, <2>1, FS_Subset
<1>4. Count(queue, p, ch) = Cardinality(D)
  BY DEF Count
<1>5. D # {} <=> \E i \in 1 .. Len(queue) : queue[i] = [to |-> p, channel |-> ch]
  BY <1>2
<1> HIDE DEF D
<1>6. Cardinality(D) \in Nat /\ (Cardinality(D) = 0 <=> D = {})
  BY <1>3, FS_CardinalityType, FS_EmptySet
<1> QED
  BY <1>4, <1>5, <1>6

LEMMA CountNone == \A p, ch : Count(<<>>, p, ch) = 0
<1>1. SUFFICES ASSUME NEW p, NEW ch PROVE Count(<<>>, p, ch) = 0
  OBVIOUS
<1>2. {i \in DOMAIN <<>> : <<>>[i] = [to |-> p, channel |-> ch]} = {}
  OBVIOUS
<1> QED
  BY <1>2, FS_EmptySet DEF Count

-----------------------------------------------------------------------------
(* What a stream does with a signal *)

LEMMA PushKeeps ==
  ASSUME OutboxAssumption, NEW l \in Listeners, NEW s \in StreamRow, NEW ch \in Channels,
         s.waiting => s.buffer = <<>>
  PROVE  LET t == Push(l, s, ch) IN
         /\ t \in StreamRow /\ (t.waiting => t.buffer = <<>>)
         /\ t.open = s.open /\ t.view = s.view
         /\ \A c \in Wants[l] : Known(s, c) \/ c = ch => Known(t, c)
<1>1. MaxBuffered \in Nat /\ MaxBuffered > 0 /\ Wants[l] \subseteq Channels
  BY DEF OutboxAssumption
<1>2. s.buffer \in Seq(Channels) /\ s.ask \subseteq Channels /\ s.dropped \subseteq Channels
      /\ s.view \in [Channels -> Nat] /\ s.waiting \in BOOLEAN /\ s.open \in BOOLEAN
  BY DEF StreamRow
<1>3. CASE s.waiting
  <2> DEFINE t == [s EXCEPT !.waiting = FALSE, !.ask = @ \cup ({ch} \cap Wants[l])]
  <2>1. Push(l, s, ch) = t
    BY <1>3 DEF Push
  <2>2. t \in StreamRow /\ t.waiting = FALSE /\ t.open = s.open /\ t.view = s.view
    BY <1>2, <1>1 DEF StreamRow
  <2>3. \A c \in Wants[l] : Known(s, c) \/ c = ch => Known(t, c)
    <3>1. t.ask = s.ask \cup ({ch} \cap Wants[l]) /\ t.buffer = s.buffer /\ t.dropped = s.dropped
      BY DEF StreamRow
    <3> QED
      BY <3>1 DEF Known
  <2> QED
    BY <2>1, <2>2, <2>3
<1>4. CASE ~s.waiting /\ Len(s.buffer) < MaxBuffered
  <2> DEFINE t == [s EXCEPT !.buffer = Append(@, ch)]
  <2>1. Push(l, s, ch) = t
    BY <1>4 DEF Push
  <2>2. t.buffer = Append(s.buffer, ch) /\ t.ask = s.ask /\ t.dropped = s.dropped
        /\ t.waiting = FALSE /\ t.open = s.open /\ t.view = s.view
    BY <1>4, <1>2 DEF StreamRow
  <2>3. Append(s.buffer, ch) \in Seq(Channels)
    BY <1>2
  <2>4. t \in StreamRow
    BY <2>3, <1>2 DEF StreamRow
  <2>5. \A c \in Wants[l] : Known(s, c) \/ c = ch => Known(t, c)
    <3>1. /\ DOMAIN Append(s.buffer, ch) = 1 .. Len(s.buffer) + 1
          /\ DOMAIN s.buffer = 1 .. Len(s.buffer) /\ Len(s.buffer) \in Nat
          /\ \A i \in 1 .. Len(s.buffer) : Append(s.buffer, ch)[i] = s.buffer[i]
          /\ Append(s.buffer, ch)[Len(s.buffer) + 1] = ch
      BY <1>2
    <3> QED
      BY <2>2, <3>1 DEF Known
  <2> QED
    BY <2>1, <2>2, <2>4, <2>5
<1>5. CASE ~s.waiting /\ ~(Len(s.buffer) < MaxBuffered)
  <2> DEFINE t == [s EXCEPT !.buffer = Append(Tail(@), ch), !.dropped = @ \cup {Head(s.buffer)}]
  <2>1. Push(l, s, ch) = t
    BY <1>5 DEF Push
  <2>2. t.buffer = Append(Tail(s.buffer), ch) /\ t.ask = s.ask
        /\ t.dropped = s.dropped \cup {Head(s.buffer)}
        /\ t.waiting = FALSE /\ t.open = s.open /\ t.view = s.view
    BY <1>5, <1>2 DEF StreamRow
  <2>3. s.buffer # <<>> /\ Len(s.buffer) \in Nat /\ Len(s.buffer) > 0
    BY <1>5, <1>2, <1>1
  <2>4. Tail(s.buffer) \in Seq(Channels) /\ Head(s.buffer) \in Channels
    BY <1>2, <2>3
  <2>5. t \in StreamRow
    <3>1. Append(Tail(s.buffer), ch) \in Seq(Channels)
      BY <2>4
    <3>2. s.dropped \cup {Head(s.buffer)} \subseteq Channels
      BY <2>4, <1>2
    <3> QED
      BY <3>1, <3>2, <1>2 DEF StreamRow
  <2>6. \A c \in Wants[l] : Known(s, c) \/ c = ch => Known(t, c)
    <3> DEFINE n == Len(s.buffer)
               b == Append(Tail(s.buffer), ch)
    <3>1. /\ DOMAIN b = 1 .. n /\ DOMAIN s.buffer = 1 .. n
          /\ b[n] = ch /\ n \in Nat /\ n > 0
          /\ \A i \in 1 .. n - 1 : b[i] = s.buffer[i + 1]
          /\ Head(s.buffer) = s.buffer[1]
      BY <1>2, <2>3
    <3> HIDE DEF n, b
    <3>2. ASSUME NEW i \in 1 .. n PROVE s.buffer[i] = Head(s.buffer) \/ \E j \in 1 .. n : b[j] = s.buffer[i]
      <4>1. CASE i = 1
        BY <4>1, <3>1
      <4>2. CASE i # 1
        <5>1. i - 1 \in 1 .. n - 1 /\ i - 1 \in 1 .. n /\ i - 1 + 1 = i
          BY <4>2, <3>1
        <5>2. b[i - 1] = s.buffer[i]
          BY <5>1, <3>1
        <5> QED
          BY <5>1, <5>2
      <4> QED
        BY <4>1, <4>2
    <3>3. t.buffer = b
      BY <2>2 DEF b
    <3>4. n \in 1 .. n
      BY <3>1
    <3>5. t.ask = s.ask /\ t.dropped = s.dropped \cup {Head(s.buffer)}
      BY <2>2
    <3> HIDE DEF t
    <3>6. ASSUME NEW c \in Wants[l], Known(s, c) \/ c = ch PROVE Known(t, c)
      <4>1. CASE c = ch
        BY <4>1, <3>1, <3>3, <3>4 DEF Known
      <4>2. CASE c \in s.ask \/ c \in s.dropped
        BY <4>2, <3>5 DEF Known
      <4>3. CASE \E i \in 1 .. n : s.buffer[i] = c
        <5>1. c = Head(s.buffer) \/ \E j \in 1 .. n : b[j] = c
          BY <4>3, <3>2
        <5> QED
          BY <5>1, <3>1, <3>3, <3>5 DEF Known
      <4> QED
        BY <3>6, <3>1, <4>1, <4>2, <4>3 DEF Known
    <3> QED
      BY <3>6
  <2> QED
    BY <2>1, <2>2, <2>5, <2>6
<1> QED
  BY <1>3, <1>4, <1>5

-----------------------------------------------------------------------------
(* A queue handed to a stream, signal by signal *)

\* g is what is left of the stream s after each of the first n signals.
Handing(g, l, s, queue, n) ==
    g = [i \in 0 .. n |->
            IF i = 0 THEN s
            ELSE IF queue[i].to = Belongs[l] THEN Push(l, g[i - 1], queue[i].channel)
            ELSE g[i - 1]]

LEMMA HandedUnfold ==
  ASSUME NEW l, NEW s, NEW queue
  PROVE  Handed(l, s, queue) = (CHOOSE g : Handing(g, l, s, queue, Len(queue)))[Len(queue)]
BY Zenon DEF Handed, Handing

LEMMA HandingExists ==
  ASSUME NEW l, NEW s, NEW queue, NEW n \in Nat
  PROVE  \E g : Handing(g, l, s, queue, n)
<1> DEFINE C == {m \in Nat : ~ \E g : Handing(g, l, s, queue, m)}
<1>1. SUFFICES ASSUME C # {} PROVE FALSE
  BY <1>1
<1>2. PICK m \in C : \A k \in C : m <= k
  <2>1. C \in SUBSET Nat
    OBVIOUS
  <2> HIDE DEF C
  <2> QED
    BY <1>1, <2>1, Smallest
<1>3. m \in Nat /\ ~ \E g : Handing(g, l, s, queue, m)
  OBVIOUS
<1>4. CASE m = 0
  <2> DEFINE h == [i \in 0 .. 0 |-> s]
  <2>1. h = [i \in 0 .. 0 |->
               IF i = 0 THEN s
               ELSE IF queue[i].to = Belongs[l] THEN Push(l, h[i - 1], queue[i].channel)
               ELSE h[i - 1]]
    OBVIOUS
  <2>2. Handing(h, l, s, queue, 0)
    BY <2>1, Zenon DEF Handing
  <2> QED
    BY <1>3, <1>4, <2>2
<1>5. CASE m # 0
  <2>1. m - 1 \in Nat /\ ~(m <= m - 1) /\ 0 .. m - 1 \subseteq 0 .. m
    BY <1>3, <1>5
  <2>2. m - 1 \notin C
    BY <1>2, <2>1
  <2>3. PICK g : Handing(g, l, s, queue, m - 1)
    BY <2>1, <2>2
  <2> DEFINE Later(f, i) == IF i = 0 THEN s
                           ELSE IF queue[i].to = Belongs[l] THEN Push(l, f[i - 1], queue[i].channel)
                           ELSE f[i - 1]
             h == [i \in 0 .. m |-> Later(g, i)]
  <2>4. \A i \in 0 .. m - 1 : g[i] = Later(g, i)
    BY <2>3, Zenon DEF Handing
  <2>5. \A i \in 0 .. m - 1 : h[i] = g[i]
    BY <2>1, <2>4, Zenon
  <2>6. \A i \in 0 .. m : i # 0 => i - 1 \in 0 .. m - 1
    BY <1>3
  <2>7. \A i \in 0 .. m : Later(g, i) = Later(h, i)
    BY <2>5, <2>6, Zenon
  <2>8. h = [i \in 0 .. m |-> Later(h, i)]
    BY <2>7, Zenon
  <2>9. Handing(h, l, s, queue, m)
    BY <2>8, Zenon DEF Handing
  <2> QED
    BY <1>3, <2>9
<1> QED
  BY <1>4, <1>5

\* An open stream knows what it knew and what of the queue its user listens to.
LEMMA HandedKeeps ==
  ASSUME OutboxAssumption, NEW l \in Listeners, NEW s \in StreamRow, NEW queue \in Seq(Signal),
         s.waiting => s.buffer = <<>>
  PROVE  LET t == Handed(l, s, queue) IN
         /\ t \in StreamRow /\ (t.waiting => t.buffer = <<>>)
         /\ t.open = s.open /\ t.view = s.view
         /\ \A c \in Wants[l] :
                \/ Known(s, c)
                \/ \E i \in 1 .. Len(queue) : queue[i] = [to |-> Belongs[l], channel |-> c]
                => Known(t, c)
<1> DEFINE n == Len(queue)
<1>1. n \in Nat /\ \A i \in 1 .. n : queue[i] \in Signal
  OBVIOUS
<1>2. PICK g : g = CHOOSE f : Handing(f, l, s, queue, n)
  OBVIOUS
<1>3. Handing(g, l, s, queue, n)
  BY <1>1, <1>2, HandingExists, Zenon
<1>4. Handed(l, s, queue) = g[n]
  BY <1>2, HandedUnfold
<1> DEFINE Told(i, c) == \E j \in 1 .. i : queue[j] = [to |-> Belongs[l], channel |-> c]
           Kept(t, i) == /\ t \in StreamRow /\ (t.waiting => t.buffer = <<>>)
                         /\ t.open = s.open /\ t.view = s.view
                         /\ \A c \in Wants[l] : Known(s, c) \/ Told(i, c) => Known(t, c)
<1>5. Kept(s, 0)
  <2>1. \A c : ~Told(0, c)
    OBVIOUS
  <2> HIDE DEF Told
  <2> QED
    BY <2>1
<1>6. ASSUME NEW i \in 1 .. n, NEW t, Kept(t, i - 1)
      PROVE  Kept(IF queue[i].to = Belongs[l] THEN Push(l, t, queue[i].channel) ELSE t, i)
  <2>1. i \in Nat /\ i - 1 \in Nat /\ queue[i] \in Signal
    BY <1>1
  <2>2. \A c : Told(i, c) => Told(i - 1, c) \/ queue[i] = [to |-> Belongs[l], channel |-> c]
    <3>1. \A j \in 1 .. i : j \in 1 .. i - 1 \/ j = i
      BY <2>1
    <3> QED
      BY <3>1
  <2>3. CASE queue[i].to = Belongs[l]
    <3>1. queue[i].channel \in Channels
      BY <2>1 DEF Signal
    <3>2. \A c : Told(i, c) => Told(i - 1, c) \/ c = queue[i].channel
      BY <2>2
    <3> HIDE DEF Told
    <3>3. t \in StreamRow /\ (t.waiting => t.buffer = <<>>)
      BY <1>6
    <3>4. PICK u : u = Push(l, t, queue[i].channel)
      OBVIOUS
    <3>5. /\ u \in StreamRow /\ (u.waiting => u.buffer = <<>>)
          /\ u.open = t.open /\ u.view = t.view
          /\ \A c \in Wants[l] : Known(t, c) \/ c = queue[i].channel => Known(u, c)
      BY <3>1, <3>3, <3>4, PushKeeps
    <3>6. Kept(u, i)
      BY <1>6, <3>2, <3>5
    <3> QED
      BY <2>3, <3>4, <3>6
  <2>4. CASE queue[i].to # Belongs[l]
    <3>1. \A c : Told(i, c) => Told(i - 1, c)
      BY <2>2, <2>4
    <3> HIDE DEF Told
    <3>2. Kept(t, i)
      BY <1>6, <3>1
    <3> QED
      BY <2>4, <3>2
  <2> QED
    BY <2>3, <2>4
<1> HIDE DEF Kept
<1>7. g[0] = s
  BY <1>1, <1>3 DEF Handing
<1>8. ASSUME NEW i \in 1 .. n
      PROVE  g[i] = IF queue[i].to = Belongs[l] THEN Push(l, g[i - 1], queue[i].channel) ELSE g[i - 1]
  <2>1. i \in 0 .. n /\ i # 0
    BY <1>1
  <2> QED
    BY <1>3, <2>1, Zenon DEF Handing
<1> DEFINE C == {i \in Nat : i <= n /\ ~Kept(g[i], i)}
<1>9. C = {}
  <2>1. SUFFICES ASSUME C # {} PROVE FALSE
    OBVIOUS
  <2>2. PICK i \in C : \A k \in C : i <= k
    <3>1. C \in SUBSET Nat
      OBVIOUS
    <3> HIDE DEF C
    <3> QED
      BY <2>1, <3>1, Smallest
  <2>3. i \in Nat /\ i <= n /\ ~Kept(g[i], i)
    OBVIOUS
  <2>4. i # 0
    BY <1>5, <1>7, <2>3
  <2>5. i \in 1 .. n /\ i - 1 \in Nat /\ i - 1 <= n /\ ~(i <= i - 1)
    BY <1>1, <2>3, <2>4
  <2>6. Kept(g[i - 1], i - 1)
    BY <2>2, <2>5
  <2> QED
    BY <1>6, <1>8, <2>3, <2>5, <2>6
<1>10. Kept(g[n], n)
  BY <1>1, <1>9
<1> QED
  BY <1>4, <1>10 DEF Kept

-----------------------------------------------------------------------------
(* The rows of a device *)

LEMMA RemovedAt ==
  ASSUME NEW S, NEW s \in Seq(S), NEW i \in 1 .. Len(s)
  PROVE  /\ RemoveAt(s, i) \in Seq(S) /\ Len(RemoveAt(s, i)) = Len(s) - 1
         /\ \A k \in 1 .. Len(s) - 1 : RemoveAt(s, i)[k] = IF k < i THEN s[k] ELSE s[k + 1]
<1> DEFINE a == SubSeq(s, 1, i - 1)
           b == SubSeq(s, i + 1, Len(s))
<1>1. i \in Nat /\ Len(s) \in Nat /\ 1 <= i /\ i <= Len(s)
  OBVIOUS
<1>2. a \in Seq(S) /\ Len(a) = i - 1 /\ \A k \in 1 .. i - 1 : a[k] = s[k]
  BY <1>1
<1>3. b \in Seq(S) /\ Len(b) = Len(s) - i /\ \A k \in 1 .. Len(s) - i : b[k] = s[i + k]
  BY <1>1
<1>4. RemoveAt(s, i) = a \o b
  BY DEF RemoveAt
<1> HIDE DEF a, b
<1>5. a \o b \in Seq(S) /\ Len(a \o b) = Len(s) - 1
  <2>1. a \in Seq(S) /\ b \in Seq(S)
    BY <1>2, <1>3
  <2>2. a \o b \in Seq(S) /\ Len(a \o b) = Len(a) + Len(b)
    BY <2>1
  <2>3. Len(a) = i - 1 /\ Len(b) = Len(s) - i
    BY <1>2, <1>3
  <2> QED
    BY <1>1, <2>2, <2>3
<1>6. ASSUME NEW k \in 1 .. Len(s) - 1
      PROVE  (a \o b)[k] = IF k < i THEN s[k] ELSE s[k + 1]
  <2>1. (a \o b)[k] = IF k <= Len(a) THEN a[k] ELSE b[k - Len(a)]
    BY <1>1, <1>2, <1>3
  <2>2. CASE k < i
    BY <1>1, <1>2, <2>1, <2>2
  <2>3. CASE ~(k < i)
    <3>1. k - (i - 1) \in 1 .. Len(s) - i /\ i + (k - (i - 1)) = k + 1
      BY <1>1, <2>3
    <3> QED
      BY <1>1, <1>2, <1>3, <2>1, <2>3, <3>1
  <2> QED
    BY <2>2, <2>3
<1> QED
  BY <1>4, <1>5, <1>6

LEMMA WithoutKeeps ==
  ASSUME OutboxTypeOK, NEW p \in People, NEW d, OneRow(device[p])
  PROVE  LET rows == Without(p, d) IN
         /\ rows \in Seq(DeviceRow) /\ OneRow(rows)
         /\ \A i \in DOMAIN rows : /\ rows[i].endpoint # d
                                   /\ \E j \in DOMAIN device[p] : rows[i] = device[p][j]
<1> DEFINE s == device[p]
<1>1. s \in Seq(DeviceRow) /\ Len(s) \in Nat /\ DOMAIN s = 1 .. Len(s)
  BY DEF OutboxTypeOK
<1>2. CASE RowsOf(p, d) = {}
  <2>1. Without(p, d) = s
    BY <1>2 DEF Without
  <2>2. \A i \in DOMAIN s : s[i].endpoint # d
    BY <1>2 DEF RowsOf
  <2> QED
    BY <1>1, <2>1, <2>2
<1>3. CASE RowsOf(p, d) # {}
  <2>1. PICK i : i = CHOOSE k \in RowsOf(p, d) : TRUE
    OBVIOUS
  <2>2. i \in 1 .. Len(s) /\ s[i].endpoint = d
    BY <1>1, <1>3, <2>1 DEF RowsOf
  <2>3. PICK rows : rows = RemoveAt(s, i)
    OBVIOUS
  <2>4. Without(p, d) = rows
    BY <1>3, <2>1, <2>3 DEF Without
  <2>5. /\ rows \in Seq(DeviceRow) /\ Len(rows) = Len(s) - 1
        /\ \A k \in 1 .. Len(s) - 1 : rows[k] = IF k < i THEN s[k] ELSE s[k + 1]
    BY <1>1, <2>2, <2>3, RemovedAt
  <2>6. DOMAIN rows = 1 .. Len(s) - 1
    BY <2>5
  <2> DEFINE at(k) == IF k < i THEN k ELSE k + 1
  <2>7. \A k \in 1 .. Len(s) - 1 : at(k) \in 1 .. Len(s) /\ at(k) # i /\ rows[k] = s[at(k)]
    BY <1>1, <2>2, <2>5
  <2>8. \A j, k \in 1 .. Len(s) - 1 : at(j) = at(k) => j = k
    BY <1>1, <2>2
  <2> HIDE DEF at
  <2>9. \A j, k \in 1 .. Len(s) : s[j].endpoint = s[k].endpoint => j = k
    BY <1>1 DEF OneRow
  <2>10. \A k \in 1 .. Len(s) - 1 : rows[k].endpoint # d
    BY <2>2, <2>7, <2>9
  <2>11. OneRow(rows)
    BY <2>6, <2>7, <2>8, <2>9 DEF OneRow
  <2> QED
    BY <1>1, <2>4, <2>5, <2>6, <2>7, <2>10, <2>11
<1> QED
  BY <1>2, <1>3

LEMMA OrphanedKeeps ==
  ASSUME OutboxTypeOK, NEW rows
  PROVE  Orphaned(rows) \in [Devices -> {<<>>} \cup (People \X Nat \X BOOLEAN)]
<1>1. SUFFICES ASSUME NEW d \in Devices
               PROVE  Orphaned(rows)[d] \in {<<>>} \cup (People \X Nat \X BOOLEAN)
  BY DEF Orphaned
<1>2. sending[d] = <<>> \/ sending[d] \in People \X Nat \X BOOLEAN
  BY DEF OutboxTypeOK
<1>3. CASE sending[d] = <<>>
  BY <1>3 DEF Orphaned
<1>4. CASE sending[d] # <<>>
  <2>1. sending[d][1] \in People /\ sending[d][2] \in Nat /\ sending[d][3] \in BOOLEAN
    BY <1>2, <1>4
  <2> QED
    BY <1>4, <2>1 DEF Orphaned
<1> QED
  BY <1>3, <1>4

-----------------------------------------------------------------------------
(* Registering and answering *)

\* What the rows of devices keep, said without the operators that read them.
DevicesHold(rows, away) ==
    \A p \in People : /\ OneRow(rows[p])
                      /\ \A d \in away[p] : \A i \in DOMAIN rows[p] : rows[p][i].endpoint # d

LEMMA DeviceHold == DeviceIInv <=> DevicesHold(device, off)
BY DEF DeviceIInv, SwitchedOffStaysOff, FailuresOf, RowsOf, DevicesHold

LEMMA DeviceHoldNext == DeviceIInv' <=> DevicesHold(device', off')
BY DEF DeviceIInv, SwitchedOffStaysOff, FailuresOf, RowsOf, DevicesHold

LEMMA RegisterKeeps ==
  ASSUME OutboxAssumption, OutboxTypeOK, DeviceIInv,
         NEW p \in People, NEW d \in Devices, Register(p, d)
  PROVE  OutboxTypeOK' /\ DeviceIInv'
<1>1. PICK away : away = Without(p, d)
  OBVIOUS
<1> DEFINE entry == [endpoint |-> d, failures |-> 0]
           mine == Append(away, entry)
           over == Len(mine) - MaxDevices
           last == IF over > 0 THEN SubSeq(mine, 1 + over, Len(mine)) ELSE mine
<1>2. OneRow(device[p])
  BY DEF DeviceIInv
<1>3. /\ away \in Seq(DeviceRow) /\ OneRow(away)
      /\ \A i \in DOMAIN away : /\ away[i].endpoint # d
                                /\ \E j \in DOMAIN device[p] : away[i] = device[p][j]
  BY <1>1, <1>2, WithoutKeeps
<1>4. entry \in DeviceRow
  BY DEF DeviceRow
<1>5. /\ Len(mine) = Len(away) + 1 /\ mine[Len(away) + 1] = entry /\ mine \in Seq(DeviceRow)
      /\ \A i \in 1 .. Len(away) : mine[i] = away[i]
  BY <1>3, <1>4
<1>6. DOMAIN away = 1 .. Len(away) /\ Len(away) \in Nat /\ entry.endpoint = d
  BY <1>3
<1> HIDE DEF mine, entry
<1>7. OneRow(mine)
  <2>1. DOMAIN mine = 1 .. Len(away) + 1
    BY <1>5, <1>6
  <2>2. \A i \in 1 .. Len(away) + 1 : i \in 1 .. Len(away) \/ i = Len(away) + 1
    BY <1>6
  <2> QED
    BY <1>3, <1>5, <1>6, <2>1, <2>2 DEF OneRow
<1>8. \E k \in Nat : /\ last \in Seq(DeviceRow) /\ Len(last) + k = Len(mine)
                     /\ \A i \in 1 .. Len(last) : last[i] = mine[i + k]
  <2>1. MaxDevices \in Nat /\ MaxDevices > 0 /\ Len(mine) \in Nat
    BY <1>5 DEF OutboxAssumption
  <2>2. CASE over > 0
    <3>1. over \in Nat /\ 1 + over \in 1 .. Len(mine)
      BY <2>1, <2>2
    <3>2. last = SubSeq(mine, 1 + over, Len(mine))
      BY <2>2
    <3> HIDE DEF over
    <3>3. /\ SubSeq(mine, 1 + over, Len(mine)) \in Seq(DeviceRow)
          /\ Len(SubSeq(mine, 1 + over, Len(mine))) = Len(mine) - over
          /\ \A i \in 1 .. Len(mine) - over : SubSeq(mine, 1 + over, Len(mine))[i] = mine[1 + over + i - 1]
      BY <1>5, <2>1, <3>1
    <3>4. \A i \in 1 .. Len(mine) - over : 1 + over + i - 1 = i + over
      BY <3>1
    <3> HIDE DEF last
    <3>5. Len(last) + over = Len(mine) /\ last \in Seq(DeviceRow)
      BY <2>1, <3>1, <3>2, <3>3
    <3>6. \A i \in 1 .. Len(last) : last[i] = mine[i + over]
      BY <3>2, <3>3, <3>4
    <3> QED
      BY <3>1, <3>5, <3>6
  <2>3. CASE ~(over > 0)
    <3>1. last = mine
      BY <2>3
    <3> HIDE DEF last
    <3>2. last \in Seq(DeviceRow)
      BY <1>5, <3>1
    <3>3. Len(last) + 0 = Len(mine)
      BY <2>1, <3>1
    <3>4. ASSUME NEW i \in 1 .. Len(last) PROVE last[i] = mine[i + 0]
      <4>1. i + 0 = i
        OBVIOUS
      <4> QED
        BY <3>1, <4>1
    <3> QED
      BY <3>2, <3>3, <3>4
  <2> QED
    BY <2>2, <2>3
<1>9. PICK rest : rest = [q \in People |-> IF q # p THEN Without(q, d) ELSE last]
  OBVIOUS
<1>10. device' = rest /\ sending' = Orphaned(rest) /\ off' = [off EXCEPT ![p] = @ \ {d}]
       /\ UNCHANGED <<writer, version, told, stream>>
  BY <1>1, <1>9 DEF Register, UnchangedStreams, mine, entry
<1>11. PICK k \in Nat : /\ last \in Seq(DeviceRow) /\ Len(last) + k = Len(mine)
                        /\ \A i \in 1 .. Len(last) : last[i] = mine[i + k]
  BY <1>8
<1> HIDE DEF last, over
<1>12. DOMAIN last = 1 .. Len(last) /\ Len(last) \in Nat /\ DOMAIN mine = 1 .. Len(mine)
       /\ \A i \in 1 .. Len(last) : i + k \in 1 .. Len(mine)
  BY <1>5, <1>11
<1>13. OneRow(last)
  <2>1. ASSUME NEW i \in 1 .. Len(last), NEW j \in 1 .. Len(last), last[i].endpoint = last[j].endpoint
        PROVE  i = j
    <3>1. i + k = j + k
      BY <1>7, <1>11, <1>12, <2>1 DEF OneRow
    <3> QED
      BY <1>12, <3>1
  <2> QED
    BY <1>12, <2>1 DEF OneRow
<1>14. \A i \in DOMAIN last : \/ last[i].endpoint = d
                              \/ \E j \in DOMAIN device[p] : last[i].endpoint = device[p][j].endpoint
  <2>1. ASSUME NEW i \in DOMAIN last
        PROVE  \/ last[i].endpoint = d
               \/ \E j \in DOMAIN device[p] : last[i].endpoint = device[p][j].endpoint
    <3>1. i + k \in 1 .. Len(mine) /\ last[i] = mine[i + k]
      BY <1>11, <1>12
    <3>2. CASE i + k = Len(away) + 1
      BY <1>5, <1>6, <3>1, <3>2
    <3>3. CASE i + k \in 1 .. Len(away)
      BY <1>3, <1>5, <1>6, <3>1, <3>3
    <3> QED
      BY <1>5, <1>6, <3>1, <3>2, <3>3
  <2> QED
    BY <2>1
<1>15. \A q \in People : off'[q] = IF q = p THEN off[q] \ {d} ELSE off[q]
  BY <1>10 DEF OutboxTypeOK
<1>16. ASSUME NEW q \in People
       PROVE  /\ rest[q] \in Seq(DeviceRow) /\ OneRow(rest[q])
              /\ \A e \in off'[q] : \A i \in DOMAIN rest[q] : rest[q][i].endpoint # e
  <2>1. CASE q = p
    <3>1. rest[q] = last
      BY <1>9, <2>1
    <3>2. \A e \in off[p] : \A j \in DOMAIN device[p] : device[p][j].endpoint # e
      BY DeviceHold DEF DevicesHold
    <3>3. off'[q] = off[p] \ {d}
      BY <1>15, <2>1
    <3>4. \A e \in off'[q] : e # d /\ \A j \in DOMAIN device[p] : device[p][j].endpoint # e
      BY <3>2, <3>3
    <3>5. \A e \in off'[q] : \A i \in DOMAIN last : last[i].endpoint # e
      BY <1>14, <3>4
    <3> QED
      BY <1>11, <1>13, <3>1, <3>5
  <2>2. CASE q # p
    <3>1. rest[q] = Without(q, d)
      BY <1>9, <2>2
    <3>2. OneRow(device[q])
      BY DEF DeviceIInv
    <3>3. /\ rest[q] \in Seq(DeviceRow) /\ OneRow(rest[q])
          /\ \A i \in DOMAIN rest[q] : \E j \in DOMAIN device[q] : rest[q][i] = device[q][j]
      BY <3>1, <3>2, WithoutKeeps
    <3>4. \A e \in off[q] : \A j \in DOMAIN device[q] : device[q][j].endpoint # e
      BY DeviceHold DEF DevicesHold
    <3>5. off'[q] = off[q]
      BY <1>15, <2>2
    <3>6. \A e \in off[q] : \A i \in DOMAIN rest[q] : rest[q][i].endpoint # e
      BY <3>3, <3>4
    <3> QED
      BY <3>3, <3>5, <3>6
  <2> QED
    BY <2>1, <2>2
<1>17. DeviceIInv'
  <2>1. DevicesHold(device', off')
    BY <1>10, <1>16 DEF DevicesHold
  <2> QED
    BY <2>1, DeviceHoldNext
<1>18. OutboxTypeOK'
  <2>1. device' \in [People -> Seq(DeviceRow)]
    BY <1>9, <1>10, <1>16
  <2>2. sending' \in [Devices -> {<<>>} \cup (People \X Nat \X BOOLEAN)]
    BY <1>10, OrphanedKeeps
  <2>3. off' \in [People -> SUBSET Devices]
    BY <1>10 DEF OutboxTypeOK
  <2> QED
    BY <1>10, <2>1, <2>2, <2>3 DEF OutboxTypeOK
<1> QED
  BY <1>17, <1>18

LEMMA UnregisterKeeps ==
  ASSUME OutboxTypeOK, DeviceIInv, NEW p \in People, NEW d \in Devices, Unregister(p, d)
  PROVE  OutboxTypeOK' /\ DeviceIInv'
<1>1. PICK away : away = Without(p, d)
  OBVIOUS
<1>2. /\ away \in Seq(DeviceRow) /\ OneRow(away)
      /\ \A i \in DOMAIN away : /\ away[i].endpoint # d
                                /\ \E j \in DOMAIN device[p] : away[i] = device[p][j]
  BY <1>1, WithoutKeeps DEF DeviceIInv
<1>3. PICK rest : rest = [device EXCEPT ![p] = away]
  OBVIOUS
<1>4. device' = rest /\ sending' = Orphaned(rest) /\ off' = [off EXCEPT ![p] = @ \cup {d}]
      /\ UNCHANGED <<writer, version, told, stream>>
  BY <1>1, <1>3 DEF Unregister, UnchangedStreams
<1>5. \A q \in People : off'[q] = (IF q = p THEN off[q] \cup {d} ELSE off[q])
                        /\ rest[q] = (IF q = p THEN away ELSE device[q])
  BY <1>3, <1>4 DEF OutboxTypeOK
<1>6. DevicesHold(device, off)
  BY DeviceHold
<1>7. DevicesHold(device', off')
  <2>1. ASSUME NEW q \in People
        PROVE  /\ OneRow(rest[q])
               /\ \A e \in off'[q] : \A i \in DOMAIN rest[q] : rest[q][i].endpoint # e
    <3>1. CASE q = p
      <4>1. \A e \in off[p] : \A j \in DOMAIN device[p] : device[p][j].endpoint # e
        BY <1>6 DEF DevicesHold
      <4>2. \A e \in off[p] : \A i \in DOMAIN away : away[i].endpoint # e
        BY <1>2, <4>1
      <4>3. rest[q] = away /\ off'[q] = off[p] \cup {d}
        BY <1>5, <3>1
      <4> QED
        BY <1>2, <4>2, <4>3
    <3>2. CASE q # p
      BY <1>5, <1>6, <3>2 DEF DevicesHold
    <3> QED
      BY <3>1, <3>2
  <2> QED
    BY <1>4, <2>1 DEF DevicesHold
<1>8. OutboxTypeOK'
  <2>1. device' \in [People -> Seq(DeviceRow)]
    BY <1>2, <1>3, <1>4 DEF OutboxTypeOK
  <2>2. sending' \in [Devices -> {<<>>} \cup (People \X Nat \X BOOLEAN)]
    BY <1>4, OrphanedKeeps
  <2>3. off' \in [People -> SUBSET Devices]
    BY <1>4 DEF OutboxTypeOK
  <2> QED
    BY <1>4, <2>1, <2>2, <2>3 DEF OutboxTypeOK
<1> QED
  BY <1>7, <1>8, DeviceHoldNext

LEMMA DispatchKeeps ==
  ASSUME OutboxTypeOK, DeviceIInv, NEW p \in People, NEW d \in Devices, Dispatch(p, d)
  PROVE  OutboxTypeOK' /\ DeviceIInv'
<1>1. PICK n \in FailuresOf(p, d) : sending' = [sending EXCEPT ![d] = <<p, n, TRUE>>]
  BY DEF Dispatch
<1>2. n \in Nat
  <2>1. PICK i \in DOMAIN device[p] : n = device[p][i].failures
    BY <1>1 DEF FailuresOf, RowsOf
  <2>2. device[p] \in Seq(DeviceRow)
    BY DEF OutboxTypeOK
  <2>3. device[p][i] \in DeviceRow
    BY <2>1, <2>2
  <2> QED
    BY <2>1, <2>3 DEF DeviceRow
<1>3. UNCHANGED <<writer, version, told, stream, device, off>>
  BY DEF Dispatch, UnchangedStreams
<1>4. sending' \in [Devices -> {<<>>} \cup (People \X Nat \X BOOLEAN)]
  BY <1>1, <1>2 DEF OutboxTypeOK
<1> QED
  BY <1>3, <1>4, DeviceHold, DeviceHoldNext DEF OutboxTypeOK

\* The rows of q after an answer: as they were, without a row, or with its failures set.
LEMMA UpdatedKeeps ==
  ASSUME OutboxTypeOK, DeviceIInv, NEW p \in People, NEW d, NEW n \in Nat, NEW here \in BOOLEAN
  PROVE  LET rows == Updated(p, d, n, here) IN
         rows \in [People -> Seq(DeviceRow)] /\ DevicesHold(rows, off)
<1>1. DevicesHold(device, off) /\ device \in [People -> Seq(DeviceRow)]
  BY DeviceHold DEF OutboxTypeOK
<1>2. CASE ~here
  BY <1>1, <1>2 DEF Updated
<1>3. CASE here
  <2> DEFINE s == device[p]
             set == [i \in DOMAIN s |-> IF s[i].endpoint = d THEN [s[i] EXCEPT !.failures = n] ELSE s[i]]
             rows == [device EXCEPT ![p] = set]
  <2>1. Updated(p, d, n, here) = rows
    BY <1>3 DEF Updated
  <2>2. s \in Seq(DeviceRow) /\ DOMAIN s = 1 .. Len(s) /\ Len(s) \in Nat
    BY <1>1
  <2>3. \A i \in 1 .. Len(s) : set[i] \in DeviceRow /\ set[i].endpoint = s[i].endpoint
    <3>1. \A i \in 1 .. Len(s) : s[i] \in DeviceRow
      BY <2>2
    <3> QED
      BY <2>2, <3>1 DEF DeviceRow
  <2>4. DOMAIN set = DOMAIN s
    OBVIOUS
  <2>5. set \in Seq(DeviceRow)
    <3>1. set \in [1 .. Len(s) -> DeviceRow]
      BY <2>2, <2>3
    <3> HIDE DEF set
    <3> QED
      BY <2>2, <3>1
  <2>6. \A q \in People : rows[q] = IF q = p THEN set ELSE device[q]
    BY <1>1
  <2>7. rows \in [People -> Seq(DeviceRow)]
    BY <1>1, <2>5
  <2> HIDE DEF rows, set
  <2>8. DevicesHold(rows, off)
    <3>1. ASSUME NEW q \in People
          PROVE  /\ OneRow(rows[q])
                 /\ \A e \in off[q] : \A i \in DOMAIN rows[q] : rows[q][i].endpoint # e
      <4>1. CASE q = p
        <5>1. OneRow(s) /\ \A e \in off[p] : \A i \in DOMAIN s : s[i].endpoint # e
          BY <1>1 DEF DevicesHold
        <5>2. OneRow(set) /\ \A e \in off[p] : \A i \in DOMAIN set : set[i].endpoint # e
          BY <2>2, <2>3, <2>4, <5>1 DEF OneRow
        <5> QED
          BY <2>6, <4>1, <5>2
      <4>2. CASE q # p
        BY <1>1, <2>6, <4>2 DEF DevicesHold
      <4> QED
        BY <4>1, <4>2
    <3> QED
      BY <3>1 DEF DevicesHold
  <2> QED
    BY <2>1, <2>7, <2>8
<1> QED
  BY <1>2, <1>3

LEMMA AnsweredKeeps ==
  ASSUME OutboxAssumption, OutboxTypeOK, DeviceIInv, NEW d \in Devices, NEW answer, Answered(d, answer),
         answer \in {"TAKEN", "GONE", "REFUSED", "OTHER"}
  PROVE  OutboxTypeOK' /\ DeviceIInv'
<1> DEFINE p == sending[d][1]
           n == sending[d][2]
           here == sending[d][3]
           removed == IF here THEN [device EXCEPT ![p] = Without(p, d)] ELSE device
<1>1. sending[d] \in People \X Nat \X BOOLEAN
  BY DEF Answered, OutboxTypeOK
<1>2. p \in People /\ n \in Nat /\ here \in BOOLEAN
  BY <1>1
<1>3. sending' = [sending EXCEPT ![d] = <<>>] /\ UNCHANGED <<writer, version, told, stream, off>>
  BY DEF Answered, UnchangedStreams
<1>4. \/ device' = removed \/ device' = device
      \/ device' = Updated(p, d, 0, here) \/ device' = Updated(p, d, n + 1, here)
  BY DEF Answered
<1>5. DevicesHold(device, off) /\ device \in [People -> Seq(DeviceRow)]
  BY DeviceHold DEF OutboxTypeOK
<1> HIDE DEF p, n, here
<1>6. removed \in [People -> Seq(DeviceRow)] /\ DevicesHold(removed, off)
  <2>1. CASE ~here
    BY <1>5, <2>1
  <2>2. CASE here
    <3>1. PICK away : away = Without(p, d)
      OBVIOUS
    <3>2. /\ away \in Seq(DeviceRow) /\ OneRow(away)
          /\ \A i \in DOMAIN away : \E j \in DOMAIN device[p] : away[i] = device[p][j]
      BY <1>2, <3>1, WithoutKeeps DEF DeviceIInv
    <3>3. removed = [device EXCEPT ![p] = away]
      BY <2>2, <3>1
    <3> HIDE DEF removed
    <3>4. removed \in [People -> Seq(DeviceRow)]
      BY <1>5, <3>2, <3>3
    <3>5. \A q \in People : removed[q] = IF q = p THEN away ELSE device[q]
      BY <1>5, <3>3
    <3>6. ASSUME NEW q \in People
          PROVE  /\ OneRow(removed[q])
                 /\ \A e \in off[q] : \A i \in DOMAIN removed[q] : removed[q][i].endpoint # e
      <4>1. CASE q = p
        BY <1>2, <1>5, <3>2, <3>5, <4>1 DEF DevicesHold
      <4>2. CASE q # p
        BY <1>5, <3>5, <4>2 DEF DevicesHold
      <4> QED
        BY <4>1, <4>2
    <3> QED
      BY <3>4, <3>6 DEF DevicesHold
  <2> QED
    BY <1>2, <2>1, <2>2
<1>7. device' \in [People -> Seq(DeviceRow)] /\ DevicesHold(device', off)
  <2>1. \A k \in Nat : LET rows == Updated(p, d, k, here) IN
                       rows \in [People -> Seq(DeviceRow)] /\ DevicesHold(rows, off)
    BY <1>2, UpdatedKeeps
  <2>2. 0 \in Nat /\ n + 1 \in Nat
    BY <1>2
  <2> HIDE DEF removed
  <2> QED
    BY <1>4, <1>5, <1>6, <2>1, <2>2
<1>8. sending' \in [Devices -> {<<>>} \cup (People \X Nat \X BOOLEAN)]
  BY <1>3 DEF OutboxTypeOK
<1> QED
  BY <1>3, <1>7, <1>8, DeviceHoldNext DEF OutboxTypeOK

-----------------------------------------------------------------------------
(* What is committed and not told *)

\* What transaction w has committed and not told.
Share(w, p, ch) ==
    IF writer[w].status = "COMMITTED" THEN Count(writer[w].queue, p, ch) ELSE 0

Shares(p, ch) == [w \in Writers |-> Share(w, p, ch)]

LEMMA UntoldIs ==
  ASSUME OutboxAssumption, OutboxTypeOK, NEW p, NEW ch
  PROVE  /\ Untold(p, ch) = SumFunctionOnSet(Shares(p, ch), Writers)
         /\ \A w \in Writers : Shares(p, ch)[w] = Share(w, p, ch) /\ Share(w, p, ch) \in Nat
         /\ Untold(p, ch) \in Nat
<1>1. Untold(p, ch) = SumFunctionOnSet(Shares(p, ch), Writers)
  BY DEF Untold, Shares, Share, SumFunction
<1>2. ASSUME NEW w \in Writers PROVE Shares(p, ch)[w] = Share(w, p, ch) /\ Share(w, p, ch) \in Nat
  <2>1. writer[w].queue \in Seq(Signal)
    BY DEF OutboxTypeOK, WriterRow
  <2> QED
    BY <2>1, CountNat DEF Shares, Share
<1>3. \A w \in Writers : Shares(p, ch)[w] \in Nat
  BY <1>2
<1>4. IsFiniteSet(Writers)
  BY DEF OutboxAssumption
<1>5. SumFunctionOnSet(Shares(p, ch), Writers) \in Nat
  BY <1>3, <1>4, SumNat
<1> QED
  BY <1>1, <1>2, <1>5

LEMMA UntoldIsNext ==
  ASSUME OutboxAssumption, OutboxTypeOK', NEW p, NEW ch
  PROVE  /\ Untold(p, ch)' = SumFunctionOnSet(Shares(p, ch)', Writers)
         /\ \A w \in Writers : Shares(p, ch)'[w] = Share(w, p, ch)' /\ Share(w, p, ch)' \in Nat
<1>1. Untold(p, ch)' = SumFunctionOnSet(Shares(p, ch)', Writers)
  BY DEF Untold, Shares, Share, SumFunction
<1>2. ASSUME NEW w \in Writers PROVE Shares(p, ch)'[w] = Share(w, p, ch)' /\ Share(w, p, ch)' \in Nat
  <2>1. writer'[w].queue \in Seq(Signal)
    BY DEF OutboxTypeOK, WriterRow
  <2> QED
    BY <2>1, CountNat DEF Shares, Share
<1> QED
  BY <1>1, <1>2

LEMMA UntoldChange ==
  ASSUME OutboxAssumption, OutboxTypeOK, OutboxTypeOK', NEW a \in Writers,
         \A w \in Writers \ {a} : writer'[w] = writer[w], NEW p, NEW ch
  PROVE  Untold(p, ch)' = Untold(p, ch) - Share(a, p, ch) + Share(a, p, ch)'
<1>1. PICK f : f = Shares(p, ch)
  OBVIOUS
<1>2. PICK g : g = Shares(p, ch)'
  OBVIOUS
<1>3. /\ Untold(p, ch) = SumFunctionOnSet(f, Writers)
      /\ \A w \in Writers : f[w] = Share(w, p, ch) /\ f[w] \in Int
  BY <1>1, UntoldIs
<1>4. /\ Untold(p, ch)' = SumFunctionOnSet(g, Writers)
      /\ \A w \in Writers : g[w] = Share(w, p, ch)' /\ g[w] \in Int
  BY <1>2, UntoldIsNext
<1>5. \A w \in Writers \ {a} : Share(w, p, ch)' = Share(w, p, ch)
  BY DEF Share
<1>6. \A w \in Writers \ {a} : f[w] = g[w]
  BY <1>3, <1>4, <1>5
<1>7. IsFiniteSet(Writers) /\ \A w \in Writers : f[w] \in Int /\ g[w] \in Int
  BY <1>3, <1>4 DEF OutboxAssumption
<1>8. SumFunctionOnSet(g, Writers) = SumFunctionOnSet(f, Writers) - f[a] + g[a]
  BY <1>6, <1>7, SumChange
<1> QED
  BY <1>3, <1>4, <1>8

-----------------------------------------------------------------------------
(* Streams *)

\* A step of one stream keeps what is known of all.
LEMMA StreamStep ==
  ASSUME OutboxIInv, NEW l \in Listeners, NEW t \in StreamRow,
         t.waiting => t.buffer = <<>>, Heard(t, l), stream' = [stream EXCEPT ![l] = t],
         UNCHANGED <<writer, version, told, pushVars>>
  PROVE  OutboxTypeOK' /\ SignalIInv'
<1>1. \A k \in Listeners : stream'[k] = IF k = l THEN t ELSE stream[k]
  BY DEF OutboxIInv, OutboxTypeOK
<1>2. OutboxTypeOK'
  <2>1. stream' \in [Listeners -> StreamRow]
    BY DEF OutboxIInv, OutboxTypeOK
  <2> QED
    BY <2>1 DEF OutboxIInv, OutboxTypeOK, pushVars
<1>3. FaithfulQueues' /\ AnnouncedIsCommitted'
  BY DEF OutboxIInv, SignalIInv, FaithfulQueues, AnnouncedIsCommitted, Untold
<1>4. NobodySleepsOnASignal'
  BY <1>1 DEF OutboxIInv, SignalIInv, NobodySleepsOnASignal
<1>5. ASSUME NEW k \in Listeners PROVE Heard(stream[k], k)'
  <2>1. Heard(stream'[k], k)
    BY <1>1 DEF OutboxIInv, SignalIInv
  <2> QED
    BY <2>1 DEF Heard
<1> QED
  BY <1>2, <1>3, <1>4, <1>5 DEF SignalIInv

LEMMA SubscribeKeeps ==
  ASSUME OutboxAssumption, OutboxIInv, NEW l \in Listeners, Subscribe(l)
  PROVE  OutboxTypeOK' /\ SignalIInv'
<1>1. PICK s : s = stream[l]
  OBVIOUS
<1>2. s \in StreamRow /\ (s.waiting => s.buffer = <<>>)
  BY <1>1 DEF OutboxIInv, SignalIInv, OutboxTypeOK, NobodySleepsOnASignal
<1>3. PICK t : t = [s EXCEPT !.open = TRUE, !.ask = Wants[l]]
  OBVIOUS
<1>4. Wants[l] \subseteq Channels
  BY DEF OutboxAssumption
<1>5. t \in StreamRow /\ t.waiting = s.waiting /\ t.buffer = s.buffer /\ t.ask = Wants[l]
  BY <1>2, <1>3, <1>4 DEF StreamRow
<1>6. stream' = [stream EXCEPT ![l] = t]
  BY <1>1, <1>3 DEF Subscribe, OutboxIInv, OutboxTypeOK
<1>7. Heard(t, l)
  BY <1>5 DEF Heard, Known
<1> QED
  BY <1>2, <1>5, <1>6, <1>7, StreamStep DEF Subscribe

LEMMA ReadKeeps ==
  ASSUME OutboxAssumption, OutboxIInv, NEW l \in Listeners, Read(l)
  PROVE  OutboxTypeOK' /\ SignalIInv'
<1>1. PICK s : s = stream[l]
  OBVIOUS
<1>2. s \in StreamRow /\ (s.waiting => s.buffer = <<>>) /\ Heard(s, l)
  BY <1>1 DEF OutboxIInv, SignalIInv, OutboxTypeOK, NobodySleepsOnASignal
<1>3. /\ s.buffer \in Seq(Channels) /\ s.ask \subseteq Channels /\ s.dropped \subseteq Channels
      /\ s.view \in [Channels -> Nat] /\ s.waiting \in BOOLEAN /\ s.open \in BOOLEAN
  BY <1>2 DEF StreamRow
<1>4. Wants[l] \subseteq Channels
  BY DEF OutboxAssumption
<1>5. CASE s.buffer = <<>>
  <2>1. PICK t : t = [s EXCEPT !.waiting = TRUE]
    OBVIOUS
  <2>2. /\ t \in StreamRow /\ t.buffer = s.buffer /\ t.open = s.open /\ t.view = s.view
        /\ t.ask = s.ask /\ t.dropped = s.dropped
    BY <1>2, <2>1 DEF StreamRow
  <2>3. stream' = [stream EXCEPT ![l] = t]
    BY <1>1, <1>5, <2>1 DEF Read
  <2>4. Heard(t, l)
    BY <1>2, <2>2 DEF Heard, Known
  <2> QED
    BY <1>5, <2>2, <2>3, <2>4, StreamStep DEF Read
<1>6. CASE s.buffer # <<>>
  <2>1. PICK t : t = [s EXCEPT !.buffer = Tail(@), !.ask = @ \cup ({Head(s.buffer)} \cap Wants[l])]
    OBVIOUS
  <2>2. /\ Tail(s.buffer) \in Seq(Channels) /\ Head(s.buffer) = s.buffer[1]
        /\ DOMAIN s.buffer = 1 .. Len(s.buffer) /\ Len(s.buffer) \in Nat
        /\ DOMAIN Tail(s.buffer) = 1 .. Len(s.buffer) - 1
        /\ \A i \in 1 .. Len(s.buffer) - 1 : Tail(s.buffer)[i] = s.buffer[i + 1]
    BY <1>3, <1>6
  <2>3. s.ask \cup ({Head(s.buffer)} \cap Wants[l]) \subseteq Channels
    BY <1>3, <1>4
  <2>4. /\ t \in StreamRow /\ t.buffer = Tail(s.buffer) /\ t.open = s.open /\ t.view = s.view
        /\ t.ask = s.ask \cup ({Head(s.buffer)} \cap Wants[l]) /\ t.dropped = s.dropped
        /\ t.waiting = s.waiting
    BY <1>2, <2>1, <2>2, <2>3 DEF StreamRow
  <2>5. stream' = [stream EXCEPT ![l] = t] /\ ~s.waiting
    BY <1>1, <1>6, <2>1 DEF Read
  <2>6. ASSUME NEW c \in Wants[l], Known(s, c) PROVE Known(t, c)
    <3>1. CASE c \in s.ask \/ c \in s.dropped
      BY <2>4, <3>1 DEF Known
    <3>2. ASSUME NEW i \in 1 .. Len(s.buffer), s.buffer[i] = c PROVE Known(t, c)
      <4>1. CASE i = 1
        BY <2>2, <2>4, <3>2, <4>1 DEF Known
      <4>2. CASE i # 1
        <5>1. i - 1 \in 1 .. Len(s.buffer) - 1 /\ i - 1 + 1 = i
          BY <2>2, <4>2
        <5>2. Tail(s.buffer)[i - 1] = c
          BY <2>2, <3>2, <5>1
        <5> QED
          BY <2>2, <2>4, <5>1, <5>2 DEF Known
      <4> QED
        BY <4>1, <4>2
    <3> QED
      BY <2>2, <2>6, <3>1, <3>2 DEF Known
  <2>7. Heard(t, l)
    BY <1>2, <2>4, <2>6 DEF Heard
  <2> QED
    BY <2>4, <2>5, <2>7, StreamStep DEF Read
<1> QED
  BY <1>5, <1>6

LEMMA AskKeeps ==
  ASSUME OutboxAssumption, OutboxIInv, NEW l \in Listeners, NEW ch \in Channels, Ask(l, ch)
  PROVE  OutboxTypeOK' /\ SignalIInv'
<1>1. PICK s : s = stream[l]
  OBVIOUS
<1>2. s \in StreamRow /\ (s.waiting => s.buffer = <<>>) /\ Heard(s, l)
  BY <1>1 DEF OutboxIInv, SignalIInv, OutboxTypeOK, NobodySleepsOnASignal
<1>3. PICK now : now = version[Belongs[l]][ch]
  OBVIOUS
<1>4. now \in Nat /\ Belongs[l] \in People
  BY <1>3 DEF OutboxIInv, OutboxTypeOK, OutboxAssumption
<1>5. PICK t : t = [s EXCEPT !.ask = @ \ {ch}, !.dropped = @ \ {ch}, !.view = [@ EXCEPT ![ch] = now]]
  OBVIOUS
<1>6. /\ t \in StreamRow /\ t.waiting = s.waiting /\ t.buffer = s.buffer /\ t.open = s.open
      /\ t.ask = s.ask \ {ch} /\ t.dropped = s.dropped \ {ch} /\ t.view = [s.view EXCEPT ![ch] = now]
  BY <1>2, <1>4, <1>5 DEF StreamRow
<1>7. stream' = [stream EXCEPT ![l] = t]
  BY <1>1, <1>3, <1>5 DEF Ask
<1>8. Heard(t, l)
  <2>1. SUFFICES ASSUME t.open, NEW c \in Wants[l], t.view[c] < version[Belongs[l]][c]
                 PROVE  \/ Known(t, c)
                        \/ \E w \in Writers : /\ writer[w].status = "COMMITTED"
                                              /\ Count(writer[w].queue, Belongs[l], c) > 0
    BY DEF Heard
  <2>2. c \in Channels /\ s.view \in [Channels -> Nat]
    BY <1>2 DEF OutboxAssumption, StreamRow
  <2>3. c # ch
    BY <1>3, <1>4, <1>6, <2>1, <2>2
  <2>4. t.view[c] = s.view[c]
    BY <1>6, <2>2, <2>3
  <2>5. Known(s, c) => Known(t, c)
    BY <1>6, <2>3 DEF Known
  <2> QED
    BY <1>2, <1>6, <2>1, <2>4, <2>5 DEF Heard
<1> QED
  BY <1>2, <1>6, <1>7, <1>8, StreamStep DEF Ask

LEMMA ClosedRow ==
  ASSUME NEW s \in StreamRow
  PROVE  Closed(s) \in StreamRow /\ ~Closed(s).open /\ ~Closed(s).waiting
<1>1. <<>> \in Seq(Channels)
  OBVIOUS
<1> QED
  BY <1>1 DEF Closed, StreamRow

LEMMA CloseKeeps ==
  ASSUME OutboxAssumption, OutboxIInv, NEW l \in Listeners, Close(l)
  PROVE  OutboxTypeOK' /\ SignalIInv'
<1>1. PICK t : t = Closed(stream[l])
  OBVIOUS
<1>2. t \in StreamRow /\ ~t.open /\ ~t.waiting
  BY <1>1, ClosedRow DEF OutboxIInv, OutboxTypeOK
<1>3. stream' = [stream EXCEPT ![l] = t]
  BY <1>1 DEF Close
<1>4. Heard(t, l)
  BY <1>2 DEF Heard
<1> QED
  BY <1>2, <1>3, <1>4, StreamStep DEF Close

-----------------------------------------------------------------------------
(* The outbox of a transaction *)

\* Who is behind still has a transaction that will tell, if none that is committed changed.
LEMMA HeardStays ==
  ASSUME OutboxIInv, NEW w \in Writers, writer[w].status # "COMMITTED",
         \A v \in Writers \ {w} : writer'[v] = writer[v], UNCHANGED <<version, stream>>
  PROVE  \A l \in Listeners : Heard(stream[l], l)'
<1>1. SUFFICES ASSUME NEW l \in Listeners PROVE Heard(stream[l], l)'
  OBVIOUS
<1>2. Heard(stream[l], l)
  BY DEF OutboxIInv, SignalIInv
<1>3. \A v \in Writers : writer[v].status = "COMMITTED" => writer'[v] = writer[v]
  OBVIOUS
<1> QED
  BY <1>2, <1>3 DEF Heard

\* A transaction that is not committed before nor after does not touch what is announced.
LEMMA OpenStep ==
  ASSUME OutboxAssumption, OutboxIInv, NEW w \in Writers, NEW entry \in WriterRow,
         writer[w].status # "COMMITTED", entry.status # "COMMITTED", entry.queue = entry.changes,
         writer' = [writer EXCEPT ![w] = entry], UNCHANGED <<version, told, stream, pushVars>>
  PROVE  OutboxTypeOK' /\ SignalIInv'
<1>1. OutboxTypeOK'
  <2>1. writer' \in [Writers -> WriterRow]
    BY DEF OutboxIInv, OutboxTypeOK
  <2> QED
    BY <2>1 DEF OutboxIInv, OutboxTypeOK, pushVars
<1>2. \A v \in Writers : writer'[v] = IF v = w THEN entry ELSE writer[v]
  BY DEF OutboxIInv, OutboxTypeOK
<1>3. FaithfulQueues'
  BY <1>2 DEF OutboxIInv, SignalIInv, FaithfulQueues
<1>4. AnnouncedIsCommitted'
  <2>1. ASSUME NEW p \in People, NEW ch \in Channels
        PROVE  version'[p][ch] = told'[p][ch] + Untold(p, ch)'
    <3>1. Share(w, p, ch) = 0 /\ Share(w, p, ch)' = 0
      BY <1>2 DEF Share
    <3>2. Untold(p, ch)' = Untold(p, ch) - Share(w, p, ch) + Share(w, p, ch)'
      BY <1>1, <1>2, UntoldChange DEF OutboxIInv
    <3>3. Untold(p, ch) \in Nat
      BY UntoldIs DEF OutboxIInv
    <3>4. version[p][ch] = told[p][ch] + Untold(p, ch)
      BY DEF OutboxIInv, SignalIInv, AnnouncedIsCommitted
    <3>5. Untold(p, ch)' = Untold(p, ch)
      BY <3>1, <3>2, <3>3
    <3> QED
      BY <3>4, <3>5
  <2> QED
    BY <2>1 DEF AnnouncedIsCommitted
<1>5. NobodySleepsOnASignal'
  BY DEF OutboxIInv, SignalIInv, NobodySleepsOnASignal
<1>6. \A l \in Listeners : Heard(stream[l], l)'
  BY <1>2, HeardStays
<1> QED
  BY <1>1, <1>3, <1>4, <1>5, <1>6 DEF SignalIInv

LEMMA IdleRow == Idle \in WriterRow /\ Idle.status = "IDLE" /\ Idle.queue = <<>> /\ Idle.changes = <<>>
<1>1. <<>> \in Seq(Signal)
  OBVIOUS
<1> QED
  BY <1>1 DEF Idle, WriterRow

LEMMA WriterIs ==
  ASSUME OutboxIInv, NEW w \in Writers
  PROVE  /\ writer[w] \in WriterRow /\ writer[w].queue = writer[w].changes
         /\ writer[w].queue \in Seq(Signal) /\ writer[w].changes \in Seq(Signal)
BY DEF OutboxIInv, SignalIInv, FaithfulQueues, OutboxTypeOK, WriterRow

LEMMA BeginKeeps ==
  ASSUME OutboxAssumption, OutboxIInv, NEW w \in Writers, BeginWriter(w)
  PROVE  OutboxTypeOK' /\ SignalIInv'
<1>1. PICK entry : entry = [writer[w] EXCEPT !.status = "OPEN"]
  OBVIOUS
<1>2. entry \in WriterRow /\ entry.status = "OPEN" /\ entry.queue = entry.changes
  BY <1>1, WriterIs DEF WriterRow
<1>3. writer' = [writer EXCEPT ![w] = entry] /\ writer[w].status = "IDLE"
  BY <1>1 DEF BeginWriter
<1> QED
  BY <1>2, <1>3, OpenStep DEF BeginWriter

LEMMA AnnounceKeeps ==
  ASSUME OutboxAssumption, OutboxIInv, NEW w \in Writers, NEW p \in People, NEW ch \in Channels,
         Announce(w, p, ch)
  PROVE  OutboxTypeOK' /\ SignalIInv'
<1>1. PICK sent : sent = [to |-> p, channel |-> ch]
  OBVIOUS
<1>2. sent \in Signal
  BY <1>1 DEF Signal
<1>3. PICK entry : entry = [writer[w] EXCEPT !.changes = Append(@, sent), !.queue = Append(@, sent)]
  OBVIOUS
<1>4. Append(writer[w].queue, sent) \in Seq(Signal)
  BY <1>2, WriterIs
<1>5. entry \in WriterRow /\ entry.status = writer[w].status /\ entry.queue = entry.changes
  BY <1>3, <1>4, WriterIs DEF WriterRow
<1>6. writer' = [writer EXCEPT ![w] = entry] /\ writer[w].status = "OPEN"
  BY <1>1, <1>3 DEF Announce
<1> QED
  BY <1>5, <1>6, OpenStep DEF Announce

LEMMA RollBackKeeps ==
  ASSUME OutboxAssumption, OutboxIInv, NEW w \in Writers, RollBack(w)
  PROVE  OutboxTypeOK' /\ SignalIInv'
<1>1. Idle \in WriterRow /\ Idle.status # "COMMITTED" /\ Idle.queue = Idle.changes
  BY IdleRow
<1>2. writer' = [writer EXCEPT ![w] = Idle] /\ writer[w].status # "COMMITTED"
  BY DEF RollBack
<1> QED
  BY <1>1, <1>2, OpenStep DEF RollBack

LEMMA CommitKeeps ==
  ASSUME OutboxAssumption, OutboxIInv, NEW w \in Writers, CommitWriter(w)
  PROVE  OutboxTypeOK' /\ SignalIInv'
<1>1. PICK entry : entry = [writer[w] EXCEPT !.status = "COMMITTED"]
  OBVIOUS
<1>2. /\ entry \in WriterRow /\ entry.status = "COMMITTED" /\ entry.queue = entry.changes
      /\ entry.queue = writer[w].changes
  BY <1>1, WriterIs DEF WriterRow
<1>3. /\ writer' = [writer EXCEPT ![w] = entry] /\ writer[w].status = "OPEN"
      /\ version' = Added(version, writer[w].changes) /\ UNCHANGED <<told, stream, pushVars>>
  BY <1>1 DEF CommitWriter
<1>4. \A v \in Writers : writer'[v] = IF v = w THEN entry ELSE writer[v]
  BY <1>3 DEF OutboxIInv, OutboxTypeOK
<1> DEFINE more(p, ch) == Count(writer[w].changes, p, ch)
<1>5. \A p \in People, ch \in Channels : more(p, ch) \in Nat /\ version'[p][ch] = version[p][ch] + more(p, ch)
  BY <1>3, WriterIs, CountNat DEF Added
<1>6. OutboxTypeOK'
  <2>1. writer' \in [Writers -> WriterRow]
    BY <1>2, <1>3 DEF OutboxIInv, OutboxTypeOK
  <2>2. version' \in [People -> [Channels -> Nat]]
    <3>1. version \in [People -> [Channels -> Nat]]
      BY DEF OutboxIInv, OutboxTypeOK
    <3>2. version' = [p \in People |-> [ch \in Channels |-> version[p][ch] + more(p, ch)]]
      BY <1>3 DEF Added
    <3>3. \A p \in People, ch \in Channels : more(p, ch) \in Nat
      BY <1>5
    <3> HIDE DEF more
    <3> QED
      BY <3>1, <3>2, <3>3
  <2> QED
    BY <1>3, <2>1, <2>2 DEF OutboxIInv, OutboxTypeOK, pushVars
<1>7. FaithfulQueues'
  BY <1>2, <1>4 DEF OutboxIInv, SignalIInv, FaithfulQueues
<1>8. AnnouncedIsCommitted'
  <2>1. ASSUME NEW p \in People, NEW ch \in Channels
        PROVE  version'[p][ch] = told'[p][ch] + Untold(p, ch)'
    <3>1. Share(w, p, ch) = 0
      BY <1>3 DEF Share
    <3>2. Share(w, p, ch)' = more(p, ch)
      BY <1>2, <1>4 DEF Share
    <3>3. Untold(p, ch)' = Untold(p, ch) - Share(w, p, ch) + Share(w, p, ch)'
      BY <1>4, <1>6, UntoldChange DEF OutboxIInv
    <3>4. Untold(p, ch) \in Nat
      BY UntoldIs DEF OutboxIInv
    <3>5. version[p][ch] = told[p][ch] + Untold(p, ch)
      BY DEF OutboxIInv, SignalIInv, AnnouncedIsCommitted
    <3>6. told[p][ch] \in Nat /\ told' = told
      BY <1>3 DEF OutboxIInv, OutboxTypeOK
    <3> HIDE DEF more
    <3> QED
      BY <1>5, <3>1, <3>2, <3>3, <3>4, <3>5, <3>6
  <2> QED
    BY <2>1 DEF AnnouncedIsCommitted
<1>9. NobodySleepsOnASignal'
  BY <1>3 DEF OutboxIInv, SignalIInv, NobodySleepsOnASignal
<1>10. ASSUME NEW l \in Listeners PROVE Heard(stream[l], l)'
  <2> DEFINE p == Belongs[l]
  <2>1. p \in People /\ Wants[l] \subseteq Channels
    BY DEF OutboxAssumption
  <2>2. Heard(stream[l], l)
    BY DEF OutboxIInv, SignalIInv
  <2>3. stream[l].view \in [Channels -> Nat]
    BY DEF OutboxIInv, OutboxTypeOK, StreamRow
  <2>4. version \in [People -> [Channels -> Nat]]
    BY DEF OutboxIInv, OutboxTypeOK
  <2>5. SUFFICES ASSUME stream[l].open, NEW ch \in Wants[l], stream[l].view[ch] < version'[p][ch]
                 PROVE  \/ Known(stream[l], ch)
                        \/ \E v \in Writers : /\ writer'[v].status = "COMMITTED"
                                              /\ Count(writer'[v].queue, p, ch) > 0
    BY <1>3 DEF Heard
  <2>6. CASE more(p, ch) > 0
    <3>1. writer'[w].status = "COMMITTED" /\ Count(writer'[w].queue, p, ch) > 0
      BY <1>2, <1>4, <2>6
    <3> QED
      BY <3>1
  <2>7. CASE ~(more(p, ch) > 0)
    <3>1. more(p, ch) = 0 /\ version'[p][ch] = version[p][ch] + more(p, ch)
      BY <1>5, <2>1, <2>7
    <3> HIDE DEF more
    <3>2. stream[l].view[ch] < version[p][ch]
      BY <2>1, <2>3, <2>4, <2>5, <3>1
    <3>3. \/ Known(stream[l], ch)
          \/ \E v \in Writers : /\ writer[v].status = "COMMITTED"
                                /\ Count(writer[v].queue, p, ch) > 0
      BY <2>2, <2>5, <3>2 DEF Heard
    <3>4. \A v \in Writers : writer[v].status = "COMMITTED" => writer'[v] = writer[v]
      BY <1>3, <1>4
    <3> QED
      BY <3>3, <3>4
  <2> QED
    BY <2>6, <2>7
<1> QED
  BY <1>6, <1>7, <1>8, <1>9, <1>10 DEF SignalIInv

LEMMA FlushKeeps ==
  ASSUME OutboxAssumption, OutboxIInv, NEW w \in Writers, Flush(w)
  PROVE  OutboxTypeOK' /\ SignalIInv'
<1>1. PICK queue : queue = writer[w].queue
  OBVIOUS
<1>2. queue \in Seq(Signal)
  BY <1>1, WriterIs
<1>3. /\ writer' = [writer EXCEPT ![w] = Idle] /\ writer[w].status = "COMMITTED"
      /\ told' = Added(told, queue) /\ UNCHANGED <<version, pushVars>>
      /\ stream' = [l \in Listeners |->
             IF stream[l].open THEN Handed(l, stream[l], queue) ELSE stream[l]]
  BY <1>1 DEF Flush
<1>4. \A v \in Writers : writer'[v] = IF v = w THEN Idle ELSE writer[v]
  BY <1>3 DEF OutboxIInv, OutboxTypeOK
<1> DEFINE more(p, ch) == Count(queue, p, ch)
<1>5. \A p \in People, ch \in Channels : more(p, ch) \in Nat /\ told'[p][ch] = told[p][ch] + more(p, ch)
  BY <1>2, <1>3, CountNat DEF Added
<1>6. ASSUME NEW l \in Listeners
      PROVE  /\ stream'[l] \in StreamRow /\ (stream'[l].waiting => stream'[l].buffer = <<>>)
             /\ stream'[l].open = stream[l].open /\ stream'[l].view = stream[l].view
             /\ \A c \in Wants[l] : Known(stream[l], c) => Known(stream'[l], c)
             /\ stream[l].open => \A c \in Wants[l] : more(Belongs[l], c) > 0 => Known(stream'[l], c)
  <2>1. PICK s : s = stream[l]
    OBVIOUS
  <2>2. s \in StreamRow /\ (s.waiting => s.buffer = <<>>)
    BY <2>1 DEF OutboxIInv, SignalIInv, OutboxTypeOK, NobodySleepsOnASignal
  <2>3. CASE ~s.open
    <3>1. stream'[l] = s
      BY <1>3, <2>1, <2>3
    <3> QED
      BY <2>1, <2>2, <2>3, <3>1
  <2>4. CASE s.open
    <3>1. PICK t : t = Handed(l, s, queue)
      OBVIOUS
    <3>2. stream'[l] = t
      BY <1>3, <2>1, <2>4, <3>1
    <3>3. /\ t \in StreamRow /\ (t.waiting => t.buffer = <<>>) /\ t.open = s.open /\ t.view = s.view
          /\ \A c \in Wants[l] :
                 \/ Known(s, c)
                 \/ \E i \in 1 .. Len(queue) : queue[i] = [to |-> Belongs[l], channel |-> c]
                 => Known(t, c)
      BY <1>2, <2>2, <3>1, HandedKeeps
    <3>4. \A c \in Wants[l] : more(Belongs[l], c) > 0 =>
              \E i \in 1 .. Len(queue) : queue[i] = [to |-> Belongs[l], channel |-> c]
      BY <1>2, CountNat
    <3> HIDE DEF more
    <3> QED
      BY <2>1, <3>2, <3>3, <3>4
  <2> QED
    BY <2>3, <2>4
<1>7. OutboxTypeOK'
  <2>1. writer' \in [Writers -> WriterRow]
    BY <1>3, IdleRow DEF OutboxIInv, OutboxTypeOK
  <2>2. told' \in [People -> [Channels -> Nat]]
    <3>1. told \in [People -> [Channels -> Nat]]
      BY DEF OutboxIInv, OutboxTypeOK
    <3>2. told' = [p \in People |-> [ch \in Channels |-> told[p][ch] + more(p, ch)]]
      BY <1>3 DEF Added
    <3>3. \A p \in People, ch \in Channels : more(p, ch) \in Nat
      BY <1>5
    <3> HIDE DEF more
    <3> QED
      BY <3>1, <3>2, <3>3
  <2>3. stream' \in [Listeners -> StreamRow]
    <3>1. DOMAIN stream' = Listeners /\ stream' = [l \in Listeners |-> stream'[l]]
      BY <1>3
    <3> QED
      BY <1>6, <3>1
  <2> QED
    BY <1>3, <2>1, <2>2, <2>3 DEF OutboxIInv, OutboxTypeOK, pushVars
<1>8. FaithfulQueues'
  BY <1>4, IdleRow DEF OutboxIInv, SignalIInv, FaithfulQueues
<1>9. AnnouncedIsCommitted'
  <2>1. ASSUME NEW p \in People, NEW ch \in Channels
        PROVE  version'[p][ch] = told'[p][ch] + Untold(p, ch)'
    <3>1. Share(w, p, ch) = more(p, ch)
      BY <1>1, <1>3 DEF Share
    <3>2. Share(w, p, ch)' = 0
      BY <1>4, IdleRow DEF Share
    <3>3. Untold(p, ch)' = Untold(p, ch) - Share(w, p, ch) + Share(w, p, ch)'
      BY <1>4, <1>7, UntoldChange DEF OutboxIInv
    <3>4. Untold(p, ch) \in Nat
      BY UntoldIs DEF OutboxIInv
    <3>5. version[p][ch] = told[p][ch] + Untold(p, ch) /\ version' = version
      BY <1>3 DEF OutboxIInv, SignalIInv, AnnouncedIsCommitted
    <3>6. told[p][ch] \in Nat
      BY DEF OutboxIInv, OutboxTypeOK
    <3> HIDE DEF more
    <3> QED
      BY <1>5, <3>1, <3>2, <3>3, <3>4, <3>5, <3>6
  <2> QED
    BY <2>1 DEF AnnouncedIsCommitted
<1>10. NobodySleepsOnASignal'
  BY <1>6 DEF NobodySleepsOnASignal
<1>11. ASSUME NEW l \in Listeners PROVE Heard(stream[l], l)'
  <2> DEFINE p == Belongs[l]
  <2>1. Heard(stream[l], l)
    BY DEF OutboxIInv, SignalIInv
  <2>2. SUFFICES ASSUME stream'[l].open, NEW ch \in Wants[l], stream'[l].view[ch] < version[p][ch]
                 PROVE  \/ Known(stream'[l], ch)
                        \/ \E v \in Writers : /\ writer'[v].status = "COMMITTED"
                                              /\ Count(writer'[v].queue, p, ch) > 0
    BY <1>3 DEF Heard
  <2>3. \/ Known(stream[l], ch)
        \/ \E v \in Writers : /\ writer[v].status = "COMMITTED"
                              /\ Count(writer[v].queue, p, ch) > 0
    BY <1>6, <2>1, <2>2 DEF Heard
  <2>4. CASE Known(stream[l], ch)
    BY <1>6, <2>4
  <2>5. ASSUME NEW v \in Writers, writer[v].status = "COMMITTED", Count(writer[v].queue, p, ch) > 0
        PROVE  \/ Known(stream'[l], ch)
               \/ writer'[v].status = "COMMITTED" /\ Count(writer'[v].queue, p, ch) > 0
    <3>1. CASE v = w
      BY <1>1, <1>6, <2>2, <2>5, <3>1
    <3>2. CASE v # w
      BY <1>4, <2>5, <3>2
    <3> QED
      BY <3>1, <3>2
  <2> QED
    BY <2>3, <2>4, <2>5
<1> QED
  BY <1>7, <1>8, <1>9, <1>10, <1>11 DEF SignalIInv

LEMMA RestartKeeps ==
  ASSUME OutboxAssumption, OutboxIInv, Restart
  PROVE  OutboxTypeOK' /\ SignalIInv'
<1>1. /\ writer' = [w \in Writers |-> Idle] /\ stream' = [l \in Listeners |-> Closed(stream[l])]
      /\ told' = [p \in People |-> [ch \in Channels |-> told[p][ch] + Untold(p, ch)]]
      /\ sending' = [d \in Devices |-> <<>>] /\ UNCHANGED <<version, device, off>>
  BY DEF Restart
<1>2. \A l \in Listeners : stream'[l] \in StreamRow /\ ~stream'[l].open /\ ~stream'[l].waiting
  BY <1>1, ClosedRow DEF OutboxIInv, OutboxTypeOK
<1>3. \A p \in People, ch \in Channels : Untold(p, ch) \in Nat
  BY UntoldIs DEF OutboxIInv
<1>4. OutboxTypeOK'
  <2>1. writer' \in [Writers -> WriterRow]
    BY <1>1, IdleRow
  <2>2. told' \in [People -> [Channels -> Nat]]
    <3>1. told \in [People -> [Channels -> Nat]]
      BY DEF OutboxIInv, OutboxTypeOK
    <3> QED
      BY <1>1, <1>3, <3>1
  <2>3. stream' \in [Listeners -> StreamRow]
    <3>1. stream' = [l \in Listeners |-> stream'[l]]
      BY <1>1
    <3> QED
      BY <1>2, <3>1
  <2>4. sending' \in [Devices -> {<<>>} \cup (People \X Nat \X BOOLEAN)]
    BY <1>1
  <2> QED
    BY <1>1, <2>1, <2>2, <2>3, <2>4 DEF OutboxIInv, OutboxTypeOK
<1>5. FaithfulQueues'
  BY <1>1, IdleRow DEF FaithfulQueues
<1>6. AnnouncedIsCommitted'
  <2>1. ASSUME NEW p \in People, NEW ch \in Channels
        PROVE  version'[p][ch] = told'[p][ch] + Untold(p, ch)'
    <3>1. PICK g : g = Shares(p, ch)'
      OBVIOUS
    <3>2. /\ Untold(p, ch)' = SumFunctionOnSet(g, Writers)
          /\ \A w \in Writers : g[w] = Share(w, p, ch)'
      BY <1>4, <3>1, UntoldIsNext
    <3>3. \A w \in Writers : g[w] = 0
      BY <1>1, <3>2, IdleRow DEF Share
    <3>4. IsFiniteSet(Writers)
      BY DEF OutboxAssumption
    <3>5. Untold(p, ch)' = 0
      BY <3>2, <3>3, <3>4, SumZero
    <3>6. told'[p][ch] = told[p][ch] + Untold(p, ch)
      BY <1>1
    <3>7. version[p][ch] = told[p][ch] + Untold(p, ch) /\ version' = version
      BY <1>1 DEF OutboxIInv, SignalIInv, AnnouncedIsCommitted
    <3>8. told[p][ch] \in Nat
      BY DEF OutboxIInv, OutboxTypeOK
    <3> QED
      BY <1>3, <3>5, <3>6, <3>7, <3>8
  <2> QED
    BY <2>1 DEF AnnouncedIsCommitted
<1>7. NobodySleepsOnASignal'
  BY <1>2 DEF NobodySleepsOnASignal
<1>8. \A l \in Listeners : Heard(stream[l], l)'
  BY <1>2 DEF Heard
<1> QED
  BY <1>4, <1>5, <1>6, <1>7, <1>8 DEF SignalIInv

-----------------------------------------------------------------------------
(* The signals and the devices *)

LEMMA OutboxStarts == OutboxAssumption /\ OutboxInit => OutboxIInv
<1> SUFFICES ASSUME OutboxAssumption, OutboxInit PROVE OutboxIInv
  OBVIOUS
<1> USE DEF OutboxInit
<1>1. /\ \A w \in Writers : writer[w] = Idle
      /\ \A p \in People, ch \in Channels : version[p][ch] = 0 /\ told[p][ch] = 0
      /\ \A l \in Listeners : ~stream[l].open /\ ~stream[l].waiting
      /\ \A p \in People : device[p] = <<>> /\ off[p] = {}
  OBVIOUS
<1>2. OutboxTypeOK
  <2>1. writer \in [Writers -> WriterRow]
    BY IdleRow
  <2>2. stream \in [Listeners -> StreamRow]
    <3>1. <<>> \in Seq(Channels)
      OBVIOUS
    <3> QED
      BY <3>1 DEF StreamRow
  <2>3. device \in [People -> Seq(DeviceRow)]
    <3>1. <<>> \in Seq(DeviceRow)
      OBVIOUS
    <3> QED
      BY <3>1
  <2> QED
    BY <2>1, <2>2, <2>3 DEF OutboxTypeOK
<1>3. AnnouncedIsCommitted
  <2>1. ASSUME NEW p \in People, NEW ch \in Channels
        PROVE  version[p][ch] = told[p][ch] + Untold(p, ch)
    <3>1. PICK f : f = Shares(p, ch)
      OBVIOUS
    <3>2. Untold(p, ch) = SumFunctionOnSet(f, Writers) /\ \A w \in Writers : f[w] = Share(w, p, ch)
      BY <1>2, <3>1, UntoldIs
    <3>3. \A w \in Writers : f[w] = 0
      BY <1>1, <3>2, IdleRow DEF Share
    <3>4. Untold(p, ch) = 0
      BY <3>2, <3>3, SumZero DEF OutboxAssumption
    <3> QED
      BY <1>1, <3>4
  <2> QED
    BY <2>1 DEF AnnouncedIsCommitted
<1>4. FaithfulQueues /\ NobodySleepsOnASignal /\ \A l \in Listeners : Heard(stream[l], l)
  BY <1>1, IdleRow DEF FaithfulQueues, NobodySleepsOnASignal, Heard
<1>5. DeviceIInv
  BY <1>1 DEF DeviceIInv, SwitchedOffStaysOff, OneRow
<1> QED
  BY <1>2, <1>3, <1>4, <1>5 DEF OutboxIInv, SignalIInv

LEMMA OutboxStep == OutboxAssumption /\ OutboxIInv /\ [OutboxNext]_outboxVars => OutboxIInv'
<1> SUFFICES ASSUME OutboxAssumption, OutboxIInv, [OutboxNext]_outboxVars PROVE OutboxIInv'
  OBVIOUS
<1>1. ASSUME SignalStep PROVE OutboxIInv'
  <2>1. UNCHANGED <<device, off>>
    BY <1>1 DEF SignalStep, BeginWriter, Announce, CommitWriter, RollBack, Flush, Subscribe, Read, Ask,
                Close, Restart, pushVars
  <2>2. DeviceIInv'
    BY <2>1, DeviceHold, DeviceHoldNext DEF OutboxIInv
  <2>3. \A l \in Listeners : Belongs[l] \in People
    BY DEF OutboxAssumption
  <2>4. OutboxTypeOK' /\ SignalIInv'
    <3>1. ASSUME NEW w \in Writers, BeginWriter(w) PROVE OutboxTypeOK' /\ SignalIInv'
      BY <3>1, BeginKeeps
    <3>2. ASSUME NEW w \in Writers, NEW l \in Listeners, NEW ch \in Channels, Announce(w, Belongs[l], ch)
          PROVE OutboxTypeOK' /\ SignalIInv'
      BY <2>3, <3>2, AnnounceKeeps
    <3>3. ASSUME NEW w \in Writers, CommitWriter(w) PROVE OutboxTypeOK' /\ SignalIInv'
      BY <3>3, CommitKeeps
    <3>4. ASSUME NEW w \in Writers, RollBack(w) PROVE OutboxTypeOK' /\ SignalIInv'
      BY <3>4, RollBackKeeps
    <3>5. ASSUME NEW w \in Writers, Flush(w) PROVE OutboxTypeOK' /\ SignalIInv'
      BY <3>5, FlushKeeps
    <3>6. ASSUME NEW l \in Listeners, Subscribe(l) PROVE OutboxTypeOK' /\ SignalIInv'
      BY <3>6, SubscribeKeeps
    <3>7. ASSUME NEW l \in Listeners, Read(l) PROVE OutboxTypeOK' /\ SignalIInv'
      BY <3>7, ReadKeeps
    <3>8. ASSUME NEW l \in Listeners, NEW ch \in Channels, Ask(l, ch) PROVE OutboxTypeOK' /\ SignalIInv'
      BY <3>8, AskKeeps
    <3>9. ASSUME NEW l \in Listeners, Close(l) PROVE OutboxTypeOK' /\ SignalIInv'
      BY <3>9, CloseKeeps
    <3>10. ASSUME Restart PROVE OutboxTypeOK' /\ SignalIInv'
      BY <3>10, RestartKeeps
    <3> QED
      BY <1>1, <3>1, <3>2, <3>3, <3>4, <3>5, <3>6, <3>7, <3>8, <3>9, <3>10 DEF SignalStep
  <2> QED
    BY <2>2, <2>4 DEF OutboxIInv
<1>2. ASSUME PushStep PROVE OutboxIInv'
  <2>1. UNCHANGED <<writer, version, told, stream>>
    BY <1>2 DEF PushStep, Register, Unregister, Dispatch, Answered, UnchangedStreams
  <2>2. SignalIInv'
    BY <2>1 DEF OutboxIInv, SignalIInv, FaithfulQueues, AnnouncedIsCommitted, Untold,
                NobodySleepsOnASignal, Heard
  <2>3. OutboxTypeOK /\ DeviceIInv
    BY DEF OutboxIInv
  <2>4. OutboxTypeOK' /\ DeviceIInv'
    <3>1. ASSUME NEW d \in Devices, NEW p \in People, Register(p, d) \/ Unregister(p, d) \/ Dispatch(p, d)
          PROVE  OutboxTypeOK' /\ DeviceIInv'
      BY <2>3, <3>1, RegisterKeeps, UnregisterKeeps, DispatchKeeps
    <3>2. ASSUME NEW d \in Devices, NEW answer \in {"TAKEN", "GONE", "REFUSED", "OTHER"}, Answered(d, answer)
          PROVE  OutboxTypeOK' /\ DeviceIInv'
      BY <2>3, <3>2, AnsweredKeeps
    <3> QED
      BY <1>2, <3>1, <3>2 DEF PushStep
  <2> QED
    BY <2>2, <2>4 DEF OutboxIInv
<1>3. ASSUME UNCHANGED outboxVars PROVE OutboxIInv'
  <2>1. UNCHANGED <<writer, version, told, stream, device, sending, off>>
    BY <1>3 DEF outboxVars
  <2>2. OutboxTypeOK'
    BY <2>1 DEF OutboxIInv, OutboxTypeOK
  <2>3. SignalIInv'
    BY <2>1 DEF OutboxIInv, SignalIInv, FaithfulQueues, AnnouncedIsCommitted, Untold,
                NobodySleepsOnASignal, Heard
  <2>4. DeviceIInv'
    BY <2>1, DeviceHold, DeviceHoldNext DEF OutboxIInv
  <2> QED
    BY <2>2, <2>3, <2>4 DEF OutboxIInv
<1> QED
  BY <1>1, <1>2, <1>3 DEF OutboxNext

\* The signals, the streams and the devices keep to what a transaction commits,
\* a flush hands over and an owner switches off.
THEOREM OutboxKeepsItsWord == OutboxSpec => []OutboxIInv
<1>1. OutboxInit => OutboxIInv
  BY OutboxAssumption, OutboxStarts
<1>2. OutboxIInv /\ [OutboxNext]_outboxVars => OutboxIInv'
  BY OutboxAssumption, OutboxStep
<1> QED
  BY <1>1, <1>2, PTL DEF OutboxSpec

\* A screen that is connected catches up, unless its buffer dropped the signal, and
\* nobody sleeps on one (PushStream, openStream, flushCommitted).
THEOREM NoSignalIsLost == OutboxSpec => []SignalsArrive
<1>1. OutboxIInv => SignalsArrive
  BY DEF OutboxIInv, SignalIInv, SignalsArrive, ListenerCatchesUp, Heard, Known
<1> QED
  BY <1>1, OutboxKeepsItsWord, PTL

\* What the streams were handed is what transactions committed, each change once
\* (publishAfterCommit, discardQueued).
THEOREM OnlyCommittedIsAnnounced == OutboxSpec => []AnnouncedIsCommitted
<1>1. OutboxIInv => AnnouncedIsCommitted
  BY DEF OutboxIInv, SignalIInv
<1> QED
  BY <1>1, OutboxKeepsItsWord, PTL

\* The answer of a push under way does not bring back a device that was switched
\* off (unregister, send).
THEOREM DevicesStayOff == OutboxSpec => []SwitchedOffStaysOff
<1>1. OutboxIInv => SwitchedOffStaysOff
  BY DEF OutboxIInv, DeviceIInv
<1> QED
  BY <1>1, OutboxKeepsItsWord, PTL
=============================================================================
