------------------------- MODULE WithdrawalsProofs -------------------------
(***************************************************************************)
(* Theorems about Withdrawals, for any number of users, requests, handlers *)
(* and any limits, with overlapping approvals: type correctness, exclusive *)
(* creation, that a paid request is refunded only after a refusal gave its *)
(* shared lease away, that the requests implement Escrow, that no coin is  *)
(* lost, that the quotas hold by the dates of the rows and that the payout *)
(* ratio holds at each grant.                                              *)
(***************************************************************************)
EXTENDS Withdrawals, WalletProofs

USE DEF At, Finish, Unlocked, db, payer

LEMMA RowFields ==
  ASSUME TypeOK, NEW r \in Requests
  PROVE  /\ request[r] \in Row
         /\ request[r].status \in Statuses
         /\ request[r].user \in Users \cup {None}
         /\ request[r].status # "none" => request[r].user \in Users
         /\ request[r].amount \in Nat /\ request[r].day \in Nat
         /\ request[r].tx \in {"none", "manual", "transfer"}
  BY DEF TypeOK, Row

LEMMA JobFields ==
  ASSUME TypeOK, NEW p \in Procs
  PROVE  /\ job[p] \in Job
         /\ job[p].step \in Steps
         /\ job[p].user \in Users \cup {None}
         /\ job[p].amount \in Nat
         /\ job[p].id \in Requests \cup {None}
         /\ job[p].step \in {"gate", "insert"} => job[p].user \in Users
         /\ job[p].step \in {"manual", "reject"} \cup PayoutSteps => job[p].id \in Requests
  BY DEF TypeOK, Job

LEMMA IdleJob == Idle \in Job /\ Idle.step = "idle" /\ Idle.id = None
  BY DEF Idle, Job, Steps, PayoutSteps

-----------------------------------------------------------------------------
(* Type correctness.                                                       *)

\* A call that has a caller is the one its caller is waiting for.
CallsAwaited ==
  \A c \in calls : c.caller # None =>
    At(c.caller, "calling") /\ job[c.caller].id = c.id

LEMMA TypeInit == Init => TypeOK /\ CallsAwaited
  BY WithdrawalsAssumption, IdleJob
     DEF Init, TypeOK, CallsAwaited, Wallets, Seeded, Row, NoRow, Statuses, Live, Leases

LEMMA LeaseType ==
  ASSUME TypeOK, [Next]_vars
  PROVE  lease' \in [Requests -> Leases]
<1>1. lease \in [Requests -> Leases]
  BY DEF TypeOK
<1>2. CASE lease' = lease
  BY <1>1, <1>2
<1>3. ASSUME NEW p \in Procs, NEW r \in Requests, ApproveLease(p, r)
      PROVE  lease' \in [Requests -> Leases]
  BY <1>1, <1>3 DEF ApproveLease, TakenLease, Leases
<1>4. ASSUME NEW p \in Procs, ApproveRefused(p) PROVE lease' \in [Requests -> Leases]
  BY <1>1, <1>4 DEF ApproveRefused, GivenAway, Leases
<1>. QED
  BY <1>2, <1>3, <1>4
     DEF Next, Create, CreateLock, CreateGranted, CreateRefused, CreateInsert, Approve, ApproveSend,
         ApproveCompleted, Unconfirmed, Decide, ReadPending, ManualClaim, RejectClaim, BusyTimeout,
         Provider, ProviderExecute, ProviderRefuse, Economy, Purchase, Reversal, Earn, Spend,
         Midnight, Crash, vars

LEMMA TypeStep == TypeOK /\ CallsAwaited /\ [Next]_vars => TypeOK'
<1> SUFFICES ASSUME TypeOK, CallsAwaited, [Next]_vars PROVE TypeOK'
  OBVIOUS
<1> USE WithdrawalsAssumption, IdleJob
<1>0. lease' \in [Requests -> Leases]
  BY LeaseType
<1> USE <1>0
<1>1. ASSUME NEW p \in Procs, Create(p) PROVE TypeOK'
  <2>1. ASSUME NEW u \in Users, NEW amount \in Amounts, CreateLock(p, u, amount)
        PROVE  TypeOK'
    <3>1. [Idle EXCEPT !.step = "gate", !.user = u, !.amount = amount] \in Job
      BY DEF Idle, Job, Steps, PayoutSteps
    <3>2. job' \in [Procs -> Job]
      BY <2>1, <3>1 DEF CreateLock, TypeOK
    <3>. QED
      BY <2>1, <3>2 DEF CreateLock, TakeLock, TypeOK
  <2>2. CASE CreateGranted(p)
    <3>1. [job[p] EXCEPT !.step = "insert"] \in Job
      BY <2>2, JobFields DEF CreateGranted, Job, Steps, PayoutSteps
    <3>. QED
      BY <2>2, <3>1 DEF CreateGranted, TypeOK
  <2>3. CASE CreateRefused(p)
    BY <2>3 DEF CreateRefused, UnlockOnRefusal, TypeOK
  <2>4. CASE CreateInsert(p)
    <3> DEFINE u == job[p].user
               amount == job[p].amount
    <3>1. wallet' \in [Users -> Wallets]
      <4>1. CASE wallet' = [wallet EXCEPT ![u] = Held(@, amount)] /\ CanDebit(wallet[u], amount)
        <5>1. u \in Users => Held(wallet[u], amount) \in Wallets
          BY <4>1, WalletWrites, JobFields DEF TypeOK
        <5>. QED
          BY <4>1, <5>1 DEF TypeOK
      <4>. QED
        BY <2>4, <4>1 DEF CreateInsert, TypeOK
    <3>2. request' \in [Requests -> Row]
      <4>1. [status |-> "pending", user |-> u, amount |-> amount,
             day |-> today, tx |-> "none"] \in Row
        BY <2>4, JobFields DEF CreateInsert, TypeOK, Row, Statuses, Live
      <4>. QED
        BY <2>4, <4>1 DEF CreateInsert, TypeOK
    <3>. QED
      BY <2>4, <3>1, <3>2 DEF CreateInsert, TypeOK
  <2>. QED
    BY <1>1, <2>1, <2>2, <2>3, <2>4 DEF Create
<1>2. ASSUME NEW p \in Procs, Approve(p) PROVE TypeOK'
  <2>0. \A r \in Requests, s \in Live \cup {"rejected"}, t \in {"manual", "transfer"} :
          request[r].status # "none" =>
            /\ [request[r] EXCEPT !.status = s] \in Row
            /\ [request[r] EXCEPT !.status = s, !.tx = t] \in Row
    BY RowFields DEF Row, Statuses
  <2>1. ASSUME NEW r \in Requests, ApproveLease(p, r) PROVE TypeOK'
    <3>1. request' \in [Requests -> Row]
      BY <2>0, <2>1 DEF ApproveLease, Leasable, TypeOK, Live
    <3>2. [Idle EXCEPT !.step = "leased", !.id = r] \in Job
      BY DEF Idle, Job, Steps, PayoutSteps
    <3>. QED
      BY <2>1, <3>1, <3>2 DEF ApproveLease, TypeOK
  <2>2. CASE ApproveSend(p)
    <3>1. [job[p] EXCEPT !.step = "calling"] \in Job
      BY <2>2, JobFields DEF ApproveSend, Job, Steps, PayoutSteps
    <3>2. job' \in [Procs -> Job]
      BY <2>2, <3>1 DEF ApproveSend, TypeOK
    <3>3. calls' \subseteq Call
      <4>1. [id |-> job[p].id, caller |-> p] \in Call
        BY <2>2, JobFields DEF ApproveSend, Call, PayoutSteps
      <4>. QED
        BY <2>2, <4>1 DEF ApproveSend, TypeOK
    <3>. QED
      BY <2>2, <3>2, <3>3 DEF ApproveSend, TypeOK
  <2>3. CASE ApproveCompleted(p)
    <3>1. request' \in [Requests -> Row]
      BY <2>0, <2>3, JobFields DEF ApproveCompleted, Recordable, TypeOK, PayoutSteps, Live
    <3>. QED
      BY <2>3, <3>1 DEF ApproveCompleted, TypeOK
  <2>4. CASE ApproveRefused(p)
    <3>1. request' \in [Requests -> Row]
      BY <2>0, <2>4, JobFields DEF ApproveRefused, TypeOK, PayoutSteps, Live
    <3>. QED
      BY <2>4, <3>1 DEF ApproveRefused, TypeOK
  <2>5. CASE Unconfirmed(p)
    <3>1. calls' \subseteq Call
      BY <2>5 DEF Unconfirmed, TypeOK, Call
    <3>. QED
      BY <2>5, <3>1 DEF Unconfirmed, TypeOK
  <2>. QED
    BY <1>2, <2>1, <2>2, <2>3, <2>4, <2>5 DEF Approve
<1>3. ASSUME NEW p \in Procs, Decide(p) PROVE TypeOK'
  <2>0. \A r \in Requests, s \in Live \cup {"rejected"}, t \in {"manual", "transfer"} :
          request[r].status # "none" =>
            /\ [request[r] EXCEPT !.status = s] \in Row
            /\ [request[r] EXCEPT !.status = s, !.tx = t] \in Row
    BY RowFields DEF Row, Statuses
  <2>1. ASSUME NEW r \in Requests, NEW step \in {"manual", "reject"},
               ReadPending(p, r, step)
        PROVE  TypeOK'
    <3>1. [Idle EXCEPT !.step = step, !.id = r] \in Job
      BY DEF Idle, Job, Steps, PayoutSteps
    <3>. QED
      BY <2>1, <3>1 DEF ReadPending, TypeOK
  <2>2. CASE ManualClaim(p)
    <3>1. request' \in [Requests -> Row]
      BY <2>0, <2>2, JobFields DEF ManualClaim, Claimable, TypeOK, Live
    <3>. QED
      BY <2>2, <3>1 DEF ManualClaim, TypeOK
  <2>3. CASE RejectClaim(p)
    <3> DEFINE r == job[p].id
               u == request[r].user
               amount == request[r].amount
    <3>1. r \in Requests
      BY <2>3, JobFields DEF RejectClaim
    <3>2. request' \in [Requests -> Row]
      <4>1. \/ request' = request
            \/ /\ request[r].status = "pending"
               /\ request' = [request EXCEPT ![r].status = "rejected"]
        BY <2>3 DEF RejectClaim, RefundFailed, Claimable
      <4>2. request[r].status = "pending" => [request[r] EXCEPT !.status = "rejected"] \in Row
        BY <2>0, <3>1
      <4>. QED
        BY <3>1, <4>1, <4>2 DEF TypeOK
    <3>3. wallet' \in [Users -> Wallets]
      <4>1. CASE Claimable(r) /\ CanCredit(wallet[u], amount)
                 /\ wallet' = [wallet EXCEPT ![u] = Released(@, amount)]
        <5>1. u \in Users /\ amount \in Nat /\ wallet[u] \in Wallets
          BY <3>1, <4>1, RowFields DEF TypeOK, Claimable
        <5>2. Released(wallet[u], amount) \in Wallets
          BY <4>1, <5>1, WalletWrites
        <5>. QED
          BY <4>1, <5>1, <5>2 DEF TypeOK
      <4>2. \/ wallet' = wallet
            \/ /\ Claimable(r) /\ CanCredit(wallet[u], amount)
               /\ wallet' = [wallet EXCEPT ![u] = Released(@, amount)]
        BY <2>3 DEF RejectClaim, RefundFailed
      <4>. QED
        BY <4>1, <4>2 DEF TypeOK
    <3>. QED
      BY <2>3, <3>2, <3>3 DEF RejectClaim, TypeOK
  <2>. QED
    BY <1>3, <2>1, <2>2, <2>3 DEF Decide
<1>4. ASSUME NEW p \in Procs, BusyTimeout(p) PROVE TypeOK'
  BY <1>4 DEF BusyTimeout, TypeOK
<1>5. CASE Provider
  <2>1. PICK c \in calls : ProviderExecute(c) \/ ProviderRefuse(c)
    BY <1>5 DEF Provider
  <2>2. c.id \in Requests /\ c.caller \in Procs \cup {None}
    BY DEF TypeOK, Call
  <2>3. ASSUME NEW step \in {"paid", "refused"}, Answer(c, step)
        PROVE  job' \in [Procs -> Job]
    <3>1. CASE c.caller = None
      BY <2>3, <3>1 DEF Answer, TypeOK
    <3>2. CASE c.caller # None
      <4>1. c.caller \in Procs /\ job[c.caller].step = "calling"
        BY <2>2, <3>2 DEF CallsAwaited
      <4>2. [job[c.caller] EXCEPT !.step = step] \in Job
        BY <4>1, JobFields DEF Job, Steps, PayoutSteps
      <4>. QED
        BY <2>3, <3>2, <4>2 DEF Answer, TypeOK
    <3>. QED
      BY <3>1, <3>2
  <2>4. calls' \subseteq Call /\ paid' \subseteq Requests /\ job' \in [Procs -> Job]
    BY <2>1, <2>2, <2>3 DEF ProviderExecute, ProviderRefuse, TypeOK
  <2>. QED
    BY <2>1, <2>4 DEF ProviderExecute, ProviderRefuse, TypeOK
<1>6. CASE Economy
  <2>1. PICK u \in Users, amount \in Amounts :
          Purchase(u, amount) \/ Reversal(u, amount) \/ Earn(u, amount) \/ Spend(u, amount)
    BY <1>6 DEF Economy
  <2>2. wallet[u] \in Wallets /\ amount \in Nat
    BY DEF TypeOK
  <2>3. /\ CanDebit(wallet[u], amount)  => Debited(wallet[u], amount) \in Wallets
        /\ CanCredit(wallet[u], amount) => Credited(wallet[u], amount) \in Wallets
    BY <2>2, WalletWrites
  <2>. QED
    BY <2>1, <2>2, <2>3 DEF Purchase, Reversal, Earn, Spend, TypeOK
<1>7. CASE Midnight
  BY <1>7 DEF Midnight, TypeOK
<1>8. CASE Crash
  BY <1>8 DEF Crash, TypeOK, Call
<1>9. CASE UNCHANGED vars
  BY <1>9 DEF vars, TypeOK
<1>. QED
  BY <1>1, <1>2, <1>3, <1>4, <1>5, <1>6, <1>7, <1>8, <1>9 DEF Next

LEMMA CallsStep == TypeOK /\ CallsAwaited /\ [Next]_vars => CallsAwaited'
<1> SUFFICES ASSUME TypeOK, CallsAwaited, [Next]_vars PROVE CallsAwaited'
  OBVIOUS
<1> USE WithdrawalsAssumption, IdleJob
<1>0. \A c \in calls : c.id \in Requests /\ c.caller \in Procs \cup {None}
  BY DEF TypeOK, Call
\* A step that keeps the calls and takes no process out of "calling".
<1>1. ASSUME calls' = calls,
             \A p \in Procs : At(p, "calling") => job'[p] = job[p]
      PROVE  CallsAwaited'
  BY <1>0, <1>1 DEF CallsAwaited
<1>2. ASSUME NEW p \in Procs, Create(p) \/ Decide(p) \/ BusyTimeout(p)
      PROVE  CallsAwaited'
  <2>1. calls' = calls /\ ~ At(p, "calling")
    BY <1>2 DEF Create, Decide, BusyTimeout, CreateLock, CreateGranted, CreateRefused,
                CreateInsert, ReadPending, ManualClaim, RejectClaim
  <2>2. \A q \in Procs \ {p} : job'[q] = job[q]
    BY <1>2 DEF TypeOK, Create, Decide, BusyTimeout, CreateLock, CreateGranted, CreateRefused,
                CreateInsert, ReadPending, ManualClaim, RejectClaim
  <2>. QED
    BY <1>1, <2>1, <2>2
<1>3. ASSUME NEW p \in Procs, Approve(p) PROVE CallsAwaited'
  <2>1. \A q \in Procs \ {p} : job'[q] = job[q]
    BY <1>3 DEF TypeOK, Approve, ApproveLease, ApproveSend, ApproveCompleted,
                ApproveRefused, Unconfirmed
  <2>2. CASE Unconfirmed(p)
    <3>1. ASSUME NEW d \in calls', d.caller # None
          PROVE  d \in calls /\ d.caller # p
      <4>1. PICK c \in calls : d = [c EXCEPT !.caller = IF @ = p THEN None ELSE @]
        BY <2>2, <3>1 DEF Unconfirmed
      <4>2. c = [id |-> c.id, caller |-> c.caller]
        BY DEF TypeOK, Call
      <4>. QED
        BY <3>1, <4>1, <4>2
    <3>. QED
      BY <1>0, <2>1, <3>1 DEF CallsAwaited
  <2>3. CASE ApproveSend(p)
    <3>1. /\ job'[p].step = "calling" /\ job'[p].id = job[p].id
          /\ calls' = calls \cup {[id |-> job[p].id, caller |-> p]}
      BY <2>3, JobFields DEF ApproveSend, TypeOK, Job
    <3>2. \A c \in calls : c.caller # p
      BY <2>3, <1>0 DEF ApproveSend, CallsAwaited
    <3>. QED
      BY <1>0, <2>1, <3>1, <3>2 DEF CallsAwaited
  <2>4. CASE (\E r \in Requests : ApproveLease(p, r)) \/ ApproveCompleted(p) \/ ApproveRefused(p)
    <3>1. calls' = calls /\ ~ At(p, "calling")
      BY <2>4 DEF ApproveLease, ApproveCompleted, ApproveRefused
    <3>. QED
      BY <1>1, <2>1, <3>1
  <2>. QED
    BY <1>3, <2>2, <2>3, <2>4 DEF Approve
<1>4. CASE Provider
  <2>1. PICK c \in calls : ProviderExecute(c) \/ ProviderRefuse(c)
    BY <1>4 DEF Provider
  <2>2. \A d \in calls \ {c} : d.caller # None => d.caller # c.caller
    <3>1. \A d \in calls : d = [id |-> d.id, caller |-> d.caller]
      BY DEF TypeOK, Call
    <3>. QED
      BY <3>1 DEF CallsAwaited
  <2>3. calls' = calls \ {c} /\ \A p \in Procs : p # c.caller => job'[p] = job[p]
    BY <2>1 DEF ProviderExecute, ProviderRefuse, Answer, TypeOK
  <2>. QED
    BY <1>0, <2>2, <2>3 DEF CallsAwaited
<1>5. CASE Economy
  BY <1>1, <1>5 DEF Economy, Purchase, Reversal, Earn, Spend
<1>6. CASE Midnight
  BY <1>1, <1>6 DEF Midnight
<1>7. CASE Crash
  <2>1. ASSUME NEW d \in calls' PROVE d.caller = None
    <3>1. PICK c \in calls : d = [c EXCEPT !.caller = None]
      BY <1>7, <2>1 DEF Crash
    <3>2. c = [id |-> c.id, caller |-> c.caller]
      BY DEF TypeOK, Call
    <3>. QED
      BY <3>1, <3>2
  <2>. QED
    BY <2>1 DEF CallsAwaited
<1>8. CASE UNCHANGED vars
  BY <1>1, <1>8 DEF vars
<1>. QED
  BY <1>2, <1>3, <1>4, <1>5, <1>6, <1>7, <1>8 DEF Next

\* The column types hold in every reachable state: balances stay between 0 and
\* _MAX_AMOUNT and every row keeps a legal status.
THEOREM TypeCorrect == Spec => []TypeOK
  BY TypeInit, TypeStep, CallsStep, PTL DEF Spec

-----------------------------------------------------------------------------
(* A create is alone under the lock, whatever else runs.                   *)

LEMMA ExclusiveInit == Init => CreateIsExclusive
  BY WithdrawalsAssumption, IdleJob DEF Init, CreateIsExclusive

LEMMA ExclusiveStep ==
  TypeOK /\ CallsAwaited /\ CreateIsExclusive /\ [Next]_vars => CreateIsExclusive'
<1> SUFFICES ASSUME TypeOK, CallsAwaited, CreateIsExclusive, [Next]_vars
             PROVE  CreateIsExclusive'
  OBVIOUS
<1> USE WithdrawalsAssumption, IdleJob
<1>1. ASSUME NEW p \in Procs, Create(p) PROVE CreateIsExclusive'
  <2> DEFINE Turn == /\ \A q \in Procs \ {p} : job'[q] = job[q]
                     /\ \/ writer = None /\ writer' = p /\ job'[p].step = "gate"
                        \/ writer = p /\ writer' = p /\ job'[p].step = "insert"
                        \/ writer = p /\ writer' = None /\ job'[p].step = "idle"
  <2>0. /\ job \in [Procs -> Job]
        /\ job[p] \in [step : Steps, user : Users \cup {None},
                       amount : Nat, id : Requests \cup {None}]
    <3>1. job \in [Procs -> Job]
      BY DEF TypeOK
    <3>. QED
      BY <3>1 DEF Job
  <2>1. ASSUME \E u \in Users, amount \in Amounts : CreateLock(p, u, amount)
        PROVE  Turn
    BY <2>0, <2>1 DEF CreateLock, TakeLock, Idle
  <2>2. ASSUME CreateGranted(p)
        PROVE  Turn
    BY <2>0, <2>2 DEF CreateGranted, CreateIsExclusive
  <2>3. ASSUME CreateRefused(p)
        PROVE  Turn
    BY <2>0, <2>3 DEF CreateRefused, UnlockOnRefusal, CreateIsExclusive
  <2>4. ASSUME CreateInsert(p)
        PROVE  Turn
    BY <2>0, <2>4 DEF CreateInsert, CreateIsExclusive
  <2>5. Turn
    BY <1>1, <2>1, <2>2, <2>3, <2>4 DEF Create
  <2>. QED
    BY <2>5 DEF CreateIsExclusive
<1>2. ASSUME NEW p \in Procs, Approve(p) \/ Decide(p) \/ BusyTimeout(p)
      PROVE  CreateIsExclusive'
  <2> DEFINE Away == /\ writer' = writer
                     /\ \A q \in Procs \ {p} : job'[q] = job[q]
                     /\ job[p].step \notin {"gate", "insert"}
                     /\ job'[p].step \notin {"gate", "insert"}
  <2>0. /\ job \in [Procs -> Job]
        /\ job[p] \in [step : Steps, user : Users \cup {None},
                       amount : Nat, id : Requests \cup {None}]
    <3>1. job \in [Procs -> Job]
      BY DEF TypeOK
    <3>. QED
      BY <3>1 DEF Job
  <2>1. CASE \E r \in Requests : ApproveLease(p, r)
    <3>1. Away
      BY <2>0, <2>1 DEF ApproveLease, Idle
    <3>. QED
      BY <3>1 DEF CreateIsExclusive
  <2>2. CASE ApproveSend(p)
    <3>1. Away
      BY <2>0, <2>2 DEF ApproveSend
    <3>. QED
      BY <3>1 DEF CreateIsExclusive
  <2>3. CASE ApproveCompleted(p)
    <3>1. Away
      BY <2>0, <2>3 DEF ApproveCompleted
    <3>. QED
      BY <3>1 DEF CreateIsExclusive
  <2>4. CASE ApproveRefused(p)
    <3>1. Away
      BY <2>0, <2>4 DEF ApproveRefused
    <3>. QED
      BY <3>1 DEF CreateIsExclusive
  <2>5. CASE Unconfirmed(p)
    <3>1. Away
      BY <2>0, <2>5 DEF Unconfirmed
    <3>. QED
      BY <3>1 DEF CreateIsExclusive
  <2>6. CASE \E r \in Requests : ReadPending(p, r, "manual") \/ ReadPending(p, r, "reject")
    <3>0. PICK r \in Requests, step \in {"manual", "reject"} : ReadPending(p, r, step)
      BY <2>6
    <3>1. Away
      BY <2>0, <3>0 DEF ReadPending, Idle
    <3>. QED
      BY <3>1 DEF CreateIsExclusive
  <2>7. CASE ManualClaim(p)
    <3>1. Away
      BY <2>0, <2>7 DEF ManualClaim
    <3>. QED
      BY <3>1 DEF CreateIsExclusive
  <2>8. CASE RejectClaim(p)
    <3>1. Away
      BY <2>0, <2>8 DEF RejectClaim
    <3>. QED
      BY <3>1 DEF CreateIsExclusive
  <2>9. CASE BusyTimeout(p)
    <3>1. Away
      BY <2>0, <2>9 DEF BusyTimeout
    <3>. QED
      BY <3>1 DEF CreateIsExclusive
  <2>. QED
    BY <1>2, <2>1, <2>2, <2>3, <2>4, <2>5, <2>6, <2>7, <2>8, <2>9 DEF Approve, Decide
<1>3. CASE Provider
  <2>1. PICK c \in calls : ProviderExecute(c) \/ ProviderRefuse(c)
    BY <1>3 DEF Provider
  <2>2. c.caller \in Procs \cup {None} /\ (c.caller # None => At(c.caller, "calling"))
    BY DEF TypeOK, Call, CallsAwaited
  <2>3. PICK step \in {"paid", "refused"} : Answer(c, step)
    BY <2>1 DEF ProviderExecute, ProviderRefuse
  <2>4. \A q \in Procs : job[q] \in [step : Steps, user : Users \cup {None}, amount : Nat,
                                     id : Requests \cup {None}]
    BY JobFields DEF Job
  <2>5. /\ writer' = writer
        /\ \A q \in Procs : q # c.caller => job'[q] = job[q]
        /\ c.caller # None => job'[c.caller].step \in {"paid", "refused"}
    BY <2>1, <2>2, <2>3, <2>4 DEF ProviderExecute, ProviderRefuse, Answer, TypeOK
  <2>. QED
    BY <2>2, <2>5 DEF CreateIsExclusive
<1>4. CASE Economy
  BY <1>4 DEF Economy, Purchase, Reversal, Earn, Spend, CreateIsExclusive
<1>5. CASE Midnight
  BY <1>5 DEF Midnight, CreateIsExclusive
<1>6. CASE Crash
  BY <1>6 DEF Crash, CreateIsExclusive
<1>7. CASE UNCHANGED vars
  BY <1>7 DEF vars, CreateIsExclusive
<1>. QED
  BY <1>1, <1>2, <1>3, <1>4, <1>5, <1>6, <1>7 DEF Next

\* #776: the process at create's gates or insert is the one that holds the
\* writer lock, so nothing its gates read changes before its insert.
THEOREM ExclusiveCreate == Spec => []CreateIsExclusive
  BY ExclusiveInit, ExclusiveStep, TypeInit, TypeStep, CallsStep, PTL DEF Spec

-----------------------------------------------------------------------------
(* The lease of a request, with approvals of it that overlap.              *)

\* Under a lease that was not given away, or recorded as paid.
Covered(r) == \/ request[r].status = "processing"
              \/ request[r].status = "completed" /\ request[r].tx = "transfer"

(* PaidIsNeverRefunded is not inductive: what rules the bad step out is    *)
(* that a lease outlives every call that may still be executed, and that   *)
(* the refusal of an approval that is alone is the provider's last word.   *)
OneCall(r)    == \A c, d \in calls : c.id = r /\ d.id = r => c = d
NoCall(r)     == \A c \in calls : c.id # r
LeaseHeld(r)  == lease[r] # "given away" =>
                   /\ \A p \in Procs : InPayout(p, r) => Covered(r)
                   /\ ~ NoCall(r) => Covered(r)
                   /\ r \in paid => Covered(r)
Alone(r)      == lease[r] = "alone" =>
                   /\ \A p, q \in Procs : InPayout(p, r) /\ InPayout(q, r) => p = q
                   /\ OneCall(r)
                   /\ \A p \in Procs : InPayout(p, r) /\ At(p, "leased") => NoCall(r)
                   /\ \A p \in Procs : InPayout(p, r) /\ At(p, "refused") =>
                        NoCall(r) /\ r \notin paid
PaidAnswer(r) == \A p \in Procs : InPayout(p, r) /\ At(p, "paid") => r \in paid

LeaseSound(r) == LeaseHeld(r) /\ Alone(r) /\ PaidAnswer(r)

PayoutInv == TypeOK /\ CallsAwaited /\ \A r \in Requests : LeaseSound(r)

\* A step that leaves the row, its lease and its transfer alone, and lets
\* approvals and calls of the request only end.
LEMMA LeaseKept ==
  ASSUME NEW r \in Requests, LeaseSound(r),
         request'[r] = request[r], lease'[r] = lease[r], r \in paid' <=> r \in paid,
         \A p \in Procs : InPayout(p, r)' => job'[p] = job[p],
         NoCall(r) => NoCall(r)', OneCall(r) => OneCall(r)'
  PROVE  LeaseSound(r)'
  BY DEF LeaseSound, LeaseHeld, Alone, PaidAnswer, InPayout, Covered

\* What EXCEPT needs to know of the rows and leases.
LEMMA RowTypes ==
  ASSUME TypeOK
  PROVE  /\ request \in [Requests -> Row] /\ lease \in [Requests -> Leases]
         /\ \A r \in Requests : request[r] \in [status : Statuses, user : Users \cup {None},
              amount : Nat, day : Nat, tx : {"none", "manual", "transfer"}]
<1>1. request \in [Requests -> Row] /\ lease \in [Requests -> Leases]
  BY DEF TypeOK
<1>. QED
  BY <1>1 DEF Row

LEMMA LeaseStep ==
  ASSUME PayoutInv, [Next]_vars, NEW r \in Requests
  PROVE  LeaseSound(r)'
<1> USE WithdrawalsAssumption
<1>a. /\ job \in [Procs -> Job]
      /\ \A q \in Procs : job[q] \in [step : Steps, user : Users \cup {None},
                                      amount : Nat, id : Requests \cup {None}]
  <2>1. job \in [Procs -> Job]
    BY DEF PayoutInv, TypeOK
  <2>. QED
    BY <2>1 DEF Job
<1>c. \A c \in calls : /\ c.id \in Requests /\ c.caller \in Procs \cup {None}
                      /\ c = [id |-> c.id, caller |-> c.caller]
  BY DEF PayoutInv, TypeOK, Call
<1>d. \A p \in Procs : job[p].step \in PayoutSteps => job[p].id \in Requests
  BY JobFields DEF PayoutInv
<1>e. Idle.step = "idle" /\ Idle.step \notin PayoutSteps
  BY DEF Idle, PayoutSteps
<1>f. TypeOK /\ CallsAwaited /\ LeaseSound(r)
  BY DEF PayoutInv
<1>g. LeaseHeld(r) /\ Alone(r) /\ PaidAnswer(r)
  BY <1>f DEF LeaseSound
\* p ends or never was in a payout, and the row of r stays or was not leased.
<1>1. ASSUME NEW p \in Procs,
             job'[p].step \notin PayoutSteps,
             \A q \in Procs \ {p} : job'[q] = job[q],
             calls' = calls, paid' = paid, lease' = lease,
             Covered(r) => request'[r] = request[r]
      PROVE  LeaseSound(r)'
  <2>1. \A q \in Procs : InPayout(q, r)' => q # p /\ job'[q] = job[q] /\ InPayout(q, r)
    BY <1>1 DEF InPayout
  <2>2. Covered(r) => Covered(r)'
    BY <1>1 DEF Covered
  <2>3. (NoCall(r)' <=> NoCall(r)) /\ (OneCall(r)' <=> OneCall(r))
    BY <1>1 DEF NoCall, OneCall
  <2>. QED
    BY <2>1, <2>2, <2>3, <1>1, <1>g DEF LeaseSound, LeaseHeld, Alone, PaidAnswer
<1>2. ASSUME UNCHANGED <<request, job, calls, paid, lease>> PROVE LeaseSound(r)'
  <2>1. (NoCall(r) => NoCall(r)') /\ (OneCall(r) => OneCall(r)')
    BY <1>2 DEF NoCall, OneCall
  <2>. QED
    BY <2>1, <1>2, <1>f, LeaseKept
<1>3. ASSUME NEW p \in Procs, Create(p) PROVE LeaseSound(r)'
  <2>1. /\ job'[p].step \notin PayoutSteps
        /\ \A q \in Procs \ {p} : job'[q] = job[q]
        /\ calls' = calls /\ paid' = paid /\ lease' = lease
    <3>1. ASSUME \E u \in Users, amount \in Amounts : CreateLock(p, u, amount)
          PROVE  job'[p].step = "gate"
      BY <3>1, <1>a DEF CreateLock, Idle
    <3>2. ASSUME CreateGranted(p) PROVE job'[p].step = "insert"
      BY <3>2, <1>a DEF CreateGranted
    <3>3. ASSUME CreateRefused(p) \/ CreateInsert(p) PROVE job'[p].step = "idle"
      BY <3>3, <1>a, <1>e DEF CreateRefused, CreateInsert
    <3>4. \A q \in Procs \ {p} : job'[q] = job[q]
      BY <1>3, <1>a DEF Create, CreateLock, CreateGranted, CreateRefused, CreateInsert
    <3>. QED
      BY <1>3, <3>1, <3>2, <3>3, <3>4 DEF Create, CreateLock, CreateGranted, CreateRefused,
         CreateInsert, PayoutSteps
  <2>2. Covered(r) => request'[r] = request[r]
    <3>1. \/ request' = request
          \/ \E s \in Requests : /\ request[s] = NoRow
                                 /\ \A q \in Requests \ {s} : request'[q] = request[q]
      <4>1. CASE CreateInsert(p) /\ request' # request
        <5>1. PICK s \in Requests :
                /\ request[s] = NoRow
                /\ request' = [request EXCEPT ![s] =
                     [status |-> "pending", user |-> job[p].user, amount |-> job[p].amount,
                      day |-> today, tx |-> "none"]]
          BY <4>1 DEF CreateInsert
        <5>. QED
          BY <5>1, <1>f DEF TypeOK
      <4>. QED
        BY <1>3, <4>1 DEF Create, CreateLock, CreateGranted, CreateRefused
    <3>. QED
      BY <3>1 DEF NoRow, Covered
  <2>. QED
    BY <1>1, <2>1, <2>2
<1>4. ASSUME NEW p \in Procs, NEW s \in Requests, ApproveLease(p, s) PROVE LeaseSound(r)'
  <2>1. /\ job'[p].step = "leased" /\ job'[p].id = s
        /\ \A q \in Procs \ {p} : job'[q] = job[q]
        /\ ~ InPayout(p, r)
        /\ calls' = calls /\ paid' = paid
    BY <1>4, <1>a DEF ApproveLease, Idle, InPayout, PayoutSteps
  <2>2. PICK l : l = (IF lease[s] = "given away" THEN lease[s]
                      ELSE IF Contested(s) THEN "shared" ELSE "alone")
    OBVIOUS
  <2>3. /\ lease'[s] = l /\ request'[s].status = "processing"
        /\ \A q \in Requests \ {s} : request'[q] = request[q] /\ lease'[q] = lease[q]
    <3>1. lease'[s] = l /\ \A q \in Requests \ {s} : lease'[q] = lease[q]
      BY <1>4, <2>2, <1>f, RowTypes DEF ApproveLease, TakenLease
    <3>2. request'[s].status = "processing" /\ \A q \in Requests \ {s} : request'[q] = request[q]
      BY <1>4, <1>f, RowTypes DEF ApproveLease
    <3>. QED
      BY <3>1, <3>2
  <2>4. (NoCall(r)' <=> NoCall(r)) /\ (OneCall(r)' <=> OneCall(r))
    BY <2>1 DEF NoCall, OneCall
  <2>5. CASE r # s
    <3>1. \A q \in Procs : InPayout(q, r)' => job'[q] = job[q]
      BY <2>1, <2>5 DEF InPayout
    <3>. QED
      BY <2>1, <2>3, <2>4, <2>5, <3>1, <1>f, LeaseKept
  <2>6. CASE r = s
    <3>1. Covered(r)'
      BY <2>3, <2>6 DEF Covered
    <3>2. l = "alone" => NoCall(r) /\ \A q \in Procs : ~ InPayout(q, r)
      BY <2>2, <2>6 DEF Contested, NoCall
    <3>3. \A q \in Procs : InPayout(q, r)' => q = p \/ (InPayout(q, r) /\ job'[q] = job[q])
      BY <2>1 DEF InPayout
    <3>4. NoCall(r) => OneCall(r)
      BY DEF NoCall, OneCall
    <3>5. LeaseHeld(r)'
      BY <3>1 DEF LeaseHeld
    <3>6. Alone(r)'
      BY <2>1, <2>3, <2>4, <2>6, <3>2, <3>3, <3>4 DEF Alone
    <3>7. PaidAnswer(r)'
      BY <2>1, <3>3, <1>g DEF PaidAnswer
    <3>. QED
      BY <3>5, <3>6, <3>7 DEF LeaseSound
  <2>. QED
    BY <2>5, <2>6
<1>5. ASSUME NEW p \in Procs, ApproveSend(p) PROVE LeaseSound(r)'
  <2>1. /\ InPayout(p, job[p].id) /\ job[p].id \in Requests /\ At(p, "leased")
        /\ job'[p].step = "calling" /\ job'[p].id = job[p].id
        /\ \A q \in Procs \ {p} : job'[q] = job[q]
        /\ request' = request /\ paid' = paid /\ lease' = lease
        /\ calls' = calls \cup {[id |-> job[p].id, caller |-> p]}
    BY <1>5, <1>a, <1>d DEF ApproveSend, InPayout, PayoutSteps
  <2>2. CASE job[p].id # r
    <3>1. \A q \in Procs : InPayout(q, r)' => job'[q] = job[q]
      BY <2>1, <2>2 DEF InPayout
    <3>2. (NoCall(r) => NoCall(r)') /\ (OneCall(r) => OneCall(r)')
      BY <2>1, <2>2 DEF NoCall, OneCall
    <3>. QED
      BY <2>1, <3>1, <3>2, <1>f, LeaseKept
  <2>3. CASE job[p].id = r
    <3>1. \A q \in Procs : InPayout(q, r)' => InPayout(q, r) /\ (q # p => job'[q] = job[q])
      BY <2>1, <2>3 DEF InPayout
    <3>2. Covered(r)' <=> Covered(r)
      BY <2>1 DEF Covered
    <3>3. LeaseHeld(r)'
      BY <2>1, <2>3, <3>1, <3>2, <1>g DEF LeaseHeld
    <3>4. lease[r] = "alone" => NoCall(r) /\ \A q \in Procs : InPayout(q, r) => q = p
      BY <2>1, <2>3, <1>g DEF Alone
    <3>5. NoCall(r) => OneCall(r)'
      BY <2>1, <2>3 DEF NoCall, OneCall
    <3>6. Alone(r)'
      BY <2>1, <3>1, <3>4, <3>5 DEF Alone
    <3>7. PaidAnswer(r)'
      BY <2>1, <3>1, <1>g DEF PaidAnswer
    <3>. QED
      BY <3>3, <3>6, <3>7 DEF LeaseSound
  <2>. QED
    BY <2>2, <2>3
<1>6. ASSUME NEW p \in Procs, ApproveCompleted(p) PROVE LeaseSound(r)'
  <2>1. /\ job[p].id \in Requests
        /\ job'[p] = Idle
        /\ \A q \in Procs \ {p} : job'[q] = job[q]
        /\ calls' = calls /\ paid' = paid /\ lease' = lease
    BY <1>6, <1>a, <1>d DEF ApproveCompleted, PayoutSteps
  <2>2. \A q \in Procs : InPayout(q, r)' => q # p /\ job'[q] = job[q] /\ InPayout(q, r)
    BY <2>1, <1>e DEF InPayout
  <2>3. Covered(r) => Covered(r)'
    <3>1. CASE ~ Recordable(job[p].id)
      BY <1>6, <3>1 DEF ApproveCompleted, Covered
    <3>2. CASE Recordable(job[p].id)
      <4>1. request' = [request EXCEPT ![job[p].id].status = "completed",
                                       ![job[p].id].tx = "transfer"]
        BY <1>6, <3>2 DEF ApproveCompleted
      <4>2. /\ request'[job[p].id].status = "completed" /\ request'[job[p].id].tx = "transfer"
            /\ \A q \in Requests \ {job[p].id} : request'[q] = request[q]
        BY <2>1, <4>1, <1>f, RowTypes
      <4>. QED
        BY <4>2 DEF Covered
    <3>. QED
      BY <3>1, <3>2
  <2>4. (NoCall(r)' <=> NoCall(r)) /\ (OneCall(r)' <=> OneCall(r))
    BY <2>1 DEF NoCall, OneCall
  <2>. QED
    BY <2>1, <2>2, <2>3, <2>4, <1>g DEF LeaseSound, LeaseHeld, Alone, PaidAnswer
<1>7. ASSUME NEW p \in Procs, ApproveRefused(p) PROVE LeaseSound(r)'
  <2> DEFINE s == job[p].id
  <2>1. /\ InPayout(p, s) /\ s \in Requests /\ At(p, "refused")
        /\ job'[p] = Idle
        /\ \A q \in Procs \ {p} : job'[q] = job[q]
        /\ calls' = calls /\ paid' = paid
    BY <1>7, <1>a, <1>d DEF ApproveRefused, InPayout, PayoutSteps
  <2>2. \A q \in Procs : InPayout(q, r)' => q # p /\ job'[q] = job[q] /\ InPayout(q, r)
    BY <2>1, <1>e DEF InPayout
  <2>3. (NoCall(r)' <=> NoCall(r)) /\ (OneCall(r)' <=> OneCall(r))
    BY <2>1 DEF NoCall, OneCall
  <2>4. PICK l : l = (IF request[s].status = "processing" /\ lease[s] = "shared"
                      THEN "given away" ELSE lease[s])
    OBVIOUS
  <2>5. lease'[s] = l /\ \A q \in Requests \ {s} : lease'[q] = lease[q]
    BY <1>7, <2>1, <2>4, <1>f, RowTypes DEF ApproveRefused, GivenAway
  <2>6. \A q \in Requests : q # s \/ request[s].status # "processing" => request'[q] = request[q]
    <3>1. \/ request' = request
          \/ /\ request[s].status = "processing"
             /\ request' = [request EXCEPT ![s].status = "pending"]
      BY <1>7 DEF ApproveRefused
    <3>. QED
      BY <2>1, <3>1, <1>f, RowTypes
  <2>7. CASE request'[r] = request[r] /\ lease'[r] = lease[r]
    BY <2>1, <2>2, <2>3, <2>7, <1>f, LeaseKept
  <2>8. CASE r = s /\ request[r].status = "processing" /\ lease[r] = "alone"
    <3>1. NoCall(r) /\ r \notin paid /\ \A q \in Procs : ~ InPayout(q, r)'
      BY <2>1, <2>2, <2>8, <1>g DEF Alone
    <3>2. OneCall(r)'
      BY <2>3, <3>1 DEF NoCall, OneCall
    <3>. QED
      BY <2>1, <2>3, <3>1, <3>2 DEF LeaseSound, LeaseHeld, Alone, PaidAnswer
  <2>9. CASE r = s /\ lease[r] # "alone" /\ request[r].status = "processing"
    <3>1. lease'[r] = "given away"
      BY <2>4, <2>5, <2>9, <1>f DEF TypeOK, Leases
    <3>2. PaidAnswer(r)'
      BY <2>1, <2>2, <1>g DEF PaidAnswer
    <3>. QED
      BY <3>1, <3>2 DEF LeaseSound, LeaseHeld, Alone
  <2>. QED
    BY <2>4, <2>5, <2>6, <2>7, <2>8, <2>9
<1>8. ASSUME NEW p \in Procs, Unconfirmed(p) PROVE LeaseSound(r)'
  <2>1. /\ job'[p] = Idle /\ request' = request /\ paid' = paid /\ lease' = lease
        /\ \A q \in Procs \ {p} : job'[q] = job[q]
    BY <1>8, <1>a DEF Unconfirmed
  <2>2. (NoCall(r) => NoCall(r)') /\ (OneCall(r) => OneCall(r)')
    BY <1>8, <1>c DEF Unconfirmed, NoCall, OneCall
  <2>3. \A q \in Procs : InPayout(q, r)' => job'[q] = job[q]
    BY <2>1, <1>e DEF InPayout
  <2>. QED
    BY <2>1, <2>2, <2>3, <1>f, LeaseKept
<1>9. ASSUME NEW p \in Procs, Decide(p) \/ BusyTimeout(p) PROVE LeaseSound(r)'
  <2>1. /\ job'[p].step \notin PayoutSteps
        /\ \A q \in Procs \ {p} : job'[q] = job[q]
        /\ calls' = calls /\ paid' = paid /\ lease' = lease
    <3>1. ASSUME NEW q \in Requests, NEW step \in {"manual", "reject"}, ReadPending(p, q, step)
          PROVE  job'[p].step = step /\ \A o \in Procs \ {p} : job'[o] = job[o]
      BY <3>1, <1>a DEF ReadPending, Idle
    <3>2. ASSUME ManualClaim(p) \/ RejectClaim(p) \/ BusyTimeout(p)
          PROVE  job'[p] = Idle /\ \A o \in Procs \ {p} : job'[o] = job[o]
      BY <3>2, <1>a DEF ManualClaim, RejectClaim, BusyTimeout
    <3>. QED
      BY <1>9, <3>1, <3>2, <1>e DEF Decide, ReadPending, ManualClaim, RejectClaim, BusyTimeout,
         PayoutSteps
  <2>2. Covered(r) => request'[r] = request[r]
    BY <1>9, <1>f DEF Decide, ReadPending, ManualClaim, RejectClaim, RefundFailed, Claimable,
       BusyTimeout, Covered, TypeOK
  <2>. QED
    BY <1>1, <2>1, <2>2
<1>10. ASSUME NEW c \in calls, ProviderExecute(c) \/ ProviderRefuse(c) PROVE LeaseSound(r)'
  <2>1. /\ calls' = calls \ {c} /\ request' = request /\ lease' = lease
        /\ \A q \in Procs : q # c.caller => job'[q] = job[q]
        /\ ProviderExecute(c) => paid' = paid \cup {c.id}
        /\ ProviderRefuse(c) => paid' = paid /\ c.id \notin paid
        /\ c.caller # None => /\ ProviderExecute(c) => job'[c.caller].step = "paid"
                              /\ ProviderRefuse(c) => job'[c.caller].step = "refused"
                              /\ job'[c.caller].id = job[c.caller].id
    BY <1>10, <1>a, <1>c DEF ProviderExecute, ProviderRefuse, Answer
  <2>2. /\ c.caller # None => At(c.caller, "calling") /\ job[c.caller].id = c.id
        /\ c.id \in Requests /\ c.caller \in Procs \cup {None}
    BY <1>c DEF PayoutInv, CallsAwaited
  <2>3. (NoCall(r) => NoCall(r)') /\ (OneCall(r) => OneCall(r)')
    BY <2>1 DEF NoCall, OneCall
  <2>4. CASE c.id # r
    <3>1. \A q \in Procs : InPayout(q, r)' => job'[q] = job[q]
      BY <2>1, <2>2, <2>4 DEF InPayout
    <3>2. r \in paid' <=> r \in paid
      BY <1>10, <2>1, <2>4
    <3>. QED
      BY <2>1, <2>3, <3>1, <3>2, <1>f, LeaseKept
  <2>5. CASE c.id = r
    <3>1. \A q \in Procs : InPayout(q, r)' => InPayout(q, r) /\ (q # c.caller => job'[q] = job[q])
      BY <2>1, <2>2, <2>5 DEF InPayout, PayoutSteps
    <3>2. ~ NoCall(r) /\ (OneCall(r) => NoCall(r)')
      BY <2>1, <2>5 DEF NoCall, OneCall
    <3>3. Covered(r)' <=> Covered(r)
      BY <2>1 DEF Covered
    <3>4. LeaseHeld(r)'
      BY <2>1, <3>2, <3>3, <1>g DEF LeaseHeld
    <3>5. \A q \in Procs : InPayout(q, r)' /\ job'[q].step = "refused" /\ lease[r] = "alone" =>
            q = c.caller /\ ProviderRefuse(c)
      <4>1. ASSUME NEW q \in Procs, InPayout(q, r)', job'[q].step = "refused",
                   lease[r] = "alone", q # c.caller
            PROVE  FALSE
        BY <4>1, <3>1, <3>2, <1>g DEF Alone
      <4>2. c.caller \in Procs => c.caller # None
        OBVIOUS
      <4>. QED
        BY <4>1, <4>2, <1>10, <2>1
    <3>6. \A q \in Procs : InPayout(q, r)' /\ job'[q].step = "leased" /\ lease[r] = "alone" =>
            FALSE
      <4>1. ASSUME NEW q \in Procs, InPayout(q, r)', job'[q].step = "leased", lease[r] = "alone",
                   q # c.caller
            PROVE  FALSE
        BY <4>1, <3>1, <3>2, <1>g DEF Alone
      <4>2. c.caller \in Procs => c.caller # None
        OBVIOUS
      <4>. QED
        BY <4>1, <4>2, <1>10, <2>1
    <3>7. Alone(r)'
      <4>1. ASSUME lease[r] = "alone", NEW q \in Procs, InPayout(q, r)', job'[q].step = "refused"
            PROVE  NoCall(r)' /\ r \notin paid'
        BY <4>1, <3>2, <3>5, <2>1, <2>5, <1>g DEF Alone
      <4>. QED
        BY <4>1, <2>1, <2>3, <3>1, <3>6, <1>g DEF Alone
    <3>8. PaidAnswer(r)'
      <4>1. ASSUME NEW q \in Procs, InPayout(q, r)', job'[q].step = "paid" PROVE r \in paid'
        <5>1. CASE q # c.caller
          BY <4>1, <5>1, <3>1, <1>10, <2>1, <1>g DEF PaidAnswer
        <5>2. CASE q = c.caller
          BY <4>1, <5>2, <1>10, <2>1, <2>5
        <5>. QED
          BY <5>1, <5>2
      <4>. QED
        BY <4>1 DEF PaidAnswer
    <3>. QED
      BY <3>4, <3>7, <3>8 DEF LeaseSound
  <2>. QED
    BY <2>4, <2>5
<1>11. CASE Crash
  <2>1. /\ \A q \in Procs : job'[q] = Idle
        /\ request' = request /\ paid' = paid /\ lease' = lease
    BY <1>11 DEF Crash
  <2>2. (NoCall(r) => NoCall(r)') /\ (OneCall(r) => OneCall(r)')
    BY <1>11, <1>c DEF Crash, NoCall, OneCall
  <2>3. \A q \in Procs : InPayout(q, r)' => job'[q] = job[q]
    BY <2>1, <1>e DEF InPayout
  <2>. QED
    BY <2>1, <2>2, <2>3, <1>f, LeaseKept
<1>12. CASE Economy \/ Midnight \/ UNCHANGED vars
  BY <1>2, <1>12 DEF Economy, Purchase, Reversal, Earn, Spend, Midnight, vars
<1>. QED
  BY <1>3, <1>4, <1>5, <1>6, <1>7, <1>8, <1>9, <1>10, <1>11, <1>12
     DEF Next, Approve, Provider

LEMMA PayoutInvariant == Spec => []PayoutInv
<1>1. Init => PayoutInv
  <2>1. Init => \A r \in Requests : LeaseSound(r)
    BY IdleJob, WithdrawalsAssumption DEF Init, LeaseSound, LeaseHeld, Alone, PaidAnswer, OneCall,
       NoCall, InPayout, PayoutSteps
  <2>. QED
    BY <2>1, TypeInit DEF PayoutInv
<1>2. PayoutInv /\ [Next]_vars => PayoutInv'
  BY TypeStep, CallsStep, LeaseStep DEF PayoutInv
<1>. QED
  BY <1>1, <1>2, PTL DEF Spec

\* "The lease means no refund could have interleaved": whatever approvals of it
\* overlap, and whatever calls, answers or processes are lost, a request that
\* Crypto Pay has paid stays leased until it is recorded as completed, unless
\* the refusal of one of several transfers for it gave the lease away.
THEOREM PaidNeverRefunded == Spec => []PaidIsNeverRefunded
<1>1. PayoutInv => PaidIsNeverRefunded
  BY DEF PayoutInv, TypeOK, LeaseSound, LeaseHeld, Covered, PaidIsNeverRefunded
<1>. QED
  BY <1>1, PayoutInvariant, PTL

-----------------------------------------------------------------------------
(* What one step may do to the row of one request.                         *)

Opened(r)  == request[r].status = "none" /\ request'[r].status = "pending"
Claimed(r) == /\ request[r].status \in {"pending", "processing"}
              /\ request'[r].status \in {"pending", "processing", "completed", "rejected"}

Moved(r) == request'[r] = request[r] \/ Opened(r) \/ Claimed(r)

LEMMA RequestMoves ==
  ASSUME TypeOK, [Next]_vars, NEW r \in Requests
  PROVE  Moved(r)
<1> USE WithdrawalsAssumption
<1>1. CASE request' = request
  BY <1>1 DEF Moved
<1>3. ASSUME NEW p \in Procs, CreateInsert(p) PROVE Moved(r)
  <2>1. CASE request' # request
    <3>1. PICK s \in Requests :
            /\ request[s] = NoRow
            /\ request' = [request EXCEPT ![s] =
                 [status |-> "pending", user |-> job[p].user, amount |-> job[p].amount,
                  day |-> today, tx |-> "none"]]
      BY <1>3, <2>1 DEF CreateInsert
    <3>. QED
      BY <3>1 DEF TypeOK, Moved, Opened, NoRow
  <2>. QED
    BY <1>1, <2>1
<1>4. ASSUME NEW p \in Procs, NEW s \in Requests, ApproveLease(p, s) PROVE Moved(r)
  BY RowTypes, <1>4 DEF ApproveLease, Leasable, Moved, Claimed
<1>5. ASSUME NEW p \in Procs, ApproveCompleted(p) PROVE Moved(r)
  <2>1. job[p].id \in Requests
    BY <1>5, JobFields DEF ApproveCompleted, PayoutSteps
  <2>. QED
    BY RowTypes, <1>5, <2>1 DEF ApproveCompleted, Recordable, Moved, Claimed
<1>6. ASSUME NEW p \in Procs, ApproveRefused(p) PROVE Moved(r)
  <2>1. job[p].id \in Requests
    BY <1>6, JobFields DEF ApproveRefused, PayoutSteps
  <2>. QED
    BY RowTypes, <1>6, <2>1 DEF ApproveRefused, Moved, Claimed
<1>7. ASSUME NEW p \in Procs, ManualClaim(p) PROVE Moved(r)
  <2>1. job[p].id \in Requests
    BY <1>7, JobFields DEF ManualClaim
  <2>. QED
    BY RowTypes, <1>7, <2>1 DEF ManualClaim, Claimable, Moved, Claimed
<1>8. ASSUME NEW p \in Procs, RejectClaim(p) PROVE Moved(r)
  <2>1. job[p].id \in Requests
    BY <1>8, JobFields DEF RejectClaim
  <2>2. \/ request' = request
        \/ /\ request[job[p].id].status = "pending"
           /\ request' = [request EXCEPT ![job[p].id].status = "rejected"]
    BY <1>8 DEF RejectClaim, RefundFailed, Claimable
  <2>. QED
    BY RowTypes, <2>1, <2>2 DEF Moved, Claimed
<1>. QED
  BY <1>1, <1>3, <1>4, <1>5, <1>6, <1>7, <1>8
     DEF Next, Create, CreateLock, CreateGranted, CreateRefused, Approve, Decide, Provider, Economy,
         ApproveSend, Unconfirmed, ReadPending, BusyTimeout, ProviderExecute, ProviderRefuse,
         Purchase, Reversal, Earn, Spend, Midnight, Crash, vars

\* The requests implement the escrow promise, with any number of approvals,
\* manual payouts and rejects of one request at once and a crash at any step:
\* each leaves escrow at most once and to one side only.
THEOREM RequestsImplementEscrow == Spec => SettledOnce
<1>1. Init => E!Init
  BY DEF Init, E!Init, EscrowState, NoRow
<1>2. ASSUME TypeOK, [Next]_vars PROVE [E!Next]_EscrowState
  <2>1. EscrowState' = [r \in Requests |-> EscrowState'[r]]
    BY DEF EscrowState
  <2>2. ASSUME NEW r \in Requests
        PROVE  \/ EscrowState'[r] = EscrowState[r]
               \/ <<EscrowState[r], EscrowState'[r]>> \in E!Moves
    <3>1. Moved(r)
      BY <1>2, RequestMoves
    <3>. QED
      BY <3>1 DEF EscrowState, E!Moves, Moved, Opened, Claimed
  <2>. QED
    BY <2>1, <2>2 DEF E!Next
<1>. QED
  BY <1>1, <1>2, TypeCorrect, PTL DEF Spec, SettledOnce, E!Spec

-----------------------------------------------------------------------------
(* What a user has in requests, for any set of days: the three usages of   *)
(* the gates are the usage over every day, over one day and over a month.  *)

Window(u, D) == {r \in LiveRows(u) : request[r].day \in D}
Usage(u, D)  == Total(Window(u, D))
MonthOf(d)   == {k \in Nat : Month(k) = Month(d)}

\* What one request adds to the usage of a user over a set of days.
Share(r, u, D) == IF r \in Window(u, D) THEN request[r].amount ELSE 0

LEMMA UsageWindows ==
  ASSUME TypeOK, NEW u \in Users
  PROVE  /\ LifetimeUsage(u) = Usage(u, Nat)
         /\ \A d \in Nat : /\ DailyUsage(u, d) = Usage(u, {d})
                           /\ MonthlyUsage(u, d) = Usage(u, MonthOf(d))
<1>0. \A r \in Requests : request[r].day \in Nat
  BY RowFields
<1>1. LiveRows(u) = Window(u, Nat)
  BY <1>0 DEF Window, LiveRows
<1>2. ASSUME NEW d \in Nat
      PROVE  /\ {r \in LiveRows(u) : request[r].day = d} = Window(u, {d})
             /\ {r \in LiveRows(u) : Month(request[r].day) = Month(d)} = Window(u, MonthOf(d))
  BY <1>0 DEF Window, LiveRows, MonthOf
<1>. QED
  BY <1>1, <1>2 DEF LifetimeUsage, DailyUsage, MonthlyUsage, Usage

OnlyRow(s) == \A r \in Requests : r # s => request'[r] = request[r]

\* Only the changed row moves a usage, by what it added before and adds now.
LEMMA UsageOfRow ==
  ASSUME TypeOK, TypeOK', NEW u \in Users, NEW D, NEW s \in Requests,
         OnlyRow(s)
  PROVE  /\ Usage(u, D) \in Int /\ Usage(u, D)' \in Int
         /\ Usage(u, D)' = Usage(u, D) + Share(s, u, D)' - Share(s, u, D)
<1> DEFINE f == [r \in Requests |-> request[r].amount]
           g == [r \in Requests |-> request'[r].amount]
           A == Window(u, D)
           B == Window(u, D)'
<1>1. IsFiniteSet(Requests)
  BY WithdrawalsAssumption
<1>2. \A r \in Requests : request[r].amount \in Nat /\ request'[r].amount \in Nat
  BY DEF TypeOK, Row
<1>3. /\ A \in SUBSET Requests /\ B \in SUBSET Requests
      /\ \A y \in A : f[y] \in Int
      /\ \A y \in B : g[y] \in Int
      /\ \A y \in Requests : y # s => /\ y \in A <=> y \in B
                                      /\ y \in A => g[y] = f[y]
  BY <1>2 DEF OnlyRow, Window, LiveRows
<1>4. /\ SumOver(f, A) = Usage(u, D) /\ SumOver(g, B) = Usage(u, D)'
      /\ Share(s, u, D) = IF s \in A THEN f[s] ELSE 0
      /\ Share(s, u, D)' = IF s \in B THEN g[s] ELSE 0
  BY DEF Usage, Total, Share
<1> HIDE DEF f, g, A, B
<1>5. /\ SumOver(f, A) \in Int /\ SumOver(g, B) \in Int
      /\ SumOver(g, B) = SumOver(f, A) + (IF s \in B THEN g[s] ELSE 0)
                                       - (IF s \in A THEN f[s] ELSE 0)
  <2>1. SumOver(g, B) = SumOver(f, A) + (IF s \in B THEN g[s] ELSE 0)
                                       - (IF s \in A THEN f[s] ELSE 0)
    BY <1>1, <1>3, SumOfRows
  <2>2. SumOver(f, A) \in Int
    <3>1. IsFiniteSet(A) /\ A \in SUBSET A
      BY <1>1, <1>3, FS_Subset
    <3>. QED
      BY <1>3, <3>1, SumInt
  <2>3. SumOver(g, B) \in Int
    BY <1>1, <1>3, SumOfRows
  <2>. QED
    BY <2>1, <2>2, <2>3
<1>. QED
  BY <1>4, <1>5

LEMMA UsageNat ==
  ASSUME TypeOK, NEW u \in Users, NEW D
  PROVE  Usage(u, D) \in Nat
<1> DEFINE f == [r \in Requests |-> request[r].amount]
           A == Window(u, D)
<1>1. IsFiniteSet(A)
  BY WithdrawalsAssumption, FS_Subset DEF Window, LiveRows
<1>2. \A y \in A : f[y] \in Nat
  BY RowFields DEF Window, LiveRows
<1>3. SumOver(f, A) = Usage(u, D)
  BY DEF Usage, Total
<1> HIDE DEF f, A
<1>4. SumOver(f, A) \in Nat
  BY <1>1, <1>2, SumNat
<1>. QED
  BY <1>3, <1>4

LEMMA NothingInWindow ==
  ASSUME TypeOK, NEW u \in Users, NEW D,
         \A r \in LiveRows(u) : request[r].day \notin D
  PROVE  Usage(u, D) = 0
  BY SumEmpty DEF Usage, Total, Window

\* The same rows weigh the same.
LEMMA UsageKept ==
  ASSUME request' = request, NEW u, NEW D
  PROVE  Usage(u, D)' = Usage(u, D)
  BY DEF Usage, Total, Window, LiveRows
-----------------------------------------------------------------------------
(* What one step of the system does to the requests and the wallets.       *)

\* The status of one live request, which stays live.
Restated(s) ==
  /\ s \in Requests /\ OnlyRow(s)
  /\ request[s].status \in Live /\ request'[s].status \in Live
  /\ request'[s].user = request[s].user
  /\ request'[s].amount = request[s].amount
  /\ request'[s].day = request[s].day
  /\ UNCHANGED <<wallet, deposits, today>>

\* A request of u is inserted and its coins leave the wallet.
Inserted(p, s) ==
  /\ s \in Requests /\ OnlyRow(s)
  /\ At(p, "insert")
  /\ request[s] = NoRow
  /\ request'[s] = [status |-> "pending", user |-> job[p].user, amount |-> job[p].amount,
                    day |-> today, tx |-> "none"]
  /\ CanDebit(wallet[job[p].user], job[p].amount)
  /\ wallet' = [wallet EXCEPT ![job[p].user] = Held(@, job[p].amount)]
  /\ UNCHANGED <<deposits, today>>

\* A pending request is rejected and its coins return to the wallet.
Refunded(s) ==
  /\ s \in Requests /\ OnlyRow(s)
  /\ request[s].status = "pending" /\ request'[s].status = "rejected"
  /\ request'[s].user = request[s].user
  /\ request'[s].amount = request[s].amount
  /\ request'[s].day = request[s].day
  /\ CanCredit(wallet[request[s].user], request[s].amount)
  /\ wallet' = [wallet EXCEPT ![request[s].user] = Released(@, request[s].amount)]
  /\ UNCHANGED <<deposits, today>>

\* Coins earned or spent elsewhere move a balance and a lifetime counter alike.
Traded(u, amount) ==
  /\ u \in Users /\ amount \in Nat
  /\ \/ wallet' = wallet
     \/ /\ CanCredit(wallet[u], amount)
        /\ wallet' = [wallet EXCEPT ![u] = Credited(@, amount)]
     \/ /\ CanDebit(wallet[u], amount)
        /\ wallet' = [wallet EXCEPT ![u] = Debited(@, amount)]
  /\ UNCHANGED <<request, today>>

\* The tables stay, whatever the processes and the clock do.
Untouched == UNCHANGED db

BookStep ==
  \/ \E s \in Requests : Restated(s) \/ Refunded(s)
  \/ \E p \in Procs, s \in Requests : Inserted(p, s)
  \/ \E u \in Users, amount \in Nat : Traded(u, amount)
  \/ Untouched

LEMMA BookSteps ==
  ASSUME TypeOK, [Next]_vars
  PROVE  BookStep
<1> USE WithdrawalsAssumption
<1>0. /\ request \in [Requests -> Row]
      /\ \A r \in Requests : request[r] \in [status : Statuses, user : Users \cup {None},
           amount : Nat, day : Nat, tx : {"none", "manual", "transfer"}]
  BY DEF TypeOK, Row
\* A status and a tx column replaced in one row.
<1>1. ASSUME NEW s \in Requests, NEW status \in Live, request[s].status \in Live,
             \/ request' = [request EXCEPT ![s].status = status]
             \/ \E tx \in {"manual", "transfer"} :
                  request' = [request EXCEPT ![s].status = status, ![s].tx = tx],
             UNCHANGED <<wallet, deposits, today>>
      PROVE  BookStep
  <2>1. Restated(s)
    BY <1>0, <1>1 DEF Restated, OnlyRow
  <2>. QED
    BY <2>1 DEF BookStep
<1>2. ASSUME NEW p \in Procs, Create(p) PROVE BookStep
  <2>1. CASE UNCHANGED db
    BY <2>1 DEF BookStep, Untouched
  <2>2. CASE CreateInsert(p)
    <3>1. CASE UNCHANGED <<wallet, request>>
      BY <2>2, <3>1 DEF CreateInsert, BookStep, Untouched
    <3>2. CASE ~ UNCHANGED <<wallet, request>>
      <4>1. PICK s \in Requests :
              /\ request[s] = NoRow
              /\ request' = [request EXCEPT ![s] =
                   [status |-> "pending", user |-> job[p].user, amount |-> job[p].amount,
                    day |-> today, tx |-> "none"]]
              /\ CanDebit(wallet[job[p].user], job[p].amount)
              /\ wallet' = [wallet EXCEPT ![job[p].user] = Held(@, job[p].amount)]
        BY <2>2, <3>2 DEF CreateInsert
      <4>2. Inserted(p, s)
        BY <1>0, <2>2, <4>1 DEF CreateInsert, Inserted, OnlyRow
      <4>. QED
        BY <4>2 DEF BookStep
    <3>. QED
      BY <3>1, <3>2
  <2>. QED
    BY <1>2, <2>1, <2>2 DEF Create, CreateLock, CreateGranted, CreateRefused
<1>3. ASSUME NEW p \in Procs, Approve(p) PROVE BookStep
  <2>1. CASE UNCHANGED db
    BY <2>1 DEF BookStep, Untouched
  <2>2. ASSUME NEW r \in Requests, ApproveLease(p, r) PROVE BookStep
    BY <1>1, <2>2 DEF ApproveLease, Leasable, Live
  <2>3. CASE ApproveCompleted(p) /\ request' # request
    BY <1>1, <2>3, JobFields DEF ApproveCompleted, Recordable, Live, PayoutSteps
  <2>4. CASE ApproveRefused(p) /\ request' # request
    BY <1>1, <2>4, JobFields DEF ApproveRefused, Live, PayoutSteps
  <2>. QED
    BY <1>3, <2>1, <2>2, <2>3, <2>4
       DEF Approve, ApproveSend, ApproveCompleted, ApproveRefused, Unconfirmed
<1>4. ASSUME NEW p \in Procs, Decide(p) PROVE BookStep
  <2>1. CASE UNCHANGED db
    BY <2>1 DEF BookStep, Untouched
  <2>2. CASE ManualClaim(p) /\ request' # request
    BY <1>1, <2>2, JobFields DEF ManualClaim, Claimable, Live
  <2>3. CASE RejectClaim(p) /\ ~ UNCHANGED <<wallet, request>>
    <3> DEFINE s == job[p].id
    <3>1. /\ s \in Requests
          /\ request[s].status = "pending" /\ CanCredit(wallet[request[s].user], request[s].amount)
          /\ request' = [request EXCEPT ![s].status = "rejected"]
          /\ wallet' = [wallet EXCEPT ![request[s].user] = Released(@, request[s].amount)]
          /\ UNCHANGED <<deposits, today>>
      BY <2>3, JobFields DEF RejectClaim, RefundFailed, Claimable
    <3>. HIDE DEF s
    <3>2. Refunded(s)
      BY <1>0, <3>1 DEF Refunded, OnlyRow
    <3>. QED
      BY <3>1, <3>2 DEF BookStep
  <2>. QED
    BY <1>4, <2>1, <2>2, <2>3 DEF Decide, ReadPending, ManualClaim, RejectClaim
<1>5. CASE Economy
  <2>1. PICK u \in Users, amount \in Amounts :
          Purchase(u, amount) \/ Reversal(u, amount) \/ Earn(u, amount) \/ Spend(u, amount)
    BY <1>5 DEF Economy
  <2>2. Traded(u, amount)
    BY <2>1 DEF Purchase, Reversal, Earn, Spend, Traded
  <2>. QED
    BY <2>2 DEF BookStep
<1>6. CASE Provider \/ Midnight \/ Crash \/ UNCHANGED vars
           \/ \E p \in Procs : BusyTimeout(p)
  BY <1>6 DEF Provider, ProviderExecute, ProviderRefuse, Midnight, Crash, BusyTimeout, vars,
     BookStep, Untouched
<1>. QED
  BY <1>2, <1>3, <1>4, <1>5, <1>6 DEF Next

\* No create is at its insert while the tables change, but by its own gates.
LEMMA InsertAlone ==
  ASSUME TypeOK, CallsAwaited, CreateIsExclusive, [Next]_vars,
         NEW p \in Procs, At(p, "insert")'
  PROVE  \/ CreateGranted(p)
         \/ /\ At(p, "insert") /\ job'[p] = job[p]
            /\ UNCHANGED db
            /\ today' = today \/ today' = today + 1
<1> USE WithdrawalsAssumption
<1>0. job \in [Procs -> Job]
  BY DEF TypeOK
<1>1. ASSUME NEW q \in Procs, Create(q) \/ Approve(q) \/ Decide(q) \/ BusyTimeout(q),
             ~ CreateGranted(p)
      PROVE  q # p /\ job'[p] = job[p]
  <2>1. \A k \in Procs \ {q} : job'[k] = job[k]
    BY <1>0, <1>1 DEF Create, CreateLock, CreateGranted, CreateRefused, CreateInsert, Approve,
       ApproveLease, ApproveSend, ApproveCompleted, ApproveRefused, Unconfirmed, Decide,
       ReadPending, ManualClaim, RejectClaim, BusyTimeout
  <2>2. CASE q = p
    <3>0. job[p] \in [step : Steps, user : Users \cup {None}, amount : Nat,
                      id : Requests \cup {None}]
      BY <1>0 DEF Job
    <3>1. ASSUME \E u \in Users, amount \in Amounts : CreateLock(p, u, amount)
          PROVE  job'[p].step # "insert"
      BY <1>0, <3>0, <3>1 DEF CreateLock, Idle
    <3>2. ASSUME CreateRefused(p)
          PROVE  job'[p].step # "insert"
      BY <1>0, <3>0, <3>2 DEF CreateRefused, Idle
    <3>3. ASSUME CreateInsert(p)
          PROVE  job'[p].step # "insert"
      BY <1>0, <3>0, <3>3 DEF CreateInsert, Idle
    <3>4. ASSUME \E r \in Requests : ApproveLease(p, r)
          PROVE  job'[p].step # "insert"
      BY <1>0, <3>0, <3>4 DEF ApproveLease, Idle
    <3>5. ASSUME ApproveSend(p)
          PROVE  job'[p].step # "insert"
      BY <1>0, <3>0, <3>5 DEF ApproveSend, Idle
    <3>6. ASSUME ApproveCompleted(p) \/ ApproveRefused(p) \/ Unconfirmed(p)
          PROVE  job'[p].step # "insert"
      BY <1>0, <3>0, <3>6 DEF ApproveCompleted, ApproveRefused, Unconfirmed, Idle
    <3>7. ASSUME \E r \in Requests : ReadPending(p, r, "manual") \/ ReadPending(p, r, "reject")
          PROVE  job'[p].step # "insert"
      <4>1. PICK r \in Requests, step \in {"manual", "reject"} : ReadPending(p, r, step)
        BY <3>7
      <4>. QED
        BY <1>0, <3>0, <4>1 DEF ReadPending, Idle
    <3>8. ASSUME ManualClaim(p) \/ RejectClaim(p)
          PROVE  job'[p].step # "insert"
      BY <1>0, <3>0, <3>8 DEF ManualClaim, RejectClaim, Idle
    <3>9. ASSUME BusyTimeout(p)
          PROVE  job'[p].step # "insert"
      BY <1>0, <3>0, <3>9 DEF BusyTimeout, Idle
    <3>. QED
      BY <1>1, <2>2, <3>1, <3>2, <3>3, <3>4, <3>5, <3>6, <3>7, <3>8, <3>9
         DEF Create, Approve, Decide
  <2>. QED
    BY <2>1, <2>2
<1>2. ASSUME At(p, "insert") PROVE writer = p /\ ~ Unlocked
  BY <1>2 DEF CreateIsExclusive
<1>3. ASSUME NEW q \in Procs, Create(q), ~ CreateGranted(p)
      PROVE  FALSE
  <2>1. q # p /\ At(p, "insert")
    BY <1>1, <1>3
  <2>. QED
    BY <1>2, <1>3, <2>1 DEF Create, CreateLock, CreateGranted, CreateRefused, CreateInsert,
       CreateIsExclusive
<1>4. ASSUME NEW q \in Procs, Approve(q) \/ Decide(q) \/ BusyTimeout(q), ~ CreateGranted(p)
      PROVE  At(p, "insert") /\ job'[p] = job[p] /\ UNCHANGED <<db, today>>
  <2>1. q # p /\ At(p, "insert") /\ job'[p] = job[p]
    BY <1>1, <1>4
  <2>. QED
    BY <1>2, <1>4, <2>1 DEF Approve, ApproveLease, ApproveSend, ApproveCompleted,
       ApproveRefused, Unconfirmed, Decide, ReadPending, ManualClaim, RejectClaim, BusyTimeout
<1>5. ASSUME Provider PROVE At(p, "insert") /\ job'[p] = job[p] /\ UNCHANGED <<db, today>>
  <2>1. PICK c \in calls : ProviderExecute(c) \/ ProviderRefuse(c)
    BY <1>5 DEF Provider
  <2>2. c.caller \in Procs \cup {None}
    BY DEF TypeOK, Call
  <2>3. PICK step \in {"paid", "refused"} : Answer(c, step)
    BY <2>1 DEF ProviderExecute, ProviderRefuse
  <2>4. c.caller = p => job'[p].step = step
    BY <1>0, <2>2, <2>3 DEF Answer, Job
  <2>5. c.caller # p => job'[p] = job[p]
    BY <1>0, <2>2, <2>3 DEF Answer
  <2>. QED
    BY <2>1, <2>4, <2>5 DEF ProviderExecute, ProviderRefuse
<1>6. ASSUME Economy PROVE FALSE
  <2>1. At(p, "insert") /\ Unlocked
    BY <1>6 DEF Economy, Purchase, Reversal, Earn, Spend
  <2>. QED
    BY <1>2, <2>1
<1>7. ASSUME Crash PROVE FALSE
  BY <1>7 DEF Crash, Idle
<1>8. ASSUME Midnight \/ UNCHANGED vars
      PROVE  /\ At(p, "insert") /\ job'[p] = job[p] /\ UNCHANGED db
             /\ today' = today \/ today' = today + 1
  BY <1>8 DEF Midnight, vars
<1>. QED
  BY <1>3, <1>4, <1>5, <1>6, <1>7, <1>8 DEF Next
-----------------------------------------------------------------------------
(* Every coin of a user is in the wallet or in a request.                  *)

\* What a write of EconomyRepo does to the columns of a wallet.
LEMMA WalletColumns ==
  ASSUME NEW w \in Wallets, NEW amount \in Nat
  PROVE  /\ w.balance \in Int /\ w.earned \in Int /\ w.spent \in Int
         /\ Held(w, amount).balance = w.balance - amount
         /\ Held(w, amount).earned = w.earned /\ Held(w, amount).spent = w.spent
         /\ Released(w, amount).balance = w.balance + amount
         /\ Released(w, amount).earned = w.earned /\ Released(w, amount).spent = w.spent
         /\ Debited(w, amount).balance = w.balance - amount
         /\ Debited(w, amount).earned = w.earned
         /\ Debited(w, amount).spent = w.spent + amount
         /\ Credited(w, amount).balance = w.balance + amount
         /\ Credited(w, amount).earned = w.earned + amount
         /\ Credited(w, amount).spent = w.spent
  BY DEF Wallets, Held, Released, Debited, Credited

\* The share of the row that a step changes, for any user and any days.
LEMMA ShareOfStep ==
  ASSUME TypeOK, TypeOK', NEW s \in Requests, NEW u \in Users, NEW D
  PROVE  /\ Restated(s) => Share(s, u, D)' = Share(s, u, D)
         /\ \A p \in Procs : Inserted(p, s) =>
              /\ Share(s, u, D) = 0
              /\ Share(s, u, D)' = IF u = job[p].user /\ today \in D THEN job[p].amount ELSE 0
         /\ Refunded(s) =>
              /\ Share(s, u, D) = IF u = request[s].user /\ request[s].day \in D
                                  THEN request[s].amount ELSE 0
              /\ Share(s, u, D)' = 0
<1>1. Restated(s) => Share(s, u, D)' = Share(s, u, D)
  BY DEF Restated, Share, Window, LiveRows
<1>2. ASSUME NEW p \in Procs, Inserted(p, s)
      PROVE  /\ Share(s, u, D) = 0
             /\ Share(s, u, D)' = IF u = job[p].user /\ today \in D THEN job[p].amount ELSE 0
  BY <1>2 DEF Inserted, Share, Window, LiveRows, NoRow, Live
<1>3. Refunded(s) =>
        /\ Share(s, u, D) = IF u = request[s].user /\ request[s].day \in D
                            THEN request[s].amount ELSE 0
        /\ Share(s, u, D)' = 0
  BY DEF Refunded, Share, Window, LiveRows, Live
<1>. QED
  BY <1>1, <1>2, <1>3

LEMMA EscrowStep ==
  ASSUME TypeOK, TypeOK', CallsAwaited, EscrowAccountsForEveryCoin, [Next]_vars
  PROVE  EscrowAccountsForEveryCoin'
<1> SUFFICES ASSUME NEW u \in Users
             PROVE  wallet'[u].balance + LifetimeUsage(u)' = Worth(wallet'[u], Welcome)
  BY DEF EscrowAccountsForEveryCoin
<1> USE WithdrawalsAssumption
<1>1. /\ LifetimeUsage(u) = Usage(u, Nat) /\ LifetimeUsage(u)' = Usage(u, Nat)'
      /\ Usage(u, Nat) \in Int
      /\ wallet[u].balance + Usage(u, Nat) = Worth(wallet[u], Welcome)
      /\ Welcome \in Int
  <2>1. LifetimeUsage(u) = Usage(u, Nat)
    BY UsageWindows
  <2>2. LifetimeUsage(u)' = Usage(u, Nat)'
    <3>1. \A r \in Requests : request'[r].day \in Nat
      BY DEF TypeOK, Row
    <3>2. LiveRows(u)' = Window(u, Nat)'
      BY <3>1 DEF Window, LiveRows
    <3>. QED
      BY <3>2 DEF LifetimeUsage, Usage, Total
  <2>3. Usage(u, Nat) \in Nat
    BY UsageNat
  <2>. QED
    BY <2>1, <2>2, <2>3 DEF EscrowAccountsForEveryCoin
<1>2. wallet \in [Users -> Wallets] /\ wallet[u] \in Wallets
  BY DEF TypeOK
<1>3. /\ wallet[u].balance \in Int /\ wallet[u].earned \in Int /\ wallet[u].spent \in Int
  BY <1>2, WalletColumns
<1>4. ASSUME NEW s \in Requests, OnlyRow(s)
      PROVE  Usage(u, Nat)' = Usage(u, Nat) + Share(s, u, Nat)' - Share(s, u, Nat)
  BY <1>4, UsageOfRow
<1>5. ASSUME NEW s \in Requests, Restated(s)
      PROVE  wallet'[u].balance + Usage(u, Nat)' = Worth(wallet'[u], Welcome)
  <2>1. /\ Usage(u, Nat)' = Usage(u, Nat) + Share(s, u, Nat)' - Share(s, u, Nat)
        /\ Share(s, u, Nat)' = Share(s, u, Nat) /\ Share(s, u, Nat) \in Int
    <3>1. Share(s, u, Nat) \in Int
      BY RowFields DEF Share
    <3>. QED
      BY <1>4, <1>5, <3>1, ShareOfStep DEF Restated
  <2>. QED
    BY <1>1, <1>5, <2>1 DEF Restated
<1>6. ASSUME NEW p \in Procs, NEW s \in Requests, Inserted(p, s)
      PROVE  wallet'[u].balance + Usage(u, Nat)' = Worth(wallet'[u], Welcome)
  <2> DEFINE amount == job[p].amount
  <2>0. amount \in Nat /\ today \in Nat
    BY JobFields DEF TypeOK
  <2>1. Usage(u, Nat)' = Usage(u, Nat) + (IF u = job[p].user THEN amount ELSE 0)
    <3>1. /\ Share(s, u, Nat) = 0
          /\ Share(s, u, Nat)' = IF u = job[p].user /\ today \in Nat THEN amount ELSE 0
      BY <1>6, ShareOfStep
    <3>2. Usage(u, Nat)' = Usage(u, Nat) + Share(s, u, Nat)' - Share(s, u, Nat)
      BY <1>4, <1>6 DEF Inserted
    <3>. HIDE DEF amount
    <3>. QED
      BY <1>1, <2>0, <3>1, <3>2
  <2>2. wallet'[u] = IF u = job[p].user THEN Held(wallet[u], amount) ELSE wallet[u]
    BY <1>2, <1>6 DEF Inserted
  <2> HIDE DEF amount
  <2>3. /\ Held(wallet[u], amount).balance = wallet[u].balance - amount
        /\ Held(wallet[u], amount).earned = wallet[u].earned
        /\ Held(wallet[u], amount).spent = wallet[u].spent
    BY <1>2, <2>0, WalletColumns
  <2>. QED
    BY <1>1, <1>3, <2>0, <2>1, <2>2, <2>3 DEF Worth
<1>7. ASSUME NEW s \in Requests, Refunded(s)
      PROVE  wallet'[u].balance + Usage(u, Nat)' = Worth(wallet'[u], Welcome)
  <2> DEFINE amount == request[s].amount
  <2>0. amount \in Nat /\ request[s].day \in Nat
    BY RowFields
  <2>1. Usage(u, Nat)' = Usage(u, Nat) - (IF u = request[s].user THEN amount ELSE 0)
    <3>1. /\ Share(s, u, Nat) = IF u = request[s].user /\ request[s].day \in Nat
                                THEN amount ELSE 0
          /\ Share(s, u, Nat)' = 0
      BY <1>7, ShareOfStep
    <3>2. Usage(u, Nat)' = Usage(u, Nat) + Share(s, u, Nat)' - Share(s, u, Nat)
      BY <1>4, <1>7 DEF Refunded
    <3>. HIDE DEF amount
    <3>. QED
      BY <1>1, <2>0, <3>1, <3>2
  <2>2. wallet'[u] = IF u = request[s].user THEN Released(wallet[u], amount) ELSE wallet[u]
    BY <1>2, <1>7 DEF Refunded
  <2> HIDE DEF amount
  <2>3. /\ Released(wallet[u], amount).balance = wallet[u].balance + amount
        /\ Released(wallet[u], amount).earned = wallet[u].earned
        /\ Released(wallet[u], amount).spent = wallet[u].spent
    BY <1>2, <2>0, WalletColumns
  <2>. QED
    BY <1>1, <1>3, <2>0, <2>1, <2>2, <2>3 DEF Worth
<1>8. ASSUME NEW v \in Users, NEW amount \in Nat, Traded(v, amount)
      PROVE  wallet'[u].balance + Usage(u, Nat)' = Worth(wallet'[u], Welcome)
  <2>1. Usage(u, Nat)' = Usage(u, Nat)
    BY <1>8, UsageKept DEF Traded
  <2>2. wallet'[u] \in {wallet[u], Credited(wallet[u], amount), Debited(wallet[u], amount)}
    BY <1>2, <1>8 DEF Traded
  <2>3. /\ Debited(wallet[u], amount).balance = wallet[u].balance - amount
        /\ Debited(wallet[u], amount).earned = wallet[u].earned
        /\ Debited(wallet[u], amount).spent = wallet[u].spent + amount
        /\ Credited(wallet[u], amount).balance = wallet[u].balance + amount
        /\ Credited(wallet[u], amount).earned = wallet[u].earned + amount
        /\ Credited(wallet[u], amount).spent = wallet[u].spent
    BY <1>2, WalletColumns
  <2>. QED
    BY <1>1, <1>3, <2>1, <2>2, <2>3 DEF Worth
<1>9. ASSUME Untouched
      PROVE  wallet'[u].balance + Usage(u, Nat)' = Worth(wallet'[u], Welcome)
  BY <1>1, <1>9, UsageKept DEF Untouched
<1>10. BookStep
  BY BookSteps
<1>. QED
  BY <1>1, <1>5, <1>6, <1>7, <1>8, <1>9, <1>10 DEF BookStep

LEMMA EscrowInit == Init => EscrowAccountsForEveryCoin
<1> SUFFICES ASSUME Init, NEW u \in Users
             PROVE  wallet[u].balance + LifetimeUsage(u) = Worth(wallet[u], Welcome)
  BY DEF EscrowAccountsForEveryCoin
<1>1. TypeOK
  BY TypeInit
<1>2. LiveRows(u) = {}
  BY DEF Init, LiveRows, NoRow, Live
<1>3. LifetimeUsage(u) = 0
  BY <1>2, SumEmpty DEF LifetimeUsage, Total
<1>. QED
  BY <1>3, WithdrawalsAssumption, MaxAmountAssumption DEF Init, Seeded, Worth

\* Create's hold, the refund of a reject behind its savepoint, the coins that
\* stay put in an approval and every other credit and debit of a wallet: no
\* coin of a user is lost or made, whatever requests run beside each other.
THEOREM BooksAlwaysAgree == Spec => []BooksAgree
<1>1. Init => TypeOK /\ CallsAwaited /\ EscrowAccountsForEveryCoin
  BY TypeInit, EscrowInit
<1>2. TypeOK /\ CallsAwaited /\ EscrowAccountsForEveryCoin /\ [Next]_vars
        => (TypeOK /\ CallsAwaited /\ EscrowAccountsForEveryCoin)'
  BY TypeStep, CallsStep, EscrowStep
<1>3. TypeOK /\ EscrowAccountsForEveryCoin => BooksAgree
  BY DEF BooksAgree
<1>. QED
  BY <1>1, <1>2, <1>3, PTL DEF Spec
-----------------------------------------------------------------------------
(* The quotas.  They are not inductive by the dates of the rows alone: what *)
(* a create found at its gates must still be true at its insert, on the     *)
(* same day or on the next.                                                 *)

\* No row carries a date that has not come.
RowsDated == \A r \in Requests : request[r].status \in Live => request[r].day <= today

\* The gates that a create has passed would let it pass again.
InsertFits ==
  \A p \in Procs : At(p, "insert") =>
    LifetimeGate(job[p].user, job[p].amount) /\ QuotaGate(job[p].user, job[p].amount)

QuotasEver ==
  \A u \in Users, d \in Nat :
    DailyUsage(u, d) <= DailyLimit /\ MonthlyUsage(u, d) <= MonthlyLimit

QuotaInv ==
  /\ TypeOK /\ CallsAwaited /\ CreateIsExclusive
  /\ RowsDated /\ InsertFits /\ QuotasEver

\* A later day is in the same month or in a later one.
LEMMA MonthsGrow ==
  ASSUME NEW a \in Nat, NEW b \in Nat, a <= b
  PROVE  Month(a) \in Nat /\ Month(b) \in Nat /\ Month(a) <= Month(b)
<1>1. DaysPerMonth \in Nat /\ DaysPerMonth > 0
  BY WithdrawalsAssumption
<1>. QED
  BY <1>1 DEF Month

\* Nobody has used anything of a day or a month that has not begun.
LEMMA FreshDay ==
  ASSUME TypeOK, RowsDated, NEW u \in Users
  PROVE  /\ DailyUsage(u, today + 1) = 0
         /\ \/ Month(today + 1) = Month(today)
            \/ MonthlyUsage(u, today + 1) = 0
<1>0. /\ today \in Nat /\ today + 1 \in Nat
      /\ \A r \in LiveRows(u) : /\ request[r].day \in Nat
                                /\ request[r].day <= today
  BY RowFields DEF TypeOK, RowsDated, LiveRows
<1>1. \A r \in LiveRows(u) : request[r].day # today + 1
  BY <1>0
<1>2. {r \in LiveRows(u) : request[r].day = today + 1} = {}
  BY <1>1
<1>3. ASSUME Month(today + 1) # Month(today)
      PROVE  {r \in LiveRows(u) : Month(request[r].day) = Month(today + 1)} = {}
  <2>1. ASSUME NEW r \in LiveRows(u) PROVE Month(request[r].day) # Month(today + 1)
    <3>1. /\ Month(request[r].day) \in Nat /\ Month(today) \in Nat
          /\ Month(request[r].day) <= Month(today)
      BY <1>0, MonthsGrow
    <3>2. /\ Month(today + 1) \in Nat
          /\ Month(today) <= Month(today + 1)
      <4>1. today <= today + 1
        BY <1>0
      <4>. QED
        BY <1>0, <4>1, MonthsGrow
    <3>. QED
      BY <1>3, <3>1, <3>2
  <2>. QED
    BY <2>1
<1>. QED
  BY <1>2, <1>3, SumEmpty DEF DailyUsage, MonthlyUsage, Total

LEMMA RowsDatedStep ==
  ASSUME TypeOK, TypeOK', RowsDated, [Next]_vars
  PROVE  RowsDated'
<1>0. today \in Nat /\ today' \in Nat /\ \A r \in Requests : request[r].day \in Nat
  BY RowFields DEF TypeOK
<1>1. today <= today'
  <2>1. today' = today \/ today' = today + 1
    BY DEF Next, Create, CreateLock, CreateGranted, CreateRefused, CreateInsert, Approve,
     ApproveLease, ApproveSend, ApproveCompleted, ApproveRefused, Unconfirmed, Decide,
     ReadPending, ManualClaim, RejectClaim, BusyTimeout, Provider, ProviderExecute,
     ProviderRefuse, Economy, Purchase, Reversal, Earn, Spend, Midnight, Crash, vars
  <2>. QED
    BY <1>0, <2>1
<1>2. ASSUME NEW r \in Requests, request'[r].status \in Live
      PROVE  request'[r].day <= today'
  <2>1. \/ request[r].status \in Live /\ request'[r].day = request[r].day
        \/ request'[r].day = today
    <3>1. BookStep
      BY BookSteps
    <3>2. ASSUME NEW s \in Requests, Restated(s) PROVE <2>1!:
      BY <1>2, <3>2 DEF Restated, OnlyRow
    <3>3. ASSUME NEW s \in Requests, Refunded(s) PROVE <2>1!:
      BY <1>2, <3>3 DEF Refunded, OnlyRow, Live
    <3>4. ASSUME NEW p \in Procs, NEW s \in Requests, Inserted(p, s) PROVE <2>1!:
      BY <1>2, <3>4 DEF Inserted, OnlyRow
    <3>5. ASSUME request' = request PROVE <2>1!:
      BY <1>2, <3>5
    <3>. QED
      BY <3>1, <3>2, <3>3, <3>4, <3>5 DEF BookStep, Traded, Untouched
  <2>. QED
    BY <1>0, <1>1, <2>1 DEF RowsDated
<1>. QED
  BY <1>2 DEF RowsDated

\* The same gates on the same tables pass again, also after midnight.
LEMMA FitsAgain ==
  ASSUME TypeOK, RowsDated, NEW u \in Users, NEW amount \in Nat,
         LifetimeGate(u, amount), QuotaGate(u, amount),
         UNCHANGED db, today' = today \/ today' = today + 1
  PROVE  (LifetimeGate(u, amount) /\ QuotaGate(u, amount))'
<1> USE WithdrawalsAssumption
<1>0. today \in Nat /\ DailyLimit \in Nat /\ MonthlyLimit \in Nat
  BY DEF TypeOK
<1>1. /\ LifetimeUsage(u)' = LifetimeUsage(u)
      /\ DailyUsage(u, today)' = DailyUsage(u, today')
      /\ MonthlyUsage(u, today)' = MonthlyUsage(u, today')
  BY DEF LifetimeUsage, DailyUsage, MonthlyUsage, LiveRows, Total
<1>2. LifetimeGate(u, amount)'
  BY <1>1 DEF LifetimeGate
<1>3. DailyUsage(u, today) \in Nat /\ MonthlyUsage(u, today) \in Nat
  <2>1. /\ DailyUsage(u, today) = Usage(u, {today})
        /\ MonthlyUsage(u, today) = Usage(u, MonthOf(today))
    BY <1>0, UsageWindows
  <2>2. Usage(u, {today}) \in Nat
    BY UsageNat
  <2>3. Usage(u, MonthOf(today)) \in Nat
    BY UsageNat
  <2>. QED
    BY <2>1, <2>2, <2>3
<1>4. /\ DailyUsage(u, today) + amount <= DailyLimit
      /\ MonthlyUsage(u, today) + amount <= MonthlyLimit
  BY DEF QuotaGate
<1>5. DailyUsage(u, today') + amount <= DailyLimit
  <2>1. CASE today' = today
    BY <1>4, <2>1
  <2>2. CASE today' = today + 1
    <3>1. DailyUsage(u, today') = 0
      BY <2>2, FreshDay
    <3>. QED
      BY <1>0, <1>3, <1>4, <3>1
  <2>. QED
    BY <2>1, <2>2
<1>6. MonthlyUsage(u, today') + amount <= MonthlyLimit
  <2>1. CASE today' = today
    BY <1>4, <2>1
  <2>2. CASE today' = today + 1 /\ Month(today + 1) = Month(today)
    <3>1. MonthlyUsage(u, today') = MonthlyUsage(u, today)
      BY <2>2 DEF MonthlyUsage
    <3>. QED
      BY <1>4, <3>1
  <2>3. CASE today' = today + 1 /\ Month(today + 1) # Month(today)
    <3>1. MonthlyUsage(u, today') = 0
      BY <2>3, FreshDay
    <3>. QED
      BY <1>0, <1>3, <1>4, <3>1
  <2>. QED
    BY <2>1, <2>2, <2>3
<1>7. QuotaGate(u, amount)'
  BY <1>1, <1>5, <1>6 DEF QuotaGate
<1>. QED
  BY <1>2, <1>7

LEMMA InsertFitsStep ==
  ASSUME TypeOK, TypeOK', CallsAwaited, CreateIsExclusive, RowsDated, InsertFits, [Next]_vars
  PROVE  InsertFits'
<1> USE WithdrawalsAssumption
<1>1. ASSUME NEW p \in Procs, At(p, "insert")'
      PROVE  (LifetimeGate(job[p].user, job[p].amount)
                /\ QuotaGate(job[p].user, job[p].amount))'
  <2>0. job \in [Procs -> Job]
    BY DEF TypeOK
  <2>1. /\ LifetimeGate(job[p].user, job[p].amount) /\ QuotaGate(job[p].user, job[p].amount)
        /\ job'[p].user = job[p].user /\ job'[p].amount = job[p].amount
        /\ UNCHANGED db
        /\ today' = today \/ today' = today + 1
        /\ job[p].user \in Users
    <3>1. CASE CreateGranted(p)
      <4>1. job[p] \in [step : Steps, user : Users \cup {None}, amount : Nat,
                        id : Requests \cup {None}]
        BY <2>0 DEF Job
      <4>. QED
        BY <2>0, <3>1, <4>1, JobFields DEF CreateGranted
    <3>2. CASE ~ CreateGranted(p)
      <4>1. /\ At(p, "insert") /\ job'[p] = job[p]
            /\ UNCHANGED db
            /\ today' = today \/ today' = today + 1
        BY <1>1, <3>2, InsertAlone
      <4>. QED
        BY <4>1, JobFields DEF InsertFits
    <3>. QED
      BY <3>1, <3>2
  <2>2. PICK u \in Users, amount \in Nat : u = job[p].user /\ amount = job[p].amount
    BY <2>1, JobFields
  <2>3. (LifetimeGate(u, amount) /\ QuotaGate(u, amount))'
    <3>1. LifetimeGate(u, amount) /\ QuotaGate(u, amount)
      BY <2>1, <2>2
    <3>. QED
      BY <2>1, <3>1, FitsAgain
  <2>. QED
    BY <2>1, <2>2, <2>3 DEF LifetimeGate, QuotaGate, LifetimeUsage, DailyUsage, MonthlyUsage,
       LiveRows
<1>. QED
  BY <1>1 DEF InsertFits

\* An insert finds the room that its gates found; no other step raises a usage.
LEMMA UsageStep ==
  ASSUME TypeOK, TypeOK', InsertFits, [Next]_vars, NEW u \in Users, NEW D
  PROVE  \/ Usage(u, D)' <= Usage(u, D)
         \/ \E p \in Procs :
              /\ At(p, "insert") /\ u = job[p].user /\ today \in D
              /\ Usage(u, D)' = Usage(u, D) + job[p].amount
              /\ UNCHANGED <<deposits, today>>
<1>0. \A r \in Requests : request[r].amount \in Nat /\ request[r].day \in Nat
  BY RowFields
<1>1. Usage(u, D) \in Nat
  BY UsageNat
<1>2. ASSUME NEW s \in Requests, OnlyRow(s)
      PROVE  Usage(u, D)' = Usage(u, D) + Share(s, u, D)' - Share(s, u, D)
  BY <1>2, UsageOfRow
<1>3. ASSUME NEW s \in Requests, Restated(s) \/ Refunded(s)
      PROVE  Usage(u, D)' <= Usage(u, D)
  <2>1. Usage(u, D)' = Usage(u, D) + Share(s, u, D)' - Share(s, u, D)
    BY <1>2, <1>3 DEF Restated, Refunded
  <2>2. Share(s, u, D) \in Nat
    BY <1>0 DEF Share
  <2>3. Share(s, u, D)' = Share(s, u, D) \/ Share(s, u, D)' = 0
    BY <1>3, ShareOfStep
  <2>. QED
    BY <1>1, <2>1, <2>2, <2>3
<1>4. ASSUME NEW p \in Procs, NEW s \in Requests, Inserted(p, s)
      PROVE  \/ Usage(u, D)' = Usage(u, D)
             \/ /\ At(p, "insert") /\ u = job[p].user /\ today \in D
                /\ Usage(u, D)' = Usage(u, D) + job[p].amount
                /\ UNCHANGED <<deposits, today>>
  <2>0. job[p].amount \in Nat
    BY JobFields
  <2>1. Usage(u, D)' = Usage(u, D) + Share(s, u, D)' - Share(s, u, D)
    BY <1>2, <1>4 DEF Inserted
  <2>2. /\ Share(s, u, D) = 0
        /\ Share(s, u, D)' = IF u = job[p].user /\ today \in D THEN job[p].amount ELSE 0
    BY <1>4, ShareOfStep
  <2>. QED
    BY <1>1, <1>4, <2>0, <2>1, <2>2 DEF Inserted
<1>5. ASSUME request' = request PROVE Usage(u, D)' = Usage(u, D)
  BY <1>5, UsageKept
<1>6. BookStep
  BY BookSteps
<1>. QED
  BY <1>1, <1>3, <1>4, <1>5, <1>6 DEF BookStep, Traded, Untouched

\* The windows of the gates after a step.
LEMMA UsageWindowsNext ==
  ASSUME TypeOK', NEW u \in Users
  PROVE  /\ LifetimeUsage(u)' = Usage(u, Nat)'
         /\ \A d \in Nat : /\ DailyUsage(u, d)' = Usage(u, {d})'
                           /\ MonthlyUsage(u, d)' = Usage(u, MonthOf(d))'
<1>0. \A r \in Requests : request'[r].day \in Nat
  BY DEF TypeOK, Row
<1>1. LiveRows(u)' = Window(u, Nat)'
  BY <1>0 DEF Window, LiveRows
<1>2. ASSUME NEW d \in Nat
      PROVE  /\ DailyUsage(u, d)' = Usage(u, {d})'
             /\ MonthlyUsage(u, d)' = Usage(u, MonthOf(d))'
  <2>1. /\ {r \in LiveRows(u) : request[r].day = d}' = Window(u, {d})'
        /\ {r \in LiveRows(u) : Month(request[r].day) = Month(d)}' = Window(u, MonthOf(d))'
    BY <1>0 DEF Window, LiveRows, MonthOf
  <2>. QED
    BY <2>1 DEF DailyUsage, MonthlyUsage, Usage, Total
<1>. QED
  BY <1>1, <1>2 DEF LifetimeUsage, Usage, Total

LEMMA UsageIntNext ==
  ASSUME TypeOK', NEW u \in Users, NEW D
  PROVE  Usage(u, D)' \in Int
<1> DEFINE g == [r \in Requests |-> request'[r].amount]
           B == Window(u, D)'
<1>1. IsFiniteSet(B) /\ B \in SUBSET B
  BY WithdrawalsAssumption, FS_Subset DEF Window, LiveRows
<1>2. \A y \in B : g[y] \in Int
  BY DEF Window, LiveRows, TypeOK, Row
<1>3. SumOver(g, B) = Usage(u, D)'
  BY DEF Usage, Total
<1> HIDE DEF g, B
<1>4. SumOver(g, B) \in Int
  BY <1>1, <1>2, SumInt
<1>. QED
  BY <1>3, <1>4

LEMMA QuotasStep ==
  ASSUME TypeOK, TypeOK', InsertFits, QuotasEver, [Next]_vars
  PROVE  QuotasEver'
<1> USE WithdrawalsAssumption
<1>0. today \in Nat /\ DailyLimit \in Nat /\ MonthlyLimit \in Nat
  BY DEF TypeOK
<1>1. ASSUME NEW u \in Users, NEW d \in Nat
      PROVE  DailyUsage(u, d)' <= DailyLimit
  <2>1. /\ DailyUsage(u, d) = Usage(u, {d}) /\ DailyUsage(u, d)' = Usage(u, {d})'
        /\ DailyUsage(u, d) <= DailyLimit
    BY UsageWindows, UsageWindowsNext DEF QuotasEver
  <2>2. Usage(u, {d}) \in Nat /\ Usage(u, {d})' \in Int
    <3>1. Usage(u, {d}) \in Nat
      BY UsageNat
    <3>2. Usage(u, {d})' \in Int
      BY UsageIntNext
    <3>. QED
      BY <3>1, <3>2
  <2>3. CASE Usage(u, {d})' <= Usage(u, {d})
    BY <1>0, <2>1, <2>2, <2>3
  <2>4. ASSUME NEW p \in Procs, At(p, "insert"), u = job[p].user, today \in {d},
               Usage(u, {d})' = Usage(u, {d}) + job[p].amount
        PROVE  DailyUsage(u, d)' <= DailyLimit
    <3>1. DailyUsage(u, d) + job[p].amount <= DailyLimit
      BY <2>4 DEF InsertFits, QuotaGate
    <3>. QED
      BY <2>1, <2>4, <3>1
  <2>5. \/ Usage(u, {d})' <= Usage(u, {d})
        \/ \E p \in Procs : /\ At(p, "insert") /\ u = job[p].user /\ today \in {d}
                           /\ Usage(u, {d})' = Usage(u, {d}) + job[p].amount
    BY UsageStep
  <2>. QED
    BY <2>3, <2>4, <2>5
<1>2. ASSUME NEW u \in Users, NEW d \in Nat
      PROVE  MonthlyUsage(u, d)' <= MonthlyLimit
  <2> DEFINE M == MonthOf(d)
  <2>1. /\ MonthlyUsage(u, d) = Usage(u, M) /\ MonthlyUsage(u, d)' = Usage(u, M)'
        /\ MonthlyUsage(u, d) <= MonthlyLimit
    BY UsageWindows, UsageWindowsNext DEF QuotasEver
  <2>2. Usage(u, M) \in Nat /\ Usage(u, M)' \in Int
    <3>1. Usage(u, M) \in Nat
      BY UsageNat
    <3>2. Usage(u, M)' \in Int
      BY UsageIntNext
    <3>. QED
      BY <3>1, <3>2
  <2>3. CASE Usage(u, M)' <= Usage(u, M)
    BY <1>0, <2>1, <2>2, <2>3
  <2>4. ASSUME NEW p \in Procs, At(p, "insert"), u = job[p].user, today \in M,
               Usage(u, M)' = Usage(u, M) + job[p].amount
        PROVE  MonthlyUsage(u, d)' <= MonthlyLimit
    <3>1. MonthlyUsage(u, today) + job[p].amount <= MonthlyLimit
      BY <2>4 DEF InsertFits, QuotaGate
    <3>2. Month(today) = Month(d)
      BY <2>4 DEF MonthOf
    <3>3. MonthlyUsage(u, today) = MonthlyUsage(u, d)
      BY <3>2 DEF MonthlyUsage
    <3>. QED
      BY <2>1, <2>4, <3>1, <3>3
  <2>. QED
    <3>1. \/ Usage(u, M)' <= Usage(u, M)
          \/ \E p \in Procs :
              /\ At(p, "insert") /\ u = job[p].user /\ today \in M
              /\ Usage(u, M)' = Usage(u, M) + job[p].amount
      BY UsageStep
    <3>. QED
      BY <2>3, <2>4, <3>1
<1>. QED
  BY <1>1, <1>2 DEF QuotasEver

LEMMA QuotaInit == Init => QuotaInv
<1> SUFFICES ASSUME Init PROVE QuotaInv
  OBVIOUS
<1>1. TypeOK /\ CallsAwaited /\ CreateIsExclusive
  BY TypeInit, ExclusiveInit
<1>2. RowsDated /\ InsertFits
  BY IdleJob DEF Init, RowsDated, InsertFits, NoRow, Live
<1>3. ASSUME NEW u \in Users, NEW d \in Nat
      PROVE  DailyUsage(u, d) = 0 /\ MonthlyUsage(u, d) = 0
  <2>1. LiveRows(u) = {}
    BY DEF Init, LiveRows, NoRow, Live
  <2>. QED
    BY <2>1, SumEmpty DEF DailyUsage, MonthlyUsage, Total
<1>4. QuotasEver
  BY <1>3, WithdrawalsAssumption DEF QuotasEver
<1>. QED
  BY <1>1, <1>2, <1>4 DEF QuotaInv

LEMMA QuotaStep == QuotaInv /\ [Next]_vars => QuotaInv'
<1> SUFFICES ASSUME QuotaInv, [Next]_vars PROVE QuotaInv'
  OBVIOUS
<1>1. TypeOK' /\ CallsAwaited' /\ CreateIsExclusive'
  BY TypeStep, CallsStep, ExclusiveStep DEF QuotaInv
<1>2. RowsDated'
  BY <1>1, RowsDatedStep DEF QuotaInv
<1>3. InsertFits'
  BY <1>1, InsertFitsStep DEF QuotaInv
<1>4. QuotasEver'
  BY <1>1, QuotasStep DEF QuotaInv
<1>. QED
  BY <1>1, <1>2, <1>3, <1>4 DEF QuotaInv

\* By the dates its rows carry no user exceeds a daily or a monthly quota, for
\* any number of creates, days and months, also when midnight falls between the
\* quota read of a create and the timestamp that it writes.
THEOREM QuotasAlwaysHold == Spec => []QuotasHold
<1>1. QuotaInv => QuotasHold
  BY WithdrawalsAssumption DEF QuotaInv, QuotasEver, QuotasHold
<1>. QED
  BY <1>1, QuotaInit, QuotaStep, PTL DEF Spec

\* Where the payout ratio is armed, a step that raises what a user has in
\* requests leaves it within the ratio of the deposits of that very moment: no
\* purchase, reversal or request falls between create's gate and its insert.
THEOREM PayoutCapAlwaysHolds == ASSUME PayoutRatio > 0 PROVE Spec => PayoutCapAtGrant
<1>1. ASSUME QuotaInv, [Next]_vars, NEW u \in Users, LifetimeUsage(u)' > LifetimeUsage(u)
      PROVE  LifetimeUsage(u)' <= PayoutRatio * deposits'[u]
  <2>0. TypeOK /\ TypeOK' /\ InsertFits
    BY <1>1, QuotaStep DEF QuotaInv
  <2>1. /\ LifetimeUsage(u) = Usage(u, Nat) /\ LifetimeUsage(u)' = Usage(u, Nat)'
    BY <2>0, UsageWindows, UsageWindowsNext
  <2>2. Usage(u, Nat) \in Int /\ Usage(u, Nat)' \in Int
    <3>1. Usage(u, Nat) \in Nat
      BY <2>0, UsageNat
    <3>2. Usage(u, Nat)' \in Int
      BY <2>0, UsageIntNext
    <3>. QED
      BY <3>1, <3>2
  <2>3. PICK p \in Procs : /\ At(p, "insert") /\ u = job[p].user
                           /\ Usage(u, Nat)' = Usage(u, Nat) + job[p].amount
                           /\ UNCHANGED <<deposits, today>>
    <3>1. ~ (Usage(u, Nat)' <= Usage(u, Nat))
      BY <1>1, <2>1, <2>2
    <3>. QED
      BY <1>1, <2>0, <3>1, UsageStep
  <2>4. LifetimeUsage(u) + job[p].amount <= PayoutRatio * deposits[u]
    BY <2>0, <2>3 DEF InsertFits, LifetimeGate
  <2>. QED
    BY <2>1, <2>3, <2>4
<1>2. QuotaInv /\ [Next]_vars =>
        [\A u \in Users : LifetimeUsage(u)' > LifetimeUsage(u) =>
           LifetimeUsage(u)' <= PayoutRatio * deposits'[u]]_vars
  BY <1>1
<1>. QED
  BY <1>2, QuotaInit, QuotaStep, PTL DEF Spec, PayoutCapAtGrant
=============================================================================
