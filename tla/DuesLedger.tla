------------------------------ MODULE DuesLedger ------------------------------
(***************************************************************************)
(* The dues ledger of the treasury: obligations of one member, and the     *)
(* five requests that write on them (apps/api/src/modules/dues).           *)
(*                                                                         *)
(* Every request is one database transaction at READ COMMITTED.  A step of *)
(* this module is one statement of that transaction, so the statements of  *)
(* concurrent requests interleave; row locks are held to the end of the    *)
(* transaction, and what a transaction inserted is seen by the others only *)
(* once it commits.                                                        *)
(***************************************************************************)
EXTENDS Integers, FiniteSets

CONSTANTS
    Obligations,   \* obligations of the member, in the order of their ids
    Amount,        \* cents charged by each obligation
    Requests,      \* requests in flight: each is one call of the API
    Keys,          \* caller keys of settlements, execution ids of approvals
    Workloads,     \* the commands the clients may bring, one per request
    None

Kinds == {"PAYMENT", "NON_CASH", "REVERSAL", "CONDONATION", "COMMUNITY"}

(* What a client asks for.  A reversal names the settlement `of' it        *)
(* reverses, whose obligations it takes; the other kinds name their own    *)
(* `targets'.                                                              *)
Commands == {c \in [kind : Kinds, key : Keys, targets : SUBSET Obligations,
                    of : Keys \cup {None}] :
               c.kind = "REVERSAL" <=> c.of \in Keys}

(* What stands under a key once its request is answered. *)
Recorded == [kind : Kinds, cents : [Obligations -> Nat], of : Keys \cup {None}]

ASSUME ObligationsAssumption == Obligations \subseteq Nat
ASSUME AmountAssumption == Amount \in [Obligations -> Nat \ {0}]
ASSUME NoneAssumption == None \notin Requests \cup Keys \cup Recorded
ASSUME WorkloadsAssumption == Workloads \subseteq [Requests -> Commands]

VARIABLES
    command,   \* the command of each request
    net,       \* committed allocations minus compensations of an obligation
    treated,   \* committed condonation treatments of an obligation
    lock,      \* holder of the row lock of an obligation
    gate,      \* holder of the row lock of an approval or reversed settlement
    claim,     \* request that inserted the settlement or receipt of a key
    pc,        \* next statement of a request, or its answer
    take,      \* cents the request puts on each obligation, 0 if not selected
    rank,      \* the order in which the request visits obligations
    seen,      \* the balances its locking SELECT read
    written    \* obligations it has inserted a row for, uncommitted

vars == <<command, net, treated, lock, gate, claim, pc, take, rank, seen,
          written>>

-----------------------------------------------------------------------------
(* Values *)

Cents == [Obligations -> Nat]
Nothing == [o \in Obligations |-> 0]
ById == [o \in Obligations |-> o]

(* An order in which a client, or the random ids of the allocations of a   *)
(* settlement, may list the obligations.                                   *)
Orders == {f \in [Obligations -> Obligations] :
             \A o, p \in Obligations : f[o] = f[p] => o = p}

Answers == {"committed", "replayed", "conflict", "failed"}
Statements == {"find", "gate", "select", "lock", "claim", "write"}

Kind(r) == command[r].kind
Key(r) == command[r].key
Gated(r) == Kind(r) \in {"REVERSAL", "CONDONATION", "COMMUNITY"}
Approved(r) == Kind(r) \in {"CONDONATION", "COMMUNITY"}

(* The row a gated request locks first: the settlement it reverses, or the *)
(* approval that carries its execution id.                                 *)
GateKey(r) == IF Kind(r) = "REVERSAL" THEN command[r].of ELSE Key(r)

Selected(r) == {o \in Obligations : take[r][o] > 0}
Running(r) == pc[r] \in Statements
Committed(r) == pc[r] = "committed"

(* The next obligation of S in the order the request visits them. *)
FirstUnsorted(r, o, S) == o \in S   \* mutant: the ids are not sorted
IsFirst(r, o, S) == o \in S /\ \A p \in S : rank[r][o] <= rank[r][p]

Held(r) == {o \in Obligations : lock[o] = r}

(* The open balance as a statement that starts now computes it: from the   *)
(* committed rows, never below zero.                                       *)
OutstandingUnfloored(o) == Amount[o] - net[o] - treated[o]   \* mutant
OutstandingUncondoned(o) == Amount[o] - net[o]               \* mutant
Outstanding(o) ==
    LET open == Amount[o] - net[o] - treated[o]
    IN  IF open > 0 THEN open ELSE 0

Answered(k) == claim[k] # None /\ Committed(claim[k])

(* Only a payment can be reversed. *)
ReversibleAny(k) == Answered(k)   \* mutant: any settlement can
Reversible(k) == Answered(k) /\ Kind(claim[k]) = "PAYMENT"

(* The request fingerprint: two requests are the same when they ask the    *)
(* same of the same obligations.                                           *)
SameRequest(r, q) ==
    /\ Kind(r) = Kind(q)
    /\ command[r].of = command[q].of
    /\ Kind(r) = "REVERSAL" \/ take[r] = take[q]

(* The unique index on the settlement a settlement reverses. *)
NeverReversed(k) == FALSE   \* mutant: no such index
Reversed(k) == \E q \in Requests : /\ Committed(q)
                                   /\ Kind(q) = "REVERSAL"
                                   /\ command[q].of = k

-----------------------------------------------------------------------------
(* Types *)

TypeOK ==
    /\ command \in Workloads
    /\ net \in [Obligations -> Int]
    /\ treated \in Cents
    /\ lock \in [Obligations -> Requests \cup {None}]
    /\ gate \in [Keys -> Requests \cup {None}]
    /\ claim \in [Keys -> Requests \cup {None}]
    /\ pc \in [Requests -> {"idle"} \cup Statements \cup Answers]
    /\ take \in [Requests -> Cents]
    /\ rank \in [Requests -> Orders]
    /\ seen \in [Requests -> Cents]
    /\ written \in [Requests -> SUBSET Obligations]

Init ==
    /\ command \in Workloads
    /\ net = Nothing
    /\ treated = Nothing
    /\ lock = [o \in Obligations |-> None]
    /\ gate = [k \in Keys |-> None]
    /\ claim = [k \in Keys |-> None]
    /\ pc = [r \in Requests |-> "idle"]
    /\ take = [r \in Requests |-> Nothing]
    /\ rank = [r \in Requests |-> ById]
    /\ seen = [r \in Requests |-> Nothing]
    /\ written = [r \in Requests |-> {}]

-----------------------------------------------------------------------------
(* Endings *)

Release(holder, r) == [x \in DOMAIN holder |-> IF holder[x] = r THEN None
                                                               ELSE holder[x]]

(* The transaction of r is over: its locks go, its answer is given, and    *)
(* unless it committed so do the rows it had inserted.                     *)
End(r, answer) ==
    /\ lock' = Release(lock, r)
    /\ gate' = Release(gate, r)
    /\ claim' = IF answer = "committed" THEN claim ELSE Release(claim, r)
    /\ pc' = [pc EXCEPT ![r] = answer]
    /\ seen' = [seen EXCEPT ![r] = Nothing]
    /\ written' = [written EXCEPT ![r] = {}]
    /\ UNCHANGED <<command, take, rank>>

Abort(r, answer) == End(r, answer) /\ UNCHANGED <<net, treated>>

(* The key is taken by a committed row: the same request is answered with  *)
(* what was recorded, another one is refused.                              *)
Replay(r) == Abort(r, IF SameRequest(r, claim[Key(r)]) THEN "replayed"
                                                       ELSE "conflict")

-----------------------------------------------------------------------------
(* Requests *)

(* The amounts a fresh request carries: the open balances of its targets,  *)
(* as the operator reviewed them or an approval froze them (there is no    *)
(* such request when one of them is settled), free amounts for a non-cash  *)
(* settlement, none for a reversal.                                        *)
Fresh(r) ==
    LET T == command[r].targets
        cents == UNION {0 .. Amount[o] : o \in Obligations}
    IN  CASE Kind(r) = "REVERSAL" -> {Nothing}
          [] Kind(r) = "NON_CASH" ->
               {f \in [Obligations -> cents] :
                  \A o \in Obligations :
                     f[o] \in IF o \in T THEN 1 .. Amount[o] ELSE {0}}
          [] OTHER ->
               {f \in [Obligations -> cents] :
                  \A o \in Obligations :
                     /\ f[o] = IF o \in T THEN Outstanding(o) ELSE 0
                     /\ o \in T => f[o] > 0}

(* Earlier calls under the same key that r may be a retry of. *)
Earlier(r) == {q \in Requests \ {r} : /\ Key(q) = Key(r)
                                      /\ Kind(q) = Kind(r)
                                      /\ command[q] = command[r]
                                      /\ pc[q] # "idle"}

(* A client sends r: a new request, or again the body of an earlier one    *)
(* whose answer it did not get.  An approval has one frozen snapshot, so a *)
(* second execution of it never carries a fresh one.                       *)
Send(r) ==
    /\ pc[r] = "idle"
    /\ \E f \in {take[q] : q \in Earlier(r)} \cup
                (IF Approved(r) /\ Earlier(r) # {} THEN {} ELSE Fresh(r)) :
          take' = [take EXCEPT ![r] = IF Kind(r) = "REVERSAL" THEN Nothing ELSE f]
    /\ \E f \in IF Kind(r) \in {"NON_CASH", "REVERSAL"} THEN Orders ELSE {ById} :
          rank' = [rank EXCEPT ![r] = f]
    /\ pc' = [pc EXCEPT ![r] = IF Kind(r) = "PAYMENT" THEN "find"
                               ELSE IF Kind(r) = "NON_CASH" THEN "claim"
                               ELSE "gate"]
    /\ UNCHANGED <<command, net, treated, lock, gate, claim, seen, written>>

-----------------------------------------------------------------------------
(* Statements *)

(* A payment first looks for its own settlement, without a lock. *)
FindReplay(r) ==
    /\ pc[r] = "find"
    /\ \/ /\ Answered(Key(r))
          /\ Replay(r)
       \/ /\ ~Answered(Key(r))
          /\ pc' = [pc EXCEPT ![r] = "select"]
          /\ UNCHANGED <<command, net, treated, lock, gate, claim, take, rank,
                         seen, written>>

(* A gated request locks its approval, or the settlement it reverses.  It  *)
(* is refused if there is no such settlement or it is not a payment, and   *)
(* answered from the receipt if the approval was executed meanwhile.       *)
LockGate(r) ==
    /\ pc[r] = "gate"
    /\ gate[GateKey(r)] = None
    /\ \/ /\ Approved(r)
          /\ Answered(Key(r))
          /\ Replay(r)
       \/ /\ Approved(r)
          /\ ~Answered(Key(r))
          /\ gate' = [gate EXCEPT ![GateKey(r)] = r]
          /\ pc' = [pc EXCEPT ![r] = "select"]
          /\ UNCHANGED <<command, net, treated, lock, claim, take, rank, seen,
                         written>>
       \/ /\ ~Approved(r)
          /\ Reversible(GateKey(r))
          /\ gate' = [gate EXCEPT ![GateKey(r)] = r]
          /\ take' = [take EXCEPT ![r] = take[claim[GateKey(r)]]]
          /\ pc' = [pc EXCEPT ![r] = "claim"]
          /\ UNCHANGED <<command, net, treated, lock, claim, rank, seen, written>>
       \/ /\ ~Approved(r)
          /\ ~Reversible(GateKey(r))
          /\ Abort(r, "conflict")

(* The locking SELECT starts: the balances it returns are those of the     *)
(* snapshot it takes now, whatever commits while it waits for the rows.    *)
SelectOutstanding(r) ==
    /\ pc[r] = "select"
    /\ seen' = [seen EXCEPT ![r] = [o \in Obligations |->
                   IF o \in Selected(r) THEN Outstanding(o) ELSE 0]]
    /\ pc' = [pc EXCEPT ![r] = "lock"]
    /\ UNCHANGED <<command, net, treated, lock, gate, claim, take, rank, written>>

(* ... and it locks the rows one by one, in the order of their ids.  *)
LockNext(r, o) ==
    /\ pc[r] = "lock"
    /\ IsFirst(r, o, Selected(r) \ Held(r))
    /\ lock[o] = None
    /\ lock' = [lock EXCEPT ![o] = r]
    /\ UNCHANGED <<command, net, treated, gate, claim, pc, take, rank, seen,
                   written>>

(* With every row locked the balances that were read are compared with the *)
(* reviewed or frozen ones: exactly, or for community work as a floor.     *)
Agrees(r) ==
    \A o \in Selected(r) : /\ seen[r][o] > 0
                           /\ IF Kind(r) = "COMMUNITY"
                              THEN seen[r][o] >= take[r][o]
                              ELSE seen[r][o] = take[r][o]

CompareAgain(r) ==   \* mutant: a stale selection is read again
    /\ pc[r] = "lock"
    /\ Selected(r) \subseteq Held(r)
    /\ pc' = [pc EXCEPT ![r] = IF Agrees(r) THEN "claim" ELSE "select"]
    /\ UNCHANGED <<command, net, treated, lock, gate, claim, take, rank, seen,
                   written>>

CompareOutstanding(r) ==
    /\ pc[r] = "lock"
    /\ Selected(r) \subseteq Held(r)
    /\ \/ /\ Agrees(r)
          /\ pc' = [pc EXCEPT ![r] = "claim"]
          /\ UNCHANGED <<command, net, treated, lock, gate, claim, take, rank,
                         seen, written>>
       \/ /\ ~Agrees(r)
          /\ Abort(r, "conflict")

(* INSERT of the settlement, or of the receipt of a condonation, under its *)
(* unique key.  While another transaction holds an uncommitted row of that *)
(* key the statement waits.                                                *)
Claim(r) ==
    /\ pc[r] = "claim"
    /\ \/ /\ claim[Key(r)] = None
          /\ ~(Kind(r) = "REVERSAL" /\ Reversed(command[r].of))
          /\ claim' = [claim EXCEPT ![Key(r)] = r]
          /\ pc' = [pc EXCEPT ![r] = "write"]
          /\ UNCHANGED <<command, net, treated, lock, gate, take, rank, seen,
                         written>>
       \/ /\ claim[Key(r)] = None
          /\ Kind(r) = "REVERSAL" /\ Reversed(command[r].of)
          /\ Abort(r, "conflict")
       \/ /\ Answered(Key(r))
          /\ Replay(r)

CoveredUnchecked(r, o) == TRUE   \* mutant: the selection is trusted
Covered(r, o) == take[r][o] <= Outstanding(o)

(* One allocation: the row is locked, the balance computed again under the *)
(* lock, and an allocation above it refuses the whole request.             *)
Allocate(r, o) ==
    /\ pc[r] = "write"
    /\ Kind(r) \in {"PAYMENT", "NON_CASH", "COMMUNITY"}
    /\ IsFirst(r, o, Selected(r) \ written[r])
    /\ lock[o] \in {None, r}
    /\ \/ /\ Covered(r, o)
          /\ lock' = [lock EXCEPT ![o] = r]
          /\ written' = [written EXCEPT ![r] = @ \cup {o}]
          /\ UNCHANGED <<command, net, treated, gate, claim, pc, take, rank, seen>>
       \/ /\ ~Covered(r, o)
          /\ Abort(r, "conflict")

(* One compensation: the row is locked and the original allocation given   *)
(* back.                                                                   *)
Compensate(r, o) ==
    /\ pc[r] = "write"
    /\ Kind(r) = "REVERSAL"
    /\ IsFirst(r, o, Selected(r) \ written[r])
    /\ lock[o] \in {None, r}
    /\ lock' = [lock EXCEPT ![o] = r]
    /\ written' = [written EXCEPT ![r] = @ \cup {o}]
    /\ UNCHANGED <<command, net, treated, gate, claim, pc, take, rank, seen>>

(* All the treatments of a condonation, in one INSERT of the frozen        *)
(* amounts.                                                                *)
Treat(r) ==
    /\ pc[r] = "write"
    /\ Kind(r) = "CONDONATION"
    /\ written[r] # Selected(r)
    /\ written' = [written EXCEPT ![r] = Selected(r)]
    /\ UNCHANGED <<command, net, treated, lock, gate, claim, pc, take, rank, seen>>

PartlyWritten(r) == written[r] # {}   \* mutant: commits before the last row
FullyWritten(r) == written[r] = Selected(r)

Commit(r) ==
    /\ pc[r] = "write"
    /\ FullyWritten(r)
    /\ net' = [o \in Obligations |->
                 IF o \notin written[r] \/ Kind(r) = "CONDONATION" THEN net[o]
                 ELSE IF Kind(r) = "REVERSAL" THEN net[o] - take[r][o]
                 ELSE net[o] + take[r][o]]
    /\ treated' = [o \in Obligations |->
                     IF o \in written[r] /\ Kind(r) = "CONDONATION"
                     THEN treated[o] + take[r][o] ELSE treated[o]]
    /\ End(r, "committed")

(* The transaction is rolled back: the cash desk or the audit insert       *)
(* refused, the connection or the process was lost.                        *)
Rollback(r) ==
    /\ Running(r)
    /\ Abort(r, "failed")

-----------------------------------------------------------------------------
(* Waiting *)

(* The requests r cannot proceed without. *)
WaitsFor(r) ==
    CASE pc[r] = "gate" -> {gate[GateKey(r)]} \ {None}
      [] pc[r] = "lock" -> {lock[o] : o \in {p \in Obligations :
                              IsFirst(r, p, Selected(r) \ Held(r))}} \ {None}
      [] pc[r] = "claim" -> IF Answered(Key(r)) THEN {} ELSE {claim[Key(r)]} \ {None}
      [] pc[r] = "write" /\ Kind(r) # "CONDONATION" ->
                            {lock[o] : o \in {p \in Obligations :
                              IsFirst(r, p, Selected(r) \ written[r])}} \ {None, r}
      [] OTHER -> {}

(* A request waits for at most one other, so a set of requests that is its *)
(* own image is a union of cycles.                                         *)
WaitCycle(S) == S # {} /\ \A r \in S : WaitsFor(r) # {} /\ UNION {WaitsFor(q) : q \in S} = S

(* PostgreSQL breaks a cycle by rolling back one of its transactions. *)
Deadlocked(r) ==
    /\ \E S \in SUBSET Requests : r \in S /\ WaitCycle(S)
    /\ Abort(r, "failed")

-----------------------------------------------------------------------------
(* Specification *)

Progress(r) ==
    \/ FindReplay(r) \/ LockGate(r) \/ SelectOutstanding(r)
    \/ \E o \in Obligations : LockNext(r, o) \/ Allocate(r, o) \/ Compensate(r, o)
    \/ CompareOutstanding(r) \/ Claim(r) \/ Treat(r) \/ Commit(r)
    \/ Deadlocked(r)

Next == \E r \in Requests : Send(r) \/ Progress(r) \/ Rollback(r)

(* A transaction that was started goes on, is answered or is broken out of *)
(* its deadlock; nothing obliges a client to send, or a transaction to be  *)
(* rolled back.                                                            *)
Fairness == \A r \in Requests : WF_vars(Progress(r))

Spec == Init /\ [][Next]_vars /\ Fairness

-----------------------------------------------------------------------------
(* Properties *)

(* The allocations of an obligation never exceed its amount and never go   *)
(* below zero, whatever payments, settlements and reversals interleave on  *)
(* it: the balance check of insertAllocation and the trigger of            *)
(* 0052_dues_settlements.sql, with reversals giving back only what was     *)
(* paid.                                                                   *)
NetWithinAmount == \A o \in Obligations : 0 <= net[o] /\ net[o] <= Amount[o]

(* No commit raises the allocations of an obligation past what is left of  *)
(* it after its condonations: insertAllocation computes the balance again  *)
(* under the row lock, so a stale selection cannot over-cover.             *)
AllocationsNeverOvercover ==
    [][\A o \in Obligations :
         net'[o] > net[o] => net'[o] + treated'[o] <= Amount[o]]_vars

(* A key has one effect however often, and however concurrently, it is     *)
(* sent; and a payment is reversed once, by whichever key comes first:     *)
(* claimSettlement, the receipts, and the settlement row reverse() locks.  *)
OneEffectPerKey ==
    \A r, q \in Requests :
       Committed(r) /\ Committed(q) /\ r # q =>
          /\ Key(r) # Key(q)
          /\ Kind(r) = "REVERSAL" /\ Kind(q) = "REVERSAL" =>
                command[r].of # command[q].of

(* A payment that commits leaves nothing open on what it selected, though  *)
(* its amounts come from a snapshot older than its locks.                  *)
FullPaymentClears ==
    [][\A r \in Requests :
         Kind(r) = "PAYMENT" /\ ~Committed(r) /\ Committed(r)' =>
            \A o \in Selected(r) : net'[o] + treated'[o] = Amount[o]]_vars

(* Requests that take the obligations in the order of their ids never      *)
(* deadlock among themselves: a cycle needs a non-cash settlement, which   *)
(* locks in the order of the client's list, or a reversal, which locks in  *)
(* the order of the original allocations.                                  *)
SortedRequestsNeverDeadlock ==
    \A S \in SUBSET Requests :
       WaitCycle(S) => \E r \in S : Kind(r) \in {"NON_CASH", "REVERSAL"}

(* Every transaction that starts is answered, whatever it waits for.  *)
EveryRequestAnswered == \A r \in Requests : Running(r) ~> pc[r] \in Answers

(* The interleaved ledger implements the account of atomic entries.  *)
Account == INSTANCE DuesAccount WITH
    entry <- [k \in Keys |->
                IF ~Answered(k) THEN None
                ELSE [kind |-> Kind(claim[k]), cents |-> take[claim[k]],
                      of |-> command[claim[k]].of]]

ImplementsAccount == Account!Spec

(* A condonation writes off exactly what is open when it commits: it       *)
(* rejects a stale snapshot (condonations.ts:296) and reports a debt of    *)
(* zero after it (condonations.ts:223).                                    *)
CondonationIsExact ==
    [][\A r \in Requests :
         Kind(r) = "CONDONATION" /\ ~Committed(r) /\ Committed(r)' =>
            \A o \in Selected(r) : net'[o] + treated'[o] = Amount[o]]_vars

=============================================================================
