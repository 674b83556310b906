--------------------------- MODULE DuesLedgerProofs ---------------------------
(***************************************************************************)
(* What the dues ledger guarantees for any obligations, amounts, requests  *)
(* and keys.                                                               *)
(***************************************************************************)
EXTENDS DuesLedger, FiniteSetTheorems, TLAPS

(* The type of everything the end of a transaction changes. *)
LEMMA EndType ==
    ASSUME TypeOK, NEW r \in Requests, NEW answer \in Answers, End(r, answer)
    PROVE  /\ lock' \in [Obligations -> Requests \cup {None}]
           /\ gate' \in [Keys -> Requests \cup {None}]
           /\ claim' \in [Keys -> Requests \cup {None}]
           /\ pc' \in [Requests -> {"idle"} \cup Statements \cup Answers]
           /\ seen' \in [Requests -> Cents]
           /\ written' \in [Requests -> SUBSET Obligations]
           /\ command' = command /\ take' = take /\ rank' = rank
  <1>1. Nothing \in Cents
    BY DEF Nothing, Cents
  <1>2. \A h, S : h \in [S -> Requests \cup {None}] =>
                    Release(h, r) \in [S -> Requests \cup {None}]
    BY DEF Release
  <1> QED
    BY <1>1, <1>2 DEF End, TypeOK

LEMMA AbortType ==
    ASSUME TypeOK, NEW r \in Requests, NEW answer \in Answers, Abort(r, answer)
    PROVE  TypeOK'
  BY EndType DEF Abort, TypeOK

LEMMA ReplayType ==
    ASSUME TypeOK, NEW r \in Requests, Replay(r)
    PROVE  TypeOK'
  <1>1. (IF SameRequest(r, claim[Key(r)]) THEN "replayed" ELSE "conflict") \in Answers
    BY DEF Answers
  <1> QED
    BY <1>1, AbortType DEF Replay

LEMMA CommandType ==
    ASSUME TypeOK, NEW r \in Requests
    PROVE  command[r] \in Commands
  BY WorkloadsAssumption DEF TypeOK

LEMMA OutstandingType ==
    ASSUME TypeOK, NEW o \in Obligations
    PROVE  Outstanding(o) \in Nat
  <1>1. Amount[o] - net[o] - treated[o] \in Int
    BY AmountAssumption DEF TypeOK, Cents
  <1> QED
    BY <1>1 DEF Outstanding

LEMMA SendType ==
    ASSUME TypeOK, NEW r \in Requests, Send(r)
    PROVE  TypeOK'
  <1>1. ASSUME NEW f \in {take[q] : q \in Earlier(r)} \cup Fresh(r)
        PROVE  f \in Cents
    <2>1. CASE f \in {take[q] : q \in Earlier(r)}
      BY <2>1 DEF Earlier, TypeOK
    <2>2. CASE f \in Fresh(r)
      <3>1. UNION {0 .. Amount[o] : o \in Obligations} \subseteq Nat
        BY AmountAssumption
      <3>2. \/ f = Nothing
            \/ f \in [Obligations -> UNION {0 .. Amount[o] : o \in Obligations}]
        BY <2>2 DEF Fresh
      <3> QED
        BY <3>1, <3>2 DEF Nothing, Cents
    <2> QED
      BY <1>1, <2>1, <2>2
  <1>2. Nothing \in Cents
    BY DEF Nothing, Cents
  <1>3. take' \in [Requests -> Cents]
    BY <1>1, <1>2 DEF Send, TypeOK
  <1>4. ById \in Orders
    BY DEF ById, Orders
  <1>5. rank' \in [Requests -> Orders]
    BY <1>4 DEF Send, TypeOK
  <1>6. pc' \in [Requests -> {"idle"} \cup Statements \cup Answers]
    BY DEF Send, TypeOK, Statements
  <1> QED
    BY <1>3, <1>5, <1>6 DEF Send, TypeOK

LEMMA VisitType ==
    ASSUME TypeOK, NEW r \in Requests, NEW o \in Obligations,
           LockNext(r, o) \/ Allocate(r, o) \/ Compensate(r, o)
    PROVE  TypeOK'
  <1>1. CASE LockNext(r, o)
    BY <1>1 DEF LockNext, TypeOK
  <1>2. CASE Allocate(r, o)
    BY <1>2, AbortType DEF Allocate, TypeOK, Answers
  <1>3. CASE Compensate(r, o)
    BY <1>3 DEF Compensate, TypeOK
  <1> QED
    BY <1>1, <1>2, <1>3

LEMMA StatementType ==
    ASSUME TypeOK, NEW r \in Requests,
           \/ FindReplay(r) \/ LockGate(r) \/ SelectOutstanding(r)
           \/ CompareOutstanding(r) \/ Claim(r) \/ Treat(r)
    PROVE  TypeOK'
  <1> USE DEF Statements
  <1>0. "conflict" \in Answers
    BY DEF Answers
  <1>1. CASE FindReplay(r)
    BY <1>1, ReplayType DEF FindReplay, TypeOK
  <1>2. CASE LockGate(r)
    <2>1. Key(r) \in Keys /\ GateKey(r) \in Keys
      BY CommandType DEF Key, Approved, Kind, GateKey, Commands
    <2>2. CASE \/ Approved(r) /\ Answered(Key(r)) /\ Replay(r)
               \/ Abort(r, "conflict")
      BY <1>0, <2>2, ReplayType, AbortType
    <2>3. CASE Approved(r) /\ ~Answered(Key(r))
      BY <1>2, <2>1, <2>3 DEF LockGate, TypeOK
    <2>4. CASE ~Approved(r) /\ Reversible(GateKey(r))
      <3>1. take[claim[GateKey(r)]] \in Cents
        BY <2>1, <2>4 DEF Reversible, Answered, TypeOK
      <3> QED
        BY <1>2, <2>1, <2>4, <3>1 DEF LockGate, TypeOK
    <2> QED
      BY <1>2, <2>2, <2>3, <2>4 DEF LockGate
  <1>3. CASE SelectOutstanding(r)
    <2>1. [p \in Obligations |-> IF p \in Selected(r) THEN Outstanding(p) ELSE 0] \in Cents
      BY OutstandingType DEF Cents
    <2> QED
      BY <1>3, <2>1 DEF SelectOutstanding, TypeOK
  <1>4. CASE CompareOutstanding(r)
    BY <1>0, <1>4, AbortType DEF CompareOutstanding, TypeOK
  <1>5. CASE Claim(r)
    BY <1>0, <1>5, AbortType, ReplayType DEF Claim, TypeOK
  <1>6. CASE Treat(r)
    <2>1. Selected(r) \subseteq Obligations
      BY DEF Selected
    <2> QED
      BY <1>6, <2>1 DEF Treat, TypeOK
  <1> QED
    BY <1>1, <1>2, <1>3, <1>4, <1>5, <1>6

LEMMA CommitType ==
    ASSUME TypeOK, NEW r \in Requests, Commit(r)
    PROVE  TypeOK'
  <1>1. take[r] \in Cents /\ net \in [Obligations -> Int] /\ treated \in Cents
    BY DEF TypeOK
  <1>2. net' \in [Obligations -> Int]
    BY <1>1 DEF Commit, Cents
  <1>3. treated' \in Cents
    BY <1>1 DEF Commit, Cents
  <1>4. "committed" \in Answers
    BY DEF Answers
  <1> QED
    BY <1>2, <1>3, <1>4, EndType DEF Commit, TypeOK

LEMMA TypeStep ==
    ASSUME TypeOK, [Next]_vars
    PROVE  TypeOK'
  <1>1. CASE UNCHANGED vars
    BY <1>1 DEF TypeOK, vars
  <1>2. ASSUME NEW r \in Requests, Send(r) PROVE TypeOK'
    BY <1>2, SendType
  <1>3. ASSUME NEW r \in Requests, Progress(r) PROVE TypeOK'
    <2>1. CASE Deadlocked(r)
      BY <2>1, AbortType DEF Deadlocked, Answers
    <2>2. CASE Commit(r)
      BY <2>2, CommitType
    <2>3. ASSUME NEW o \in Obligations,
                 LockNext(r, o) \/ Allocate(r, o) \/ Compensate(r, o)
          PROVE  TypeOK'
      BY <2>3, VisitType
    <2>4. CASE \/ FindReplay(r) \/ LockGate(r) \/ SelectOutstanding(r)
               \/ CompareOutstanding(r) \/ Claim(r) \/ Treat(r)
      BY <2>4, StatementType
    <2> QED
      BY <1>3, <2>1, <2>2, <2>3, <2>4 DEF Progress
  <1>4. ASSUME NEW r \in Requests, Rollback(r) PROVE TypeOK'
    BY <1>4, AbortType DEF Rollback, Answers
  <1> QED
    BY <1>1, <1>2, <1>3, <1>4 DEF Next

(* Every variable keeps its type. *)
THEOREM TypeInvariant == Spec => []TypeOK
  <1>1. Init => TypeOK
    BY DEF Init, TypeOK, Nothing, Cents, ById, Orders
  <1>2. TypeOK /\ [Next]_vars => TypeOK'
    BY TypeStep
  <1> QED
    BY <1>1, <1>2, PTL DEF Spec

-----------------------------------------------------------------------------
(* The inductive invariant *)

Sorted(r) == Kind(r) \in {"PAYMENT", "CONDONATION", "COMMUNITY"}
Pays(r) == Kind(r) \in {"PAYMENT", "NON_CASH", "COMMUNITY"}

(* The unique key of a settlement has one owner, which has inserted it.  *)
KeyInv ==
    /\ \A r \in Requests : pc[r] \in {"write", "committed"} => claim[Key(r)] = r
    /\ \A k \in Keys : claim[k] # None => /\ Key(claim[k]) = k
                                          /\ pc[claim[k]] \in {"write", "committed"}

(* Whoever has written on an obligation holds its row; a request that      *)
(* selects in order holds its rows before it writes; a reversal holds its  *)
(* settlement.                                                             *)
LockInv ==
    \A r \in Requests :
       /\ written[r] \subseteq Selected(r)
       /\ written[r] # {} => pc[r] = "write"
       /\ \A o \in written[r] : lock[o] = r
       /\ pc[r] = "gate" => Gated(r)
       /\ pc[r] \in {"find", "select", "lock"} => Sorted(r)
       /\ pc[r] \in {"claim", "write"} /\ Sorted(r) => Selected(r) \subseteq Held(r)
       /\ pc[r] \in {"claim", "write"} /\ Kind(r) = "REVERSAL" =>
             gate[command[r].of] = r

(* A reversal under way gives back what a payment took, for the first time.  *)
ReversalInv ==
    /\ \A r \in Requests :
          pc[r] \in {"claim", "write", "committed"} /\ Kind(r) = "REVERSAL" =>
             /\ Reversible(command[r].of)
             /\ take[r] = take[claim[command[r].of]]
             /\ pc[r] = "write" => ~Reversed(command[r].of)
    /\ \A r, q \in Requests :
          /\ Committed(r) /\ Committed(q) /\ r # q
          /\ Kind(r) = "REVERSAL" /\ Kind(q) = "REVERSAL"
          => command[r].of # command[q].of

(* What has been written fits: the row was locked when it was checked, and *)
(* nobody else can commit on it.                                           *)
RoomInv ==
    \A r \in Requests : \A o \in written[r] :
       Pays(r) => net[o] + treated[o] + take[r][o] <= Amount[o]

(* A payment that is not reversed stands.  *)
Active(p) == Committed(p) /\ Kind(p) = "PAYMENT" /\ ~Reversed(Key(p))

(* It is the only one on its obligations, and leaves nothing open on them.  *)
PaidInv ==
    /\ \A p \in Requests : Active(p) => \A o \in Selected(p) :
          take[p][o] <= net[o] /\ Amount[o] <= net[o] + treated[o]
    /\ \A p, q \in Requests : Active(p) /\ Active(q) /\ p # q =>
          Selected(p) \cap Selected(q) = {}

(* A balance read before the locks were taken can only be too high, and a  *)
(* payment that committed since took no more than it.                      *)
SeenInv ==
    \A r \in Requests : Kind(r) = "PAYMENT" /\ pc[r] \in {"lock", "claim", "write"} =>
       \A o \in Selected(r) :
          /\ seen[r][o] > 0 =>
                \/ Amount[o] - net[o] - treated[o] <= seen[r][o]
                   /\ \A p \in Requests : Active(p) => o \notin Selected(p)
                \/ \E p \in Requests : /\ Active(p) /\ o \in Selected(p)
                                       /\ take[p][o] <= seen[r][o]
          /\ pc[r] # "lock" => seen[r][o] = take[r][o]

MoneyInv == NetWithinAmount /\ RoomInv /\ PaidInv /\ SeenInv

LedgerInv == TypeOK /\ KeyInv /\ LockInv /\ ReversalInv /\ MoneyInv

-----------------------------------------------------------------------------
(* The steps of a request, by what they do to the others *)

(* A request that ends without committing. *)
GivesUp(r) == /\ Running(r)
              /\ \E answer \in Answers \ {"committed"} : Abort(r, answer)

(* A statement of r that does not end it.  *)
Statement(r) ==
    \/ Send(r) \/ FindReplay(r) \/ LockGate(r) \/ SelectOutstanding(r)
    \/ \E o \in Obligations : LockNext(r, o) \/ Allocate(r, o) \/ Compensate(r, o)
    \/ CompareOutstanding(r) \/ Claim(r) \/ Treat(r)

(* A request that goes on changes only cells of its own. *)
GoesOn(r) ==
    /\ Statement(r)
    /\ UNCHANGED <<command, net, treated>>
    /\ pc[r] \in Statements \cup {"idle"}
    /\ pc'[r] \in Statements
    /\ \A q \in Requests \ {r} : /\ pc'[q] = pc[q]
                                 /\ take'[q] = take[q]
                                 /\ seen'[q] = seen[q]
                                 /\ written'[q] = written[q]

LEMMA ReplayGivesUp ==
    ASSUME NEW r \in Requests, Running(r), Replay(r)
    PROVE  GivesUp(r)
  BY DEF Replay, GivesUp, Answers

LEMMA ConflictGivesUp ==
    ASSUME NEW r \in Requests, Running(r), Abort(r, "conflict")
    PROVE  GivesUp(r)
  BY DEF GivesUp, Answers

LEMMA StatementKinds ==
    ASSUME TypeOK, NEW r \in Requests, Statement(r)
    PROVE  GivesUp(r) \/ GoesOn(r)
  <1>0. TypeOK /\ "conflict" \in Answers
    BY DEF Answers
  <1> SUFFICES ASSUME ~GivesUp(r) PROVE GoesOn(r)
    OBVIOUS
  <1> USE DEF Statements, Running
  <1>1. CASE Send(r)
    BY <1>0, <1>1 DEF Send, GoesOn, TypeOK
  <1>2. CASE FindReplay(r)
    BY <1>0, <1>2, ReplayGivesUp DEF FindReplay, GoesOn, TypeOK
  <1>3. CASE LockGate(r)
    BY <1>0, <1>3, ReplayGivesUp, ConflictGivesUp DEF LockGate, GoesOn, TypeOK
  <1>4. CASE SelectOutstanding(r)
    BY <1>0, <1>4 DEF SelectOutstanding, GoesOn, TypeOK
  <1>5. CASE CompareOutstanding(r)
    BY <1>0, <1>5, ConflictGivesUp DEF CompareOutstanding, GoesOn, TypeOK
  <1>6. CASE Claim(r)
    BY <1>0, <1>6, ReplayGivesUp, ConflictGivesUp DEF Claim, GoesOn, TypeOK
  <1>7. CASE Treat(r)
    BY <1>0, <1>7 DEF Treat, GoesOn, TypeOK
  <1>8. ASSUME NEW o \in Obligations, LockNext(r, o) PROVE GoesOn(r)
    BY <1>0, <1>8 DEF LockNext, GoesOn, TypeOK
  <1>9. ASSUME NEW o \in Obligations, Allocate(r, o) PROVE GoesOn(r)
    BY <1>0, <1>9, ConflictGivesUp DEF Allocate, GoesOn, TypeOK
  <1>10. ASSUME NEW o \in Obligations, Compensate(r, o) PROVE GoesOn(r)
    BY <1>0, <1>10 DEF Compensate, GoesOn, TypeOK
  <1> QED
    BY <1>1, <1>2, <1>3, <1>4, <1>5, <1>6, <1>7, <1>8, <1>9, <1>10 DEF Statement

(* Every step commits a request, ends it, or lets it go on. *)
LEMMA StepKinds ==
    ASSUME LedgerInv, Next
    PROVE  \E r \in Requests : Commit(r) \/ GivesUp(r) \/ GoesOn(r)
  <1>1. PICK r \in Requests : Send(r) \/ Progress(r) \/ Rollback(r)
    BY DEF Next
  <1>2. CASE Statement(r)
    BY <1>2, StatementKinds DEF LedgerInv
  <1>3. CASE Deadlocked(r)
    <2>1. Running(r)
      BY <1>3 DEF Deadlocked, WaitCycle, WaitsFor, Running, Statements
    <2> QED
      BY <1>3, <2>1 DEF Deadlocked, GivesUp, Answers
  <1>4. CASE Rollback(r)
    BY <1>4 DEF Rollback, GivesUp, Answers
  <1> QED
    BY <1>1, <1>2, <1>3, <1>4 DEF Progress, Statement

(* What giving up and committing leave to the other requests. *)
LEMMA EndFrame ==
    ASSUME TypeOK, NEW r \in Requests, NEW answer \in Answers, End(r, answer)
    PROVE  /\ pc'[r] = answer /\ written'[r] = {}
           /\ \A q \in Requests \ {r} : /\ pc'[q] = pc[q]
                                        /\ seen'[q] = seen[q]
                                        /\ written'[q] = written[q]
           /\ command' = command /\ take' = take
           /\ \A o \in Obligations, q \in Requests \ {r} :
                 lock[o] = q <=> lock'[o] = q
           /\ \A k \in Keys, q \in Requests \ {r} : gate[k] = q <=> gate'[k] = q
           /\ \A k \in Keys, q \in Requests \ {r} : claim[k] = q <=> claim'[k] = q
           /\ \A k \in Keys : claim'[k] \in {None, claim[k]}
           /\ answer = "committed" => claim' = claim
           /\ answer # "committed" => \A k \in Keys : claim'[k] # r
  <1>1. \A S, h : h \in [S -> Requests \cup {None}] =>
           /\ \A x \in S, q \in Requests \ {r} : h[x] = q <=> Release(h, r)[x] = q
           /\ \A x \in S : Release(h, r)[x] \in {None, h[x]}
           /\ \A x \in S : Release(h, r)[x] # r
    BY NoneAssumption DEF Release
  <1>2. /\ lock' = Release(lock, r)
        /\ gate' = Release(gate, r)
        /\ claim' = IF answer = "committed" THEN claim ELSE Release(claim, r)
    BY DEF End
  <1>3. /\ lock \in [Obligations -> Requests \cup {None}]
        /\ gate \in [Keys -> Requests \cup {None}]
        /\ claim \in [Keys -> Requests \cup {None}]
    BY DEF TypeOK
  <1>4. /\ pc'[r] = answer /\ written'[r] = {}
        /\ \A q \in Requests \ {r} : /\ pc'[q] = pc[q]
                                     /\ seen'[q] = seen[q]
                                     /\ written'[q] = written[q]
        /\ command' = command /\ take' = take
    BY DEF End, TypeOK
  <1> QED
    BY <1>1, <1>2, <1>3, <1>4

LEMMA KeyStep ==
    ASSUME LedgerInv, NEW r \in Requests,
           Commit(r) \/ GivesUp(r) \/ GoesOn(r)
    PROVE  KeyInv'
  <1> USE DEF Key
  <1>0. TypeOK /\ KeyInv /\ \A q \in Requests : Key(q) \in Keys
    BY CommandType DEF LedgerInv, Commands
  <1>1. CASE Commit(r)
    <2>1. End(r, "committed") /\ pc[r] = "write" /\ "committed" \in Answers
      BY <1>1 DEF Commit, Answers
    <2>2. /\ pc'[r] = "committed" /\ \A q \in Requests \ {r} : pc'[q] = pc[q]
          /\ command' = command /\ claim' = claim
      BY <1>0, <2>1, EndFrame
    <2> QED
      BY <1>0, <2>1, <2>2 DEF KeyInv, TypeOK
  <1>2. CASE GivesUp(r)
    <2>1. PICK answer \in Answers \ {"committed"} : End(r, answer)
      BY <1>2 DEF GivesUp, Abort
    <2>2. answer \notin {"write", "committed"}
      BY <2>1 DEF Answers
    <2>3. \A k \in Keys : claim[k] \in Requests \cup {None}
      BY <1>0 DEF TypeOK
    <2> QED
      BY <1>0, <2>1, <2>2, <2>3, EndFrame DEF KeyInv
  <1>3. CASE GoesOn(r)
    <2>1. CASE Claim(r)
      BY <1>0, <1>3, <2>1, NoneAssumption DEF GoesOn, Claim, KeyInv, TypeOK, Replay, Abort, End,
         Statements, Answers
    <2>2. CASE ~Claim(r)
      <3>1. claim' = claim
        BY <1>0, <1>3, <2>2 DEF TypeOK, GoesOn, Statement, Statements, Answers, Send,
           FindReplay, LockGate, SelectOutstanding, LockNext, CompareOutstanding,
           Allocate, Compensate, Treat, Replay, Abort, End
      <3>2. pc'[r] = "write" <=> pc[r] = "write"
        BY <1>0, <1>3, <2>2 DEF TypeOK, GoesOn, Statement, Statements, Answers, Send,
           FindReplay, LockGate, SelectOutstanding, LockNext, CompareOutstanding,
           Allocate, Compensate, Treat, Replay, Abort, End
      <3> QED
        BY <1>0, <1>3, <3>1, <3>2 DEF GoesOn, KeyInv, TypeOK, Statements
    <2> QED
      BY <2>1, <2>2
  <1> QED
    BY <1>1, <1>2, <1>3

LEMMA LockStep ==
    ASSUME LedgerInv, NEW r \in Requests,
           Commit(r) \/ GivesUp(r) \/ GoesOn(r)
    PROVE  LockInv'
  <1> USE DEF Kind
  <1>0. /\ TypeOK /\ LockInv
        /\ \A q \in Requests : Kind(q) \in Kinds
        /\ \A q \in Requests : Kind(q) = "REVERSAL" => command[q].of \in Keys
    BY CommandType DEF LedgerInv, Commands
  <1>1. CASE Commit(r) \/ GivesUp(r)
    <2>1. PICK answer \in Answers : End(r, answer)
      BY <1>1 DEF Commit, GivesUp, Abort, Answers
    <2>2. /\ pc'[r] = answer /\ written'[r] = {}
          /\ \A q \in Requests \ {r} : pc'[q] = pc[q] /\ written'[q] = written[q]
          /\ command' = command /\ take' = take
          /\ \A o \in Obligations, q \in Requests \ {r} : lock[o] = q <=> lock'[o] = q
          /\ \A k \in Keys, q \in Requests \ {r} : gate[k] = q <=> gate'[k] = q
      BY <1>0, <2>1, EndFrame
    <2>3. answer \notin {"gate", "find", "select", "lock", "claim", "write"}
      BY DEF Answers
    <2>4. ASSUME NEW q \in Requests
          PROVE  /\ written'[q] \subseteq Selected(q)'
                 /\ written'[q] # {} => pc'[q] = "write"
                 /\ \A o \in written'[q] : lock'[o] = q
                 /\ pc'[q] = "gate" => Gated(q)'
                 /\ pc'[q] \in {"find", "select", "lock"} => Sorted(q)'
                 /\ pc'[q] \in {"claim", "write"} /\ Sorted(q)' => Selected(q)' \subseteq Held(q)'
                 /\ pc'[q] \in {"claim", "write"} /\ Kind(q)' = "REVERSAL" =>
                       gate'[command'[q].of] = q
      BY <1>0, <2>2, <2>3 DEF LockInv, Selected, Held, Sorted, Gated
    <2> QED
      BY <2>4 DEF LockInv
  <1>2. CASE GoesOn(r)
    <2> SUFFICES ASSUME NEW q \in Requests
          PROVE  /\ written'[q] \subseteq Selected(q)'
                 /\ written'[q] # {} => pc'[q] = "write"
                 /\ \A o \in written'[q] : lock'[o] = q
                 /\ pc'[q] = "gate" => Gated(q)'
                 /\ pc'[q] \in {"find", "select", "lock"} => Sorted(q)'
                 /\ pc'[q] \in {"claim", "write"} /\ Sorted(q)' => Selected(q)' \subseteq Held(q)'
                 /\ pc'[q] \in {"claim", "write"} /\ Kind(q)' = "REVERSAL" =>
                       gate'[command'[q].of] = q
      BY DEF LockInv
    <2> USE DEF Selected, Held, Sorted, Gated
    <2>1. /\ command' = command /\ pc'[r] \in Statements
          /\ q # r => pc'[q] = pc[q] /\ take'[q] = take[q] /\ written'[q] = written[q]
      BY <1>2 DEF GoesOn
    <2>2. /\ \A o \in Obligations : lock[o] # None => lock'[o] = lock[o]
          /\ \A k \in Keys : gate[k] # None => gate'[k] = gate[k]
      <3>1. \A o \in Obligations : lock[o] # None => lock'[o] = lock[o]
        <4>1. \/ lock' = lock
              \/ \E o \in Obligations : /\ lock[o] \in {None, r}
                                        /\ lock' = [lock EXCEPT ![o] = r]
          BY <1>0, <1>2 DEF GoesOn, Statement, TypeOK, Statements, Answers, Send, FindReplay,
             LockGate, SelectOutstanding, LockNext, CompareOutstanding, Claim, Allocate,
             Compensate, Treat, Replay, Abort, End
        <4> QED
          BY <1>0, <4>1 DEF TypeOK
      <3>2. \A k \in Keys : gate[k] # None => gate'[k] = gate[k]
        <4>1. \/ gate' = gate
              \/ gate[GateKey(r)] = None /\ gate' = [gate EXCEPT ![GateKey(r)] = r]
          BY <1>0, <1>2 DEF GoesOn, Statement, TypeOK, Statements, Answers, Send, FindReplay,
             LockGate, SelectOutstanding, LockNext, CompareOutstanding, Claim, Allocate,
             Compensate, Treat, Replay, Abort, End
        <4> QED
          BY <1>0, <4>1 DEF TypeOK
      <3> QED
        BY <3>1, <3>2
    <2>3. CASE q # r
      BY <1>0, <2>1, <2>2, <2>3, NoneAssumption DEF LockInv
    <2>4. CASE q = r
      <3>1. CASE Send(r)
        BY <1>0, <2>1, <2>4, <3>1 DEF LockInv, TypeOK, Send, Kinds
      <3>2. CASE FindReplay(r)
        BY <1>0, <2>1, <2>4, <3>2 DEF LockInv, TypeOK, FindReplay, Replay, Abort, End,
           Statements
      <3>3. CASE LockGate(r)
        <4>1. /\ lock' = lock /\ written' = written
              /\ \/ pc'[r] = "select" /\ Approved(r) /\ take' = take
                 \/ /\ pc'[r] = "claim" /\ ~Approved(r)
                    /\ gate' = [gate EXCEPT ![GateKey(r)] = r]
          BY <1>0, <2>1, <3>3 DEF LockGate, Replay, Abort, End, TypeOK, Statements
        <4>2. written[r] = {}
          BY <1>0, <3>3 DEF LockInv, LockGate
        <4>3. pc'[r] = "select" => Sorted(r)
          BY <4>1 DEF Approved
        <4>4. pc'[r] = "claim" =>
                 /\ ~Sorted(r)
                 /\ Kind(r) = "REVERSAL" => gate'[command[r].of] = r
          BY <1>0, <3>3, <4>1 DEF LockInv, LockGate, GateKey, Approved, TypeOK
        <4> QED
          BY <1>0, <2>1, <2>4, <4>1, <4>2, <4>3, <4>4
      <3>4. CASE SelectOutstanding(r)
        BY <1>0, <2>1, <2>4, <3>4 DEF LockInv, TypeOK, SelectOutstanding
      <3>5. CASE CompareOutstanding(r)
        <4>1. /\ pc[r] = "lock" /\ pc'[r] = "claim" /\ Selected(r) \subseteq Held(r)
              /\ UNCHANGED <<take, lock, written>>
          BY <1>0, <2>1, <3>5 DEF CompareOutstanding, Abort, End, TypeOK, Statements
        <4> QED
          BY <1>0, <2>1, <2>4, <4>1 DEF LockInv
      <3>6. CASE Claim(r)
        BY <1>0, <2>1, <2>4, <3>6 DEF LockInv, TypeOK, Claim, Replay, Abort, End,
           Statements
      <3>7. CASE Treat(r)
        BY <1>0, <2>1, <2>4, <3>7 DEF LockInv, TypeOK, Treat
      <3>8. ASSUME NEW o \in Obligations, LockNext(r, o) \/ Allocate(r, o) \/ Compensate(r, o)
            PROVE  /\ written'[q] \subseteq Selected(q)'
                   /\ written'[q] # {} => pc'[q] = "write"
                   /\ \A p \in written'[q] : lock'[p] = q
                   /\ pc'[q] = "gate" => Gated(q)'
                   /\ pc'[q] \in {"find", "select", "lock"} => Sorted(q)'
                   /\ pc'[q] \in {"claim", "write"} /\ Sorted(q)' => Selected(q)' \subseteq Held(q)'
                   /\ pc'[q] \in {"claim", "write"} /\ Kind(q)' = "REVERSAL" =>
                         gate'[command'[q].of] = q
        BY <1>0, <2>1, <2>4, <3>8 DEF LockInv, TypeOK, LockNext, Allocate, Compensate,
           IsFirst, Abort, End, Statements
      <3> QED
        BY <1>2, <2>4, <3>1, <3>2, <3>3, <3>4, <3>5, <3>6, <3>7, <3>8 DEF GoesOn, Statement
    <2> QED
      BY <2>3, <2>4
  <1> QED
    BY <1>1, <1>2

(* A step that does not commit leaves every settlement as it stands. *)
LEMMA SettlementsStand ==
    ASSUME LedgerInv, NEW r \in Requests, GivesUp(r) \/ GoesOn(r)
    PROVE  /\ command' = command /\ net' = net /\ treated' = treated
           /\ ~Committed(r)
           /\ \A q \in Requests : Committed(q)' <=> Committed(q)
           /\ \A q \in Requests : q # r \/ GivesUp(r) => take'[q] = take[q]
           /\ \A q \in Requests \ {r} : /\ pc'[q] = pc[q]
                                        /\ seen'[q] = seen[q]
                                        /\ written'[q] = written[q]
           /\ \A k \in Keys : Answered(k) => claim'[k] = claim[k]
           /\ \A k : Reversed(k)' <=> Reversed(k)
           /\ \A q \in Requests : Active(q)' <=> Active(q)
  <1>0. TypeOK /\ KeyInv
    BY DEF LedgerInv
  <1>1. /\ command' = command /\ net' = net /\ treated' = treated
        /\ ~Committed(r)
        /\ \A q \in Requests : Committed(q)' <=> Committed(q)
        /\ \A q \in Requests : q # r \/ GivesUp(r) => take'[q] = take[q]
        /\ \A q \in Requests \ {r} : /\ pc'[q] = pc[q]
                                     /\ seen'[q] = seen[q]
                                     /\ written'[q] = written[q]
    <2>1. CASE GivesUp(r)
      BY <1>0, <2>1, EndFrame DEF GivesUp, Abort, Committed, Running, Statements
    <2>2. CASE GoesOn(r)
      BY <2>2 DEF GoesOn, Committed, Statements, GivesUp, Running, Abort, End, Answers
    <2> QED
      BY <2>1, <2>2
  <1>2. ASSUME NEW k \in Keys, Answered(k) PROVE claim'[k] = claim[k]
    <2>1. claim[k] \in Requests \ {r}
      BY <1>0, <1>1, <1>2 DEF Answered, TypeOK
    <2>2. CASE GivesUp(r)
      BY <1>0, <2>1, <2>2, EndFrame DEF GivesUp, Abort
    <2>3. CASE GoesOn(r)
      BY <1>0, <1>2, <2>3 DEF GoesOn, Statement, TypeOK, Statements, Answers, Answered,
         Send, FindReplay, LockGate, SelectOutstanding, LockNext, CompareOutstanding,
         Claim, Allocate, Compensate, Treat, Replay, Abort, End
    <2> QED
      BY <2>2, <2>3
  <1>3. \A k : Reversed(k)' <=> Reversed(k)
    BY <1>1 DEF Reversed, Kind
  <1>4. \A q \in Requests : Active(q)' <=> Active(q)
    BY <1>1, <1>3 DEF Active, Kind, Key
  <1> QED
    BY <1>1, <1>2, <1>3, <1>4

(* A commit adds one settlement to those that stand. *)
LEMMA SettlementCommits ==
    ASSUME LedgerInv, NEW r \in Requests, Commit(r)
    PROVE  /\ command' = command /\ take' = take /\ claim' = claim
           /\ pc[r] = "write" /\ written[r] = Selected(r) /\ written'[r] = {}
           /\ \A q \in Requests : Committed(q)' <=> Committed(q) \/ q = r
           /\ \A q \in Requests \ {r} : /\ pc'[q] = pc[q]
                                        /\ seen'[q] = seen[q]
                                        /\ written'[q] = written[q]
           /\ \A k : Reversed(k)' <=> \/ Reversed(k)
                                      \/ Kind(r) = "REVERSAL" /\ command[r].of = k
  <1>1. TypeOK /\ "committed" \in Answers /\ End(r, "committed")
    BY DEF LedgerInv, Answers, Commit
  <1>2. /\ command' = command /\ take' = take /\ claim' = claim
        /\ pc[r] = "write" /\ written[r] = Selected(r) /\ written'[r] = {}
        /\ \A q \in Requests : Committed(q)' <=> Committed(q) \/ q = r
        /\ \A q \in Requests \ {r} : /\ pc'[q] = pc[q]
                                     /\ seen'[q] = seen[q]
                                     /\ written'[q] = written[q]
    BY <1>1, EndFrame DEF Commit, FullyWritten, Committed
  <1> QED
    BY <1>2 DEF Reversed, Kind

LEMMA ReversalStep ==
    ASSUME LedgerInv, NEW r \in Requests,
           Commit(r) \/ GivesUp(r) \/ GoesOn(r)
    PROVE  ReversalInv'
  <1> DEFINE Undoing(q) ==
         pc[q] \in {"claim", "write", "committed"} /\ Kind(q) = "REVERSAL" =>
             /\ Reversible(command[q].of)
             /\ take[q] = take[claim[command[q].of]]
             /\ pc[q] = "write" => ~Reversed(command[q].of)
  <1>0. /\ TypeOK /\ KeyInv /\ LockInv /\ ReversalInv
        /\ \A q \in Requests : Kind(q) = "REVERSAL" => command[q].of \in Keys
    BY CommandType DEF LedgerInv, Commands, Kind
  <1>1. CASE Commit(r)
    <2>1. ASSUME NEW q \in Requests \ {r}, pc[q] \in {"claim", "write"},
                 Kind(q) = "REVERSAL", Kind(r) = "REVERSAL"
          PROVE  command[q].of # command[r].of
      <3>1. gate[command[q].of] = q
        BY <1>0, <2>1 DEF LockInv
      <3>2. gate[command[r].of] = r
        BY <1>0, <1>1, <2>1 DEF LockInv, Commit
      <3> QED
        BY <3>1, <3>2
    <2>2. ASSUME NEW q \in Requests, Kind(q) = "REVERSAL",
                 pc'[q] \in {"claim", "write", "committed"}
          PROVE  Undoing(q)'
      <3>1. pc'[q] # "committed" => q # r
        BY <1>1, <2>2, SettlementCommits DEF Committed
      <3>2. /\ q # r => pc[q] = pc'[q]
            /\ command' = command /\ take' = take /\ claim' = claim
        BY <1>1, <3>1, SettlementCommits
      <3>3. Undoing(q) /\ pc[r] = "write"
        BY <1>0, <1>1, SettlementCommits DEF ReversalInv
      <3>4. Reversible(command[q].of)'
        BY <1>1, <2>2, <3>2, <3>3, SettlementCommits, <1>0
           DEF Reversible, Answered, Kind, TypeOK
      <3>5. pc'[q] = "write" => ~Reversed(command[q].of)'
        BY <1>1, <2>1, <2>2, <3>1, <3>2, <3>3, SettlementCommits
      <3> QED
        BY <2>2, <3>2, <3>3, <3>4, <3>5 DEF Kind
    <2>3. \A q \in Requests : Committed(q) /\ Kind(q) = "REVERSAL" /\ Kind(r) = "REVERSAL"
             => command[q].of # command[r].of
      BY <1>0, <1>1, SettlementCommits DEF ReversalInv, Reversed
    <2> QED
      <3>1. \A q \in Requests : Undoing(q)'
        BY <1>1, <2>2, SettlementCommits DEF Kind
      <3> QED
        BY <1>0, <1>1, <2>3, <3>1, SettlementCommits DEF ReversalInv, Kind
  <1>2. CASE GivesUp(r) \/ GoesOn(r)
    <2>1. /\ \A k \in Keys : Reversible(k) =>
                Reversible(k)' /\ claim'[k] = claim[k] /\ claim[k] \in Requests \ {r}
          /\ \A k : Reversed(k)' <=> Reversed(k)
      BY <1>0, <1>2, SettlementsStand DEF Reversible, Answered, Kind, TypeOK
    <2>2. ASSUME NEW q \in Requests \ {r} PROVE Undoing(q)'
      BY <1>0, <1>2, <2>1, SettlementsStand DEF ReversalInv, Kind
    <2>3. Undoing(r)'
      <3>1. CASE GivesUp(r)
        <4>1. pc'[r] \in Answers
          BY <1>0, <3>1, EndFrame DEF GivesUp, Abort
        <4>2. pc'[r] # "committed"
          BY <1>2, SettlementsStand DEF Committed
        <4> QED
          BY <4>1, <4>2 DEF Answers
      <3>2. CASE GoesOn(r) /\ Kind(r) = "REVERSAL" /\ pc'[r] \in {"claim", "write"}
        <4>1. CASE LockGate(r)
          <5>1. /\ Reversible(command[r].of)
                /\ take'[r] = take[claim[command[r].of]]
                /\ pc'[r] = "claim"
            BY <1>0, <3>2, <4>1 DEF GoesOn, LockGate, GateKey, Approved, Replay, Abort,
               End, TypeOK, Statements, Answers
          <5> QED
            BY <1>0, <1>2, <2>1, <3>2, <5>1, SettlementsStand DEF Kind
        <4>2. CASE pc[r] \in {"claim", "write"}
          <5>1. take'[r] = take[r]
            BY <1>0, <3>2, <4>2 DEF GoesOn, Statement, TypeOK, Statements, Answers, Send,
               FindReplay, LockGate, SelectOutstanding, LockNext, CompareOutstanding,
               Claim, Allocate, Compensate, Treat, Replay, Abort, End
          <5>2. pc'[r] = "write" => ~Reversed(command[r].of)
            BY <1>0, <3>2, <4>2 DEF ReversalInv, GoesOn, Statement, TypeOK, Statements,
               Answers, Send, FindReplay, LockGate, SelectOutstanding, LockNext,
               CompareOutstanding, Claim, Allocate, Compensate, Treat, Replay, Abort, End
          <5> QED
            BY <1>0, <1>2, <2>1, <3>2, <4>2, <5>1, <5>2, SettlementsStand DEF ReversalInv, Kind
        <4>3. LockGate(r) \/ pc[r] \in {"claim", "write"}
          BY <1>0, <3>2 DEF LockInv, Sorted, GoesOn, Statement, TypeOK, Statements, Answers, Send,
             FindReplay, LockGate, SelectOutstanding, LockNext, CompareOutstanding,
             Claim, Allocate, Compensate, Treat, Replay, Abort, End
        <4> QED
          BY <4>1, <4>2, <4>3
      <3> QED
        BY <1>2, <3>1, <3>2, SettlementsStand DEF Kind, GoesOn, Statements
    <2> QED
      BY <1>0, <1>2, <2>2, <2>3, SettlementsStand DEF ReversalInv, Kind
  <1> QED
    BY <1>1, <1>2

LEMMA MoneyTypes ==
    ASSUME TypeOK, NEW o \in Obligations
    PROVE  /\ net[o] \in Int /\ treated[o] \in Nat /\ Amount[o] \in Nat
           /\ \A r \in Requests : take[r][o] \in Nat /\ seen[r][o] \in Nat
           /\ \A r \in Requests : o \in Selected(r) <=> take[r][o] > 0
  BY AmountAssumption DEF TypeOK, Cents, Selected

(* A step that does not commit keeps the money invariants: it writes only  *)
(* what fits, and compares what it read.                                   *)
LEMMA MoneyStands ==
    ASSUME LedgerInv, NEW r \in Requests, GivesUp(r) \/ GoesOn(r)
    PROVE  MoneyInv'
  <1>0. /\ TypeOK /\ LockInv /\ MoneyInv
        /\ \A q \in Requests : Kind(q) \in Kinds
    BY CommandType DEF LedgerInv, Commands, Kind
  <1>1. /\ command' = command /\ net' = net /\ treated' = treated
        /\ \A q \in Requests \ {r} : /\ pc'[q] = pc[q] /\ take'[q] = take[q]
                                     /\ seen'[q] = seen[q] /\ written'[q] = written[q]
        /\ \A q \in Requests : Active(q)' <=> Active(q)
        /\ ~Committed(r)
    BY SettlementsStand
  <1>2. \A q \in Requests : Kind(q)' = Kind(q) /\ (Pays(q)' <=> Pays(q))
    BY <1>1 DEF Kind, Pays
  <1>3. \A q \in Requests : Active(q) => q # r /\ Selected(q)' = Selected(q)
    BY <1>1 DEF Active, Selected
  <1>4. CASE GivesUp(r)
    <2>1. written'[r] = {} /\ pc'[r] \in Answers
      BY <1>0, <1>4, EndFrame DEF GivesUp, Abort
    <2>2. RoomInv'
      BY <1>0, <1>1, <1>2, <2>1 DEF MoneyInv, RoomInv
    <2>3. SeenInv'
      BY <1>0, <1>1, <1>2, <1>3, <2>1 DEF MoneyInv, SeenInv, Selected, Answers
    <2> QED
      BY <1>0, <1>1, <1>3, <2>2, <2>3 DEF MoneyInv, NetWithinAmount, PaidInv
  <1>5. CASE GoesOn(r)
    <2> USE DEF Statements, Answers
    <2>1. ASSUME NEW o \in written'[r], Pays(r)
          PROVE  net[o] + treated[o] + take'[r][o] <= Amount[o]
      <3>1. CASE \E p \in Obligations : Allocate(r, p)
        <4>1. PICK p \in Obligations : Allocate(r, p)
          BY <3>1
        <4>2. /\ Covered(r, p) /\ p \in Selected(r)
              /\ written'[r] = written[r] \cup {p} /\ take'[r] = take[r]
          BY <1>0, <1>5, <4>1 DEF GoesOn, Allocate, IsFirst, Abort, End, TypeOK
        <4>3. CASE o = p
          BY <1>0, <4>2, <4>3, MoneyTypes DEF Covered, Outstanding
        <4>4. CASE o \in written[r]
          BY <1>0, <2>1, <4>2, <4>4 DEF MoneyInv, RoomInv
        <4> QED
          BY <4>2, <4>3, <4>4
      <3>2. CASE ~\E p \in Obligations : Allocate(r, p)
        <4>1. written'[r] = written[r]
          BY <1>0, <1>5, <2>1, <3>2 DEF Pays, TypeOK, GoesOn, Statement, Send,
             FindReplay, LockGate, SelectOutstanding, LockNext, CompareOutstanding,
             Claim, Compensate, Treat, Replay, Abort, End
        <4>2. pc[r] = "write" => take'[r] = take[r]
          BY <1>0, <1>5 DEF TypeOK, GoesOn, Statement, Send,
             FindReplay, LockGate, SelectOutstanding, LockNext, CompareOutstanding,
             Claim, Allocate, Compensate, Treat, Replay, Abort, End
        <4> QED
          BY <1>0, <2>1, <4>1, <4>2 DEF LockInv, MoneyInv, RoomInv
      <3> QED
        BY <3>1, <3>2
    <2>2. RoomInv'
      BY <1>0, <1>1, <1>2, <2>1 DEF MoneyInv, RoomInv
    <2>3. ASSUME Kind(r) = "PAYMENT", pc'[r] \in {"lock", "claim", "write"},
                 NEW o \in Obligations, take'[r][o] > 0
          PROVE  /\ seen'[r][o] > 0 =>
                      \/ Amount[o] - net[o] - treated[o] <= seen'[r][o]
                         /\ \A p \in Requests : Active(p) => o \notin Selected(p)
                      \/ \E p \in Requests : /\ Active(p) /\ o \in Selected(p)
                                             /\ take[p][o] <= seen'[r][o]
                 /\ pc'[r] # "lock" => seen'[r][o] = take'[r][o]
      <3>1. CASE SelectOutstanding(r)
        <4>1. take'[r] = take[r] /\ pc'[r] = "lock" /\ seen'[r][o] = Outstanding(o)
          BY <1>0, <2>3, <3>1 DEF SelectOutstanding, TypeOK, Selected
        <4> QED
          BY <1>0, <4>1, MoneyTypes DEF Outstanding, MoneyInv, PaidInv
      <3>2. CASE CompareOutstanding(r)
        <4>1. /\ Agrees(r) /\ take'[r] = take[r] /\ seen'[r] = seen[r]
              /\ pc[r] = "lock"
          BY <1>0, <1>5, <3>2 DEF GoesOn, CompareOutstanding, Abort, End, TypeOK
        <4> QED
          BY <1>0, <2>3, <4>1, MoneyTypes DEF Agrees, MoneyInv, SeenInv
      <3>3. CASE ~SelectOutstanding(r) /\ ~CompareOutstanding(r)
        <4>1. /\ take'[r] = take[r] /\ seen'[r] = seen[r]
              /\ pc[r] \in {"lock", "claim", "write"}
              /\ pc[r] = "lock" <=> pc'[r] = "lock"
          BY <1>0, <1>5, <2>3, <3>3 DEF TypeOK, GoesOn, Statement, Send,
             FindReplay, LockGate, LockNext, LockInv, Gated,
             Claim, Allocate, Compensate, Treat, Replay, Abort, End
        <4> QED
          BY <1>0, <2>3, <4>1, MoneyTypes DEF MoneyInv, SeenInv
      <3> QED
        BY <3>1, <3>2, <3>3
    <2>4. SeenInv'
      <3>1. ASSUME NEW q \in Requests \ {r}, Kind(q) = "PAYMENT",
                   pc[q] \in {"lock", "claim", "write"}, NEW o \in Selected(q)
            PROVE  /\ seen[q][o] > 0 =>
                      \/ Amount[o] - net[o] - treated[o] <= seen[q][o]
                         /\ \A p \in Requests : Active(p) => o \notin Selected(p)
                      \/ \E p \in Requests : /\ Active(p) /\ o \in Selected(p)
                                             /\ take[p][o] <= seen[q][o]
                   /\ pc[q] # "lock" => seen[q][o] = take[q][o]
        BY <1>0, <3>1 DEF MoneyInv, SeenInv
      <3> QED
        BY <1>1, <1>2, <1>3, <2>3, <3>1 DEF SeenInv, Selected
    <2> QED
      BY <1>0, <1>1, <1>3, <2>2, <2>4 DEF MoneyInv, NetWithinAmount, PaidInv
  <1> QED
    BY <1>4, <1>5

(* A commit keeps them: nobody else has written on the obligations it      *)
(* changes, a payment clears them, and a reversal takes back the one       *)
(* payment that stands on them.                                            *)
LEMMA MoneyCommits ==
    ASSUME LedgerInv, NEW r \in Requests, Commit(r)
    PROVE  /\ MoneyInv'
           /\ Kind(r) = "PAYMENT" =>
                 \A o \in Selected(r) : net'[o] + treated'[o] = Amount[o]
           /\ \A o \in Obligations :
                 net'[o] > net[o] => net'[o] + treated'[o] <= Amount[o]
  <1>0. /\ TypeOK /\ KeyInv /\ LockInv /\ ReversalInv /\ MoneyInv
        /\ \A q \in Requests : Kind(q) \in Kinds /\ Key(q) \in Keys
        /\ \A q \in Requests : Kind(q) = "REVERSAL" => command[q].of \in Keys
    BY CommandType DEF LedgerInv, Commands, Kind, Key
  <1>1. /\ command' = command /\ take' = take /\ pc[r] = "write"
        /\ written[r] = Selected(r) /\ written'[r] = {} /\ pc'[r] = "committed"
        /\ \A q \in Requests \ {r} : /\ pc'[q] = pc[q] /\ seen'[q] = seen[q]
                                     /\ written'[q] = written[q]
    BY SettlementCommits DEF Committed
  <1>2. \A q \in Requests : Kind(q)' = Kind(q) /\ (Pays(q)' <=> Pays(q))
                            /\ Selected(q)' = Selected(q)
    BY <1>1 DEF Kind, Pays, Selected
  <1>3. ASSUME NEW o \in Obligations
        PROVE  /\ o \notin Selected(r) => net'[o] = net[o] /\ treated'[o] = treated[o]
               /\ o \in Selected(r) =>
                    /\ Pays(r) => net'[o] = net[o] + take[r][o] /\ treated'[o] = treated[o]
                    /\ Kind(r) = "REVERSAL" =>
                         net'[o] = net[o] - take[r][o] /\ treated'[o] = treated[o]
                    /\ Kind(r) = "CONDONATION" =>
                         net'[o] = net[o] /\ treated'[o] = treated[o] + take[r][o]
    BY <1>0, <1>1 DEF Commit, Pays
  <1>4. Pays(r) \/ Kind(r) = "REVERSAL" \/ Kind(r) = "CONDONATION"
    BY <1>0 DEF Pays, Kinds
  <1>5. ASSUME NEW q \in Requests \ {r}, NEW o \in written[q]
        PROVE  o \notin Selected(r)
    BY <1>0, <1>1 DEF LockInv
  \* What is written fits, so no payment stands where r pays.
  <1>6. ASSUME Pays(r), NEW o \in Selected(r)
        PROVE  /\ net[o] + treated[o] + take[r][o] <= Amount[o]
               /\ \A p \in Requests : Active(p) => o \notin Selected(p)
    <2>1. net[o] + treated[o] + take[r][o] <= Amount[o]
      BY <1>0, <1>1, <1>6 DEF MoneyInv, RoomInv
    <2>2. o \in Obligations /\ take[r][o] > 0
      BY DEF Selected
    <2> QED
      BY <1>0, <2>1, <2>2, MoneyTypes DEF MoneyInv, PaidInv
  \* The payment a reversal gives back stands until now.
  <1>7. ASSUME Kind(r) = "REVERSAL"
        PROVE  \E p \in Requests \ {r} : /\ Active(p) /\ take[p] = take[r]
                                         /\ Key(p) = command[r].of
                                         /\ Selected(p) = Selected(r)
    <2>1. /\ command[r].of \in Keys /\ Reversible(command[r].of)
          /\ take[r] = take[claim[command[r].of]]
          /\ ~Reversed(command[r].of)
      BY <1>0, <1>1, <1>7 DEF ReversalInv
    <2>2. claim[command[r].of] \in Requests /\ Committed(claim[command[r].of])
      BY <1>0, <2>1 DEF Reversible, Answered, TypeOK
    <2>3. Key(claim[command[r].of]) = command[r].of
      BY <1>0, <2>1 DEF KeyInv, Reversible, Answered
    <2> QED
      BY <1>1, <2>1, <2>2, <2>3 DEF Active, Reversible, Selected, Committed
  <1>8. /\ \A p \in Requests : Active(p)' => Active(p) \/ (p = r /\ Kind(r) = "PAYMENT")
        /\ \A p \in Requests : Active(p)' /\ Kind(r) = "REVERSAL" => Key(p) # command[r].of
        /\ \A p \in Requests : Active(p) /\ (Kind(r) = "REVERSAL" => Key(p) # command[r].of)
              => Active(p)'
    BY <1>1, SettlementCommits DEF Active, Kind, Key
  <1>9. NetWithinAmount'
    <2> SUFFICES ASSUME NEW o \in Obligations PROVE 0 <= net'[o] /\ net'[o] <= Amount[o]
      BY DEF NetWithinAmount
    <2>1. 0 <= net[o] /\ net[o] <= Amount[o]
      BY <1>0 DEF MoneyInv, NetWithinAmount
    <2>2. CASE Kind(r) = "REVERSAL" /\ o \in Selected(r)
      BY <1>0, <1>3, <1>7, <2>1, <2>2, MoneyTypes DEF MoneyInv, PaidInv
    <2>3. CASE Pays(r) /\ o \in Selected(r)
      BY <1>0, <1>3, <1>6, <2>1, <2>3, MoneyTypes
    <2>4. CASE Kind(r) = "CONDONATION" \/ o \notin Selected(r)
      BY <1>3, <2>1, <2>4
    <2> QED
      BY <1>4, <2>2, <2>3, <2>4
  <1>10. RoomInv'
    BY <1>0, <1>1, <1>2, <1>3, <1>5 DEF MoneyInv, RoomInv, LockInv, Selected
  <1>11. ASSUME Kind(r) = "PAYMENT", NEW o \in Selected(r)
         PROVE  net'[o] + treated'[o] = Amount[o]
    <2>1. o \in Obligations /\ Pays(r) /\ take[r][o] > 0
      BY <1>11 DEF Pays, Selected
    <2>2. seen[r][o] = take[r][o]
      BY <1>0, <1>1, <1>11 DEF MoneyInv, SeenInv
    <2>3. Amount[o] - net[o] - treated[o] <= take[r][o]
      BY <1>0, <1>1, <1>6, <1>11, <2>1, <2>2 DEF MoneyInv, SeenInv
    <2> QED
      BY <1>0, <1>3, <1>6, <2>1, <2>3, MoneyTypes
  <1>12. PaidInv'
    <2>1. ASSUME NEW p \in Requests, Active(p)', NEW o \in Selected(p)
          PROVE  take[p][o] <= net'[o] /\ Amount[o] <= net'[o] + treated'[o]
      <3>0. o \in Obligations /\ 0 <= net[o]
        BY <1>0 DEF Selected, MoneyInv, NetWithinAmount
      <3>1. CASE p = r /\ Kind(r) = "PAYMENT"
        BY <1>0, <1>3, <1>11, <2>1, <3>0, <3>1, MoneyTypes DEF Pays
      <3>2. CASE Active(p)
        <4>1. take[p][o] <= net[o] /\ Amount[o] <= net[o] + treated[o]
          BY <1>0, <2>1, <3>2 DEF MoneyInv, PaidInv
        <4>2. CASE o \notin Selected(r)
          BY <1>3, <3>0, <4>1, <4>2
        <4>3. CASE Kind(r) = "CONDONATION" /\ o \in Selected(r)
          BY <1>0, <1>3, <3>0, <4>1, <4>3, MoneyTypes
        <4>4. CASE Pays(r) /\ o \in Selected(r)
          BY <1>6, <2>1, <3>2, <4>4
        <4>5. CASE Kind(r) = "REVERSAL" /\ o \in Selected(r)
          BY <1>0, <1>7, <1>8, <2>1, <3>2, <4>5 DEF MoneyInv, PaidInv
        <4> QED
          BY <1>4, <4>2, <4>3, <4>4, <4>5
      <3> QED
        BY <1>8, <2>1, <3>1, <3>2
    <2>2. ASSUME NEW p \in Requests, NEW q \in Requests, Active(p)', Active(q)', p # q
          PROVE  Selected(p) \cap Selected(q) = {}
      <3>1. CASE Active(p) /\ Active(q)
        BY <1>0, <2>2, <3>1 DEF MoneyInv, PaidInv
      <3>2. CASE Kind(r) = "PAYMENT" /\ (p = r \/ q = r)
        BY <1>6, <1>8, <2>2, <3>2 DEF Pays
      <3> QED
        BY <1>8, <2>2, <3>1, <3>2
    <2> QED
      BY <1>1, <1>2, <2>1, <2>2 DEF PaidInv
  <1>13. SeenInv'
    <2> SUFFICES ASSUME NEW q \in Requests \ {r}, Kind(q) = "PAYMENT",
                        pc[q] \in {"lock", "claim", "write"}, NEW o \in Selected(q)
                 PROVE  /\ seen[q][o] > 0 =>
                             \/ Amount[o] - net'[o] - treated'[o] <= seen[q][o]
                                /\ \A p \in Requests : Active(p)' => o \notin Selected(p)
                             \/ \E p \in Requests : /\ Active(p)' /\ o \in Selected(p)
                                                    /\ take[p][o] <= seen[q][o]
                        /\ pc[q] # "lock" => seen[q][o] = take[q][o]
      BY <1>1, <1>2 DEF SeenInv
    <2>0. o \in Obligations
      BY DEF Selected
    <2>1. /\ seen[q][o] > 0 =>
                \/ Amount[o] - net[o] - treated[o] <= seen[q][o]
                   /\ \A p \in Requests : Active(p) => o \notin Selected(p)
                \/ \E p \in Requests : /\ Active(p) /\ o \in Selected(p)
                                       /\ take[p][o] <= seen[q][o]
          /\ pc[q] # "lock" => seen[q][o] = take[q][o]
      BY <1>0 DEF MoneyInv, SeenInv
    <2>2. CASE o \notin Selected(r)
      <3>1. net'[o] = net[o] /\ treated'[o] = treated[o]
        BY <1>3, <2>0, <2>2
      <3>2. \A p \in Requests : o \in Selected(p) => (Active(p)' <=> Active(p))
        BY <1>7, <1>8, <2>2, <1>0 DEF MoneyInv, PaidInv, Active, KeyInv, Committed
      <3> QED
        BY <2>1, <3>1, <3>2
    <2>3. CASE Kind(r) = "PAYMENT" /\ o \in Selected(r) /\ seen[q][o] > 0
      <3>1. Amount[o] - net[o] - treated[o] <= seen[q][o] /\ Pays(r)
        BY <1>6, <2>1, <2>3 DEF Pays
      <3>2. take[r][o] <= seen[q][o]
        BY <1>0, <1>6, <2>0, <2>3, <3>1, MoneyTypes
      <3>3. ~Reversed(Key(r))
        <4>1. claim[Key(r)] = r /\ ~Committed(r)
          BY <1>0, <1>1 DEF KeyInv, Committed
        <4>2. ASSUME NEW x \in Requests, Committed(x), Kind(x) = "REVERSAL",
                     command[x].of = Key(r)
              PROVE  Answered(Key(r))
          BY <1>0, <4>2 DEF ReversalInv, Reversible, Committed
        <4> QED
          BY <4>1, <4>2 DEF Reversed, Answered
      <3>4. Active(r)'
        BY <1>1, <1>2, <2>3, <3>3, SettlementCommits DEF Active, Committed, Key
      <3> QED
        BY <2>1, <2>3, <3>2, <3>4
    <2>4. CASE Pays(r) /\ Kind(r) # "PAYMENT" /\ o \in Selected(r)
      BY <1>0, <1>3, <1>6, <1>8, <2>0, <2>1, <2>4, MoneyTypes
    <2>5. CASE Kind(r) = "CONDONATION" /\ o \in Selected(r)
      BY <1>0, <1>3, <1>8, <2>0, <2>1, <2>5, MoneyTypes
    <2>6. CASE Kind(r) = "REVERSAL" /\ o \in Selected(r) /\ seen[q][o] > 0
      <3>1. PICK p \in Requests : /\ Active(p) /\ take[p] = take[r]
                                  /\ Key(p) = command[r].of /\ o \in Selected(p)
        BY <1>7, <2>6
      <3>2. /\ take[p][o] <= seen[q][o]
            /\ Amount[o] <= net[o] + treated[o]
            /\ \A x \in Requests : Active(x) /\ o \in Selected(x) => x = p
        BY <1>0, <2>1, <2>6, <3>1 DEF MoneyInv, PaidInv
      <3>3. Amount[o] - net'[o] - treated'[o] <= seen[q][o]
        BY <1>0, <1>3, <2>0, <2>6, <3>1, <3>2, MoneyTypes
      <3>4. \A x \in Requests : Active(x)' => o \notin Selected(x)
        BY <1>8, <2>6, <3>1, <3>2
      <3> QED
        BY <2>1, <3>3, <3>4
    <2> QED
      BY <1>4, <2>1, <2>2, <2>3, <2>4, <2>5, <2>6
  <1>14. ASSUME NEW o \in Obligations, net'[o] > net[o]
         PROVE  net'[o] + treated'[o] <= Amount[o]
    <2>1. o \in Selected(r) /\ Pays(r)
      BY <1>0, <1>3, <1>4, <1>14, MoneyTypes
    <2> QED
      BY <1>0, <1>3, <1>6, <2>1, MoneyTypes
  <1> QED
    BY <1>9, <1>10, <1>11, <1>12, <1>13, <1>14 DEF MoneyInv

-----------------------------------------------------------------------------
(* Theorems *)

LEMMA LedgerInvInit == Init => LedgerInv
  <1> SUFFICES ASSUME Init PROVE LedgerInv
    OBVIOUS
  <1>1. TypeOK
    BY DEF Init, TypeOK, Nothing, Cents, ById, Orders
  <1>2. NetWithinAmount
    BY AmountAssumption DEF Init, Nothing, NetWithinAmount
  <1>3. KeyInv /\ LockInv /\ ReversalInv /\ RoomInv /\ PaidInv /\ SeenInv
    BY DEF Init, KeyInv, LockInv, ReversalInv, RoomInv, PaidInv, SeenInv, Active, Committed
  <1> QED
    BY <1>1, <1>2, <1>3 DEF LedgerInv, MoneyInv

LEMMA LedgerInvStep == LedgerInv /\ [Next]_vars => LedgerInv'
  <1> SUFFICES ASSUME LedgerInv, [Next]_vars PROVE LedgerInv'
    OBVIOUS
  <1>1. TypeOK'
    BY TypeStep DEF LedgerInv
  <1>2. CASE Next
    <2>1. PICK r \in Requests : Commit(r) \/ GivesUp(r) \/ GoesOn(r)
      BY <1>2, StepKinds
    <2>2. KeyInv' /\ LockInv' /\ ReversalInv'
      BY <2>1, KeyStep, LockStep, ReversalStep
    <2>3. MoneyInv'
      BY <2>1, MoneyStands, MoneyCommits
    <2> QED
      BY <1>1, <2>2, <2>3 DEF LedgerInv
  <1>3. CASE UNCHANGED vars
    BY <1>3 DEF vars, LedgerInv, TypeOK, KeyInv, LockInv, ReversalInv, MoneyInv,
       NetWithinAmount, RoomInv, PaidInv, SeenInv, Active, Committed, Reversed, Reversible,
       Answered, Kind, Key, Sorted, Pays, Gated, Held, Selected
  <1> QED
    BY <1>2, <1>3

THEOREM LedgerInvariant == Spec => []LedgerInv
  BY LedgerInvInit, LedgerInvStep, PTL DEF Spec

(* The allocations of an obligation stay between zero and its amount: the  *)
(* check of insertAllocation under the row lock is enough, for any mix of  *)
(* requests, and a reversal never takes back more than stands.             *)
THEOREM NetStaysWithinAmount == Spec => []NetWithinAmount
  <1>1. LedgerInv => NetWithinAmount
    BY DEF LedgerInv, MoneyInv
  <1> QED
    BY <1>1, LedgerInvariant, PTL

(* A caller key, or an execution id, has at most one committed effect, and *)
(* a payment at most one reversal.                                         *)
THEOREM KeysAreUsedOnce == Spec => []OneEffectPerKey
  <1>1. LedgerInv => OneEffectPerKey
    BY DEF LedgerInv, KeyInv, ReversalInv, OneEffectPerKey, Committed
  <1> QED
    BY <1>1, LedgerInvariant, PTL

(* No commit allocates past what payments and condonations have left: a    *)
(* stale selection cannot over-cover an obligation.                        *)
THEOREM AllocationsFit == Spec => AllocationsNeverOvercover
  <1>1. ASSUME LedgerInv, [Next]_vars
        PROVE  [\A o \in Obligations :
                  net'[o] > net[o] => net'[o] + treated'[o] <= Amount[o]]_vars
    <2>1. CASE UNCHANGED vars
      BY <2>1
    <2>2. CASE Next
      <3>1. PICK r \in Requests : Commit(r) \/ GivesUp(r) \/ GoesOn(r)
        BY <1>1, <2>2, StepKinds
      <3>2. CASE Commit(r)
        BY <1>1, <3>2, MoneyCommits
      <3>3. CASE GivesUp(r) \/ GoesOn(r)
        BY <1>1, <3>3, SettlementsStand, MoneyTypes DEF LedgerInv
      <3> QED
        BY <3>1, <3>2, <3>3
    <2> QED
      BY <1>1, <2>1, <2>2
  <1> QED
    BY <1>1, LedgerInvariant, PTL DEF Spec, AllocationsNeverOvercover

(* A payment that commits leaves nothing open on what it selected, though  *)
(* it collects balances it read before it held the rows.                   *)
THEOREM PaymentsClear == Spec => FullPaymentClears
  <1>1. ASSUME LedgerInv, [Next]_vars
        PROVE  [\A r \in Requests :
                  Kind(r) = "PAYMENT" /\ ~Committed(r) /\ Committed(r)' =>
                     \A o \in Selected(r) : net'[o] + treated'[o] = Amount[o]]_vars
    <2>1. CASE UNCHANGED vars
      BY <2>1
    <2>2. CASE Next
      <3>1. PICK r \in Requests : Commit(r) \/ GivesUp(r) \/ GoesOn(r)
        BY <1>1, <2>2, StepKinds
      <3>2. CASE Commit(r)
        BY <1>1, <3>2, MoneyCommits, SettlementCommits
      <3>3. CASE GivesUp(r) \/ GoesOn(r)
        BY <1>1, <3>3, SettlementsStand
      <3> QED
        BY <3>1, <3>2, <3>3
    <2> QED
      BY <1>1, <2>1, <2>2
  <1> QED
    BY <1>1, LedgerInvariant, PTL DEF Spec, FullPaymentClears

-----------------------------------------------------------------------------
(* Deadlocks *)

(* Rows are locked for what a request selects and from the locking SELECT  *)
(* on, in the order of their ids while it runs; a gate is held by a        *)
(* request that is past it.                                                *)
WaitInv ==
    /\ \A r \in Requests : Sorted(r) => rank[r] = ById
    /\ \A k \in Keys, r \in Requests : gate[k] = r =>
          pc[r] \in {"select", "lock", "claim", "write"}
    /\ \A o \in Obligations, r \in Requests : lock[o] = r =>
          o \in Selected(r) /\ pc[r] \in {"lock", "claim", "write"}
    /\ \A r \in Requests : pc[r] = "lock" =>
          \A o \in Held(r), p \in Selected(r) \ Held(r) : o < p

LEMMA WaitStepEnds ==
    ASSUME LedgerInv, WaitInv, NEW r \in Requests, Commit(r) \/ GivesUp(r)
    PROVE  WaitInv'
  <1>0. TypeOK
    BY DEF LedgerInv
  <1>1. PICK answer \in Answers : End(r, answer)
    BY DEF Commit, GivesUp, Abort, Answers
  <1>2. /\ pc'[r] = answer
        /\ \A q \in Requests \ {r} : pc'[q] = pc[q]
        /\ command' = command /\ take' = take
        /\ \A o \in Obligations, q \in Requests \ {r} : lock[o] = q <=> lock'[o] = q
        /\ \A k \in Keys, q \in Requests \ {r} : gate[k] = q <=> gate'[k] = q
    BY <1>0, <1>1, EndFrame
  <1>3. /\ rank' = rank
        /\ \A o \in Obligations : lock'[o] # r
        /\ \A k \in Keys : gate'[k] # r
    BY <1>0, <1>1, NoneAssumption DEF End, Release, TypeOK
  <1>4. answer \notin {"select", "lock", "claim", "write"}
    BY DEF Answers
  <1> QED
    BY <1>2, <1>3, <1>4 DEF WaitInv, Sorted, Kind, Selected, Held

LEMMA WaitStepGoesOn ==
    ASSUME LedgerInv, WaitInv, NEW r \in Requests, GoesOn(r)
    PROVE  WaitInv'
  <1>0. /\ TypeOK /\ LockInv
        /\ command' = command
        /\ \A q \in Requests \ {r} : pc'[q] = pc[q] /\ take'[q] = take[q]
        /\ \A q \in Requests : Sorted(q)' <=> Sorted(q)
    BY DEF LedgerInv, GoesOn, Sorted, Kind
  <1>1. \A q \in Requests : Sorted(q) => rank'[q] = ById
    <2>1. CASE Send(r)
      BY <1>0, <2>1 DEF WaitInv, Send, Sorted, TypeOK
    <2>2. CASE ~Send(r)
      <3>1. rank' = rank
        BY <2>2 DEF GoesOn, Statement, FindReplay, LockGate, SelectOutstanding, LockNext,
           CompareOutstanding, Claim, Allocate, Compensate, Treat, Replay, Abort, End
      <3> QED
        BY <3>1 DEF WaitInv
    <2> QED
      BY <2>1, <2>2
  <1>2. \A k \in Keys, q \in Requests : gate'[k] = q =>
           pc'[q] \in {"select", "lock", "claim", "write"}
    <2>1. \/ LockGate(r) /\ pc'[r] \in {"select", "claim"}
                         /\ \A k \in Keys : gate'[k] \in {gate[k], r}
          \/ gate' = gate
      BY <1>0 DEF GoesOn, Statement, Send, FindReplay, LockGate, SelectOutstanding, LockNext,
         CompareOutstanding, Claim, Allocate, Compensate, Treat, Replay, Abort, End, TypeOK,
         Statements, Answers
    <2>2. pc[r] \in {"select", "lock", "claim", "write"} =>
             pc'[r] \in {"select", "lock", "claim", "write"}
      BY <1>0 DEF GoesOn, Statement, Send, FindReplay, LockGate, SelectOutstanding, LockNext,
         CompareOutstanding, Claim, Allocate, Compensate, Treat, Replay, Abort, End, TypeOK,
         Statements, Answers
    <2> QED
      BY <1>0, <2>1, <2>2 DEF WaitInv
  <1>3. CASE \E o \in Obligations : LockNext(r, o) \/ Allocate(r, o) \/ Compensate(r, o)
    <2>1. PICK o \in Obligations : LockNext(r, o) \/ Allocate(r, o) \/ Compensate(r, o)
      BY <1>3
    <2>2. /\ o \in Selected(r) /\ lock[o] \in {None, r}
          /\ lock' = [lock EXCEPT ![o] = r] /\ take' = take
          /\ pc' = pc /\ pc[r] \in {"lock", "write"}
      BY <1>0, <2>1 DEF GoesOn, LockNext, Allocate, Compensate, IsFirst, Abort, End, TypeOK,
         Statements, Answers
    <2>3. \A q \in Requests : Selected(q)' = Selected(q)
      BY <2>2 DEF Selected
    <2>4. \A q \in Requests \ {r} : Held(q)' = Held(q)
      BY <1>0, <2>2, NoneAssumption DEF Held, TypeOK
    <2>5. Held(r)' = Held(r) \cup {o}
      BY <1>0, <2>2 DEF Held, TypeOK
    <2>6. ASSUME pc[r] = "lock", NEW p \in Selected(r) \ (Held(r) \cup {o})
          PROVE  o < p
      <3>1. LockNext(r, o) /\ rank[r] = ById
        BY <1>0, <2>1, <2>6 DEF Allocate, Compensate, LockInv, WaitInv
      <3>2. p \in Obligations /\ o <= p /\ o # p
        BY <2>6, <3>1 DEF LockNext, IsFirst, ById, Selected
      <3> QED
        BY <3>2, ObligationsAssumption
    <2>7. \A q \in Requests : pc[q] = "lock" =>
             \A p \in Held(q)', t \in Selected(q) \ Held(q)' : p < t
      BY <2>4, <2>5, <2>6 DEF WaitInv
    <2>8. \A p \in Obligations, q \in Requests : lock'[p] = q =>
             p \in Selected(q) /\ pc[q] \in {"lock", "claim", "write"}
      BY <1>0, <2>2 DEF WaitInv, TypeOK
    <2> QED
      BY <1>0, <1>1, <1>2, <2>2, <2>3, <2>7, <2>8 DEF WaitInv
  <1>4. CASE ~ \E o \in Obligations : LockNext(r, o) \/ Allocate(r, o) \/ Compensate(r, o)
    <2>1. lock' = lock
      BY <1>0, <1>4 DEF GoesOn, Statement, Send, FindReplay, LockGate, SelectOutstanding,
         CompareOutstanding, Claim, Treat, Replay, Abort, End, Statements, Answers, TypeOK
    <2>2. \/ pc[r] \in {"idle", "find", "gate", "select"}
          \/ /\ pc[r] \in {"lock", "claim", "write"} /\ take'[r] = take[r]
             /\ pc'[r] \in {"claim", "write"}
      BY <1>0, <1>4 DEF GoesOn, Statement, Send, FindReplay, LockGate, SelectOutstanding,
         CompareOutstanding, Claim, Treat, Replay, Abort, End, Statements, Answers, TypeOK
    <2>3. pc[r] \in {"idle", "find", "gate", "select"} => Held(r) = {}
      BY DEF WaitInv, Held
    <2>4. \A q \in Requests : Held(q)' = Held(q)
      BY <2>1 DEF Held
    <2>5. \A q \in Requests \ {r} : Selected(q)' = Selected(q)
      BY <1>0 DEF Selected
    <2>6. take'[r] = take[r] => Selected(r)' = Selected(r)
      BY DEF Selected
    <2>7. \A o \in Obligations, q \in Requests : lock'[o] = q =>
             o \in Selected(q)' /\ pc'[q] \in {"lock", "claim", "write"}
      BY <1>0, <2>1, <2>2, <2>3, <2>5, <2>6 DEF WaitInv, Held
    <2>8. \A q \in Requests : pc'[q] = "lock" =>
             \A o \in Held(q)', p \in Selected(q)' \ Held(q)' : o < p
      BY <1>0, <2>2, <2>3, <2>4, <2>5 DEF WaitInv
    <2> QED
      BY <1>0, <1>1, <1>2, <2>7, <2>8 DEF WaitInv
  <1> QED
    BY <1>3, <1>4

LEMMA WaitInvariant == Spec => []WaitInv
  <1>1. Init => WaitInv
    BY NoneAssumption DEF Init, WaitInv, Held
  <1>2. LedgerInv /\ WaitInv /\ [Next]_vars => WaitInv'
    <2> SUFFICES ASSUME LedgerInv, WaitInv, [Next]_vars PROVE WaitInv'
      OBVIOUS
    <2>1. CASE Next
      BY <2>1, StepKinds, WaitStepEnds, WaitStepGoesOn
    <2>2. CASE UNCHANGED vars
      BY <2>2 DEF vars, WaitInv, Sorted, Kind, Selected, Held
    <2> QED
      BY <2>1, <2>2
  <1> QED
    BY <1>1, <1>2, LedgerInvariant, PTL DEF Spec

(* Obligations have ids, so among some of them one comes first. *)
LEMMA SmallestId ==
    ASSUME NEW T \in SUBSET Nat, T # {}
    PROVE  \E m \in T : \A n \in T : m <= n
  <1>1. PICK top \in T : TRUE
    OBVIOUS
  <1> DEFINE Below == {0 .. n : n \in {m \in T : m <= top}}
  <1>2. IsWellFoundedOn(StrictSubsetOrdering(0 .. top), SUBSET (0 .. top))
    <2>1. IsFiniteSet(0 .. top)
      BY FS_Interval
    <2> QED
      BY <2>1, FS_StrictSubsetOrderingWellFounded, FS_FiniteSubsetsOfFinite
  <1>3. Below \subseteq SUBSET (0 .. top) /\ Below # {}
    <2>1. \A n \in T : n <= top => (0 .. n) \subseteq (0 .. top)
      OBVIOUS
    <2>2. (0 .. top) \in Below
      OBVIOUS
    <2> QED
      BY <2>1, <2>2
  <1>4. PICK I \in Below : \A J \in Below : <<J, I>> \notin StrictSubsetOrdering(0 .. top)
    <2> HIDE DEF Below
    <2> QED
      BY <1>2, <1>3, WFMin
  <1>5. PICK m \in T : m <= top /\ I = 0 .. m
    OBVIOUS
  <1>6. ASSUME NEW n \in T, n < m PROVE FALSE
    <2>1. (0 .. n) \in Below /\ (0 .. n) \subseteq (0 .. m) /\ (0 .. n) # (0 .. m)
      <3>1. m \in 0 .. m /\ m \notin 0 .. n
        BY <1>6
      <3>2. n <= top /\ (0 .. n) \subseteq (0 .. m)
        BY <1>5, <1>6
      <3> QED
        BY <3>1, <3>2
    <2>2. I \in SUBSET (0 .. top) /\ (0 .. n) \in SUBSET (0 .. top)
      BY <1>3, <2>1
    <2> QED
      BY <1>4, <1>5, <2>1, <2>2 DEF StrictSubsetOrdering
  <1> QED
    BY <1>6

(* What a request that takes the obligations in order waits for.           *)
LEMMA WaitKinds ==
    ASSUME LedgerInv, WaitInv, NEW r \in Requests, Sorted(r), NEW q \in WaitsFor(r),
           q \in Requests
    PROVE  \/ pc[r] = "gate" /\ pc[q] \in {"select", "lock", "claim", "write"}
           \/ /\ pc[r] = "lock" /\ pc[q] \in {"lock", "claim", "write"}
              /\ \E o \in Selected(r) \ Held(r) :
                    lock[o] = q /\ \A p \in Selected(r) \ Held(r) : o <= p
           \/ pc[r] = "claim" /\ pc[q] = "write"
  <1>0. TypeOK /\ KeyInv /\ LockInv /\ Key(r) \in Keys
    BY CommandType DEF LedgerInv, Key, Commands
  <1>1. CASE pc[r] = "gate"
    <2>1. GateKey(r) = Key(r)
      BY DEF Sorted, GateKey
    <2> QED
      BY <1>0, <1>1, <2>1 DEF WaitsFor, WaitInv
  <1>2. CASE pc[r] = "lock"
    <2>1. PICK o \in Obligations : IsFirst(r, o, Selected(r) \ Held(r)) /\ lock[o] = q
      BY <1>2 DEF WaitsFor
    <2>2. rank[r] = ById
      BY DEF WaitInv
    <2>3. o \in Selected(r) \ Held(r) /\ \A p \in Selected(r) \ Held(r) : o <= p
      BY <2>1, <2>2 DEF IsFirst, ById, Selected
    <2> QED
      BY <1>2, <2>1, <2>3 DEF WaitInv
  <1>3. CASE pc[r] = "claim"
    BY <1>0, <1>3 DEF WaitsFor, KeyInv, Answered, Committed
  <1>4. CASE pc[r] = "write"
    <2>1. Selected(r) \subseteq Held(r)
      BY <1>0, <1>4 DEF LockInv
    <2>2. q \notin {lock[o] : o \in Selected(r)} \ {None, r}
      BY <2>1 DEF Held
    <2>3. q \in {lock[o] : o \in Selected(r)} \ {None, r}
      BY <1>4 DEF WaitsFor, IsFirst
    <2> QED
      BY <2>2, <2>3
  <1> QED
    BY <1>1, <1>2, <1>3, <1>4 DEF WaitsFor

(* Requests that take the obligations in the order of their ids never wait *)
(* for one another in a cycle, however many they are: the one that waits   *)
(* for the least id holds only smaller ones, which nobody in the cycle     *)
(* waits for.  The ORDER BY of selectFullOutstanding is what it takes.     *)
THEOREM SortedRequestsProceed == Spec => []SortedRequestsNeverDeadlock
  <1>1. ASSUME LedgerInv, WaitInv PROVE SortedRequestsNeverDeadlock
    <2> SUFFICES ASSUME NEW S \in SUBSET Requests, WaitCycle(S), \A r \in S : Sorted(r)
                 PROVE  FALSE
      BY <1>1, CommandType DEF SortedRequestsNeverDeadlock, Sorted, LedgerInv, Commands,
         Kinds, Kind
    <2>1. /\ S # {}
          /\ \A r \in S : WaitsFor(r) # {} /\ WaitsFor(r) \subseteq S
          /\ \A q \in S : \E r \in S : q \in WaitsFor(r)
      BY DEF WaitCycle
    <2> DEFINE Waits(r, q, o) == /\ o \in Selected(r) \ Held(r) /\ lock[o] = q
                                 /\ \A p \in Selected(r) \ Held(r) : o <= p
    <2> DEFINE Meet(r, q) == \/ pc[r] = "gate" /\ pc[q] \in {"select", "lock", "claim", "write"}
                             \/ /\ pc[r] = "lock" /\ pc[q] \in {"lock", "claim", "write"}
                                /\ \E o \in Obligations : Waits(r, q, o)
                             \/ pc[r] = "claim" /\ pc[q] = "write"
    <2>2. ASSUME NEW r \in S, NEW q \in WaitsFor(r) PROVE q \in S /\ Meet(r, q)
      BY <1>1, <2>1, <2>2, WaitKinds DEF Selected
    \* Nobody in the cycle can be waited for before it holds something, nor
    \* wait once it writes: they all wait for rows.
    <2>3. \A r \in S : pc[r] = "lock"
      <3>1. \A r \in S : \E q \in S : Meet(r, q)
        <4> HIDE DEF Meet
        <4> QED
          BY <2>1, <2>2
      <3>2. \A q \in S : \E r \in S : Meet(r, q)
        <4> HIDE DEF Meet
        <4> QED
          BY <2>1, <2>2
      <3> HIDE DEF Waits
      <3>3. \A r \in S : pc[r] \in {"gate", "lock", "claim"}
        BY <3>1
      <3>4. \A q \in S : pc[q] # "gate"
        BY <3>2
      <3>5. \A r \in S : pc[r] # "claim"
        BY <3>1, <3>3
      <3> QED
        BY <3>3, <3>4, <3>5
    <2>4. \A q \in S : \E r \in S : \E o \in Obligations : Waits(r, q, o)
      <3>1. \A q \in S : \E r \in S : Meet(r, q)
        <4> HIDE DEF Meet
        <4> QED
          BY <2>1, <2>2
      <3> HIDE DEF Waits
      <3> QED
        BY <2>3, <3>1
    <2> DEFINE Awaited == {o \in Obligations : \E r \in S, q \in S : Waits(r, q, o)}
    <2>5. Awaited # {} /\ Awaited \subseteq Nat
      <3> HIDE DEF Waits
      <3> QED
        BY <2>1, <2>4, ObligationsAssumption
    <2>6. PICK o \in Awaited : \A p \in Awaited : o <= p
      <3> HIDE DEF Awaited
      <3> QED
        BY <2>5, SmallestId
    <2>7. PICK r \in S : o \in Selected(r) \ Held(r)
      BY <2>6
    <2>8. PICK w \in S, p \in Obligations : Waits(w, r, p)
      <3> HIDE DEF Waits
      <3> QED
        BY <2>4
    <2>9. p \in Awaited /\ p \in Held(r)
      BY <2>8 DEF Held
    <2>10. p < o
      BY <1>1, <2>3, <2>7, <2>9 DEF WaitInv
    <2> QED
      BY <2>5, <2>6, <2>9, <2>10
  <1> QED
    BY <1>1, LedgerInvariant, WaitInvariant, PTL

-----------------------------------------------------------------------------
(* The account that the ledger implements *)

(* The entries of the account, as the refinement mapping reads them off.   *)
EntryOf(r) == [kind |-> Kind(r), cents |-> take[r], of |-> command[r].of]
Entry == [k \in Keys |-> IF ~Answered(k) THEN None ELSE EntryOf(claim[k])]

(* A request asks for no more of an obligation than some obligation has:   *)
(* what it was sent with, or what the payment it reverses was sent with.   *)
TakeInv == \A r \in Requests : take[r] \in Account!Cents

LEMMA TakeInvariant == Spec => []TakeInv
  <1> DEFINE cents == UNION {0 .. Amount[o] : o \in Obligations}
  <1>0. Account!Cents = [Obligations -> cents]
    BY DEF Account!Cents
  <1>1. Nothing \in Account!Cents
    BY <1>0, AmountAssumption DEF Nothing
  <1>2. Init => TakeInv
    BY <1>1 DEF Init, TakeInv
  <1>3. ASSUME LedgerInv, TakeInv, NEW r \in Requests, GivesUp(r) \/ GoesOn(r)
        PROVE  TakeInv'
    <2>0. TypeOK
      BY <1>3 DEF LedgerInv
    <2>1. \A q \in Requests : q # r \/ GivesUp(r) => take'[q] = take[q]
      BY <1>3, SettlementsStand
    <2>2. take'[r] \in Account!Cents
      <3>1. CASE Send(r)
        <4>1. PICK f \in {take[q] : q \in Earlier(r)} \cup Fresh(r) :
                 take'[r] = IF Kind(r) = "REVERSAL" THEN Nothing ELSE f
          BY <2>0, <3>1 DEF Send, TypeOK
        <4>2. f \in Account!Cents
          <5>1. CASE f \in {take[q] : q \in Earlier(r)}
            BY <1>3, <5>1 DEF Earlier, TakeInv
          <5>2. CASE f \in Fresh(r)
            BY <1>0, <1>1, <5>2 DEF Fresh
          <5> QED
            BY <4>1, <5>1, <5>2
        <4> QED
          BY <1>1, <4>1, <4>2
      <3>2. CASE LockGate(r) /\ GoesOn(r)
        <4>1. \/ take'[r] = take[r]
              \/ Reversible(GateKey(r)) /\ take'[r] = take[claim[GateKey(r)]] /\ ~Approved(r)
          BY <2>0, <3>2 DEF LockGate, Replay, Abort, End, TypeOK
        <4>2. ~Approved(r) => GateKey(r) \in Keys
          BY <2>0, CommandType DEF GateKey, Key, Kind, Commands
        <4>3. ~Approved(r) /\ Reversible(GateKey(r)) => claim[GateKey(r)] \in Requests
          BY <2>0, <4>2 DEF Reversible, Answered, TypeOK
        <4> QED
          BY <1>3, <4>1, <4>3 DEF TakeInv
      <3>3. CASE GoesOn(r) /\ ~Send(r) /\ ~LockGate(r)
        <4>1. take' = take
          BY <3>3 DEF GoesOn, Statement, FindReplay, SelectOutstanding, LockNext,
             CompareOutstanding, Claim, Allocate, Compensate, Treat, Replay, Abort, End
        <4> QED
          BY <1>3, <4>1 DEF TakeInv
      <3> QED
        BY <1>3, <2>1, <3>1, <3>2, <3>3 DEF TakeInv
    <2> QED
      BY <1>3, <2>1, <2>2 DEF TakeInv, Account!Cents
  <1>4. LedgerInv /\ TakeInv /\ [Next]_vars => TakeInv'
    <2> SUFFICES ASSUME LedgerInv, TakeInv, [Next]_vars PROVE TakeInv'
      OBVIOUS
    <2>1. CASE UNCHANGED vars
      BY <2>1 DEF vars, TakeInv, Account!Cents
    <2>2. CASE Next
      <3>1. PICK r \in Requests : Commit(r) \/ GivesUp(r) \/ GoesOn(r)
        BY <2>2, StepKinds
      <3>2. CASE Commit(r)
        BY <3>2, SettlementCommits DEF TakeInv, Account!Cents
      <3> QED
        BY <1>3, <3>1, <3>2
    <2> QED
      BY <2>1, <2>2
  <1> QED
    BY <1>2, <1>4, LedgerInvariant, PTL DEF Spec

LEMMA EntriesStand ==
    ASSUME LedgerInv, LedgerInv', NEW r \in Requests, GivesUp(r) \/ GoesOn(r)
    PROVE  Entry' = Entry
  <1>0. TypeOK
    BY DEF LedgerInv
  <1> SUFFICES ASSUME NEW k \in Keys
               PROVE  /\ Answered(k)' <=> Answered(k)
                      /\ Answered(k) => EntryOf(claim[k])' = EntryOf(claim[k])
    BY DEF Entry
  <1>1. CASE Answered(k)
    <2>1. claim[k] \in Requests \ {r} /\ claim'[k] = claim[k]
      BY <1>0, <1>1, SettlementsStand DEF Answered, TypeOK
    <2> QED
      BY <1>1, <2>1, SettlementsStand DEF Answered, EntryOf, Kind, Committed
  <1>2. ASSUME Answered(k)' PROVE Answered(k)
    <2>1. claim'[k] \in Requests \ {r}
      BY <1>0, <1>2, SettlementsStand DEF Answered, TypeOK, Committed, LedgerInv
    <2>2. Committed(claim'[k])
      BY <1>2, <2>1, SettlementsStand DEF Answered, Committed
    <2>3. Key(claim'[k]) = k
      BY <1>2, SettlementsStand DEF LedgerInv, KeyInv, Answered, Key
    <2> QED
      BY <2>1, <2>2, <2>3, NoneAssumption DEF LedgerInv, KeyInv, Answered, Committed
  <1> QED
    BY <1>1, <1>2

LEMMA EntryCommits ==
    ASSUME LedgerInv, NEW r \in Requests, Commit(r)
    PROVE  /\ Entry[Key(r)] = None
           /\ Entry' = [Entry EXCEPT ![Key(r)] = EntryOf(r)]
  <1>0. /\ TypeOK /\ KeyInv /\ Key(r) \in Keys
        /\ pc[r] = "write" /\ claim[Key(r)] = r
    BY CommandType, SettlementCommits DEF LedgerInv, Key, Commands, KeyInv
  <1>1. ~Answered(Key(r))
    BY <1>0 DEF Answered, Committed
  <1>2. \A k \in Keys : claim[k] = r => k = Key(r)
    BY <1>0, NoneAssumption DEF KeyInv
  <1>3. \A k \in Keys : Answered(k)' <=> Answered(k) \/ k = Key(r)
    BY <1>0, <1>2, SettlementCommits, NoneAssumption DEF Answered, TypeOK
  <1>4. \A q \in Requests : EntryOf(q)' = EntryOf(q)
    BY SettlementCommits DEF EntryOf, Kind
  <1>5. \A k \in Keys : Answered(k) \/ k = Key(r) =>
           claim[k] \in Requests /\ EntryOf(claim[k])' = EntryOf(claim[k])
    <2>1. \A k \in Keys : Answered(k) \/ k = Key(r) =>
             claim'[k] = claim[k] /\ claim[k] \in Requests
      BY <1>0, SettlementCommits DEF Answered, TypeOK
    <2> QED
      BY <2>1, SettlementCommits DEF EntryOf, Kind
  <1>6. \A k \in Keys : Entry'[k] = IF k = Key(r) THEN EntryOf(r) ELSE Entry[k]
    BY <1>0, <1>3, <1>5 DEF Entry
  <1> QED
    BY <1>0, <1>1, <1>6 DEF Entry

(* A commit makes one entry, and every other step none: the ledger, with   *)
(* its locks, its stale reads and its retries, is an account on which each *)
(* request is a single step.                                               *)
THEOREM LedgerIsAnAccount == Spec => ImplementsAccount
  <1>1. Init => Account!Init
    BY NoneAssumption DEF Init, Account!Init, Nothing, Answered
  <1>2. ASSUME LedgerInv, LedgerInv', TakeInv, NEW r \in Requests, Commit(r)
        PROVE  Account!Next
    <2>0. /\ TypeOK /\ KeyInv /\ LockInv /\ ReversalInv /\ MoneyInv
          /\ Kind(r) \in Kinds /\ Key(r) \in Keys
          /\ Kind(r) = "REVERSAL" => command[r].of \in Keys
          /\ Kind(r) # "REVERSAL" => command[r].of = None
      BY <1>2, CommandType DEF LedgerInv, Commands, Kind, Key
    <2>1. /\ Entry[Key(r)] = None
          /\ Entry' = [Entry EXCEPT ![Key(r)] = EntryOf(r)]
      BY <1>2, EntryCommits
    <2>2. /\ pc[r] = "write" /\ written[r] = Selected(r) /\ take[r] \in Account!Cents
      BY <1>2, SettlementCommits DEF TakeInv
    <2>3. \A o \in Obligations : take[r][o] \in Nat /\ net[o] \in Int /\ treated[o] \in Nat
      BY <2>0, MoneyTypes
    <2>4. \A o \in Obligations : o \notin Selected(r) => take[r][o] = 0
      BY <2>3 DEF Selected
    <2>5. Pays(r) => /\ net' = [o \in Obligations |-> net[o] + take[r][o]]
                     /\ treated' = treated
      BY <1>2, <2>0, <2>2, <2>3, <2>4 DEF Commit, Pays, TypeOK, Cents
    <2>6. Pays(r) => \A o \in Obligations : take[r][o] > 0 =>
                        take[r][o] <= Amount[o] - net[o] - treated[o]
      <3> SUFFICES ASSUME Pays(r), NEW o \in Obligations, take[r][o] > 0
                   PROVE  take[r][o] <= Amount[o] - net[o] - treated[o]
        OBVIOUS
      <3>1. net[o] + treated[o] + take[r][o] <= Amount[o]
        BY <2>0, <2>2 DEF MoneyInv, RoomInv, Selected
      <3> QED
        BY <2>3, <3>1, AmountAssumption
    <2>7. PICK k \in Keys, f \in Account!Cents : k = Key(r) /\ f = take[r]
      BY <2>0, <2>2
    <2>8. CASE Kind(r) = "PAYMENT"
      <3>1. Pays(r)
        BY <2>8 DEF Pays
      <3>2. ASSUME NEW o \in Obligations, take[r][o] > 0
            PROVE  take[r][o] = Amount[o] - net[o] - treated[o]
        <4>1. net'[o] + treated'[o] = Amount[o]
          BY <1>2, <2>8, <3>2, MoneyCommits DEF Selected
        <4> QED
          BY <2>3, <2>5, <3>1, <4>1
      <3>3. Account!Enter(k, "PAYMENT", f, None)
        BY <2>0, <2>1, <2>7, <2>8 DEF Account!Enter, Entry, EntryOf
      <3>4. Account!Pay(k, f)
        BY <2>5, <2>7, <3>1, <3>2, <3>3 DEF Account!Pay, Account!Open, Account!Credit
      <3> QED
        BY <3>4 DEF Account!Next
    <2>9. CASE Kind(r) \in {"NON_CASH", "COMMUNITY"}
      <3>1. Pays(r)
        BY <2>9 DEF Pays
      <3>2. Account!Enter(k, Kind(r), f, None)
        BY <2>0, <2>1, <2>7, <2>9 DEF Account!Enter, Entry, EntryOf
      <3>3. Account!Settle(k, Kind(r), f)
        BY <2>5, <2>6, <2>7, <3>1, <3>2 DEF Account!Settle, Account!Open, Account!Credit
      <3> QED
        BY <2>9, <3>3 DEF Account!Next
    <2>10. CASE Kind(r) = "CONDONATION"
      <3>1. /\ net' = net
            /\ treated' = [o \in Obligations |-> treated[o] + take[r][o]]
        BY <1>2, <2>0, <2>2, <2>3, <2>4, <2>10 DEF Commit, TypeOK, Cents
      <3>2. Account!Enter(k, "CONDONATION", f, None)
        BY <2>0, <2>1, <2>7, <2>10 DEF Account!Enter, Entry, EntryOf
      <3>3. Account!Condone(k, f)
        BY <2>7, <3>1, <3>2 DEF Account!Condone
      <3> QED
        BY <3>3 DEF Account!Next
    <2>11. CASE Kind(r) = "REVERSAL"
      <3>0. PICK p \in Keys : p = command[r].of
        BY <2>0, <2>11
      <3>1. /\ Answered(p) /\ claim[p] \in Requests
            /\ Kind(claim[p]) = "PAYMENT" /\ take[r] = take[claim[p]] /\ ~Reversed(p)
        BY <2>0, <2>2, <2>11, <3>0 DEF ReversalInv, Reversible, Answered, TypeOK
      <3>2. Entry[p] = EntryOf(claim[p])
        BY <3>1 DEF Entry
      <3>3. EntryOf(claim[p]) \in Recorded
        <4>1. /\ take[claim[p]] \in [Obligations -> Nat] /\ Kind(claim[p]) \in Kinds
              /\ command[claim[p]].of \in Keys \cup {None}
          BY <2>0, <3>1, CommandType DEF Commands, Kind, TypeOK, Cents
        <4> QED
          BY <4>1 DEF EntryOf, Recorded
      <3>4. /\ Entry[p] # None /\ Entry[p].kind = "PAYMENT" /\ Entry[p].cents = take[r]
        BY <3>1, <3>2, <3>3, NoneAssumption DEF EntryOf
      <3>5. ASSUME NEW q \in Keys, Entry[q] # None PROVE Entry[q].of # p
        <4>1. Answered(q) /\ Entry[q].of = command[claim[q]].of
          BY <3>5 DEF Entry, EntryOf
        <4>2. claim[q] \in Requests /\ Committed(claim[q])
          BY <2>0, <4>1 DEF Answered, TypeOK
        <4>3. command[claim[q]].of = p => Kind(claim[q]) = "REVERSAL"
          BY <2>0, <3>1, <4>2, CommandType DEF Commands, Kind
        <4> QED
          BY <3>1, <4>1, <4>2, <4>3 DEF Reversed
      <3>6. /\ net' = [o \in Obligations |-> net[o] - take[r][o]]
            /\ treated' = treated
        BY <1>2, <2>0, <2>2, <2>3, <2>4, <2>11 DEF Commit, TypeOK, Cents
      <3>7. Account!Enter(k, "REVERSAL", f, p)
        BY <2>0, <2>1, <2>7, <2>11, <3>0 DEF Account!Enter, Entry, EntryOf
      <3>8. Account!Reverse(k, p)
        BY <2>7, <3>1, <3>4, <3>5, <3>6, <3>7 DEF Account!Reverse, Entry, EntryOf
      <3> QED
        BY <3>8 DEF Account!Next
    <2> QED
      BY <2>0, <2>8, <2>9, <2>10, <2>11 DEF Kinds
  <1>3. LedgerInv /\ LedgerInv' /\ TakeInv /\ [Next]_vars =>
           [Account!Next]_<<net, treated, Entry>>
    <2> SUFFICES ASSUME LedgerInv, LedgerInv', TakeInv, [Next]_vars
                 PROVE  Account!Next \/ UNCHANGED <<net, treated, Entry>>
      OBVIOUS
    <2>1. CASE UNCHANGED vars
      BY <2>1 DEF vars, Entry, EntryOf, Answered, Committed, Kind
    <2>2. CASE Next
      <3>1. PICK r \in Requests : Commit(r) \/ GivesUp(r) \/ GoesOn(r)
        BY <2>2, StepKinds
      <3> QED
        BY <1>2, <3>1, EntriesStand, SettlementsStand
    <2> QED
      BY <2>1, <2>2
  <1>4. Account!Spec <=> Account!Init /\ [][Account!Next]_<<net, treated, Entry>>
    BY DEF Account!Spec, Entry, EntryOf
  <1> QED
    BY <1>1, <1>3, <1>4, LedgerInvariant, TakeInvariant, PTL DEF Spec, ImplementsAccount

=============================================================================
