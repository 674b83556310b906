----------------------------- MODULE CashDeskProofs ----------------------------
(***************************************************************************)
(* What the cash desk guarantees for any operators, keys, requests and     *)
(* calls: the tables, the closes that count every movement, the reversals, *)
(* and that nothing reaches a closed shift.                                *)
(***************************************************************************)
EXTENDS CashDesk, SumTheorems

Shifts == [ShiftKeys -> [status : {"none", "OPEN", "CLOSED"}, opening : Nat,
                         auto : BOOLEAN, expired : BOOLEAN]]
CloseRows == [ShiftKeys -> [at : Nat, by : Operators \cup {None}, expected : Nat,
                            counted : Nat, transfer : Nat]]
MoveRow == [shift : ShiftKeys \cup {None}, kind : Kinds \cup {"none", "undo"},
            cash : {-1, 0, 1}, of : MoveKeys \cup {None}, at : Nat]
MoveRows == [MoveKeys -> MoveRow]

TypeInv ==
    /\ shift \in Shifts
    /\ close \in CloseRows
    /\ closed \in Nat
    /\ move \in MoveRows
    /\ proof \subseteq Recorded
    /\ comp \subseteq MoveKeys \X Recorded
    /\ shiftLock \in [ShiftKeys -> Requests \cup {None}]
    /\ moveLock \in [MoveKeys -> Requests \cup {None}]
    /\ ask \in [Requests -> Calls \cup {NoAsk}]
    /\ pc \in [Requests -> Stages \cup {"idle"}]
    /\ seen \in [Requests -> Nat]
    /\ IsFiniteSet(Recorded)

OneOpen ==
    \A s, t \in ShiftKeys :
        Owner(s) = Owner(t) /\ IsOpen(s) /\ IsOpen(t) => s = t

(* What a request has: its stages are those of its operation, the movement *)
(* it is about is recorded, in the shift it names, the shift it writes in  *)
(* is locked and, for a close, summed.                                     *)
OpsAt(stage) ==
    CASE stage = "find" -> {"ensure", "record", "reverse", "close", "compensate"}
      [] stage = "anchor" -> {"ensure"}
      [] stage \in {"prior", "insert"} -> {"ensure", "open"}
      [] stage = "shift" -> {"record", "reverse", "close", "undo", "support"}
      [] stage = "move" -> {"reverse", "undo", "support"}
      [] stage = "write" -> {"record", "reverse", "close", "undo", "support", "compensate"}
Holds(r) == \/ pc[r] = "write" /\ Op(r) # "compensate"
            \/ pc[r] = "move" /\ Op(r) = "reverse"
AskInv(r) ==
    pc[r] # "idle" =>
        /\ ask[r] \in Calls /\ Op(r) \in OpsAt(pc[r])
        /\ Op(r) = "reverse" => Of(r) \in Recorded /\ move[Of(r)].shift = ask[r].shift
        /\ Op(r) \in {"undo", "support"} => Of(r) \in Recorded
        /\ Op(r) = "undo" => move[Of(r)].kind = "settlement"
HoldInv(r) ==
    Holds(r) => /\ shiftLock[Target(r)] = r
                /\ shift[Target(r)].status # "none"
                /\ Op(r) = "support" => IsOpen(Target(r))
                /\ Op(r) = "close" => seen[r] = Computed(Target(r))
RequestInv == \A r \in Requests : AskInv(r) /\ HoldInv(r)

(* A movement reverses another of its shift, which is not a reversal: the  *)
(* tender of a settlement by an undo, a manual one by one of its kind.     *)
ReversalInv ==
    \A n \in MoveKeys :
        /\ move[n].kind \in {"settlement", "gasto"} => move[n].of = None
        /\ move[n].of # None => move[n].of \in Recorded
        /\ n \in Recorded /\ move[n].of # None =>
              /\ move[move[n].of].of = None
              /\ move[n].shift = move[move[n].of].shift
              /\ move[n].cash = -move[move[n].of].cash
              /\ move[n].kind \in {"undo", move[move[n].of].kind}
              /\ \A k \in Recorded : move[k].of = move[n].of => k = n

Inv == TypeInv /\ OneOpen /\ RequestInv /\ ReversalInv /\ ClosesAreComplete

-----------------------------------------------------------------------------
(* Calls and rows *)

LEMMA CallTypes ==
    ASSUME NEW c \in Calls
    PROVE  /\ c.op \in {"ensure", "open", "record", "reverse", "undo", "support", "compensate", "close"}
           /\ c.by \in Operators
           /\ c.op \notin {"undo", "support", "compensate"} => c.shift \in ShiftKeys
           /\ c.op \in {"record", "reverse", "undo", "support", "compensate"} => c.move \in MoveKeys
           /\ c.op \in {"reverse", "undo", "support", "compensate"} => c.of \in MoveKeys
           /\ c.op = "record" => c.kind \in Kinds
           /\ c.op = "close" => c.counted \in Nat /\ c.float \in Nat
           /\ c.op = "open" => c.cents \in Nat
  <1>1. c \in Asks
    BY CallsAssumption
  <1>2. 0..MaxCents \subseteq Nat
    BY DEF MaxCents
  <1>3. CASE c \in [op : {"ensure"}, by : Operators, shift : ShiftKeys]
    BY <1>3
  <1>4. CASE c \in [op : {"open"}, by : Operators, shift : ShiftKeys, cents : 0..MaxCents]
    BY <1>2, <1>4
  <1>5. CASE c \in [op : {"record"}, by : Operators, shift : ShiftKeys, move : MoveKeys, kind : Kinds]
    BY <1>5
  <1>6. CASE c \in [op : {"reverse"}, by : Operators, shift : ShiftKeys, move : MoveKeys, of : MoveKeys]
    BY <1>6
  <1>7. CASE c \in [op : {"undo", "support", "compensate"}, by : Operators, move : MoveKeys, of : MoveKeys]
    BY <1>7
  <1>8. CASE c \in [op : {"close"}, by : Operators, shift : ShiftKeys,
                    force : BOOLEAN, counted : 0..MaxCents, float : 0..MaxCents]
    BY <1>2, <1>8
  <1> QED
    BY <1>1, <1>3, <1>4, <1>5, <1>6, <1>7, <1>8 DEF Asks

(* The shift a request is about is a shift: it is named, or the one of a   *)
(* recorded movement.                                                      *)
LEMMA TargetType ==
    ASSUME TypeInv, NEW r \in Requests, AskInv(r), pc[r] # "idle", Op(r) # "compensate"
    PROVE  Target(r) \in ShiftKeys
  <1>1. CASE Op(r) \in {"undo", "support"}
    <2>1. Of(r) \in Recorded
      BY <1>1 DEF AskInv
    <2>2. move[Of(r)].shift \in ShiftKeys \cup {None} /\ move[Of(r)].shift # None
      BY <2>1 DEF TypeInv, MoveRows, MoveRow, Recorded
    <2> QED
      BY <1>1, <2>2 DEF Target
  <1>2. CASE Op(r) \notin {"undo", "support"}
    <2>1. ask[r] \in Calls
      BY DEF AskInv
    <2> QED
      BY <1>2, <2>1, CallTypes DEF Target, Op
  <1> QED
    BY <1>1, <1>2

LEMMA ComputedType ==
    ASSUME TypeInv, NEW s \in ShiftKeys
    PROVE  Computed(s) \in Int
  <1>1. IsFiniteSet(MovesOf(s)) /\ MovesOf(s) \subseteq MoveKeys
    BY FS_Subset DEF TypeInv, MovesOf, Recorded
  <1>2. \A m \in MoveKeys : move[m].cash \in Int
    BY DEF TypeInv, MoveRows, MoveRow
  <1>3. [m \in MovesOf(s) |-> move[m].cash] \in [MovesOf(s) -> Int]
    BY <1>1, <1>2
  <1>4. SumFunction([m \in MovesOf(s) |-> move[m].cash]) \in Int
    BY <1>1, <1>3, SumIsInt
  <1>5. shift[s].opening \in Nat
    BY DEF TypeInv, Shifts
  <1> QED
    BY <1>4, <1>5 DEF Computed

LEMMA AnchorType ==
    ASSUME TypeInv, NEW o
    PROVE  Anchor(o) \in Nat
  <1>1. \A s \in ShiftKeys : Remainder(s) \in Nat
    BY DEF TypeInv, CloseRows, Remainder, Floored
  <1>2. LastClose(o) # {} => (CHOOSE s \in LastClose(o) : TRUE) \in ShiftKeys
    BY DEF LastClose
  <1> QED
    BY <1>1, <1>2 DEF Anchor

-----------------------------------------------------------------------------
(* What a step of a request leaves to the others *)

RequestTypes ==
    /\ shiftLock \in [ShiftKeys -> Requests \cup {None}]
    /\ moveLock \in [MoveKeys -> Requests \cup {None}]
    /\ ask \in [Requests -> Calls \cup {NoAsk}]
    /\ pc \in [Requests -> Stages \cup {"idle"}]
    /\ seen \in [Requests -> Nat]

(* Nothing of another request, nor a lock it holds, is touched. *)
Alone(r) ==
    \A q \in Requests : q # r =>
        /\ ask'[q] = ask[q] /\ pc'[q] = pc[q] /\ seen'[q] = seen[q]
        /\ \A s \in ShiftKeys : shiftLock[s] = q => shiftLock'[s] = q

(* Recorded movements stay, and so does a shift that others have locked.   *)
Spares(r) ==
    /\ \A m \in Recorded : move'[m] = move[m]
    /\ \A s \in ShiftKeys : shift[s].status # "none" /\ shiftLock[s] # r =>
          /\ shift'[s].status = shift[s].status /\ shift'[s].opening = shift[s].opening
          /\ MovesOf(s)' = MovesOf(s)

LEMMA EndStep ==
    ASSUME TypeInv, NEW r \in Requests, End(r)
    PROVE  RequestTypes' /\ Alone(r) /\ pc'[r] = "idle"
  <1>1. \A X, lock : lock \in [X -> Requests \cup {None}] =>
                        /\ Released(lock, r) \in [X -> Requests \cup {None}]
                        /\ \A x \in X : lock[x] # r => Released(lock, r)[x] = lock[x]
    BY DEF Released
  <1>2. "idle" \in Stages \cup {"idle"} /\ 0 \in Nat
    OBVIOUS
  <1> QED
    BY <1>1, <1>2 DEF End, RequestTypes, Alone, TypeInv

LEMMA GoStep ==
    ASSUME TypeInv, NEW r \in Requests, NEW stage \in Stages, NEW n \in Nat, Go(r, stage, n),
           \/ UNCHANGED locks
           \/ /\ \E s \in ShiftKeys : /\ shiftLock[s] \in {None, r}
                                      /\ shiftLock' = [shiftLock EXCEPT ![s] = r]
              /\ UNCHANGED moveLock
           \/ /\ \E m \in MoveKeys : moveLock' = [moveLock EXCEPT ![m] = r]
              /\ UNCHANGED shiftLock
    PROVE  /\ RequestTypes' /\ Alone(r) /\ Spares(r) /\ UNCHANGED tables
           /\ pc'[r] = stage /\ seen'[r] = n /\ ask'[r] = ask[r]
           /\ \A s \in ShiftKeys : shiftLock[s] = r => shiftLock'[s] = r
  <1>1. /\ ask' = ask /\ UNCHANGED tables
        /\ pc'[r] = stage /\ seen'[r] = n
        /\ pc' \in [Requests -> Stages \cup {"idle"}] /\ seen' \in [Requests -> Nat]
        /\ \A q \in Requests : q # r => pc'[q] = pc[q] /\ seen'[q] = seen[q]
    BY DEF Go, TypeInv
  <1>2. /\ shiftLock' \in [ShiftKeys -> Requests \cup {None}]
        /\ moveLock' \in [MoveKeys -> Requests \cup {None}]
        /\ \A s \in ShiftKeys : shiftLock[s] \in Requests => shiftLock'[s] = shiftLock[s]
    BY NoneAssumption DEF TypeInv, locks
  <1>3. Alone(r)
    BY <1>1, <1>2 DEF Alone
  <1>4. Spares(r)
    BY <1>1 DEF Spares, tables, MovesOf, Recorded
  <1> QED
    BY <1>1, <1>2, <1>3, <1>4 DEF RequestTypes, TypeInv

(* The sum of a shift changes only with its opening and its movements. *)
LEMMA ComputedStands ==
    ASSUME NEW s, MovesOf(s)' = MovesOf(s), shift'[s].opening = shift[s].opening,
           \A m \in Recorded : move'[m] = move[m]
    PROVE  Computed(s)' = Computed(s)
  <1>1. [m \in MovesOf(s) |-> move[m].cash]' = [m \in MovesOf(s) |-> move[m].cash]
    BY DEF MovesOf
  <1> QED
    BY <1>1 DEF Computed

LEMMA OthersStand ==
    ASSUME TypeInv, RequestInv, NEW r \in Requests, Alone(r), Spares(r), Recorded \subseteq Recorded',
           NEW q \in Requests, q # r
    PROVE  AskInv(q)' /\ HoldInv(q)'
  <1>1. AskInv(q) /\ HoldInv(q)
    BY DEF RequestInv
  <1>2. ask'[q] = ask[q] /\ pc'[q] = pc[q] /\ seen'[q] = seen[q]
    BY DEF Alone
  <1>3. AskInv(q)'
    BY <1>1, <1>2 DEF AskInv, Op, Of, Spares
  <1>4. ASSUME Holds(q)'
        PROVE  /\ shiftLock'[Target(q)'] = q
               /\ shift'[Target(q)'].status # "none"
               /\ Op(q)' = "support" => IsOpen(Target(q))'
               /\ Op(q)' = "close" => seen'[q] = Computed(Target(q))'
    <2>1. Holds(q) /\ pc[q] # "idle" /\ Op(q) # "compensate" /\ Op(q)' = Op(q)
      BY <1>2, <1>4 DEF Holds, Op
    <2>2. PICK s \in ShiftKeys : s = Target(q)
      BY <1>1, <2>1, TargetType
    <2>3. Target(q)' = s
      BY <1>1, <1>2, <2>1, <2>2 DEF Target, AskInv, Op, Of, Spares
    <2>4. shiftLock[s] = q /\ shift[s].status # "none"
      BY <1>1, <2>1, <2>2 DEF HoldInv
    <2>5. /\ shift'[s].status = shift[s].status /\ Computed(s)' = Computed(s)
          /\ shiftLock'[s] = q
      BY <2>4, ComputedStands DEF Spares, Alone
    <2> QED
      BY <1>1, <1>2, <2>1, <2>2, <2>3, <2>4, <2>5 DEF HoldInv, IsOpen
  <1> QED
    BY <1>3, <1>4 DEF HoldInv

(* A step that leaves the tables alone and its request idle, or where its  *)
(* operation goes.                                                         *)
LEMMA QuietStep ==
    ASSUME Inv, NEW r \in Requests, UNCHANGED tables, RequestTypes', Alone(r),
           AskInv(r)', HoldInv(r)'
    PROVE  Inv'
  <1>1. TypeInv'
    BY DEF Inv, TypeInv, RequestTypes, tables, Recorded
  <1>2. Spares(r) /\ Recorded' = Recorded
    BY DEF Spares, tables, MovesOf, Recorded
  <1>3. RequestInv'
    BY <1>2, OthersStand DEF Inv, RequestInv
  <1>4. OneOpen' /\ ReversalInv'
    BY DEF Inv, OneOpen, ReversalInv, tables, IsOpen, Recorded
  <1>5. ClosesAreComplete'
    <2>1. \A s : Computed(s)' = Computed(s)
      BY DEF Computed, tables, MovesOf, Recorded
    <2> QED
      BY <2>1 DEF Inv, ClosesAreComplete, tables
  <1> QED
    BY <1>1, <1>3, <1>4, <1>5 DEF Inv

LEMMA IdleStep ==
    ASSUME NEW r \in Requests, pc'[r] = "idle"
    PROVE  AskInv(r)' /\ HoldInv(r)'
  BY DEF AskInv, HoldInv, Holds

LEMMA RefuseStep ==
    ASSUME Inv, NEW r \in Requests, Refuse(r)
    PROVE  Inv'
  BY EndStep, IdleStep, QuietStep DEF Refuse, Inv

-----------------------------------------------------------------------------
(* The stages that read and lock *)

LEMMA SendStep ==
    ASSUME Inv, NEW r \in Requests, Send(r)
    PROVE  Inv'
  <1>1. PICK c \in Calls : /\ Valid(c)
                           /\ ask' = [ask EXCEPT ![r] = c]
                           /\ pc' = [pc EXCEPT ![r] = First(c.op)]
    BY DEF Send
  <1>2. UNCHANGED <<tables, locks, seen>>
    BY DEF Send
  <1>3. /\ First(c.op) \in {"find", "prior", "move"} /\ c.op \in OpsAt(First(c.op))
        /\ First(c.op) = "move" => c.op # "reverse"
    BY CallTypes DEF First, OpsAt
  <1>4. /\ ask'[r] = c /\ pc'[r] = First(c.op)
        /\ ask' \in [Requests -> Calls \cup {NoAsk}]
        /\ pc' \in [Requests -> Stages \cup {"idle"}]
    BY <1>1, <1>3 DEF Inv, TypeInv, Stages
  <1>5. RequestTypes' /\ Alone(r)
    BY <1>1, <1>2, <1>4 DEF Inv, TypeInv, RequestTypes, Alone, locks
  <1>6. /\ c.op = "reverse" => c.of \in Recorded /\ move[c.of].shift = c.shift
        /\ c.op \in {"undo", "support"} => c.of \in Recorded
        /\ c.op = "undo" => move[c.of].kind = "settlement"
    BY <1>1 DEF Valid, MovesOf, IsFirstTender, Settled
  <1>7. AskInv(r)'
    BY <1>2, <1>3, <1>4, <1>6 DEF AskInv, Op, Of, tables, Recorded
  <1>8. ~Holds(r)'
    BY <1>3, <1>4 DEF Holds, Op
  <1> QED
    BY <1>2, <1>5, <1>7, <1>8, QuietStep DEF HoldInv

(* A request that goes on to a stage of its operation, holding what the    *)
(* stage asks for.                                                         *)
LEMMA GoesOn ==
    ASSUME Inv, NEW r \in Requests, pc[r] # "idle", NEW stage \in Stages, NEW n \in Nat,
           Go(r, stage, n), Op(r) \in OpsAt(stage),
           \/ UNCHANGED locks
           \/ /\ \E s \in ShiftKeys : /\ shiftLock[s] \in {None, r}
                                      /\ shiftLock' = [shiftLock EXCEPT ![s] = r]
              /\ UNCHANGED moveLock
           \/ /\ \E m \in MoveKeys : moveLock' = [moveLock EXCEPT ![m] = r]
              /\ UNCHANGED shiftLock,
           Holds(r)' => /\ Holds(r) \/ shiftLock'[Target(r)] = r
                        /\ Holds(r) \/ shift[Target(r)].status # "none"
                        /\ Op(r) = "support" => IsOpen(Target(r))
                        /\ Op(r) = "close" => n = Computed(Target(r))
    PROVE  Inv'
  <1>1. /\ RequestTypes' /\ Alone(r) /\ UNCHANGED tables
        /\ pc'[r] = stage /\ seen'[r] = n /\ ask'[r] = ask[r]
        /\ \A s \in ShiftKeys : shiftLock[s] = r => shiftLock'[s] = r
    BY GoStep DEF Inv
  <1>2. AskInv(r) /\ HoldInv(r) /\ TypeInv
    BY DEF Inv, RequestInv
  <1>3. Op(r)' = Op(r) /\ Of(r)' = Of(r) /\ Target(r)' = Target(r)
    BY <1>1 DEF Op, Of, Target, tables
  <1>4. AskInv(r)'
    BY <1>1, <1>2, <1>3 DEF AskInv, tables, Recorded
  <1>5. Computed(Target(r))' = Computed(Target(r))
    BY <1>1, <1>3 DEF Computed, MovesOf, Recorded, tables
  <1>6. Holds(r)' => Target(r) \in ShiftKeys
    BY <1>2, <1>3, TargetType DEF Holds, OpsAt
  <1>7. HoldInv(r)'
    BY <1>1, <1>2, <1>3, <1>5, <1>6 DEF HoldInv, IsOpen, tables
  <1> QED
    BY <1>1, <1>4, <1>7, QuietStep

LEMMA FindStep ==
    ASSUME Inv, NEW r \in Requests,
           FindShift(r) \/ ReadAnchor(r) \/ CheckPrior(r) \/ FindReplay(r)
    PROVE  Inv'
  <1>0. AskInv(r) /\ ask[r] \in Calls \cup {NoAsk} /\ seen[r] \in Nat /\ TypeInv
    BY DEF Inv, RequestInv, TypeInv
  <1>1. CASE FindShift(r)
    <2>1. CASE Refuse(r)
      BY <2>1, RefuseStep
    <2>2. CASE Go(r, "anchor", 0) /\ UNCHANGED locks
      <3>1. pc'[r] = "anchor"
        BY <1>0, <2>2 DEF Go, TypeInv
      <3> QED
        BY <1>1, <2>2, <3>1, GoesOn DEF FindShift, OpsAt, Stages, Holds
    <2> QED
      BY <1>1, <2>1, <2>2 DEF FindShift
  <1>2. CASE ReadAnchor(r)
    <2>1. Anchor(By(r)) \in Nat
      BY <1>0, AnchorType
    <2>2. Op(r) = "ensure"
      BY <1>0, <1>2 DEF ReadAnchor, AskInv, OpsAt
    <2>3. pc'[r] = "prior"
      BY <1>0, <1>2 DEF ReadAnchor, Go, TypeInv
    <2> QED
      BY <1>2, <2>1, <2>2, <2>3, GoesOn DEF ReadAnchor, OpsAt, Stages, Holds
  <1>3. CASE CheckPrior(r)
    <2>1. Op(r) \in {"ensure", "open"}
      BY <1>0, <1>3 DEF CheckPrior, AskInv, OpsAt
    <2>2. (IF Op(r) = "open" THEN ask[r].cents ELSE seen[r]) \in Nat
      BY <1>0, <1>3, CallTypes DEF CheckPrior, AskInv, Op
    <2>3. CASE Refuse(r)
      BY <2>3, RefuseStep
    <2>4. CASE Go(r, "insert", IF Op(r) = "open" THEN ask[r].cents ELSE seen[r]) /\ UNCHANGED locks
      <3>1. pc'[r] = "insert"
        BY <1>0, <2>4 DEF Go, TypeInv
      <3> QED
        BY <1>3, <2>1, <2>2, <2>4, <3>1, GoesOn DEF CheckPrior, OpsAt, Stages, Holds
    <2> QED
      BY <1>3, <2>3, <2>4 DEF CheckPrior
  <1>4. CASE FindReplay(r)
    <2>1. Op(r) \in {"record", "reverse", "close", "compensate"}
      BY <1>0, <1>4 DEF FindReplay, AskInv, OpsAt
    <2>2. CASE Refuse(r)
      BY <2>2, RefuseStep
    <2>3. CASE Go(r, AfterFind(Op(r)), 0) /\ UNCHANGED locks
      <3>1. pc'[r] = AfterFind(Op(r)) /\ Op(r)' = Op(r)
        BY <1>0, <2>3 DEF Go, TypeInv, Op
      <3>2. ~Holds(r)'
        BY <2>1, <3>1 DEF Holds, AfterFind
      <3>3. AfterFind(Op(r)) \in Stages /\ Op(r) \in OpsAt(AfterFind(Op(r)))
        BY <2>1 DEF AfterFind, OpsAt, Stages
      <3> QED
        BY <1>4, <2>3, <3>2, <3>3, GoesOn DEF FindReplay
    <2> QED
      BY <1>4, <2>2, <2>3 DEF FindReplay
  <1> QED
    BY <1>1, <1>2, <1>3, <1>4

LEMMA LockShiftStep ==
    ASSUME Inv, NEW r \in Requests, LockShift(r)
    PROVE  Inv'
  <1>0. /\ AskInv(r) /\ TypeInv /\ pc[r] = "shift"
        /\ Op(r) \in {"record", "reverse", "close", "undo", "support"}
    BY DEF Inv, RequestInv, LockShift, AskInv, OpsAt
  <1>1. Target(r) \in ShiftKeys
    BY <1>0, TargetType
  <1>2. CASE Refuse(r)
    BY <1>2, RefuseStep
  <1>3. CASE ~Refuse(r)
    <2> DEFINE n == IF Op(r) = "close" THEN Computed(Target(r)) ELSE 0
    <2>1. /\ shiftLock[Target(r)] \in {None, r} /\ Admits(r, Target(r))
          /\ Go(r, AfterShift(Op(r)), n)
          /\ shiftLock' = [shiftLock EXCEPT ![Target(r)] = r]
          /\ UNCHANGED moveLock
      BY <1>3 DEF LockShift, Grantable
    <2>2. /\ shift[Target(r)].status # "none"
          /\ Op(r) = "support" => IsOpen(Target(r))
          /\ Op(r) = "close" => Computed(Target(r)) >= 0
      BY <2>1 DEF Admits, Allowed, Covered
    <2>3. n \in Nat
      BY <1>0, <1>1, <2>2, ComputedType
    <2>4. AfterShift(Op(r)) \in Stages /\ Op(r) \in OpsAt(AfterShift(Op(r)))
      BY <1>0 DEF AfterShift, OpsAt, Stages
    <2>5. shiftLock'[Target(r)] = r
      BY <1>0, <1>1, <2>1 DEF TypeInv
    <2>6. \E s \in ShiftKeys : /\ shiftLock[s] \in {None, r}
                               /\ shiftLock' = [shiftLock EXCEPT ![s] = r]
      BY <1>1, <2>1
    <2> HIDE DEF n
    <2>7. Op(r) = "close" => n = Computed(Target(r))
      BY DEF n
    <2> QED
      BY <1>0, <2>1, <2>2, <2>3, <2>4, <2>5, <2>6, <2>7, GoesOn
  <1> QED
    BY <1>2, <1>3

LEMMA LockMoveStep ==
    ASSUME Inv, NEW r \in Requests, LockMove(r)
    PROVE  Inv'
  <1>0. /\ AskInv(r) /\ TypeInv /\ pc[r] = "move" /\ HoldInv(r)
        /\ Op(r) \in {"reverse", "undo", "support"} /\ ask[r] \in Calls
    BY DEF Inv, RequestInv, LockMove, AskInv, OpsAt
  <1>1. Of(r) \in MoveKeys
    BY <1>0, CallTypes DEF Of, Op
  <1>2. /\ Go(r, AfterMove(Op(r)), 0)
        /\ \E m \in MoveKeys : moveLock' = [moveLock EXCEPT ![m] = r]
        /\ UNCHANGED shiftLock
    BY <1>1 DEF LockMove
  <1>3. AfterMove(Op(r)) \in Stages /\ Op(r) \in OpsAt(AfterMove(Op(r)))
    BY <1>0 DEF AfterMove, OpsAt, Stages
  <1>4. pc'[r] = AfterMove(Op(r)) /\ Op(r)' = Op(r)
    BY <1>0, <1>2 DEF Go, TypeInv, Op
  <1>5. Holds(r)' => Holds(r) /\ Op(r) = "reverse"
    BY <1>0, <1>4 DEF Holds, AfterMove
  <1> QED
    BY <1>0, <1>2, <1>3, <1>5, GoesOn

-----------------------------------------------------------------------------
(* Writes *)

TableTypes ==
    /\ shift \in Shifts
    /\ close \in CloseRows
    /\ closed \in Nat
    /\ move \in MoveRows
    /\ proof \subseteq Recorded
    /\ comp \subseteq MoveKeys \X Recorded
    /\ IsFiniteSet(Recorded)

(* A request that writes and ends keeps the invariant when the tables do,  *)
(* and when it spares what others have read under their locks.             *)
LEMMA WriteStep ==
    ASSUME Inv, NEW r \in Requests, End(r), Spares(r), Recorded \subseteq Recorded',
           TableTypes', OneOpen', ReversalInv', ClosesAreComplete'
    PROVE  Inv'
  <1>1. RequestTypes' /\ Alone(r) /\ pc'[r] = "idle"
    BY EndStep DEF Inv
  <1>2. TypeInv'
    BY <1>1 DEF TypeInv, TableTypes, RequestTypes
  <1>3. \A q \in Requests : AskInv(q)' /\ HoldInv(q)'
    <2> TAKE q \in Requests
    <2>1. CASE q = r
      BY <1>1, <2>1, IdleStep
    <2>2. CASE q # r
      BY <1>1, <2>2, OthersStand DEF Inv
    <2> QED
      BY <2>1, <2>2
  <1> QED
    BY <1>2, <1>3 DEF Inv, RequestInv

LEMMA InsertShiftStep ==
    ASSUME Inv, NEW r \in Requests, InsertShift(r)
    PROVE  Inv'
  <1>0. /\ AskInv(r) /\ TypeInv /\ pc[r] = "insert" /\ Op(r) \in {"ensure", "open"}
    BY DEF Inv, RequestInv, InsertShift, AskInv, OpsAt
  <1>1. CASE Refuse(r)
    BY <1>1, RefuseStep
  <1>2. CASE ~Refuse(r)
    <2>1. PICK s \in ShiftKeys : s = Target(r)
      BY <1>0, TargetType
    <2>2. /\ Opens(s) /\ End(r) /\ UNCHANGED <<close, closed, move, proof, comp>>
          /\ shift' = [shift EXCEPT ![s] = [status |-> "OPEN", opening |-> seen[r],
                                           auto |-> Op(r) = "ensure", expired |-> FALSE]]
      BY <1>2, <2>1 DEF InsertShift
    <2>3. /\ shift \in Shifts /\ seen[r] \in Nat
      BY <1>0 DEF TypeInv
    <2>4. /\ shift'[s].status = "OPEN" /\ \A t \in ShiftKeys : t # s => shift'[t] = shift[t]
          /\ shift' \in Shifts
      BY <2>2, <2>3 DEF Shifts
    <2>5. Recorded' = Recorded /\ \A t : MovesOf(t)' = MovesOf(t)
      BY <2>2 DEF Recorded, MovesOf
    <2>6. TableTypes'
      BY <1>0, <2>2, <2>4, <2>5 DEF TypeInv, TableTypes
    <2>7. Spares(r)
      BY <2>2, <2>4, <2>5 DEF Spares, Opens
    <2>8. OneOpen'
      <3> SUFFICES ASSUME NEW t \in ShiftKeys, NEW u \in ShiftKeys,
                          Owner(t) = Owner(u), IsOpen(t)', IsOpen(u)'
                   PROVE  t = u
        BY DEF OneOpen, Owner
      <3>1. \A v \in ShiftKeys : Owner(v) = Owner(s) => ~IsOpen(v)
        BY <2>2 DEF Opens, OpenShifts, IsOpen
      <3> QED
        BY <2>4, <3>1 DEF Inv, OneOpen, IsOpen
    <2>9. ReversalInv'
      BY <2>2, <2>5 DEF Inv, ReversalInv
    <2>10. ClosesAreComplete'
      <3> SUFFICES ASSUME NEW t \in ShiftKeys, shift'[t].status = "CLOSED"
                   PROVE  close'[t].expected = Computed(t)'
        BY DEF ClosesAreComplete
      <3>1. t # s /\ shift'[t] = shift[t]
        BY <2>4
      <3>2. Computed(t)' = Computed(t)
        BY <2>2, <2>5, <3>1, ComputedStands
      <3> QED
        BY <2>2, <3>1, <3>2 DEF Inv, ClosesAreComplete
    <2> QED
      BY <2>2, <2>5, <2>6, <2>7, <2>8, <2>9, <2>10, WriteStep
  <1> QED
    BY <1>1, <1>2

LEMMA ExpireStep ==
    ASSUME Inv, NEW s \in ShiftKeys, Expire(s)
    PROVE  Inv'
  <1>1. /\ shift' \in Shifts
        /\ \A t \in ShiftKeys : /\ shift'[t].status = shift[t].status
                                 /\ shift'[t].opening = shift[t].opening
    BY DEF Expire, Inv, TypeInv, Shifts
  <1>2. UNCHANGED <<close, closed, move, proof, comp, locks, ask, pc, seen>>
    BY DEF Expire
  <1>3. Recorded' = Recorded /\ \A t : MovesOf(t)' = MovesOf(t)
    BY <1>2 DEF Recorded, MovesOf
  <1>4. \A t \in ShiftKeys : Computed(t)' = Computed(t)
    BY <1>1, <1>2, <1>3, ComputedStands
  <1>5. TypeInv'
    BY <1>1, <1>2, <1>3 DEF Inv, TypeInv, locks
  <1>6. OneOpen' /\ ReversalInv'
    BY <1>1, <1>2, <1>3 DEF Inv, OneOpen, ReversalInv, IsOpen
  <1>7. RequestInv'
    <2> SUFFICES ASSUME NEW r \in Requests
                 PROVE  AskInv(r)' /\ HoldInv(r)'
      BY DEF RequestInv
    <2>1. AskInv(r) /\ HoldInv(r)
      BY DEF Inv, RequestInv
    <2>2. AskInv(r)'
      BY <1>2, <1>3, <2>1 DEF AskInv, Op, Of
    <2>3. Target(r)' = Target(r) /\ Op(r)' = Op(r) /\ Holds(r)' = Holds(r)
      BY <1>2 DEF Target, Op, Of, Holds
    <2>4. Holds(r) => Target(r) \in ShiftKeys
      BY <2>1, TargetType DEF Inv, Holds
    <2>5. HoldInv(r)'
      BY <1>1, <1>2, <1>4, <2>1, <2>3, <2>4 DEF HoldInv, IsOpen, locks
    <2> QED
      BY <2>2, <2>5
  <1>8. ClosesAreComplete'
    BY <1>1, <1>2, <1>4 DEF Inv, ClosesAreComplete
  <1> QED
    BY <1>5, <1>6, <1>7, <1>8 DEF Inv

(* A movement inserted in the open shift its request has locked, either    *)
(* no reversal or one of a movement of that shift that has none.           *)
LEMMA InsertStep ==
    ASSUME Inv, NEW r \in Requests, pc[r] = "write", Op(r) \in {"record", "reverse", "undo"},
           NEW kind \in Kinds \cup {"undo"}, NEW cash \in {-1, 0, 1}, NEW of \in MoveKeys \cup {None},
           Insert(r, kind, cash, of),
           of # None => /\ of \in Recorded /\ move[of].of = None
                        /\ move[of].shift = Target(r) /\ cash = -move[of].cash
                        /\ kind \in {"undo", move[of].kind} /\ kind \notin {"settlement", "gasto"}
                        /\ \A k \in Recorded : move[k].of # of
    PROVE  Inv'
  <1>0. AskInv(r) /\ HoldInv(r) /\ TypeInv /\ Holds(r)
    BY DEF Inv, RequestInv, Holds
  <1>1. CASE Refuse(r)
    BY <1>1, RefuseStep
  <1>2. CASE ~Refuse(r)
    <2>1. PICK s \in ShiftKeys : s = Target(r)
      BY <1>0, TargetType
    <2>2. PICK d \in MoveKeys : d = ask[r].move
      BY <1>0, CallTypes DEF AskInv, Op
    <2>3. PICK n \in Nat : n = Cardinality(Recorded) + 1
      BY <1>0, FS_CardinalityType DEF TypeInv
    <2>4. /\ Accepts(s) /\ d \notin Recorded /\ End(r)
          /\ UNCHANGED <<shift, close, closed, proof, comp>>
          /\ move' = [move EXCEPT ![d] = [shift |-> s, kind |-> kind, cash |-> cash,
                                          of |-> of, at |-> n]]
      BY <1>2, <2>1, <2>2, <2>3 DEF Insert
    <2>5. [shift |-> s, kind |-> kind, cash |-> cash, of |-> of, at |-> n] \in MoveRow
      BY DEF MoveRow
    <2>6. move \in MoveRows
      BY <1>0 DEF TypeInv
    <2>7. /\ move' \in MoveRows
          /\ \A m \in MoveKeys : m # d => move'[m] = move[m]
          /\ move'[d].shift = s /\ move'[d].kind = kind /\ move'[d].cash = cash /\ move'[d].of = of
      BY <2>4, <2>5, <2>6 DEF MoveRows
    <2>8. Recorded' = Recorded \cup {d}
      BY <2>7, NoneAssumption DEF Recorded
    <2>9. IsFiniteSet(Recorded')
      BY <1>0, <2>8, FS_AddElement DEF TypeInv
    <2>10. /\ \A m \in Recorded : m # d /\ m \in MoveKeys /\ move'[m] = move[m]
           /\ \A t \in ShiftKeys : t # s => MovesOf(t)' = MovesOf(t)
      BY <2>4, <2>7, <2>8 DEF Recorded, MovesOf
    <2>11. TableTypes'
      BY <1>0, <2>4, <2>7, <2>8, <2>9 DEF TypeInv, TableTypes
    <2>12. shiftLock[s] = r /\ shift[s].status = "OPEN"
      BY <1>0, <2>1, <2>4 DEF HoldInv, Accepts, IsOpen
    <2>13. Spares(r)
      BY <2>4, <2>10, <2>12 DEF Spares
    <2>14. OneOpen'
      BY <2>4 DEF Inv, OneOpen, IsOpen
    <2>15. ClosesAreComplete'
      <3> SUFFICES ASSUME NEW t \in ShiftKeys, shift'[t].status = "CLOSED"
                   PROVE  close'[t].expected = Computed(t)'
        BY DEF ClosesAreComplete
      <3>1. t # s
        BY <2>4, <2>12
      <3>2. Computed(t)' = Computed(t)
        BY <2>4, <2>10, <3>1, ComputedStands
      <3> QED
        BY <2>4, <3>1, <3>2 DEF Inv, ClosesAreComplete
    <2>16. ReversalInv'
      <3>1. ReversalInv
        BY DEF Inv
      <3>2. \A m \in MoveKeys :
               /\ move'[m].kind \in {"settlement", "gasto"} => move'[m].of = None
               /\ move'[m].of # None => move'[m].of \in Recorded
        BY <2>7, <3>1 DEF ReversalInv
      <3>3. ASSUME NEW m \in Recorded, move[m].of # None
            PROVE  /\ move'[move[m].of].of = None
                   /\ move'[m].shift = move'[move[m].of].shift
                   /\ move'[m].cash = -move'[move[m].of].cash
                   /\ move'[m].kind \in {"undo", move'[move[m].of].kind}
                   /\ \A k \in Recorded' : move'[k].of = move[m].of => k = m
        <4>1. m \in MoveKeys /\ move[m].of \in Recorded
          BY <2>10, <3>1, <3>3 DEF ReversalInv
        <4>2. \A k \in Recorded : move[k].of = move[m].of => k = m
          BY <3>1, <3>3, <4>1 DEF ReversalInv
        <4>3. of # move[m].of
          BY <3>3
        <4>4. \A k \in Recorded' : move'[k].of = move[m].of => k = m
          BY <2>7, <2>8, <2>10, <4>2, <4>3
        <4>5. move'[move[m].of] = move[move[m].of] /\ move'[m] = move[m]
          BY <2>10, <4>1
        <4> QED
          BY <3>1, <3>3, <4>1, <4>4, <4>5 DEF ReversalInv
      <3>4. ASSUME of # None
            PROVE  /\ move'[of].of = None /\ move'[d].shift = move'[of].shift
                   /\ move'[d].cash = -move'[of].cash
                   /\ move'[d].kind \in {"undo", move'[of].kind}
                   /\ \A k \in Recorded' : move'[k].of = of => k = d
        BY <2>1, <2>7, <2>8, <2>10, <3>4
      <3>5. \A m \in Recorded : m \in MoveKeys /\ move'[m].of = move[m].of
        BY <2>10
      <3> SUFFICES ASSUME NEW m \in MoveKeys, m \in Recorded', move'[m].of # None
                   PROVE  /\ move'[move'[m].of].of = None
                          /\ move'[m].shift = move'[move'[m].of].shift
                          /\ move'[m].cash = -move'[move'[m].of].cash
                          /\ move'[m].kind \in {"undo", move'[move'[m].of].kind}
                          /\ \A k \in Recorded' : move'[k].of = move'[m].of => k = m
        BY <2>8, <3>2 DEF ReversalInv
      <3>6. CASE m = d
        BY <2>7, <3>4, <3>6
      <3>7. CASE m # d
        BY <2>8, <3>3, <3>5, <3>7
      <3> QED
        BY <3>6, <3>7
    <2> QED
      BY <2>4, <2>8, <2>11, <2>13, <2>14, <2>15, <2>16, WriteStep
  <1> QED
    BY <1>1, <1>2

LEMMA RecordStep ==
    ASSUME Inv, NEW r \in Requests, Record(r) \/ Include(r)
    PROVE  Inv'
  <1>0. AskInv(r) /\ pc[r] = "write" /\ Op(r) = "record"
    BY DEF Inv, RequestInv, Record, Include
  <1>1. PICK kind \in Kinds : kind = ask[r].kind
    BY <1>0, CallTypes DEF AskInv, Op
  <1>2. Cash(kind) \in {-1, 0, 1}
    BY DEF Cash, Kinds, Manual
  <1>3. Refuse(r) \/ Insert(r, kind, Cash(kind), None)
    BY <1>1 DEF Record, Include
  <1> QED
    BY <1>0, <1>2, <1>3, InsertStep, RefuseStep

LEMMA ReverseStep ==
    ASSUME Inv, NEW r \in Requests, Reverse(r)
    PROVE  Inv'
  <1>0. /\ AskInv(r) /\ pc[r] = "write" /\ Op(r) = "reverse" /\ TypeInv
        /\ Of(r) \in Recorded /\ Of(r) \in MoveKeys /\ move[Of(r)].shift = Target(r)
    BY DEF Inv, RequestInv, Reverse, AskInv, Recorded, Target
  <1>1. CASE Refuse(r)
    BY <1>1, RefuseStep
  <1>2. CASE ~Refuse(r)
    <2>1. PICK of \in MoveKeys : of = Of(r)
      BY <1>0
    <2>2. /\ Insert(r, move[of].kind, -move[of].cash, of)
          /\ move[of].kind \in Manual /\ move[of].of = None
          /\ \A n \in MoveKeys : move[n].of # of
      BY <1>2, <2>1 DEF Reverse, Reversible
    <2>3. move[of].kind \in Kinds /\ move[of].kind \notin {"settlement", "gasto"}
      BY <2>2 DEF Kinds, Manual
    <2>4. -move[of].cash \in {-1, 0, 1}
      BY <1>0 DEF TypeInv, MoveRows, MoveRow
    <2>5. \A k \in Recorded : move[k].of # of
      BY <2>2 DEF Recorded
    <2> QED
      BY <1>0, <2>1, <2>2, <2>3, <2>4, <2>5, InsertStep
  <1> QED
    BY <1>1, <1>2

(* A settlement that is undone has no reversal yet: its tender is reversed *)
(* by nothing but an undo.                                                 *)
LEMMA UndoStep ==
    ASSUME Inv, NEW r \in Requests, Undo(r)
    PROVE  Inv'
  <1>0. /\ pc[r] = "write" /\ Op(r) = "undo" /\ TypeInv /\ ReversalInv
        /\ Of(r) \in Recorded /\ Of(r) \in MoveKeys /\ move[Of(r)].shift = Target(r)
        /\ move[Of(r)].kind = "settlement"
    BY DEF Inv, RequestInv, Undo, AskInv, Recorded, Target
  <1>1. CASE Refuse(r)
    BY <1>1, RefuseStep
  <1>2. CASE ~Refuse(r)
    <2>1. PICK of \in MoveKeys : of = Of(r)
      BY <1>0
    <2>2. /\ Insert(r, "undo", -move[of].cash, of)
          /\ \A n \in Recorded : move[n].kind # "undo"
      BY <1>2, <2>1 DEF Undo
    <2>3. move[of].of = None
      BY <1>0, <2>1 DEF ReversalInv
    <2>4. -move[of].cash \in {-1, 0, 1}
      BY <1>0 DEF TypeInv, MoveRows, MoveRow
    <2>5. ASSUME NEW k \in Recorded, move[k].of = of PROVE FALSE
      <3>1. k \in MoveKeys /\ of # None
        BY NoneAssumption DEF Recorded
      <3>2. move[k].kind \in {"undo", "settlement"} /\ move[k].kind # "settlement"
        BY <1>0, <2>1, <2>5, <3>1 DEF ReversalInv
      <3> QED
        BY <2>2, <3>2
    <2> QED
      BY <1>0, <2>1, <2>2, <2>3, <2>4, <2>5, InsertStep
  <1> QED
    BY <1>1, <1>2

(* A supporting record or a compensation leaves the shifts, the closes and *)
(* the movements alone.                                                    *)
LEMMA SideStep ==
    ASSUME Inv, NEW r \in Requests, Support(r) \/ Compensate(r)
    PROVE  Inv'
  <1>1. CASE Refuse(r)
    BY <1>1, RefuseStep
  <1>2. CASE ~Refuse(r)
    <2>0. AskInv(r) /\ TypeInv /\ pc[r] # "idle"
      BY DEF Inv, RequestInv, Support, Compensate
    <2>1. UNCHANGED <<shift, close, closed, move>> /\ End(r)
      BY <1>2 DEF Support, Compensate
    <2>2. Recorded' = Recorded /\ \A t : MovesOf(t)' = MovesOf(t)
      BY <2>1 DEF Recorded, MovesOf
    <2>3. proof' \subseteq Recorded /\ comp' \subseteq MoveKeys \X Recorded
      <3>1. CASE Support(r)
        <4>1. Of(r) \in Recorded
          BY <2>0, <3>1 DEF Support, AskInv
        <4> QED
          BY <2>0, <3>1, <4>1 DEF Support, TypeInv
      <3>2. CASE Compensate(r)
        <4>1. ask[r].move \in MoveKeys
          BY <2>0, <3>2, CallTypes DEF Compensate, AskInv, Op
        <4>2. Of(r) \in Recorded /\ comp' = comp \cup {<<ask[r].move, Of(r)>>} /\ proof' = proof
          BY <1>2, <3>2 DEF Compensate, Compensable
        <4> QED
          BY <2>0, <4>1, <4>2 DEF TypeInv
      <3> QED
        BY <3>1, <3>2
    <2>4. TableTypes'
      BY <2>0, <2>1, <2>2, <2>3 DEF TypeInv, TableTypes
    <2>5. Spares(r)
      BY <2>1, <2>2 DEF Spares
    <2>6. OneOpen' /\ ReversalInv'
      BY <2>1, <2>2 DEF Inv, OneOpen, ReversalInv, IsOpen
    <2>7. ClosesAreComplete'
      BY <2>1, <2>2, ComputedStands DEF Inv, ClosesAreComplete
    <2> QED
      BY <2>1, <2>2, <2>4, <2>5, <2>6, <2>7, WriteStep
  <1> QED
    BY <1>1, <1>2

LEMMA CloseStep ==
    ASSUME Inv, NEW r \in Requests, Close(r)
    PROVE  Inv'
  <1>0. /\ AskInv(r) /\ HoldInv(r) /\ TypeInv /\ Holds(r)
        /\ pc[r] = "write" /\ Op(r) = "close"
    BY DEF Inv, RequestInv, Close, Holds
  <1>1. CASE Refuse(r)
    BY <1>1, RefuseStep
  <1>2. CASE ~Refuse(r)
    <2>1. PICK s \in ShiftKeys : s = Target(r)
      BY <1>0, TargetType
    <2>2. PICK row : row = [at |-> closed + 1, by |-> By(r), expected |-> seen[r],
                            counted |-> ask[r].counted,
                            transfer |-> Floored(seen[r] - ask[r].float)]
      OBVIOUS
    <2>3. /\ IsOpen(s) /\ End(r) /\ UNCHANGED <<move, proof, comp>>
          /\ close' = [close EXCEPT ![s] = row] /\ closed' = closed + 1
          /\ shift' = [shift EXCEPT ![s].status = "CLOSED"]
      BY <1>2, <2>1, <2>2 DEF Close
    <2>4. row.expected = Computed(s) /\ shiftLock[s] = r
      BY <1>0, <2>1, <2>2 DEF HoldInv
    <2>5. row \in [at : Nat, by : Operators \cup {None}, expected : Nat, counted : Nat, transfer : Nat]
      <3>1. By(r) \in Operators /\ ask[r].counted \in Nat /\ ask[r].float \in Nat
        BY <1>0, CallTypes DEF AskInv, Op, By
      <3>2. closed \in Nat /\ seen[r] \in Nat
        BY <1>0 DEF TypeInv
      <3>3. Floored(seen[r] - ask[r].float) \in Nat
        BY <3>1, <3>2 DEF Floored
      <3> QED
        BY <2>2, <3>1, <3>2, <3>3
    <2>6. shift \in Shifts /\ close \in CloseRows
      BY <1>0 DEF TypeInv
    <2>7. /\ close' \in CloseRows /\ close'[s] = row
          /\ \A t \in ShiftKeys : t # s => close'[t] = close[t]
      BY <2>3, <2>5, <2>6 DEF CloseRows
    <2>8. /\ shift' \in Shifts /\ shift'[s].status = "CLOSED"
          /\ \A t \in ShiftKeys : t # s => shift'[t].status = shift[t].status
          /\ \A t \in ShiftKeys : shift'[t].opening = shift[t].opening
      BY <2>3, <2>6 DEF Shifts
    <2>9. Recorded' = Recorded /\ \A t : MovesOf(t)' = MovesOf(t)
      BY <2>3 DEF Recorded, MovesOf
    <2>10. TableTypes'
      BY <1>0, <2>3, <2>7, <2>8, <2>9 DEF TypeInv, TableTypes
    <2>11. Spares(r)
      BY <2>3, <2>4, <2>8, <2>9 DEF Spares
    <2>12. OneOpen' /\ ReversalInv'
      BY <2>3, <2>8, <2>9 DEF Inv, OneOpen, ReversalInv, IsOpen
    <2>13. \A t \in ShiftKeys : Computed(t)' = Computed(t)
      BY <2>3, <2>8, <2>9, ComputedStands
    <2>14. ClosesAreComplete'
      BY <2>4, <2>7, <2>8, <2>13 DEF Inv, ClosesAreComplete
    <2> QED
      BY <2>3, <2>9, <2>10, <2>11, <2>12, <2>14, WriteStep
  <1> QED
    BY <1>1, <1>2

-----------------------------------------------------------------------------
(* The invariant, and what it gives *)

LEMMA InitInv == Init => Inv
  <1> SUFFICES ASSUME Init PROVE Inv
    OBVIOUS
  <1>1. Recorded = {}
    BY DEF Init, NoMove, Recorded
  <1>2. NoShift \in [status : {"none", "OPEN", "CLOSED"}, opening : Nat,
                     auto : BOOLEAN, expired : BOOLEAN]
    BY DEF NoShift
  <1>3. NoClose \in [at : Nat, by : Operators \cup {None}, expected : Nat,
                     counted : Nat, transfer : Nat]
    BY DEF NoClose
  <1>4. NoMove \in MoveRow
    BY DEF NoMove, MoveRow
  <1>5. shift \in Shifts /\ close \in CloseRows /\ move \in MoveRows
    BY <1>2, <1>3, <1>4 DEF Init, Shifts, CloseRows, MoveRows
  <1>6. IsFiniteSet(Recorded)
    BY <1>1, FS_EmptySet
  <1>7. TypeInv
    BY <1>5, <1>6 DEF Init, TypeInv
  <1>8. OneOpen /\ ReversalInv /\ ClosesAreComplete
    BY <1>1 DEF Init, OneOpen, ReversalInv, ClosesAreComplete, IsOpen, NoShift, NoMove
  <1>9. RequestInv
    BY DEF Init, RequestInv, AskInv, HoldInv, Holds
  <1> QED
    BY <1>7, <1>8, <1>9 DEF Inv

LEMMA NextInv == Inv /\ [Next]_vars => Inv'
  <1> SUFFICES ASSUME Inv, [Next]_vars PROVE Inv'
    OBVIOUS
  <1>1. CASE UNCHANGED vars
    <2>1. UNCHANGED tables /\ UNCHANGED <<shiftLock, moveLock, ask, pc, seen>>
      BY <1>1 DEF vars, locks
    <2>2. TypeInv'
      BY <2>1 DEF Inv, TypeInv, tables, Recorded
    <2>3. OneOpen' /\ ReversalInv'
      BY <2>1 DEF Inv, OneOpen, ReversalInv, IsOpen, tables, Recorded
    <2>4. \A s : Computed(s)' = Computed(s)
      BY <2>1 DEF Computed, MovesOf, Recorded, tables
    <2>5. ClosesAreComplete'
      BY <2>1, <2>4 DEF Inv, ClosesAreComplete, tables
    <2>6. RequestInv'
      BY <2>1, <2>4 DEF Inv, RequestInv, AskInv, HoldInv, Holds, Op, Of, Target, IsOpen, tables, Recorded
    <2> QED
      BY <2>2, <2>3, <2>5, <2>6 DEF Inv
  <1>2. ASSUME NEW s \in ShiftKeys, Expire(s) PROVE Inv'
    BY <1>2, ExpireStep
  <1>3. ASSUME NEW r \in Requests, Send(r) \/ Progress(r) \/ Rollback(r) PROVE Inv'
    <2>1. CASE Send(r)
      BY <2>1, SendStep
    <2>2. CASE Rollback(r) \/ Deadlocked(r)
      BY <2>2, RefuseStep DEF Rollback, Deadlocked
    <2>3. CASE FindShift(r) \/ ReadAnchor(r) \/ CheckPrior(r) \/ FindReplay(r)
      BY <2>3, FindStep
    <2>4. CASE InsertShift(r)
      BY <2>4, InsertShiftStep
    <2>5. CASE LockShift(r)
      BY <2>5, LockShiftStep
    <2>6. CASE LockMove(r)
      BY <2>6, LockMoveStep
    <2>7. CASE Record(r) \/ Include(r)
      BY <2>7, RecordStep
    <2>8. CASE Reverse(r)
      BY <2>8, ReverseStep
    <2>9. CASE Undo(r)
      BY <2>9, UndoStep
    <2>10. CASE Support(r) \/ Compensate(r)
      BY <2>10, SideStep
    <2>11. CASE Close(r)
      BY <2>11, CloseStep
    <2> QED
      BY <1>3, <2>1, <2>2, <2>3, <2>4, <2>5, <2>6, <2>7, <2>8, <2>9, <2>10, <2>11 DEF Progress
  <1> QED
    BY <1>1, <1>2, <1>3 DEF Next

(* Everything below follows from this invariant of the desk: the rows are  *)
(* as the schema describes them, an operator has one open shift, a request *)
(* that writes still holds the shift it checked and the sum it computed,   *)
(* a reversal faces one movement, and a close counts them all.             *)
THEOREM CashDeskInvariant == Spec => []Inv
  BY InitInv, NextInv, PTL DEF Spec

(* However many calls of open and ensureOpenShift race, an operator has at *)
(* most one open shift, and the amounts of the rows are never below zero.  *)
THEOREM RowsFitAndOneIsOpen == Spec => []TypeOK
  <1>1. Inv => TypeOK
    <2> SUFFICES ASSUME Inv PROVE TypeOK
      OBVIOUS
    <2>1. ASSUME NEW o \in Operators PROVE Cardinality(OpenShifts(o)) <= 1
      <3>1. CASE OpenShifts(o) = {}
        BY <3>1, FS_EmptySet
      <3>2. CASE OpenShifts(o) # {}
        <4>1. PICK s : s \in OpenShifts(o)
          BY <3>2
        <4>2. OpenShifts(o) = {s}
          BY <4>1 DEF OpenShifts, Inv, OneOpen, IsOpen
        <4>3. Cardinality({s}) = 1
          BY FS_Singleton
        <4> QED
          BY <4>2, <4>3
      <3> QED
        BY <3>1, <3>2
    <2>2. /\ shift \in [ShiftKeys -> [status : {"none", "OPEN", "CLOSED"}, opening : Nat,
                                      auto : BOOLEAN, expired : BOOLEAN]]
          /\ close \in [ShiftKeys -> [at : Nat, by : Operators \cup {None}, expected : Nat,
                                      counted : Nat, transfer : Nat]]
          /\ move \in [MoveKeys -> [shift : ShiftKeys \cup {None},
                                    kind : Kinds \cup {"none", "undo"}, cash : {-1, 0, 1},
                                    of : MoveKeys \cup {None}, at : Nat]]
      BY DEF Inv, TypeInv, Shifts, CloseRows, MoveRows, MoveRow
    <2> QED
      BY <2>1, <2>2 DEF TypeOK, Inv, TypeInv
  <1> QED
    BY <1>1, CashDeskInvariant, PTL

(* A close counts the opening and every cash movement of its shift,        *)
(* whatever was being recorded while it summed.                            *)
THEOREM ClosesCountEverything == Spec => []ClosesAreComplete
  BY CashDeskInvariant, PTL DEF Inv

(* A movement is reversed once, in its shift and for what it was, and a    *)
(* reversal is not reversed.                                               *)
THEOREM MovementsAreReversedOnce == Spec => []ReversedOnce
  <1>1. Inv => ReversedOnce
    BY DEF Inv, ReversalInv, ReversedOnce, Recorded
  <1> QED
    BY <1>1, CashDeskInvariant, PTL

-----------------------------------------------------------------------------
(* What is closed stays as it is *)

Frozen(s) ==
    shift[s].status = "CLOSED" =>
        /\ shift'[s] = shift[s] /\ close'[s] = close[s]
        /\ \A m \in MoveKeys :
              /\ move'[m].shift = s => move'[m] = move[m]
              /\ move[m].shift = s => (m \in proof' => m \in proof)

LEMMA InsertFreezes ==
    ASSUME Inv, NEW r \in Requests, pc[r] = "write", Op(r) = "record" \/ Op(r) = "reverse" \/ Op(r) = "undo",
           NEW kind, NEW cash, NEW of, Insert(r, kind, cash, of), NEW s \in ShiftKeys
    PROVE  Frozen(s)
  <1>1. CASE UNCHANGED tables
    BY <1>1 DEF Frozen, tables
  <1>2. CASE ~UNCHANGED tables
    <2>1. /\ IsOpen(Target(r)) /\ UNCHANGED <<shift, close, proof>>
          /\ move' = [move EXCEPT ![ask[r].move] =
                [shift |-> Target(r), kind |-> kind, cash |-> cash, of |-> of,
                 at |-> Cardinality(Recorded) + 1]]
      BY <1>2 DEF Insert, Accepts, Refuse
    <2>2. move \in MoveRows
      BY DEF Inv, TypeInv
    <2>3. \A m \in MoveKeys : move'[m] = move[m] \/ move'[m].shift = Target(r)
      BY <2>1, <2>2 DEF MoveRows
    <2> QED
      BY <2>1, <2>3 DEF Frozen, IsOpen
  <1> QED
    BY <1>1, <1>2

LEMMA StepFreezes ==
    ASSUME Inv, [Next]_vars, NEW s \in ShiftKeys
    PROVE  Frozen(s)
  <1>1. CASE UNCHANGED tables
    BY <1>1 DEF Frozen, tables
  <1>2. ASSUME NEW t \in ShiftKeys, Expire(t) PROVE Frozen(s)
    BY <1>2 DEF Expire, Frozen, IsOpen, Inv, TypeInv, Shifts
  <1>3. ASSUME NEW r \in Requests, Progress(r), ~UNCHANGED tables PROVE Frozen(s)
    <2>0. AskInv(r) /\ HoldInv(r) /\ shift \in Shifts /\ close \in CloseRows
      BY DEF Inv, RequestInv, TypeInv
    <2>1. CASE InsertShift(r)
      BY <1>3, <2>0, <2>1 DEF InsertShift, Refuse, Opens, Frozen, Shifts
    <2>2. CASE Record(r) \/ Include(r) \/ Reverse(r) \/ Undo(r)
      BY <1>3, <2>2, InsertFreezes DEF Record, Include, Reverse, Undo, Refuse
    <2>3. CASE Support(r)
      <3>1. IsOpen(Target(r)) /\ Target(r) = move[Of(r)].shift
        BY <2>0, <2>3 DEF HoldInv, Holds, Support, Target
      <3> QED
        BY <2>3, <3>1 DEF Support, Frozen, IsOpen
    <2>4. CASE Compensate(r)
      BY <1>3, <2>4 DEF Compensate, Refuse, Frozen
    <2>5. CASE Close(r)
      BY <1>3, <2>0, <2>5 DEF Close, Refuse, Frozen, IsOpen, Shifts, CloseRows
    <2> QED
      BY <1>3, <2>1, <2>2, <2>3, <2>4, <2>5
      DEF Progress, FindShift, ReadAnchor, CheckPrior, FindReplay, LockShift, LockMove,
          Deadlocked, Go, Refuse
  <1> QED
    BY <1>1, <1>2, <1>3 DEF Next, vars, Send, Rollback, Refuse

(* No movement, supporting record or second close reaches a closed shift,  *)
(* and it does not open again.                                             *)
THEOREM ClosedShiftsStand == Spec => ClosedIsFrozen
  <1>1. Inv /\ [Next]_vars =>
          [\A s \in ShiftKeys : shift[s].status = "CLOSED" =>
               /\ shift'[s] = shift[s] /\ close'[s] = close[s]
               /\ \A m \in MoveKeys :
                     /\ move'[m].shift = s => move'[m] = move[m]
                     /\ move[m].shift = s => (m \in proof' => m \in proof)]_vars
    BY StepFreezes DEF Frozen
  <1> QED
    BY <1>1, CashDeskInvariant, PTL DEF Spec, ClosedIsFrozen
=============================================================================
