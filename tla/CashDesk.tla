-------------------------------- MODULE CashDesk ------------------------------
(***************************************************************************)
(* The cash desk (apps/api/src/modules/dues/cash-desk.ts): personal cash   *)
(* shifts, the movements recorded in them, and their close, which sweeps   *)
(* the drawer and leaves a float to the next shift.                        *)
(*                                                                         *)
(* Every request is one transaction at READ COMMITTED.  It looks for a     *)
(* replay, locks the rows of the shift and of the movement it is about in  *)
(* the order of the code, and writes.  A step is one of these stages;      *)
(* locks are held to the end.                                              *)
(***************************************************************************)
EXTENDS Integers, FiniteSets, Functions

CONSTANTS
    Operators,
    Admins,        \* operators of role ADMIN; the others are of role OPERADOR
    ShiftKeys,     \* <<operator, key>> of the shifts that may be opened
    MoveKeys,      \* <<operator, key>> of the movements that may be recorded
    Requests,      \* bound: requests in flight at one time
    Calls,         \* bound: the calls that are made
    None

ASSUME AdminsAssumption == Admins \subseteq Operators
ASSUME KeysAssumption == /\ ShiftKeys \subseteq Operators \X Nat
                         /\ MoveKeys \subseteq Operators \X Nat
ASSUME NoneAssumption == /\ None \notin Requests /\ None \notin Operators
                         /\ None \notin ShiftKeys /\ None \notin MoveKeys

VARIABLES
    shift,      \* the row of a shift
    close,      \* the row of its close, with its transfer
    closed,     \* how many closes there are: the time of the next
    move,       \* the row of a movement
    proof,      \* movements that have a supporting record
    comp,       \* <<key, expense>> of the compensations of expenses
    shiftLock,  \* holder of the row lock of a shift
    moveLock,   \* holder of the row lock of a movement
    ask,        \* the command of a request
    pc,         \* its next stage
    seen        \* the cents it has computed from what it read

tables == <<shift, close, closed, move, proof, comp>>
locks == <<shiftLock, moveLock>>
vars == <<tables, locks, ask, pc, seen>>

-----------------------------------------------------------------------------
(* Rows *)

NoShift == [status |-> "none", opening |-> 0, auto |-> FALSE, expired |-> FALSE]
NoClose == [at |-> 0, by |-> None, expected |-> 0, counted |-> 0, transfer |-> 0]
NoMove == [shift |-> None, kind |-> "none", cash |-> 0, of |-> None, at |-> 0]
NoAsk == [op |-> "none"]

(* The kinds of movement, with their cents of cash: a card does not enter  *)
(* the drawer.  One settlement and one expense can be brought.             *)
Cash(kind) == CASE kind \in {"income", "settlement"} -> 1
                [] kind \in {"outlay", "gasto"} -> -1
                [] kind = "card" -> 0
Manual == {"income", "outlay", "card"}
Kinds == Manual \cup {"settlement", "gasto"}

Recorded == {m \in MoveKeys : move[m].shift # None}
MovesOf(s) == {m \in Recorded : move[m].shift = s}
Settled == {m \in Recorded : move[m].kind = "settlement"}

(* The tender a settlement was first brought with. *)
IsFirstTender(m) == m \in Settled /\ \A n \in Settled : move[m].at <= move[n].at

Owner(s) == s[1]
OpenShifts(o) == {s \in ShiftKeys : Owner(s) = o /\ shift[s].status = "OPEN"}
IsOpen(s) == shift[s].status = "OPEN"

(* shift(): an operator works in the own shift, an ADMIN in any. *)
Allowed(o, s) == shift[s].status # "none" /\ (Owner(s) = o \/ o \in Admins)

(* Opening once, and the cash movements of the shift. *)
Computed(s) == shift[s].opening + SumFunction([m \in MovesOf(s) |-> move[m].cash])

(* An expense is compensated once its shift is closed: assertGastoClosed,   *)
(* recordExpenseCompensation and the trigger behind them.                  *)
Compensable(m) == /\ m \in Recorded /\ move[m].kind = "gasto"
                  /\ shift[move[m].shift].status = "CLOSED"
KeyIsUsed(k) == \E c \in comp : c[1] = k

(* What the operator's last close left in the drawer. *)
LastClose(o) ==
    {s \in ShiftKeys : /\ close[s].by = o
                      /\ \A t \in ShiftKeys : close[t].by = o => close[t].at <= close[s].at}
Floored(n) == IF n > 0 THEN n ELSE 0
Remainder(s) == Floored(close[s].counted - close[s].transfer)
Anchor(o) == IF LastClose(o) = {} THEN 0
             ELSE Remainder(CHOOSE s \in LastClose(o) : TRUE)

-----------------------------------------------------------------------------
(* Requests *)

(* What a caller can ask for.  An operator counts up to MaxCents, or        *)
(* declares as much as the opening or the float of a shift.                *)
MaxCents == 1
Asks ==
    [op : {"ensure"}, by : Operators, shift : ShiftKeys]
        \cup [op : {"open"}, by : Operators, shift : ShiftKeys, cents : 0..MaxCents]
        \cup [op : {"record"}, by : Operators, shift : ShiftKeys,
              move : MoveKeys, kind : Kinds]
        \cup [op : {"reverse"}, by : Operators, shift : ShiftKeys,
              move : MoveKeys, of : MoveKeys]
        \cup [op : {"undo", "support", "compensate"}, by : Operators, move : MoveKeys, of : MoveKeys]
        \cup [op : {"close"}, by : Operators, shift : ShiftKeys,
              force : BOOLEAN, counted : 0..MaxCents, float : 0..MaxCents]

ASSUME CallsAssumption == Calls \subseteq Asks

(* The calls the routes let through: keys belong to the caller, ids name   *)
(* rows that exist, an expense is included by finance, only finance forces *)
(* a close, and a forced close has no float; an expense may be compensated *)
(* whether or not it is in a shift yet.                                    *)
Valid(c) ==
    CASE c.op \in {"ensure", "open"} -> Owner(c.shift) = c.by
      [] c.op = "record" -> /\ c.move[1] = c.by /\ shift[c.shift].status # "none"
                            /\ c.kind = "gasto" => c.by \in Admins
      [] c.op = "reverse" -> /\ c.move[1] = c.by /\ c.of \in MovesOf(c.shift)
      [] c.op = "undo" -> c.move[1] = c.by /\ IsFirstTender(c.of)
      [] c.op = "support" -> /\ c.move = c.of /\ c.of \in Recorded
                             /\ move[c.of].kind \in Manual /\ move[c.of].of = None
      [] c.op = "compensate" -> c.move[1] = c.by /\ c.by \in Admins
      [] c.op = "close" -> /\ shift[c.shift].status # "none"
                           /\ c.force => c.by \in Admins /\ c.float = 0
                           /\ c.float <= c.counted

Op(r) == ask[r].op
By(r) == ask[r].by
Of(r) == ask[r].of
Target(r) == IF Op(r) \in {"undo", "support", "compensate"} THEN move[Of(r)].shift ELSE ask[r].shift

(* The first stage of a request, and the order in which it locks.          *)
First(op) == CASE op \in {"ensure", "record", "reverse", "close", "compensate"} -> "find"
               [] op = "open" -> "prior"
               [] op \in {"undo", "support"} -> "move"
AfterFind(op) == IF op = "compensate" THEN "write" ELSE "shift"
AfterShift(op) == IF op = "reverse" THEN "move" ELSE "write"
AfterMove(op) == IF op = "reverse" THEN "write" ELSE "shift"

Stages == {"find", "anchor", "prior", "insert", "shift", "move", "write"}

(* The tables as the schema describes them: amounts never below zero, and  *)
(* an operator has at most one open shift, however many calls of           *)
(* ensureOpenShift and open race.                                          *)
TypeOK ==
    /\ \A o \in Operators : Cardinality(OpenShifts(o)) <= 1
    /\ shift \in [ShiftKeys -> [status : {"none", "OPEN", "CLOSED"}, opening : Nat,
                                auto : BOOLEAN, expired : BOOLEAN]]
    /\ close \in [ShiftKeys -> [at : Nat, by : Operators \cup {None}, expected : Nat,
                                counted : Nat, transfer : Nat]]
    /\ closed \in Nat
    /\ move \in [MoveKeys -> [shift : ShiftKeys \cup {None},
                              kind : Kinds \cup {"none", "undo"}, cash : {-1, 0, 1},
                              of : MoveKeys \cup {None}, at : Nat]]
    /\ proof \subseteq Recorded
    /\ comp \subseteq MoveKeys \X Recorded
    /\ shiftLock \in [ShiftKeys -> Requests \cup {None}]
    /\ moveLock \in [MoveKeys -> Requests \cup {None}]
    /\ ask \in [Requests -> Calls \cup {NoAsk}]
    /\ pc \in [Requests -> Stages \cup {"idle"}]
    /\ seen \in [Requests -> Nat]

Init ==
    /\ shift = [s \in ShiftKeys |-> NoShift]
    /\ close = [s \in ShiftKeys |-> NoClose]
    /\ closed = 0
    /\ move = [m \in MoveKeys |-> NoMove]
    /\ proof = {}
    /\ comp = {}
    /\ shiftLock = [s \in ShiftKeys |-> None]
    /\ moveLock = [m \in MoveKeys |-> None]
    /\ ask = [r \in Requests |-> NoAsk]
    /\ pc = [r \in Requests |-> "idle"]
    /\ seen = [r \in Requests |-> 0]

Send(r) ==
    /\ pc[r] = "idle"
    /\ \E c \in Calls : /\ Valid(c)
                        /\ ask' = [ask EXCEPT ![r] = c]
                        /\ pc' = [pc EXCEPT ![r] = First(c.op)]
    /\ UNCHANGED <<tables, locks, seen>>

Released(lock, r) == [x \in DOMAIN lock |-> IF lock[x] = r THEN None ELSE lock[x]]

(* The transaction of r ends, by commit or rollback, and r is answered. *)
End(r) ==
    /\ shiftLock' = Released(shiftLock, r)
    /\ moveLock' = Released(moveLock, r)
    /\ ask' = [ask EXCEPT ![r] = NoAsk]
    /\ pc' = [pc EXCEPT ![r] = "idle"]
    /\ seen' = [seen EXCEPT ![r] = 0]

Refuse(r) == End(r) /\ UNCHANGED tables

Go(r, stage, cents) ==
    /\ pc' = [pc EXCEPT ![r] = stage]
    /\ seen' = [seen EXCEPT ![r] = cents]
    /\ UNCHANGED <<tables, ask>>

-----------------------------------------------------------------------------
(* Opening *)

(* ensureOpenShift: the own open shift wins. *)
FindShift(r) ==
    /\ pc[r] = "find" /\ Op(r) = "ensure"
    /\ IF OpenShifts(By(r)) # {} THEN Refuse(r)
       ELSE Go(r, "anchor", 0) /\ UNCHANGED locks

ReadAnchor(r) ==
    /\ pc[r] = "anchor"
    /\ Go(r, "prior", Anchor(By(r))) /\ UNCHANGED locks

(* open(): the shift of the caller key, or the prior open shift. *)
CheckPrior(r) ==
    /\ pc[r] = "prior"
    /\ IF shift[Target(r)].status # "none" \/ OpenShifts(By(r)) # {} THEN Refuse(r)
       ELSE /\ Go(r, "insert", IF Op(r) = "open" THEN ask[r].cents ELSE seen[r])
            /\ UNCHANGED locks

Insertable(s) == shift[s].status = "none"   \* mutant: no index on the owner
Opens(s) == shift[s].status = "none" /\ OpenShifts(Owner(s)) = {}

(* The unique indexes refuse what was opened meanwhile. *)
InsertShift(r) ==
    /\ pc[r] = "insert"
    /\ IF Opens(Target(r))
       THEN /\ shift' = [shift EXCEPT ![Target(r)] =
                   [status |-> "OPEN", opening |-> seen[r], auto |-> Op(r) = "ensure",
                    expired |-> FALSE]]
            /\ End(r)
            /\ UNCHANGED <<close, closed, move, proof, comp>>
       ELSE Refuse(r)

(* Twenty-four hours have passed. *)
Expire(s) ==
    /\ IsOpen(s) /\ ~shift[s].expired
    /\ shift' = [shift EXCEPT ![s].expired = TRUE]
    /\ UNCHANGED <<close, closed, move, proof, comp, locks, ask, pc, seen>>

-----------------------------------------------------------------------------
(* Locks *)

(* The replay by caller key: it answers with the row there is. *)
Replayed(r) == CASE Op(r) = "close" -> close[Target(r)].by = By(r)
                 [] Op(r) = "compensate" -> KeyIsUsed(ask[r].move)
                 [] OTHER -> ask[r].move \in Recorded

FindReplay(r) ==
    /\ pc[r] = "find" /\ Op(r) # "ensure"
    /\ IF Replayed(r) THEN Refuse(r)
       ELSE Go(r, AfterFind(Op(r)), 0) /\ UNCHANGED locks

LockedOnly(r, s) == TRUE   \* mutant: SELECT without FOR UPDATE
Grantable(r, s) == shiftLock[s] \in {None, r}

Uncovered(s) == TRUE   \* mutant: the negative drawer is not looked for
Covered(s) == Computed(s) >= 0

(* What the request checks on the locked row of the shift. *)
Admits(r, s) ==
    /\ Allowed(By(r), s)
    /\ CASE Op(r) = "record" -> /\ ~shift[s].expired
                                /\ ask[r].kind = "settlement" => IsOpen(s)
         [] Op(r) = "reverse" -> ~shift[s].expired
         [] Op(r) = "undo" -> IsOpen(s) /\ ~shift[s].expired
         [] Op(r) = "support" -> IsOpen(s)
         [] Op(r) = "close" -> /\ IsOpen(s)
                               /\ ask[r].force = shift[s].expired
                               /\ Covered(s)

LockShift(r) ==
    /\ pc[r] = "shift"
    /\ LET s == Target(r)
       IN  /\ Grantable(r, s)
           /\ IF Admits(r, s)
              THEN /\ Go(r, AfterShift(Op(r)), IF Op(r) = "close" THEN Computed(s) ELSE 0)
                   /\ shiftLock' = [shiftLock EXCEPT ![s] = r]
                   /\ UNCHANGED moveLock
              ELSE Refuse(r)

(* The row of the movement that is reversed, undone or documented. *)
LockMove(r) ==
    /\ pc[r] = "move"
    /\ moveLock[Of(r)] \in {None, r}
    /\ Go(r, AfterMove(Op(r)), 0)
    /\ moveLock' = [moveLock EXCEPT ![Of(r)] = r]
    /\ UNCHANGED shiftLock

-----------------------------------------------------------------------------
(* Writes *)

(* The trigger on movements: the shift is open and not expired. *)
Unchecked(s) == TRUE   \* mutant: the trigger is missing
Accepts(s) == IsOpen(s) /\ ~shift[s].expired

(* The unique indexes on the source of a movement. *)
FreshSource(s, kind) ==
    CASE kind = "settlement" -> MovesOf(s) \cap Settled = {}
      [] kind = "gasto" -> \A m \in Recorded : move[m].kind # "gasto"
      [] OTHER -> TRUE

InsertAgain(r, kind, cash, of) ==   \* mutant: a used key sends it back
    IF Accepts(Target(r)) /\ ask[r].move \notin Recorded
    THEN /\ move' = [move EXCEPT ![ask[r].move] =
                [shift |-> Target(r), kind |-> kind, cash |-> cash, of |-> of,
                 at |-> Cardinality(Recorded) + 1]]
         /\ End(r)
         /\ UNCHANGED <<shift, close, closed, proof, comp>>
    ELSE Go(r, "shift", 0) /\ UNCHANGED locks

(* Insert and commit; a key that was used meanwhile is replayed.           *)
Insert(r, kind, cash, of) ==
    IF Accepts(Target(r)) /\ ask[r].move \notin Recorded
    THEN /\ move' = [move EXCEPT ![ask[r].move] =
                [shift |-> Target(r), kind |-> kind, cash |-> cash, of |-> of,
                 at |-> Cardinality(Recorded) + 1]]
         /\ End(r)
         /\ UNCHANGED <<shift, close, closed, proof, comp>>
    ELSE Refuse(r)

Record(r) ==
    /\ pc[r] = "write" /\ Op(r) = "record" /\ ask[r].kind # "gasto"
    /\ IF FreshSource(Target(r), ask[r].kind)
       THEN Insert(r, ask[r].kind, Cash(ask[r].kind), None)
       ELSE Refuse(r)

(* includeExpense: an expense is in one shift, and once. *)
Include(r) ==
    /\ pc[r] = "write" /\ Op(r) = "record" /\ ask[r].kind = "gasto"
    /\ IF FreshSource(Target(r), "gasto")
       THEN Insert(r, "gasto", Cash("gasto"), None)
       ELSE Refuse(r)

ReversibleAgain(m) == move[m].kind \in Manual   \* mutant: it may be reversed already
Reversible(m) == /\ move[m].kind \in Manual /\ move[m].of = None
                 /\ \A n \in MoveKeys : move[n].of # m

(* reverseTender *)
Reverse(r) ==
    /\ pc[r] = "write" /\ Op(r) = "reverse"
    /\ IF Reversible(Of(r))
       THEN Insert(r, move[Of(r)].kind, -move[Of(r)].cash, Of(r))
       ELSE Refuse(r)

(* recordReversalSettlementTender; the settlement is reversed only once.   *)
Undo(r) ==
    /\ pc[r] = "write" /\ Op(r) = "undo"
    /\ IF \A n \in Recorded : move[n].kind # "undo"
       THEN Insert(r, "undo", -move[Of(r)].cash, Of(r))
       ELSE Refuse(r)

Support(r) ==
    /\ pc[r] = "write" /\ Op(r) = "support"
    /\ proof' = proof \cup {Of(r)}
    /\ End(r)
    /\ UNCHANGED <<shift, close, closed, move, comp>>

(* POST /gastos with compensates_gasto_id: the new expense, the row that    *)
(* ties it to the one in the closed shift, and the receipt of its key.     *)
Compensate(r) ==
    /\ pc[r] = "write" /\ Op(r) = "compensate"
    /\ IF Compensable(Of(r)) /\ ~KeyIsUsed(ask[r].move)
       THEN /\ comp' = comp \cup {<<ask[r].move, Of(r)>>}
            /\ End(r)
            /\ UNCHANGED <<shift, close, closed, move, proof>>
       ELSE Refuse(r)

(* The close, its transfer, and the trigger that closes the shift.         *)
Close(r) ==
    /\ pc[r] = "write" /\ Op(r) = "close"
    /\ LET s == Target(r)
       IN  IF IsOpen(s)
           THEN /\ close' = [close EXCEPT ![s] =
                       [at |-> closed + 1, by |-> By(r), expected |-> seen[r],
                        counted |-> ask[r].counted,
                        transfer |-> Floored(seen[r] - ask[r].float)]]
                /\ closed' = closed + 1
                /\ shift' = [shift EXCEPT ![s].status = "CLOSED"]
                /\ End(r)
                /\ UNCHANGED <<move, proof, comp>>
           ELSE Refuse(r)

(* The audit insert or another statement of the transaction fails. *)
Rollback(r) == pc[r] \in {"insert", "write"} /\ Refuse(r)

-----------------------------------------------------------------------------

WaitsFor(r, q) ==
    /\ r # q
    /\ \/ pc[r] = "shift" /\ shiftLock[Target(r)] = q
       \/ pc[r] = "move" /\ moveLock[Of(r)] = q

(* PostgreSQL finds the cycle and rolls one of its transactions back. *)
Deadlocked(r) ==
    /\ \E S \in SUBSET Requests :
          r \in S /\ \A x \in S : \E y \in S : WaitsFor(x, y)
    /\ Refuse(r)

Progress(r) ==
    \/ FindShift(r) \/ ReadAnchor(r) \/ CheckPrior(r) \/ InsertShift(r)
    \/ FindReplay(r) \/ LockShift(r) \/ LockMove(r)
    \/ Record(r) \/ Include(r) \/ Reverse(r) \/ Undo(r) \/ Support(r) \/ Close(r)
    \/ Compensate(r)
    \/ Deadlocked(r)

Next ==
    \/ \E r \in Requests : Send(r) \/ Progress(r) \/ Rollback(r)
    \/ \E s \in ShiftKeys : Expire(s)

(* The database grants locks in the order they are asked for.              *)
Fairness == \A r \in Requests : SF_vars(Progress(r))

Spec == Init /\ [][Next]_vars /\ Fairness

-----------------------------------------------------------------------------
(* Properties *)

(* A close counts the opening and every cash movement of its shift: none   *)
(* slips in while it sums or after it (close, recordTender, and the        *)
(* triggers on movements).                                                 *)
ClosesAreComplete ==
    \A s \in ShiftKeys :
        shift[s].status = "CLOSED" => close[s].expected = Computed(s)

(* What is closed stays as it is: no movement, supporting record or second *)
(* close reaches a closed shift, and it does not open again (the status    *)
(* checks made under the lock, and the triggers of 0055 to 0061).          *)
ClosedIsFrozen ==
    [][\A s \in ShiftKeys : shift[s].status = "CLOSED" =>
           /\ shift'[s] = shift[s] /\ close'[s] = close[s]
           /\ \A m \in MoveKeys :
                 /\ move'[m].shift = s => move'[m] = move[m]
                 /\ move[m].shift = s => (m \in proof' => m \in proof)]_vars

(* A movement is reversed once, in its own shift and for what it was;      *)
(* a reversal is not reversed (reverseTender,                              *)
(* recordReversalSettlementTender).                                        *)
ReversedOnce ==
    \A n \in Recorded : move[n].of # None =>
        LET m == move[n].of
        IN  /\ move[m].of = None
            /\ move[n].shift = move[m].shift
            /\ move[n].cash = -move[m].cash
            /\ \A k \in Recorded : move[k].of = m => k = n

(* Every request is answered, although reversals lock the shift before the *)
(* movement and supporting records and refunds after it.                   *)
EveryRequestAnswered == \A r \in Requests : pc[r] # "idle" ~> pc[r] = "idle"

(* A drawer that opens itself opens with what the last close of that       *)
(* operator's drawer left in it (ensureOpenShift).                         *)
DrawerCarriesOver ==
    [][\A s \in ShiftKeys :
           shift[s].status = "none" /\ shift'[s].status = "OPEN" /\ shift'[s].auto =>
               \A t \in ShiftKeys :
                   /\ Owner(t) = Owner(s) /\ close[t].at > 0
                   /\ \A u \in ShiftKeys : Owner(u) = Owner(s) => close[u].at <= close[t].at
                   => shift'[s].opening = Remainder(t)]_vars

=============================================================================
