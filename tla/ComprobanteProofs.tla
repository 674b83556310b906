--------------------------- MODULE ComprobanteProofs ---------------------------
(* Proofs about Comprobante, for any requests, replicas, capacity and bounds:    *)
(* the row and the pages of TypeOK, one document per row of the key, and the     *)
(* finality of a stored timeout.                                                 *)
EXTENDS Comprobante, FiniteSetTheorems, SequenceTheorems, TLAPS

ClaimSteps == {"purge", "insert", "reclaim", "look", "sleep"}
CallPlaces == ClaimSteps \cup Ended \cup {"idle", "race", "failtimeout", "failordinary"}
TaskPlaces == {"none", "load", "init", "queue", "page", "save", "audit", "over"}

Rows == [status : {"none", "rendering", "complete", "timeout", "failed"}, fp : Nat,
         owner : Call \cup {None}, lease : {"live", "expired"}, old : BOOLEAN,
         doc : Call \cup {None}, row : Nat]
Calls == [Call -> [pc : CallPlaces, last : BOOLEAN, doc : Call \cup {None}, row : Nat]]
Tasks == [Call -> [pc : TaskPlaces, aborted : BOOLEAN, row : Nat]]
Slot == [active : Int, waiters : Seq(Call)]
Asks == [Call -> [kind : {"receipt", "form"}, at : Replica, fp : Nat]]

Shapes ==
  /\ row \in Rows
  /\ call \in Calls
  /\ task \in Tasks
  /\ slot \in [Replica -> Slot]
  /\ browser \in [Replica -> {"none", "up", "broken"}]
  /\ ask \in Asks

------------------------------------------------------------------------------
\* The queue of a semaphore

Elems(q) == {q[i] : i \in DOMAIN q}
Distinct(q) == \A i, j \in DOMAIN q : q[i] = q[j] => i = j

(* What waits after one more has joined the queue.                               *)
LEMMA AppendElems ==
  ASSUME NEW S, NEW q \in Seq(S), NEW x \in S
  PROVE  /\ Elems(Append(q, x)) = Elems(q) \cup {x}
         /\ Distinct(q) /\ x \notin Elems(q) => Distinct(Append(q, x))
  <1> DEFINE a == Append(q, x)
  <1>1. /\ DOMAIN q = 1..Len(q) /\ Len(q) \in Nat
        /\ DOMAIN a = 1..(Len(q) + 1)
        /\ \A i \in 1..Len(q) : a[i] = q[i]
        /\ a[Len(q) + 1] = x
    OBVIOUS
  <1> HIDE DEF a
  <1>2. DOMAIN a = DOMAIN q \cup {Len(q) + 1} /\ Len(q) + 1 \notin DOMAIN q
    BY <1>1
  <1>3. Elems(a) = Elems(q) \cup {x}
    BY <1>1, <1>2 DEF Elems
  <1>4. Distinct(q) /\ x \notin Elems(q) => Distinct(a)
    BY <1>1, <1>2 DEF Distinct, Elems
  <1> QED
    BY <1>3, <1>4 DEF a

(* What waits after the first of the queue has been served.                      *)
LEMMA TailElems ==
  ASSUME NEW S, NEW q \in Seq(S), q # <<>>, Distinct(q)
  PROVE  /\ Head(q) \in Elems(q)
         /\ Elems(Tail(q)) = Elems(q) \ {Head(q)}
         /\ Distinct(Tail(q))
  <1> DEFINE t == Tail(q)
  <1>1. /\ Len(q) \in Nat /\ Len(q) > 0 /\ DOMAIN q = 1..Len(q)
        /\ DOMAIN t = 1..(Len(q) - 1)
        /\ \A i \in 1..(Len(q) - 1) : t[i] = q[i + 1]
        /\ Head(q) = q[1]
    BY HeadTailProperties
  <1> HIDE DEF t
  <1>2. Head(q) \in Elems(q)
    BY <1>1 DEF Elems
  <1>3. Distinct(t)
    BY <1>1 DEF Distinct
  <1>4. Elems(t) = Elems(q) \ {Head(q)}
    <2>1. \A i \in DOMAIN t : t[i] \in Elems(q) /\ t[i] # q[1]
      BY <1>1 DEF Distinct, Elems
    <2>2. \A i \in DOMAIN q : q[i] # q[1] => i - 1 \in DOMAIN t /\ t[i - 1] = q[i]
      BY <1>1
    <2>3. Elems(q) \ {Head(q)} \subseteq Elems(t)
      BY <1>1, <2>2 DEF Elems
    <2>4. Elems(t) \subseteq Elems(q) \ {Head(q)}
      BY <1>1, <2>1 DEF Elems
    <2> QED
      BY <2>3, <2>4
  <1> QED
    BY <1>2, <1>3, <1>4 DEF t
------------------------------------------------------------------------------
\* Shapes

LEMMA InitShapes == Init => Shapes
  <1> SUFFICES ASSUME Init PROVE Shapes
    OBVIOUS
  <1>1. row \in Rows
    BY DEF Init, NoRow, Rows
  <1>2. call \in Calls
    BY DEF Init, NewCall, Calls, CallPlaces
  <1>3. task \in Tasks
    BY DEF Init, NoTask, Tasks, TaskPlaces
  <1>4. slot \in [Replica -> Slot]
    BY DEF Init, EmptySlots, Slot
  <1>5. ask \in Asks
    BY ComprobanteAssumption DEF Init, Asks
  <1> QED
    BY <1>1, <1>2, <1>3, <1>4, <1>5 DEF Init, Shapes

(* Where a request goes next.                                                    *)
LEMMA GoShapes ==
  ASSUME call \in Calls, NEW c \in Call
  PROVE  /\ \A pc \in CallPlaces : Goto(c, pc) => call' \in Calls
         /\ \A doc \in Call \cup {None}, n \in Nat : Answer(c, doc, n) => call' \in Calls
  <1>1. ASSUME NEW pc \in CallPlaces, Goto(c, pc)
        PROVE  call' \in Calls
    BY <1>1 DEF Goto, Calls
  <1>2. ASSUME NEW doc \in Call \cup {None}, NEW n \in Nat, Answer(c, doc, n)
        PROVE  call' \in Calls
    BY <1>2 DEF Answer, Calls, CallPlaces, Ended
  <1> QED
    BY <1>1, <1>2

LEMMA PlaceNames ==
  /\ {"race", "failordinary", "failtimeout"} \subseteq CallPlaces
  /\ {"purge", "insert", "reclaim", "look", "sleep"} \subseteq CallPlaces
  /\ {"conflict", "done", "expired", "terminal", "lapsed", "waited", "failed", "lost"} \subseteq CallPlaces
  BY DEF CallPlaces, ClaimSteps, Ended

(* The queue keeps its shape when the slot is released, and so do the tasks.     *)
LEMMA ReleaseShapes ==
  ASSUME Shapes, NEW r \in Replica
  PROVE  Released(slot[r]) \in Slot /\ Woken(r) \in Tasks
  <1>1. slot[r] \in Slot /\ task \in Tasks
    BY DEF Shapes
  <1>2. slot[r].waiters # <<>> => Tail(slot[r].waiters) \in Seq(Call)
    BY <1>1 DEF Slot
  <1>3. Released(slot[r]) \in Slot
    <2>1. [slot[r] EXCEPT !.active = @ - 1] \in Slot
      BY <1>1 DEF Slot
    <2>2. slot[r].waiters # <<>> => [slot[r] EXCEPT !.waiters = Tail(@)] \in Slot
      BY <1>1, <1>2 DEF Slot
    <2> QED
      BY <2>1, <2>2 DEF Released
  <1>4. \A d \in Call : [task[d] EXCEPT !.pc = "page"] \in [pc : TaskPlaces, aborted : BOOLEAN, row : Nat]
    BY <1>1 DEF Tasks, TaskPlaces
  <1>5. Woken(r) \in Tasks
    BY <1>1, <1>4 DEF Woken, Tasks
  <1> QED
    BY <1>3, <1>5

LEMMA RenderingShapes ==
  ASSUME call \in Calls, task \in Tasks, NEW c \in Call, Rendering(c)
  PROVE  call' \in Calls /\ task' \in Tasks
  <1>1. call' \in Calls
    BY GoShapes, PlaceNames DEF Rendering
  <1>2. task' = task \/ task' = [task EXCEPT ![c].pc = "load"]
    BY DEF Rendering
  <1>3. task' \in Tasks
    BY <1>2 DEF Tasks, TaskPlaces
  <1> QED
    BY <1>1, <1>3

LEMMA ClaimShapes ==
  ASSUME Shapes, NEW c \in Call,
         Ask(c) \/ ClaimPurge(c) \/ ClaimInsert(c) \/ ClaimReclaim(c) \/ ClaimLook(c)
  PROVE  Shapes'
  <1>a. row \in Rows /\ call \in Calls /\ task \in Tasks /\ ask \in Asks
    BY DEF Shapes
  <1>b. Fp(c) \in Nat /\ row.row \in Nat /\ row.doc \in Call \cup {None}
    BY <1>a DEF Asks, Fp, Rows
  <1>1. CASE Ask(c)
    <2>1. task' = task \/ task' = [task EXCEPT ![c].pc = "load"]
      BY <1>1 DEF Ask
    <2>2. task' \in Tasks
      BY <1>a, <2>1 DEF Tasks, TaskPlaces
    <2> QED
      BY <1>1, <1>a, <2>2, GoShapes, PlaceNames DEF Ask, Shapes
  <1>2. CASE ClaimPurge(c)
    <2>1. row' \in Rows
      BY <1>2, <1>a DEF ClaimPurge, Rows, NoRow
    <2> QED
      BY <1>2, <1>a, <2>1, GoShapes, PlaceNames DEF ClaimPurge, Shapes
  <1>3. CASE ClaimInsert(c)
    <2>1. [NoRow EXCEPT !.status = "rendering", !.fp = Fp(c), !.owner = c,
                        !.lease = "live", !.row = row.row + 1] \in Rows
      <3>1. NoRow \in Rows /\ row.row + 1 \in Nat
        BY <1>b DEF Rows, NoRow
      <3> QED
        BY <1>b, <3>1 DEF Rows
    <2>2. row' \in Rows
      BY <1>3, <1>a, <2>1 DEF ClaimInsert
    <2>3. call' \in Calls /\ task' \in Tasks
      BY <1>3, <1>a, GoShapes, PlaceNames, RenderingShapes DEF ClaimInsert
    <2> QED
      BY <1>3, <2>2, <2>3 DEF ClaimInsert, Shapes
  <1>4. CASE ClaimReclaim(c)
    <2>1. row' \in Rows
      BY <1>4, <1>a DEF ClaimReclaim, Rows
    <2>2. call' \in Calls /\ task' \in Tasks
      BY <1>4, <1>a, GoShapes, PlaceNames, RenderingShapes DEF ClaimReclaim
    <2> QED
      BY <1>4, <2>1, <2>2 DEF ClaimReclaim, Shapes
  <1>5. CASE ClaimLook(c)
    <2>1. call' \in Calls
      BY <1>5, <1>a, <1>b, GoShapes, PlaceNames DEF ClaimLook
    <2> QED
      BY <1>5, <2>1 DEF ClaimLook, Shapes
  <1> QED
    BY <1>1, <1>2, <1>3, <1>4, <1>5

LEMMA CoordinateShapes ==
  ASSUME Shapes, NEW c \in Call,
         \/ Deadline(c) \/ FailTimeout(c) \/ FailOrdinary(c)
         \/ Heartbeat(c) \/ WakeInTime(c) \/ WakeLate(c)
  PROVE  Shapes'
  <1>a. row \in Rows /\ call \in Calls /\ task \in Tasks
    BY DEF Shapes
  <1>1. CASE Deadline(c)
    <2>1. task' \in Tasks
      BY <1>1, <1>a DEF Deadline, Tasks
    <2> QED
      BY <1>1, <1>a, <2>1, GoShapes, PlaceNames DEF Deadline, Shapes
  <1>2. CASE FailTimeout(c)
    <2>1. row' \in Rows
      BY <1>2, <1>a DEF FailTimeout, Rows
    <2>2. row.row \in Nat
      BY <1>a DEF Rows
    <2>3. call' \in Calls
      BY <1>2, <1>a, <2>2 DEF FailTimeout, Calls, CallPlaces, ClaimSteps, Ended
    <2> QED
      BY <1>2, <2>1, <2>3 DEF FailTimeout, Shapes
  <1>3. CASE FailOrdinary(c)
    <2>1. row' \in Rows
      BY <1>3, <1>a DEF FailOrdinary, Rows
    <2> QED
      BY <1>3, <1>a, <2>1, GoShapes, PlaceNames DEF FailOrdinary, Shapes
  <1>4. CASE Heartbeat(c)
    <2>1. row' \in Rows
      BY <1>4, <1>a DEF Heartbeat, Rows
    <2> QED
      BY <1>4, <2>1 DEF Heartbeat, Shapes
  <1>5. CASE WakeInTime(c) \/ WakeLate(c)
    <2>1. call' \in Calls
      BY <1>5, <1>a, GoShapes, PlaceNames DEF WakeInTime, WakeLate
    <2> QED
      BY <1>5, <2>1 DEF WakeInTime, WakeLate, Shapes
  <1> QED
    BY <1>1, <1>2, <1>3, <1>4, <1>5

(* A task that is over, with a document or an error, answers at most its own     *)
(* request.                                                                      *)
LEMMA OverShapes ==
  ASSUME call \in Calls, NEW c \in Call, NEW tasks \in Tasks
  PROVE  /\ Thrown(c, tasks) => call' \in Calls /\ task' \in Tasks
         /\ \A doc \in Call \cup {None}, n \in Nat :
              Resolved(c, tasks, doc, n) => call' \in Calls /\ task' \in Tasks
  <1>1. [tasks EXCEPT ![c].pc = "over"] \in Tasks
    BY DEF Tasks, TaskPlaces
  <1>2. Thrown(c, tasks) => call' \in Calls
    BY GoShapes, PlaceNames DEF Thrown
  <1>3. \A doc \in Call \cup {None}, n \in Nat : Resolved(c, tasks, doc, n) => call' \in Calls
    BY GoShapes DEF Resolved
  <1> QED
    BY <1>1, <1>2, <1>3 DEF Thrown, Resolved

LEMMA AcquireShapes ==
  ASSUME task \in Tasks, slot \in [Replica -> Slot], NEW c \in Call, At(c) \in Replica, Acquire(c)
  PROVE  call' = call /\ slot' \in [Replica -> Slot] /\ task' \in Tasks
  <1>1. /\ [task EXCEPT ![c].pc = "page"] \in Tasks
        /\ [task EXCEPT ![c].pc = "queue"] \in Tasks
    BY DEF Tasks, TaskPlaces
  <1>2. [slot EXCEPT ![At(c)].active = @ + 1] \in [Replica -> Slot]
    BY DEF Slot
  <1>3. Append(slot[At(c)].waiters, c) \in Seq(Call)
    BY DEF Slot
  <1>4. [slot EXCEPT ![At(c)].waiters = Append(@, c)] \in [Replica -> Slot]
    BY <1>3 DEF Slot
  <1> QED
    BY <1>1, <1>2, <1>4 DEF Acquire

LEMMA RenderShapes ==
  ASSUME Shapes, NEW c \in Call, Render(c)
  PROVE  Shapes'
  <1>a. row \in Rows /\ call \in Calls /\ task \in Tasks /\ slot \in [Replica -> Slot]
    BY DEF Shapes
  <1>b. At(c) \in Replica
    BY DEF Shapes, Asks, At
  <1>1. CASE Load(c)
    <2>1. [task EXCEPT ![c].pc = "init"] \in Tasks
      BY <1>a DEF Tasks, TaskPlaces
    <2>2. call' \in Calls /\ task' \in Tasks /\ slot' \in [Replica -> Slot]
      BY <1>1, <1>a, <1>b, <2>1, OverShapes, AcquireShapes DEF Load
    <2> QED
      BY <1>1, <2>2 DEF Load, Shapes
  <1>2. CASE Launch(c)
    <2>1. call' \in Calls /\ task' \in Tasks /\ slot' \in [Replica -> Slot]
      BY <1>2, <1>a, <1>b, OverShapes, AcquireShapes DEF Launch
    <2>2. browser' \in [Replica -> {"none", "up", "broken"}]
      BY <1>2, <1>b DEF Launch, Shapes
    <2> QED
      BY <1>2, <2>1, <2>2 DEF Launch, Shapes
  <1>3. CASE PrintPage(c)
    <2>1. Released(slot[At(c)]) \in Slot /\ Woken(At(c)) \in Tasks
      BY <1>b, ReleaseShapes
    <2>2. [Woken(At(c)) EXCEPT ![c].pc = "save"] \in Tasks
      BY <2>1 DEF Tasks, TaskPlaces
    <2>3. call' \in Calls /\ task' \in Tasks
      BY <1>3, <1>a, <2>1, <2>2, OverShapes DEF PrintPage
    <2>4. slot' \in [Replica -> Slot]
      BY <1>3, <1>a, <1>b, <2>1 DEF PrintPage
    <2> QED
      BY <1>3, <2>3, <2>4 DEF PrintPage, Shapes
  <1>4. CASE Complete(c)
    <2>1. row' \in Rows
      BY <1>4, <1>a DEF Complete, Rows
    <2>2. row.row \in Nat
      BY <1>a DEF Rows
    <2>3. [task EXCEPT ![c].pc = "audit", ![c].row = row.row] \in Tasks
      BY <1>a, <2>2 DEF Tasks, TaskPlaces
    <2>4. call' \in Calls /\ task' \in Tasks
      BY <1>4, <1>a, <2>3, OverShapes DEF Complete
    <2> QED
      BY <1>4, <2>1, <2>4 DEF Complete, Shapes
  <1>5. CASE Audit(c)
    <2>1. task[c].row \in Nat
      BY <1>a DEF Tasks
    <2> QED
      BY <1>5, <1>a, <2>1, OverShapes DEF Audit, Shapes
  <1> QED
    BY <1>1, <1>2, <1>3, <1>4, <1>5 DEF Render

LEMMA ShapesStep == Shapes /\ [Next]_vars => Shapes'
  <1> SUFFICES ASSUME Shapes, [Next]_vars PROVE Shapes'
    OBVIOUS
  <1>1. CASE \E c \in Call : Ask(c) \/ Coordinate(c) \/ Heartbeat(c) \/ WakeInTime(c) \/ WakeLate(c)
    BY <1>1, ClaimShapes, CoordinateShapes DEF Coordinate
  <1>2. CASE \E c \in Call : Render(c)
    BY <1>2, RenderShapes
  <1>3. CASE LeaseExpires \/ RetentionEnds
    <2>1. /\ [row EXCEPT !.lease = "expired"] \in Rows
          /\ [row EXCEPT !.old = TRUE] \in Rows
      BY DEF Shapes, Rows
    <2> QED
      BY <1>3, <2>1 DEF LeaseExpires, RetentionEnds, Shapes
  <1>4. CASE \E r \in Replica : Crash(r)
    <2>1. PICK r \in Replica : Crash(r)
      BY <1>4
    <2>2. call' \in Calls
      BY <2>1 DEF Crash, Shapes, Calls, CallPlaces, Ended
    <2>3. task' \in Tasks
      BY <2>1 DEF Crash, Shapes, Tasks, TaskPlaces
    <2>4. slot' \in [Replica -> Slot]
      BY <2>1 DEF Crash, Shapes, Slot, EmptySlots
    <2> QED
      BY <2>1, <2>2, <2>3, <2>4 DEF Crash, Shapes
  <1>5. CASE UNCHANGED vars
    BY <1>5 DEF vars, Shapes
  <1> QED
    BY <1>1, <1>2, <1>3, <1>4, <1>5 DEF Next
------------------------------------------------------------------------------
\* The inductive invariant

Printing(r) == {c \in Call : At(c) = r /\ task[c].pc = "page"}
Queued(r) == {c \in Call : At(c) = r /\ task[c].pc = "queue"}

\* Who holds and who awaits the pages of a replica
PagesOf(r) ==
  /\ slot[r].active = Cardinality(Printing(r))
  /\ slot[r].active <= Capacity
  /\ slot[r].waiters # <<>> => slot[r].active = Capacity
  /\ Elems(slot[r].waiters) = Queued(r)
  /\ Distinct(slot[r].waiters)
PagesInv == \A r \in Replica : PagesOf(r)

\* A request that has still to be given the lease has no task.
TaskInv ==
  \A c \in Call :
    call[c].pc = "idle" \/ (call[c].pc \in ClaimSteps /\ ~call[c].last)
    => task[c].pc = "none"

\* The row belongs to requests that ask for what it was inserted for.
RowInv ==
  /\ (row.status = "rendering") <=> (row.owner # None)
  /\ (row.status = "complete") <=> (row.doc # None)
  /\ row.lease = "live" => row.status = "rendering"
  /\ row.owner # None => Fp(row.owner) = row.fp
  /\ row.doc # None => Fp(row.doc) = row.fp

\* A document of row n of the key that request c has, or that its task is about
\* to return
Issued(c, doc, n) ==
  \/ call[c].pc = "done" /\ ~IsForm(c) /\ doc = call[c].doc /\ n = call[c].row
  \/ task[c].pc = "audit" /\ doc = c /\ n = task[c].row

\* What was issued is the one document of its row, which keeps it if it is the
\* present one.
IssueInv ==
  \A c \in Call, doc \in Call \cup {None}, n \in Nat :
    Issued(c, doc, n)
    => /\ doc # None /\ Fp(c) = Fp(doc)
       /\ n <= row.row
       /\ n = row.row /\ row.status # "none" => row.status = "complete" /\ row.doc = doc
       /\ \A d \in Call, other \in Call \cup {None} : Issued(d, other, n) => other = doc

\* A stored timeout stays.
ExpiredInv ==
  \A c \in Call :
    call[c].pc = "expired" => row.row = call[c].row /\ row.status = "timeout"

Inv == Shapes /\ PagesInv /\ TaskInv /\ RowInv /\ IssueInv /\ ExpiredInv
------------------------------------------------------------------------------
\* The pages

(* Nothing changes for a replica of which no task takes, awaits or gives back a  *)
(* page.                                                                         *)
LEMMA PagesStand ==
  ASSUME NEW r \in Replica, PagesOf(r), ask' = ask, slot'[r] = slot[r],
         \A c \in Call : At(c) = r => /\ task'[c].pc = "page" <=> task[c].pc = "page"
                                      /\ task'[c].pc = "queue" <=> task[c].pc = "queue"
  PROVE  PagesOf(r)'
  <1>1. Printing(r)' = Printing(r) /\ Queued(r)' = Queued(r)
    BY DEF Printing, Queued, At
  <1> QED
    BY <1>1 DEF PagesOf

(* One place in the code that no task of the pages is at, or leaves, at once.    *)
LEMMA PagesUntouched ==
  ASSUME PagesInv, UNCHANGED <<slot, ask>>,
         \A c \in Call : /\ task'[c].pc = "page" <=> task[c].pc = "page"
                         /\ task'[c].pc = "queue" <=> task[c].pc = "queue"
  PROVE  PagesInv'
  BY PagesStand DEF PagesInv

LEMMA PrintingFinite ==
  ASSUME NEW r
  PROVE  IsFiniteSet(Printing(r)) /\ Cardinality(Printing(r)) \in Nat
  BY ComprobanteAssumption, FS_Subset, FS_CardinalityType DEF Printing

LEMMA AcquirePages ==
  ASSUME Shapes, PagesInv, NEW c \in Call, task[c].pc \in {"load", "init"}, Acquire(c), ask' = ask
  PROVE  PagesInv'
  <1>a. At(c) \in Replica /\ task \in Tasks /\ slot \in [Replica -> Slot]
    BY DEF Shapes, Asks, At
  <1>b. slot[At(c)] \in Slot /\ slot[At(c)].waiters \in Seq(Call) /\ PagesOf(At(c))
    BY <1>a DEF Slot, PagesInv
  <1>1. ASSUME NEW r \in Replica, r # At(c)
        PROVE  PagesOf(r)'
    <2>1. slot'[r] = slot[r]
      BY <1>1, <1>a DEF Acquire
    <2>2. \A d \in Call : d # c => task'[d] = task[d]
      BY <1>a DEF Acquire, Tasks
    <2> QED
      BY <1>1, <2>1, <2>2, PagesStand DEF PagesInv
  <1>2. CASE slot[At(c)].active < Capacity
    <2>1. /\ slot'[At(c)].active = slot[At(c)].active + 1
          /\ slot'[At(c)].waiters = slot[At(c)].waiters
      BY <1>2, <1>a, <1>b DEF Acquire, Slot
    <2>2. task'[c].pc = "page" /\ \A d \in Call : d # c => task'[d] = task[d]
      BY <1>2, <1>a DEF Acquire, Tasks
    <2>3. /\ Printing(At(c))' = Printing(At(c)) \cup {c}
          /\ c \notin Printing(At(c))
          /\ Queued(At(c))' = Queued(At(c))
      BY <2>2 DEF Printing, Queued, At
    <2>4. Cardinality(Printing(At(c))') = Cardinality(Printing(At(c))) + 1
      BY <2>3, PrintingFinite, FS_AddElement
    <2>5. slot[At(c)].active \in Int /\ Capacity \in Nat
      BY <1>b, ComprobanteAssumption DEF Slot
    <2>6. At(c)' = At(c)
      BY DEF At
    <2>7. PagesOf(At(c))'
      BY <1>2, <1>b, <2>1, <2>3, <2>4, <2>5, <2>6 DEF PagesOf
    <2> QED
      BY <1>1, <2>6, <2>7 DEF PagesInv
  <1>3. CASE ~(slot[At(c)].active < Capacity)
    <2>1. /\ slot'[At(c)].active = slot[At(c)].active
          /\ slot'[At(c)].waiters = Append(slot[At(c)].waiters, c)
      BY <1>3, <1>a, <1>b DEF Acquire, Slot
    <2>2. task'[c].pc = "queue" /\ \A d \in Call : d # c => task'[d] = task[d]
      BY <1>3, <1>a DEF Acquire, Tasks
    <2>3. /\ Printing(At(c))' = Printing(At(c))
          /\ c \notin Queued(At(c))
          /\ Queued(At(c))' = Queued(At(c)) \cup {c}
      BY <2>2 DEF Printing, Queued, At
    <2>4. /\ Elems(slot'[At(c)].waiters) = Elems(slot[At(c)].waiters) \cup {c}
          /\ Distinct(slot'[At(c)].waiters)
      BY <1>b, <2>1, <2>3, AppendElems DEF PagesOf
    <2>5. slot[At(c)].active = Capacity
      BY <1>3, <1>b, ComprobanteAssumption DEF Slot, PagesOf
    <2>6. At(c)' = At(c)
      BY DEF At
    <2>7. PagesOf(At(c))'
      BY <1>b, <2>1, <2>3, <2>4, <2>5, <2>6 DEF PagesOf
    <2> QED
      BY <1>1, <2>6, <2>7 DEF PagesInv
  <1> QED
    BY <1>2, <1>3

(* The tasks a release wakes: the first of the queue, if there is one.           *)
LEMMA WokenIs ==
  ASSUME Shapes, PagesInv, NEW r \in Replica, NEW d \in Call
  PROVE  Woken(r)[d].pc
           = IF slot[r].waiters # <<>> /\ d = Head(slot[r].waiters) THEN "page" ELSE task[d].pc
  <1>a. task \in Tasks /\ slot[r].waiters \in Seq(Call) /\ Distinct(slot[r].waiters)
    BY DEF Shapes, Slot, PagesInv, PagesOf
  <1> DEFINE left == {slot[r].waiters[i] : i \in DOMAIN slot[r].waiters}
                     \ {Released(slot[r]).waiters[i] : i \in DOMAIN Released(slot[r]).waiters}
  <1>1. left = Elems(slot[r].waiters) \ Elems(Released(slot[r]).waiters)
    BY DEF Elems
  <1>2. Woken(r)[d].pc = IF d \in left THEN "page" ELSE task[d].pc
    BY <1>a DEF Woken, Tasks
  <1>3. CASE slot[r].waiters = <<>>
    <2>1. Elems(slot[r].waiters) = {}
      BY <1>3 DEF Elems
    <2> QED
      BY <1>1, <1>2, <1>3, <2>1
  <1>4. CASE slot[r].waiters # <<>>
    <2>1. Released(slot[r]).waiters = Tail(slot[r].waiters)
      BY <1>4 DEF Released, Shapes, Slot
    <2>2. left = {Head(slot[r].waiters)}
      BY <1>a, <1>1, <1>4, <2>1, TailElems
    <2> QED
      BY <1>2, <1>4, <2>2
  <1> QED
    BY <1>3, <1>4

LEMMA PrintPages ==
  ASSUME Shapes, PagesInv, NEW c \in Call, PrintPage(c)
  PROVE  PagesInv'
  <1>0. PICK r \in Replica : r = At(c)
    BY DEF Shapes, Asks, At
  <1> DEFINE q == slot[r].waiters
  <1>a. task \in Tasks /\ slot \in [Replica -> Slot] /\ At(c)' = r
    BY <1>0 DEF Shapes, At, PrintPage
  <1>b. /\ slot[r] \in Slot /\ slot[r].active \in Int /\ q \in Seq(Call) /\ PagesOf(r)
        /\ Woken(r) \in Tasks /\ Capacity \in Nat
    BY <1>a, ReleaseShapes, ComprobanteAssumption DEF Slot, PagesInv
  <1>1. c \in Printing(r) /\ c \notin Queued(r)
    BY <1>0 DEF PrintPage, Printing, Queued
  <1>2. q # <<>> => Head(q) \in Queued(r)
    BY <1>b, TailElems DEF PagesOf
  <1>3. /\ task'[c].pc \in {"save", "over"}
        /\ \A d \in Call : d # c => task'[d].pc
             = IF q # <<>> /\ d = Head(q) THEN "page" ELSE task[d].pc
    <2>1. \/ task' = [Woken(r) EXCEPT ![c].pc = "save"]
          \/ task' = [Woken(r) EXCEPT ![c].pc = "over"]
      BY <1>0 DEF PrintPage, Resolved, Thrown
    <2>2. /\ task'[c].pc \in {"save", "over"}
          /\ \A d \in Call : d # c => task'[d] = Woken(r)[d]
      BY <1>b, <2>1 DEF Tasks
    <2> QED
      BY <1>a, <2>2, WokenIs
  <1>4. slot'[r] = Released(slot[r]) /\ \A s \in Replica : s # r => slot'[s] = slot[s]
    BY <1>0, <1>a DEF PrintPage
  <1> HIDE DEF q
  <1>5. ASSUME NEW s \in Replica, s # r
        PROVE  PagesOf(s)'
    <2>1. \A d \in Call : At(d) = s => d # c /\ d \notin Queued(r)
      BY <1>0, <1>5 DEF Queued
    <2>2. \A d \in Call : At(d) = s => task'[d].pc = task[d].pc
      BY <1>2, <1>3, <2>1
    <2> QED
      BY <1>4, <1>5, <2>2, PagesStand DEF PagesInv, PrintPage
  <1>6. PagesOf(r)'
    <2>1. At(c) = r /\ ask' = ask /\ IsFiniteSet(Printing(r)) /\ Cardinality(Printing(r)) \in Nat
      BY <1>0, PrintingFinite DEF PrintPage
    <2>2. CASE q = <<>>
      <3>1. Printing(r)' = Printing(r) \ {c} /\ Queued(r)' = Queued(r)
        BY <1>3, <2>1, <2>2, <1>1 DEF Printing, Queued, At
      <3>2. Cardinality(Printing(r)') = Cardinality(Printing(r)) - 1
        BY <1>1, <2>1, <3>1, FS_RemoveElement
      <3>3. slot'[r].active = slot[r].active - 1 /\ slot'[r].waiters = q
        BY <1>b, <1>4, <2>2 DEF Released, Slot, q
      <3> QED
        BY <1>b, <2>2, <3>1, <3>2, <3>3 DEF PagesOf, q
    <2>3. CASE q # <<>>
      <3>1. Head(q) \in Queued(r) /\ Head(q) # c /\ Head(q) \notin Printing(r)
        BY <1>1, <1>2, <2>3 DEF Queued, Printing
      <3>2. /\ Printing(r)' = (Printing(r) \ {c}) \cup {Head(q)}
            /\ Queued(r)' = Queued(r) \ {Head(q)}
        BY <1>1, <1>3, <2>1, <2>3, <3>1 DEF Printing, Queued, At
      <3>3. Cardinality(Printing(r)') = Cardinality(Printing(r))
        <4>1. /\ IsFiniteSet(Printing(r) \ {c})
              /\ Cardinality(Printing(r) \ {c}) = Cardinality(Printing(r)) - 1
          BY <1>1, <2>1, FS_RemoveElement
        <4>2. Cardinality((Printing(r) \ {c}) \cup {Head(q)}) = Cardinality(Printing(r) \ {c}) + 1
          BY <3>1, <4>1, FS_AddElement
        <4> QED
          BY <2>1, <3>2, <4>1, <4>2
      <3>4. slot'[r].active = slot[r].active /\ slot'[r].waiters = Tail(q)
        BY <1>b, <1>4, <2>3 DEF Released, Slot, q
      <3>5. Elems(Tail(q)) = Elems(q) \ {Head(q)} /\ Distinct(Tail(q))
        BY <1>b, <2>3, TailElems DEF PagesOf, q
      <3> QED
        BY <1>b, <2>3, <3>2, <3>3, <3>4, <3>5 DEF PagesOf, q
    <2> QED
      BY <2>2, <2>3
  <1> QED
    BY <1>5, <1>6 DEF PagesInv

(* A task appears only for a request that has none, and the rest of the code     *)
(* between two places of a task leaves the pages alone.                          *)
LEMMA LoadsFromNone ==
  ASSUME Shapes, TaskInv, NEW c \in Call, Ask(c) \/ ClaimInsert(c) \/ ClaimReclaim(c)
  PROVE  \/ task' = task
         \/ task[c].pc = "none" /\ task' = [task EXCEPT ![c].pc = "load"]
  <1>1. CASE Ask(c)
    BY <1>1 DEF Ask, TaskInv
  <1>2. CASE ClaimInsert(c) \/ ClaimReclaim(c)
    <2>1. call[c].pc \in ClaimSteps
      BY <1>2 DEF ClaimInsert, ClaimReclaim, ClaimSteps
    <2>2. task' = task \/ (~call[c].last /\ task' = [task EXCEPT ![c].pc = "load"])
      BY <1>2 DEF ClaimInsert, ClaimReclaim, Rendering
    <2> QED
      BY <2>1, <2>2 DEF TaskInv
  <1> QED
    BY <1>1, <1>2

LEMMA PagesStep == Shapes /\ TaskInv /\ PagesInv /\ [Next]_vars => PagesInv'
  <1> SUFFICES ASSUME Shapes, TaskInv, PagesInv, [Next]_vars PROVE PagesInv'
    OBVIOUS
  <1>a. task \in Tasks
    BY DEF Shapes
  <1>1. ASSUME NEW c \in Call, Ask(c) \/ ClaimInsert(c) \/ ClaimReclaim(c)
        PROVE  PagesInv'
    <2>1. \/ task' = task
          \/ task[c].pc = "none" /\ task' = [task EXCEPT ![c].pc = "load"]
      BY <1>1, LoadsFromNone
    <2>2. \A d \in Call : /\ task'[d].pc = "page" <=> task[d].pc = "page"
                          /\ task'[d].pc = "queue" <=> task[d].pc = "queue"
      BY <1>a, <2>1 DEF Tasks
    <2> QED
      BY <1>1, <2>2, PagesUntouched DEF Ask, ClaimInsert, ClaimReclaim
  <1>2. ASSUME NEW c \in Call,
               \/ ClaimPurge(c) \/ ClaimLook(c) \/ FailTimeout(c) \/ FailOrdinary(c)
               \/ Heartbeat(c) \/ WakeInTime(c) \/ WakeLate(c)
        PROVE  PagesInv'
    <2>1. UNCHANGED <<task, slot, ask>>
      BY <1>2 DEF ClaimPurge, ClaimLook, FailTimeout, FailOrdinary, Heartbeat, WakeInTime, WakeLate
    <2> QED
      BY <2>1, PagesUntouched
  <1>3. ASSUME NEW c \in Call, Deadline(c)
        PROVE  PagesInv'
    <2>1. \A d \in Call : task'[d].pc = task[d].pc
      BY <1>3, <1>a DEF Deadline, Tasks
    <2> QED
      BY <1>3, <2>1, PagesUntouched DEF Deadline
  <1>4. ASSUME NEW c \in Call, Load(c) \/ Launch(c)
        PROVE  PagesInv'
    <2>1. task[c].pc \in {"load", "init"} /\ ask' = ask
      BY <1>4 DEF Load, Launch
    <2>2. CASE Acquire(c)
      BY <2>1, <2>2, AcquirePages
    <2>3. CASE ~Acquire(c)
      <3>1. /\ slot' = slot
            /\ \/ task' = [task EXCEPT ![c].pc = "init"]
               \/ task' = [task EXCEPT ![c].pc = "over"]
        BY <1>4, <2>3 DEF Load, Launch, Thrown
      <3>2. \A d \in Call : /\ task'[d].pc = "page" <=> task[d].pc = "page"
                            /\ task'[d].pc = "queue" <=> task[d].pc = "queue"
        BY <1>a, <2>1, <3>1 DEF Tasks
      <3> QED
        BY <2>1, <3>1, <3>2, PagesUntouched
    <2> QED
      BY <2>2, <2>3
  <1>5. ASSUME NEW c \in Call, PrintPage(c)
        PROVE  PagesInv'
    BY <1>5, PrintPages
  <1>6. ASSUME NEW c \in Call, Complete(c) \/ Audit(c)
        PROVE  PagesInv'
    <2>1. /\ task[c].pc \in {"save", "audit"} /\ UNCHANGED <<slot, ask>>
          /\ \/ task' = [task EXCEPT ![c].pc = "audit", ![c].row = row.row]
             \/ task' = [task EXCEPT ![c].pc = "over"]
      BY <1>6 DEF Complete, Audit, Thrown, Resolved
    <2>2. \A d \in Call : /\ task'[d].pc = "page" <=> task[d].pc = "page"
                          /\ task'[d].pc = "queue" <=> task[d].pc = "queue"
      BY <1>a, <2>1 DEF Tasks
    <2> QED
      BY <2>1, <2>2, PagesUntouched
  <1>7. ASSUME NEW r \in Replica, Crash(r)
        PROVE  PagesInv'
    <2>1. \A d \in Call : task'[d].pc = IF At(d) = r /\ task[d].pc # "none" THEN "over" ELSE task[d].pc
      BY <1>7, <1>a DEF Crash, Tasks
    <2>2. /\ ask' = ask /\ slot'[r] = EmptySlots
          /\ \A s \in Replica : s # r => slot'[s] = slot[s]
      BY <1>7 DEF Crash, Shapes
    <2>3. ASSUME NEW s \in Replica, s # r
          PROVE  PagesOf(s)'
      BY <2>1, <2>2, <2>3, PagesStand DEF PagesInv
    <2>4. Printing(r)' = {} /\ Queued(r)' = {}
      BY <2>1, <2>2 DEF Printing, Queued, At
    <2>5. Cardinality(Printing(r)') = 0
      BY <2>4, FS_EmptySet
    <2>6. Elems(<<>>) = {} /\ Distinct(<<>>)
      BY DEF Elems, Distinct
    <2>7. PagesOf(r)'
      BY <2>2, <2>4, <2>5, <2>6, ComprobanteAssumption DEF PagesOf, EmptySlots
    <2> QED
      BY <2>3, <2>7 DEF PagesInv
  <1>8. CASE LeaseExpires \/ RetentionEnds \/ UNCHANGED vars
    <2>1. UNCHANGED <<task, slot, ask>>
      BY <1>8 DEF LeaseExpires, RetentionEnds, vars
    <2> QED
      BY <2>1, PagesUntouched
  <1> QED
    BY <1>1, <1>2, <1>3, <1>4, <1>5, <1>6, <1>7, <1>8 DEF Next, Coordinate, Render

------------------------------------------------------------------------------
\* The tasks and the row

(* A request leaves the claim for good, unless its timeout was lost.             *)
LEMMA TaskStep == Shapes /\ PagesInv /\ TaskInv /\ [Next]_vars => TaskInv'
  <1> SUFFICES ASSUME Shapes, PagesInv, TaskInv, [Next]_vars PROVE TaskInv'
    OBVIOUS
  <1>a. task \in Tasks /\ call \in Calls
    BY DEF Shapes
  <1>1. ASSUME NEW c \in Call, \/ ClaimPurge(c) \/ ClaimLook(c) \/ FailTimeout(c) \/ FailOrdinary(c)
                               \/ WakeInTime(c) \/ WakeLate(c)
        PROVE  TaskInv'
    <2>1. /\ task' = task
          /\ \A d \in Call : d # c => call'[d] = call[d]
          /\ \/ call[c].pc \in ClaimSteps /\ call'[c].last = call[c].last /\ call'[c].pc # "idle"
             \/ call'[c].last = TRUE /\ call'[c].pc # "idle"
             \/ call'[c].pc \in Ended
      <3>1. CASE ClaimPurge(c)
        BY <1>a, <3>1 DEF ClaimPurge, Goto, Answer, Calls, ClaimSteps, Ended
      <3>2. CASE ClaimLook(c)
        <4>1. task' = task /\ call[c].pc = "look"
          BY <3>2 DEF ClaimLook
        <4>2. \/ Answer(c, row.doc, row.row)
              \/ \E pc \in {"lapsed", "conflict", "terminal", "sleep"} : Goto(c, pc)
          BY <3>2 DEF ClaimLook
        <4>3. CASE Answer(c, row.doc, row.row)
          BY <1>a, <4>1, <4>3 DEF Answer, Calls, Ended
        <4>4. CASE \E pc \in {"lapsed", "conflict", "terminal", "sleep"} : Goto(c, pc)
          BY <1>a, <4>1, <4>4 DEF Goto, Calls, ClaimSteps
        <4> QED
          BY <4>2, <4>3, <4>4
      <3>3. CASE FailTimeout(c) \/ FailOrdinary(c)
        BY <1>a, <3>3 DEF FailTimeout, FailOrdinary, Goto, Answer, Calls, ClaimSteps, Ended
      <3>4. CASE WakeInTime(c) \/ WakeLate(c)
        BY <1>a, <3>4 DEF WakeInTime, WakeLate, Goto, Answer, Calls, ClaimSteps, Ended
      <3> QED
        BY <1>1, <3>1, <3>2, <3>3, <3>4
    <2> QED
      BY <2>1 DEF TaskInv, Ended, ClaimSteps
  <1>2. ASSUME NEW c \in Call, Ask(c) \/ ClaimInsert(c) \/ ClaimReclaim(c)
        PROVE  TaskInv'
    <2>1. \/ task' = task
          \/ task[c].pc = "none" /\ task' = [task EXCEPT ![c].pc = "load"]
      BY <1>2, LoadsFromNone
    <2>2. /\ \A d \in Call : d # c => call'[d] = call[d] /\ task'[d] = task[d]
          /\ \/ task' = task /\ call'[c].last = call[c].last
                /\ (call[c].pc = "idle" \/ call[c].pc \in ClaimSteps) /\ call'[c].pc # "idle"
             \/ call'[c].pc \in {"race", "lapsed"}
      BY <1>2, <1>a, <2>1 DEF Ask, ClaimInsert, ClaimReclaim, Rendering, Goto, Calls, Tasks, ClaimSteps
    <2> QED
      BY <2>2 DEF TaskInv, ClaimSteps
  <1>3. ASSUME NEW c \in Call, Deadline(c) \/ Render(c)
        PROVE  TaskInv'
    <2>1. \A d \in Call : call'[d].pc = "idle" \/ call'[d].pc \in ClaimSteps
                          => call'[d] = call[d]
      <3>1. CASE Deadline(c)
        BY <1>a, <3>1 DEF Deadline, Goto, Answer, Calls, ClaimSteps
      <3>2. CASE Load(c) \/ Launch(c)
        BY <1>a, <3>2 DEF Load, Launch, Acquire, Thrown, Resolved, Goto, Answer, Calls, ClaimSteps
      <3>3. CASE PrintPage(c) \/ Complete(c) \/ Audit(c)
        <4>1. \/ call' = call \/ \E pc \in {"failed", "failordinary"} : Goto(c, pc)
              \/ \E doc, n : Answer(c, doc, n)
          BY <3>3 DEF PrintPage, Complete, Audit, Thrown, Resolved
        <4> QED
          BY <1>a, <4>1 DEF Goto, Answer, Calls, ClaimSteps
      <3> QED
        BY <1>3, <3>1, <3>2, <3>3 DEF Render
    <2>2. \A d \in Call : task[d].pc = "none" => task'[d].pc = "none"
      <3>1. CASE PrintPage(c)
        <4>1. At(c) \in Replica /\ slot[At(c)].waiters \in Seq(Call) /\ PagesOf(At(c))
          BY DEF Shapes, Asks, At, Slot, PagesInv
        <4>2. \A d \in Call : task[d].pc = "none" => Woken(At(c))[d].pc = "none"
          <5>1. slot[At(c)].waiters # <<>> => Head(slot[At(c)].waiters) \in Queued(At(c))
            BY <4>1, TailElems DEF PagesOf
          <5> QED
            BY <4>1, <5>1, WokenIs DEF Queued
        <4>3. /\ Woken(At(c)) \in Tasks /\ task[c].pc = "page"
              /\ \/ task' = [Woken(At(c)) EXCEPT ![c].pc = "save"]
                 \/ task' = [Woken(At(c)) EXCEPT ![c].pc = "over"]
          BY <3>1, <4>1, ReleaseShapes DEF PrintPage, Resolved, Thrown
        <4> QED
          BY <4>2, <4>3 DEF Tasks
      <3>2. CASE Deadline(c)
        BY <1>a, <3>2 DEF Deadline, Tasks
      <3>3. CASE Load(c) \/ Launch(c) \/ Complete(c) \/ Audit(c)
        BY <1>a, <3>3 DEF Load, Launch, Complete, Audit, Acquire, Thrown, Resolved, Tasks
      <3> QED
        BY <1>3, <3>1, <3>2, <3>3 DEF Render
    <2> QED
      BY <2>1, <2>2 DEF TaskInv
  <1>4. ASSUME NEW r \in Replica, Crash(r)
        PROVE  TaskInv'
    BY <1>4, <1>a DEF Crash, TaskInv, Tasks, Calls, ClaimSteps
  <1>5. CASE LeaseExpires \/ RetentionEnds \/ UNCHANGED vars \/ \E c \in Call : Heartbeat(c)
    BY <1>5 DEF LeaseExpires, RetentionEnds, vars, Heartbeat, TaskInv
  <1> QED
    BY <1>1, <1>2, <1>3, <1>4, <1>5 DEF Next, Coordinate, Render

\* What no step does to the row: it comes back under a later number, and is
\* complete with the same document, or timed out, until it goes.
RowKeeps ==
  /\ row'.row >= row.row
  /\ row'.row = row.row /\ row'.status # "none"
     => /\ row.status # "none"
        /\ row.status = "complete" => row'.status = "complete" /\ row'.doc = row.doc
  /\ row.status = "timeout" => row'.status = "timeout" /\ row'.row = row.row

LEMMA RowStep == Shapes /\ RowInv /\ [Next]_vars => RowInv' /\ RowKeeps
  <1> SUFFICES ASSUME Shapes, RowInv, [Next]_vars PROVE RowInv' /\ RowKeeps
    OBVIOUS
  <1>a. row \in Rows /\ ask' = ask
    BY DEF Shapes, Next, Ask, Coordinate, Render, ClaimPurge, ClaimInsert, ClaimReclaim, ClaimLook,
           Deadline, FailTimeout, FailOrdinary, Load, Launch, PrintPage, Complete, Audit, Heartbeat,
           WakeInTime, WakeLate, LeaseExpires, RetentionEnds, Crash, vars
  <1>b. None \notin Call /\ row.row \in Nat
    BY <1>a, ComprobanteAssumption DEF Rows
  <1>1. CASE row' = row
    BY <1>a, <1>b, <1>1 DEF RowInv, RowKeeps, Fp
  <1>2. CASE \E c \in Call : ClaimPurge(c) /\ row' # row
    BY <1>a, <1>b, <1>2 DEF ClaimPurge, Purges, NoRow, RowInv, RowKeeps, Rows
  <1>3. ASSUME NEW c \in Call, ClaimInsert(c), row' # row
        PROVE  RowInv' /\ RowKeeps
    <2>1. /\ row.status = "none" /\ row'.status = "rendering" /\ row'.owner = c
          /\ row'.doc = None /\ row'.fp = Fp(c) /\ row'.row = row.row + 1
      BY <1>3 DEF ClaimInsert, NoRow
    <2> QED
      BY <1>a, <1>b, <2>1 DEF RowInv, RowKeeps, Fp
  <1>4. ASSUME NEW c \in Call, ClaimReclaim(c), row' # row
        PROVE  RowInv' /\ RowKeeps
    <2>1. /\ row.status \in {"failed", "rendering"} /\ row.fp = Fp(c)
          /\ row'.status = "rendering" /\ row'.owner = c
          /\ row'.doc = row.doc /\ row'.fp = row.fp /\ row'.row = row.row
      BY <1>a, <1>4 DEF ClaimReclaim, Reclaims, Rows
    <2> QED
      BY <1>a, <1>b, <2>1 DEF RowInv, RowKeeps, Fp
  <1>5. ASSUME NEW c \in Call, FailTimeout(c) \/ FailOrdinary(c), row' # row
        PROVE  RowInv' /\ RowKeeps
    <2>1. /\ row.status = "rendering" /\ row'.status \in {"timeout", "failed"}
          /\ row'.owner = None /\ row'.lease = "expired"
          /\ row'.doc = row.doc /\ row'.fp = row.fp /\ row'.row = row.row
      BY <1>a, <1>5 DEF FailTimeout, FailOrdinary, Owns, Rows
    <2> QED
      BY <1>a, <1>b, <2>1 DEF RowInv, RowKeeps, Fp
  <1>6. ASSUME NEW c \in Call, Complete(c), row' # row
        PROVE  RowInv' /\ RowKeeps
    <2>1. /\ row.status = "rendering" /\ row.owner = c /\ row'.status = "complete"
          /\ row'.owner = None /\ row'.lease = "expired"
          /\ row'.doc = c /\ row'.fp = row.fp /\ row'.row = row.row
      BY <1>a, <1>6 DEF Complete, Owns, Rows
    <2> QED
      BY <1>a, <1>b, <2>1 DEF RowInv, RowKeeps, Fp
  <1>7. CASE LeaseExpires \/ RetentionEnds \/ \E c \in Call : Heartbeat(c)
    BY <1>a, <1>b, <1>7 DEF LeaseExpires, RetentionEnds, Heartbeat, Owns, RowInv, RowKeeps, Rows, Fp
  <1> QED
    BY <1>1, <1>2, <1>3, <1>4, <1>5, <1>6, <1>7
    DEF Next, Ask, Coordinate, Render, ClaimLook, Deadline, Load, Launch, PrintPage, Audit,
        WakeInTime, WakeLate, Crash, vars

------------------------------------------------------------------------------
\* Documents and timeouts

\* A step that gives nobody a document, nor the answer that a timeout is stored.
Quiet ==
  \A d \in Call :
    /\ call'[d].pc = "done" /\ ~IsForm(d) => call'[d] = call[d]
    /\ call'[d].pc = "expired" => call'[d] = call[d]
    /\ task'[d].pc = "audit" => task[d].pc = "audit" /\ task'[d].row = task[d].row

LEMMA QuietSteps ==
  ASSUME Shapes, [Next]_vars
  PROVE  \/ Quiet
         \/ \E c \in Call : ClaimLook(c) /\ row.status = "complete" /\ Fp(c) = row.fp
                            /\ Answer(c, row.doc, row.row)
         \/ \E c \in Call : FailTimeout(c) /\ Owns(c)
         \/ \E c \in Call : Complete(c) /\ Owns(c)
         \/ \E c \in Call : Audit(c)
  <1>a. call \in Calls /\ task \in Tasks
    BY DEF Shapes
  <1>1. ASSUME NEW c \in Call, Ask(c) \/ ClaimPurge(c) \/ ClaimInsert(c) \/ ClaimReclaim(c)
                               \/ FailOrdinary(c) \/ WakeInTime(c) \/ WakeLate(c)
        PROVE  Quiet
    <2>1. /\ \E pc \in {"race", "purge", "insert", "reclaim", "look", "lapsed", "failed", "waited"} :
               Goto(c, pc)
          /\ task' = task \/ task' = [task EXCEPT ![c].pc = "load"]
      BY <1>1 DEF Ask, ClaimPurge, ClaimInsert, ClaimReclaim, FailOrdinary, WakeInTime, WakeLate, Rendering
    <2> QED
      BY <1>a, <2>1 DEF Quiet, Goto, Calls, Tasks
  <1>2. ASSUME NEW c \in Call, ClaimLook(c)
        PROVE  Quiet \/ (row.status = "complete" /\ Fp(c) = row.fp /\ Answer(c, row.doc, row.row))
    <2>1. \/ row.status = "complete" /\ Fp(c) = row.fp /\ Answer(c, row.doc, row.row)
          \/ task' = task /\ \E pc \in {"lapsed", "conflict", "terminal", "sleep"} : Goto(c, pc)
      BY <1>2 DEF ClaimLook
    <2> QED
      BY <1>a, <2>1 DEF Quiet, Goto, Calls, Tasks
  <1>3. ASSUME NEW c \in Call, Deadline(c)
        PROVE  Quiet
    <2>1. \A d \in Call : call'[d] = call[d] \/ call'[d].pc = "failtimeout"
      BY <1>3, <1>a DEF Deadline, Goto, Calls
    <2>2. \A d \in Call : task'[d].pc = task[d].pc /\ task'[d].row = task[d].row
      BY <1>3, <1>a DEF Deadline, Tasks
    <2> QED
      BY <2>1, <2>2 DEF Quiet
  <1>4. ASSUME NEW c \in Call, FailTimeout(c), ~Owns(c)
        PROVE  Quiet
    BY <1>4, <1>a DEF FailTimeout, Quiet, Calls, Tasks
  <1>5. ASSUME NEW c \in Call, Load(c) \/ Launch(c) \/ (Complete(c) /\ ~Owns(c))
        PROVE  Quiet
    <2>1. /\ call' = call \/ \E pc \in {"failed", "failordinary"} : Goto(c, pc)
          /\ \E pc \in {"init", "queue", "page", "over"} : task' = [task EXCEPT ![c].pc = pc]
      BY <1>5 DEF Load, Launch, Complete, Acquire, Thrown
    <2> QED
      BY <1>a, <2>1 DEF Quiet, Goto, Calls, Tasks
  <1>6. ASSUME NEW c \in Call, PrintPage(c)
        PROVE  Quiet
    <2>1. /\ Woken(At(c)) \in Tasks
          /\ \E pc \in {"save", "over"} : task' = [Woken(At(c)) EXCEPT ![c].pc = pc]
      BY <1>6, ReleaseShapes DEF PrintPage, Resolved, Thrown, Shapes, Asks, At
    <2>2. \A d \in Call : Woken(At(c))[d] = task[d] \/ Woken(At(c))[d].pc = "page"
      BY <1>a DEF Woken, Tasks
    <2>3. \A d \in Call : task'[d].pc = "audit" => task'[d] = task[d]
      BY <2>1, <2>2 DEF Tasks
    <2>4. \/ call' = call
          \/ \E pc \in {"failed", "failordinary"} : Goto(c, pc)
          \/ IsForm(c) /\ Answer(c, None, 0)
      BY <1>6 DEF PrintPage, Resolved, Thrown
    <2> QED
      BY <1>a, <2>3, <2>4 DEF Quiet, Goto, Answer, Calls
  <1>7. ASSUME NEW r \in Replica, Crash(r)
        PROVE  Quiet
    <2>1. \A d \in Call : call'[d] = call[d] \/ call'[d].pc = "lost"
      BY <1>7, <1>a DEF Crash, Calls
    <2>2. \A d \in Call : task'[d] = task[d] \/ task'[d].pc = "over"
      BY <1>7, <1>a DEF Crash, Tasks
    <2> QED
      BY <2>1, <2>2 DEF Quiet
  <1>8. CASE LeaseExpires \/ RetentionEnds \/ UNCHANGED vars \/ \E c \in Call : Heartbeat(c)
    BY <1>8 DEF LeaseExpires, RetentionEnds, vars, Heartbeat, Quiet
  <1> QED
    BY <1>1, <1>2, <1>3, <1>4, <1>5, <1>6, <1>7, <1>8 DEF Next, Coordinate, Render

LEMMA AskStands == [Next]_vars => ask' = ask
  BY DEF Next, Ask, Coordinate, Render, ClaimPurge, ClaimInsert, ClaimReclaim, ClaimLook,
         Deadline, FailTimeout, FailOrdinary, Load, Launch, PrintPage, Complete, Audit, Heartbeat,
         WakeInTime, WakeLate, LeaseExpires, RetentionEnds, Crash, vars

(* One more document, from the row as the step leaves it.                        *)
LEMMA IssueOne ==
  ASSUME Shapes, Shapes', RowInv', IssueInv, RowKeeps, ask' = ask,
         NEW c \in Call, NEW new \in Call \cup {None}, NEW m \in Nat,
         \A d \in Call, doc \in Call \cup {None}, n \in Nat :
           Issued(d, doc, n)' => Issued(d, doc, n) \/ (d = c /\ doc = new /\ n = m),
         new # None, Fp(c) = Fp(new), m = row'.row, row'.status = "complete", row'.doc = new
  PROVE  IssueInv'
  <1>1. row.row \in Nat /\ row'.row \in Nat
    BY DEF Shapes, Rows
  <1>2. ASSUME NEW d \in Call, NEW doc \in Call \cup {None}, NEW n \in Nat, Issued(d, doc, n)
        PROVE  n <= row'.row /\ (n = row'.row => doc = new)
    BY <1>1, <1>2 DEF IssueInv, RowKeeps
  <1> SUFFICES ASSUME NEW d \in Call, NEW doc \in Call \cup {None}, NEW n \in Nat, Issued(d, doc, n)'
               PROVE  /\ doc # None /\ Fp(d)' = Fp(doc)'
                      /\ n <= row'.row
                      /\ n = row'.row /\ row'.status # "none"
                         => row'.status = "complete" /\ row'.doc = doc
                      /\ \A e \in Call, other \in Call \cup {None} : Issued(e, other, n)' => other = doc
    BY DEF IssueInv
  <1>3. Fp(d)' = Fp(d) /\ Fp(doc)' = Fp(doc)
    BY DEF Fp
  <1>4. CASE Issued(d, doc, n)
    <2>1. doc # None /\ Fp(d) = Fp(doc) /\ n <= row'.row /\ (n = row'.row => doc = new)
      BY <1>2, <1>4 DEF IssueInv
    <2>2. ASSUME NEW e \in Call, NEW other \in Call \cup {None}, Issued(e, other, n)'
          PROVE  other = doc
      <3>1. CASE Issued(e, other, n)
        BY <1>4, <3>1 DEF IssueInv
      <3>2. CASE e = c /\ other = new /\ n = m
        BY <2>1, <3>2
      <3> QED
        BY <2>2, <3>1, <3>2
    <2> QED
      BY <1>3, <2>1, <2>2
  <1>5. CASE d = c /\ doc = new /\ n = m
    <2>1. ASSUME NEW e \in Call, NEW other \in Call \cup {None}, Issued(e, other, n)'
          PROVE  other = doc
      BY <1>2, <1>5, <2>1
    <2> QED
      BY <1>1, <1>3, <1>5, <2>1
  <1> QED
    BY <1>4, <1>5

LEMMA IssueNone ==
  ASSUME Shapes, Shapes', IssueInv, RowKeeps, ask' = ask,
         \A d \in Call, doc \in Call \cup {None}, n \in Nat : Issued(d, doc, n)' => Issued(d, doc, n)
  PROVE  IssueInv'
  <1>1. row.row \in Nat /\ row'.row \in Nat
    BY DEF Shapes, Rows
  <1>2. \A d : Fp(d)' = Fp(d)
    BY DEF Fp
  <1> QED
    BY <1>1, <1>2 DEF IssueInv, RowKeeps

LEMMA IssueStep == Inv /\ [Next]_vars => IssueInv' /\ ExpiredInv'
  <1> SUFFICES ASSUME Inv, [Next]_vars PROVE IssueInv' /\ ExpiredInv'
    OBVIOUS
  <1>a. /\ Shapes /\ Shapes' /\ RowInv /\ RowInv' /\ RowKeeps /\ IssueInv /\ ExpiredInv /\ ask' = ask
        /\ call \in Calls /\ task \in Tasks /\ row \in Rows /\ None \notin Call
    BY ShapesStep, RowStep, AskStands, ComprobanteAssumption DEF Inv, Shapes
  <1>b. /\ row.row \in Nat /\ row.doc \in Call \cup {None}
        /\ \A c \in Call : task[c].row \in Nat
        /\ \A c : IsForm(c)' = IsForm(c)
    BY <1>a DEF Rows, Tasks, IsForm
  <1>1. CASE Quiet
    <2>1. \A d \in Call, doc \in Call \cup {None}, n \in Nat : Issued(d, doc, n)' => Issued(d, doc, n)
      BY <1>1, <1>b DEF Quiet, Issued
    <2>2. ExpiredInv'
      BY <1>a, <1>1 DEF ExpiredInv, Quiet, RowKeeps
    <2> QED
      BY <1>a, <2>1, <2>2, IssueNone
  <1>2. ASSUME NEW c \in Call, ClaimLook(c), row.status = "complete", Fp(c) = row.fp,
               Answer(c, row.doc, row.row)
        PROVE  IssueInv' /\ ExpiredInv'
    <2>1. /\ row' = row /\ task' = task
          /\ call'[c].pc = "done" /\ call'[c].doc = row.doc /\ call'[c].row = row.row
          /\ \A d \in Call : d # c => call'[d] = call[d]
      BY <1>2, <1>a DEF ClaimLook, Answer, Calls
    <2>2. \A d \in Call, doc \in Call \cup {None}, n \in Nat :
            Issued(d, doc, n)' => Issued(d, doc, n) \/ (d = c /\ doc = row.doc /\ n = row.row)
      BY <1>b, <2>1 DEF Issued
    <2>3. row.doc # None /\ Fp(c) = Fp(row.doc)
      BY <1>a, <1>2 DEF RowInv
    <2>4. IssueInv'
      BY <1>a, <1>b, <1>2, <2>1, <2>2, <2>3, IssueOne
    <2>5. ExpiredInv'
      BY <1>a, <2>1 DEF ExpiredInv
    <2> QED
      BY <2>4, <2>5
  <1>3. ASSUME NEW c \in Call, FailTimeout(c), Owns(c)
        PROVE  IssueInv' /\ ExpiredInv'
    <2>0. row'.status = "timeout" /\ row'.row = row.row /\ row.status = "rendering"
      BY <1>3, <1>a DEF FailTimeout, Owns, Rows
    <2>1. /\ task' = task /\ call'[c].pc = "expired" /\ call'[c].row = row.row
          /\ \A d \in Call : d # c => call'[d] = call[d]
      BY <1>3, <1>a DEF FailTimeout, Calls
    <2>2. \A d \in Call, doc \in Call \cup {None}, n \in Nat : Issued(d, doc, n)' => Issued(d, doc, n)
      BY <1>b, <2>1 DEF Issued
    <2>3. ExpiredInv'
      BY <1>a, <2>0, <2>1 DEF ExpiredInv
    <2> QED
      BY <1>a, <2>2, <2>3, IssueNone
  <1>4. ASSUME NEW c \in Call, Complete(c), Owns(c)
        PROVE  IssueInv' /\ ExpiredInv'
    <2>0. row'.status = "complete" /\ row'.row = row.row /\ row'.doc = c /\ row.status = "rendering"
      BY <1>4, <1>a DEF Complete, Owns, Rows
    <2>1. /\ call' = call /\ task'[c].pc = "audit" /\ task'[c].row = row.row
          /\ \A d \in Call : d # c => task'[d] = task[d]
      BY <1>4, <1>a DEF Complete, Tasks
    <2>2. \A d \in Call, doc \in Call \cup {None}, n \in Nat :
            Issued(d, doc, n)' => Issued(d, doc, n) \/ (d = c /\ doc = c /\ n = row.row)
      BY <1>b, <2>1 DEF Issued
    <2>3. IssueInv'
      BY <1>a, <1>b, <2>0, <2>2, IssueOne
    <2>4. ExpiredInv'
      BY <1>a, <2>0, <2>1 DEF ExpiredInv
    <2> QED
      BY <2>3, <2>4
  <1>5. ASSUME NEW c \in Call, Audit(c)
        PROVE  IssueInv' /\ ExpiredInv'
    <2>a. row' = row /\ task[c].pc = "audit"
      BY <1>5 DEF Audit
    <2>b. task'[c].pc = "over" /\ \A d \in Call : d # c => task'[d] = task[d]
      <3>1. task' = [task EXCEPT ![c].pc = "over"]
        BY <1>5 DEF Audit, Resolved
      <3> QED
        BY <1>a, <3>1 DEF Tasks
    <2>c. /\ \A d \in Call : d # c => call'[d] = call[d]
          /\ \/ call'[c] = call[c]
             \/ call'[c].pc = "done" /\ call'[c].doc = c /\ call'[c].row = task[c].row
      BY <1>5, <1>a DEF Audit, Resolved, Answer, Calls
    <2>1. /\ row' = row /\ task[c].pc = "audit" /\ task'[c].pc = "over"
          /\ \A d \in Call : d # c => call'[d] = call[d] /\ task'[d] = task[d]
          /\ \/ call'[c] = call[c]
             \/ call'[c].pc = "done" /\ call'[c].doc = c /\ call'[c].row = task[c].row
      BY <2>a, <2>b, <2>c
    <2>2. \A d \in Call, doc \in Call \cup {None}, n \in Nat : Issued(d, doc, n)' => Issued(d, doc, n)
      BY <1>b, <2>1 DEF Issued
    <2>3. ExpiredInv'
      BY <1>a, <2>1 DEF ExpiredInv
    <2> QED
      BY <1>a, <2>2, <2>3, IssueNone
  <1> QED
    BY <1>a, <1>1, <1>2, <1>3, <1>4, <1>5, QuietSteps

------------------------------------------------------------------------------
\* The theorems

(* The inductive invariant: what the row, the pages and the tasks agree on, the  *)
(* one document issued from each row, and the row that keeps a timeout.          *)
THEOREM ComprobanteInvariant == Spec => []Inv
  <1>1. Init => Inv
    <2> SUFFICES ASSUME Init PROVE Inv
      OBVIOUS
    <2>1. PagesInv
      <3>1. \A r : Printing(r) = {} /\ Queued(r) = {}
        BY DEF Init, NoTask, Printing, Queued
      <3>2. Elems(<<>>) = {} /\ Distinct(<<>>) /\ Cardinality({}) = 0
        BY FS_EmptySet DEF Elems, Distinct
      <3> QED
        <4>1. \A r \in Replica : slot[r].active = 0 /\ slot[r].waiters = <<>>
          BY DEF Init, EmptySlots
        <4>2. 0 <= Capacity
          BY ComprobanteAssumption
        <4> QED
          BY <3>1, <3>2, <4>1, <4>2 DEF PagesInv, PagesOf
    <2>2. TaskInv /\ RowInv /\ ExpiredInv
      BY DEF Init, NoRow, NewCall, NoTask, TaskInv, RowInv, ExpiredInv
    <2>3. IssueInv
      BY DEF Init, NewCall, NoTask, IssueInv, Issued
    <2> QED
      BY <2>1, <2>2, <2>3, InitShapes DEF Inv
  <1>2. Inv /\ [Next]_vars => Inv'
    BY ShapesStep, PagesStep, TaskStep, RowStep, IssueStep DEF Inv
  <1> QED
    BY <1>1, <1>2, PTL DEF Spec

(* A row that is being rendered has one owner, a complete one its document, and  *)
(* the slots of every replica are those that its tasks hold and await.           *)
THEOREM RowsAndPagesFit == Spec => []TypeOK
  <1>1. Inv => TypeOK
    BY DEF Inv, RowInv, PagesInv, PagesOf, Elems, Printing, Queued, TypeOK
  <1> QED
    BY <1>1, ComprobanteInvariant, PTL

(* Every request answered from one row of the key is given its one document,     *)
(* which one that asked for the same thing rendered.                             *)
THEOREM RowsHaveOneDocument == Spec => []OneDocumentPerKey
  <1>1. ASSUME Inv, NEW c \in Call, call[c].pc = "done", ~IsForm(c)
        PROVE  Issued(c, call[c].doc, call[c].row) /\ call[c].doc \in Call \cup {None} /\ call[c].row \in Nat
    BY <1>1 DEF Inv, Shapes, Calls, Issued
  <1>2. Inv => OneDocumentPerKey
    BY <1>1 DEF Inv, IssueInv, OneDocumentPerKey
  <1> QED
    BY <1>2, ComprobanteInvariant, PTL

(* Once a request was told that its timeout is stored, the row stays timed out   *)
(* and every document of the key is from an earlier row.                         *)
THEOREM TimeoutsAreFinal == Spec => []TimeoutIsFinal
  <1>1. ASSUME Inv, NEW c \in Call, call[c].pc = "done", ~IsForm(c)
        PROVE  Issued(c, call[c].doc, call[c].row) /\ call[c].doc \in Call \cup {None} /\ call[c].row \in Nat
    BY <1>1 DEF Inv, Shapes, Calls, Issued
  <1>2. Inv => row.row \in Nat
    BY DEF Inv, Shapes, Rows
  <1>3. Inv => TimeoutIsFinal
    BY <1>1, <1>2 DEF Inv, IssueInv, ExpiredInv, TimeoutIsFinal
  <1> QED
    BY <1>3, ComprobanteInvariant, PTL
================================================================================
