----------------------------- MODULE ApprovalsProofs -----------------------------
(* What the approvals and the agreements guarantee for any calls, rows, deals,  *)
(* expiries and pages.  Four invariants, each proved with the ones before it:   *)
(* the agreements, the rows and who writes them, the locks, and the walk.       *)
EXTENDS Approvals, FiniteSetTheorems, TLAPS

--------------------------------------------------------------------------------
\* What a step writes

\* The calls are records with these fields.
IsCall(x) == x = [pc |-> x.pc, id |-> x.id, begun |-> x.begun, owed |-> x.owed,
                  debt |-> x.debt, deal |-> x.deal, work |-> x.work]
Calls == call = [c \in Call |-> call[c]] /\ \A c \in Call : IsCall(call[c])
Others(c) == \A d \in Call : d # c => call'[d] = call[d]

\* A call ends, goes on, locks an obligation or an agreement, or writes its row.
Ends(c, pc, id) ==
  /\ Calls' /\ Others(c)
  /\ call'[c].pc = pc /\ call'[c].id = id /\ call'[c].begun = NotYet
  /\ call'[c].debt = NoDebt /\ call'[c].deal = NoDeal /\ call'[c].work = NoWork
Moves(c, pc) ==
  /\ Calls' /\ Others(c)
  /\ call'[c].pc = pc /\ call'[c].id = call[c].id /\ call'[c].begun \in {call[c].begun, now}
  /\ call'[c].debt = call[c].debt /\ call'[c].deal = call[c].deal /\ call'[c].work = call[c].work
TakesDebt(c, about, pc) ==
  /\ Calls' /\ Others(c) /\ DebtIsFree(about)
  /\ call'[c].pc = pc /\ call'[c].id = call[c].id /\ call'[c].begun = call[c].begun
  /\ call'[c].debt = about /\ call'[c].deal = call[c].deal /\ call'[c].work = call[c].work
TakesDeal(c, i, pc) ==
  /\ Calls' /\ Others(c) /\ DealIsFree(i)
  /\ call'[c].pc = pc /\ call'[c].id = call[c].id /\ call'[c].begun = call[c].begun
  /\ call'[c].debt = call[c].debt /\ call'[c].deal = i /\ call'[c].work = call[c].work
Writes(c, pc, id, work) ==
  /\ Calls' /\ Others(c)
  /\ call'[c].pc = pc /\ call'[c].id = id /\ call'[c].begun \in {call[c].begun, now}
  /\ call'[c].debt = call[c].debt /\ call'[c].deal = call[c].deal /\ call'[c].work = work

LEMMA CallReplaced ==
  ASSUME Calls, NEW c \in Call, NEW e, IsCall(e), call' = [call EXCEPT ![c] = e]
  PROVE  Calls' /\ call'[c] = e /\ Others(c)
  BY DEF Calls, Others

LEMMA FinishEnds ==
  ASSUME Calls, NEW c \in Call, NEW pc, NEW id, Finish(c, pc, id)
  PROVE  Ends(c, pc, id)
  <1>1. PICK e : e = [Idle EXCEPT !.pc = pc, !.id = id]
    OBVIOUS
  <1>2. IsCall(e) /\ e = [pc |-> pc, id |-> id, begun |-> NotYet, owed |-> FALSE,
                          debt |-> NoDebt, deal |-> NoDeal, work |-> NoWork]
    BY <1>1 DEF IsCall, Idle
  <1>3. call' = [call EXCEPT ![c] = e]
    BY <1>1 DEF Finish
  <1>4. Calls' /\ call'[c] = e /\ Others(c)
    BY <1>2, <1>3, CallReplaced
  <1> QED
    BY <1>2, <1>4 DEF Ends

LEMMA RefuseEnds ==
  ASSUME Calls, NEW c \in Call, Refuse(c)
  PROVE  Ends(c, "refused", 0)
  BY FinishEnds DEF Refuse

LEMMA GotoMoves ==
  ASSUME Calls, NEW c \in Call, NEW pc, Goto(c, pc)
  PROVE  Moves(c, pc)
  <1>1. PICK e : e = [call[c] EXCEPT !.pc = pc]
    OBVIOUS
  <1>2. PICK a, b, x, d, f, g, h : call[c] = [pc |-> a, id |-> b, begun |-> x, owed |-> d,
                                              debt |-> f, deal |-> g, work |-> h]
    BY DEF Calls, IsCall
  <1>3. IsCall(e)
    BY <1>1, <1>2 DEF IsCall
  <1>4. /\ e.pc = pc /\ e.id = call[c].id /\ e.begun = call[c].begun /\ e.debt = call[c].debt
        /\ e.deal = call[c].deal /\ e.work = call[c].work
    BY <1>1, <1>2
  <1>5. call' = [call EXCEPT ![c] = e]
    BY <1>1 DEF Goto
  <1>6. Calls' /\ call'[c] = e /\ Others(c)
    BY <1>3, <1>5, CallReplaced
  <1> QED
    BY <1>4, <1>6 DEF Moves

LEMMA LockDebtTakes ==
  ASSUME Calls, NEW c \in Call, NEW about, NEW pc, LockDebt(c, about, pc)
  PROVE  TakesDebt(c, about, pc)
  <1>1. PICK e : e = [call[c] EXCEPT !.debt = about, !.pc = pc]
    OBVIOUS
  <1>2. PICK a, b, x, d, f, g, h : call[c] = [pc |-> a, id |-> b, begun |-> x, owed |-> d,
                                              debt |-> f, deal |-> g, work |-> h]
    BY DEF Calls, IsCall
  <1>3. IsCall(e)
    BY <1>1, <1>2 DEF IsCall
  <1>4. /\ e.pc = pc /\ e.id = call[c].id /\ e.begun = call[c].begun /\ e.debt = about
        /\ e.deal = call[c].deal /\ e.work = call[c].work
    BY <1>1, <1>2
  <1>a. /\ call' = [call EXCEPT ![c] = [call[c] EXCEPT !.debt = about, !.pc = pc]]
        /\ DebtIsFree(about)
    BY DEF LockDebt
  <1>5. call' = [call EXCEPT ![c] = e] /\ DebtIsFree(about)
    BY <1>1, <1>a
  <1>6. Calls' /\ call'[c] = e /\ Others(c)
    BY <1>3, <1>5, CallReplaced
  <1> QED
    BY <1>4, <1>5, <1>6 DEF TakesDebt

LEMMA LockDealTakes ==
  ASSUME Calls, NEW c \in Call, NEW i, NEW pc, LockDeal(c, i, pc)
  PROVE  TakesDeal(c, i, pc)
  <1>1. PICK e : e = [call[c] EXCEPT !.deal = i, !.pc = pc]
    OBVIOUS
  <1>2. PICK a, b, x, d, f, g, h : call[c] = [pc |-> a, id |-> b, begun |-> x, owed |-> d,
                                              debt |-> f, deal |-> g, work |-> h]
    BY DEF Calls, IsCall
  <1>3. IsCall(e)
    BY <1>1, <1>2 DEF IsCall
  <1>4. /\ e.pc = pc /\ e.id = call[c].id /\ e.begun = call[c].begun /\ e.debt = call[c].debt
        /\ e.deal = i /\ e.work = call[c].work
    BY <1>1, <1>2
  <1>a. /\ call' = [call EXCEPT ![c] = [call[c] EXCEPT !.deal = i, !.pc = pc]]
        /\ DealIsFree(i)
    BY DEF LockDeal
  <1>5. call' = [call EXCEPT ![c] = e] /\ DealIsFree(i)
    BY <1>1, <1>a
  <1>6. Calls' /\ call'[c] = e /\ Others(c)
    BY <1>3, <1>5, CallReplaced
  <1> QED
    BY <1>4, <1>5, <1>6 DEF TakesDeal

--------------------------------------------------------------------------------
\* What each action does, in these terms

LEMMA WaitMoves ==
  ASSUME Calls, NEW c \in Call, NEW owed,
         call' = [call EXCEPT ![c] = [call[c] EXCEPT !.pc = "wait", !.owed = owed]]
  PROVE  Moves(c, "wait")
  <1>1. PICK e : e = [call[c] EXCEPT !.pc = "wait", !.owed = owed]
    OBVIOUS
  <1>2. PICK a, b, x, d, f, g, h : call[c] = [pc |-> a, id |-> b, begun |-> x, owed |-> d,
                                              debt |-> f, deal |-> g, work |-> h]
    BY DEF Calls, IsCall
  <1>3. IsCall(e)
    BY <1>1, <1>2 DEF IsCall
  <1>4. /\ e.pc = "wait" /\ e.id = call[c].id /\ e.begun = call[c].begun /\ e.debt = call[c].debt
        /\ e.deal = call[c].deal /\ e.work = call[c].work
    BY <1>1, <1>2
  <1>5. call' = [call EXCEPT ![c] = e]
    BY <1>1
  <1>6. Calls' /\ call'[c] = e /\ Others(c)
    BY <1>3, <1>5, CallReplaced
  <1> QED
    BY <1>4, <1>6 DEF Moves

LEMMA SelectMoves ==
  ASSUME Calls, NEW c \in Call,
         call' = [call EXCEPT ![c] = [call[c] EXCEPT !.pc = "select", !.begun = now]]
  PROVE  Moves(c, "select")
  <1>1. PICK e : e = [call[c] EXCEPT !.pc = "select", !.begun = now]
    OBVIOUS
  <1>2. PICK a, b, x, d, f, g, h : call[c] = [pc |-> a, id |-> b, begun |-> x, owed |-> d,
                                              debt |-> f, deal |-> g, work |-> h]
    BY DEF Calls, IsCall
  <1>3. IsCall(e)
    BY <1>1, <1>2 DEF IsCall
  <1>4. /\ e.pc = "select" /\ e.id = call[c].id /\ e.begun = now /\ e.debt = call[c].debt
        /\ e.deal = call[c].deal /\ e.work = call[c].work
    BY <1>1, <1>2
  <1>5. call' = [call EXCEPT ![c] = e]
    BY <1>1
  <1>6. Calls' /\ call'[c] = e /\ Others(c)
    BY <1>3, <1>5, CallReplaced
  <1> QED
    BY <1>4, <1>6 DEF Moves

LEMMA RowWrites ==
  ASSUME Calls, NEW c \in Call, NEW pc, NEW i, NEW row,
         call' = [call EXCEPT ![c] = [call[c] EXCEPT !.pc = pc, !.id = i, !.work = row]]
  PROVE  Writes(c, pc, i, row)
  <1>1. PICK e : e = [call[c] EXCEPT !.pc = pc, !.id = i, !.work = row]
    OBVIOUS
  <1>2. PICK a, b, x, d, f, g, h : call[c] = [pc |-> a, id |-> b, begun |-> x, owed |-> d,
                                              debt |-> f, deal |-> g, work |-> h]
    BY DEF Calls, IsCall
  <1>3. IsCall(e)
    BY <1>1, <1>2 DEF IsCall
  <1>4. /\ e.pc = pc /\ e.id = i /\ e.begun = call[c].begun /\ e.debt = call[c].debt
        /\ e.deal = call[c].deal /\ e.work = row
    BY <1>1, <1>2
  <1>5. call' = [call EXCEPT ![c] = e]
    BY <1>1
  <1>6. Calls' /\ call'[c] = e /\ Others(c)
    BY <1>3, <1>5, CallReplaced
  <1> QED
    BY <1>4, <1>6 DEF Writes

LEMMA UpdateWrites ==
  ASSUME Calls, NEW c \in Call, NEW row,
         call' = [call EXCEPT ![c] = [call[c] EXCEPT !.pc = "commit", !.work = row]]
  PROVE  Writes(c, "commit", call[c].id, row)
  <1>1. PICK e : e = [call[c] EXCEPT !.pc = "commit", !.work = row]
    OBVIOUS
  <1>2. PICK a, b, x, d, f, g, h : call[c] = [pc |-> a, id |-> b, begun |-> x, owed |-> d,
                                              debt |-> f, deal |-> g, work |-> h]
    BY DEF Calls, IsCall
  <1>3. IsCall(e)
    BY <1>1, <1>2 DEF IsCall
  <1>4. /\ e.pc = "commit" /\ e.id = call[c].id /\ e.begun = call[c].begun /\ e.debt = call[c].debt
        /\ e.deal = call[c].deal /\ e.work = row
    BY <1>1, <1>2
  <1>5. call' = [call EXCEPT ![c] = e]
    BY <1>1
  <1>6. Calls' /\ call'[c] = e /\ Others(c)
    BY <1>3, <1>5, CallReplaced
  <1> QED
    BY <1>4, <1>6 DEF Writes

LEMMA ReadWrites ==
  ASSUME Calls, NEW c \in Call, NEW i,
         call' = [call EXCEPT ![c] = [call[c] EXCEPT !.pc = "update", !.id = i, !.begun = now]]
  PROVE  Writes(c, "update", i, call[c].work)
  <1>1. PICK e : e = [call[c] EXCEPT !.pc = "update", !.id = i, !.begun = now]
    OBVIOUS
  <1>2. PICK a, b, x, d, f, g, h : call[c] = [pc |-> a, id |-> b, begun |-> x, owed |-> d,
                                              debt |-> f, deal |-> g, work |-> h]
    BY DEF Calls, IsCall
  <1>3. IsCall(e)
    BY <1>1, <1>2 DEF IsCall
  <1>4. /\ e.pc = "update" /\ e.id = i /\ e.begun = now /\ e.debt = call[c].debt
        /\ e.deal = call[c].deal /\ e.work = call[c].work
    BY <1>1, <1>2
  <1>5. call' = [call EXCEPT ![c] = e]
    BY <1>1
  <1>6. Calls' /\ call'[c] = e /\ Others(c)
    BY <1>3, <1>5, CallReplaced
  <1> QED
    BY <1>4, <1>6 DEF Writes

LEMMA GetWrites ==
  ASSUME Calls, NEW c \in Call, NEW i,
         call' = [call EXCEPT ![c] = [call[c] EXCEPT !.pc = "get", !.id = i]]
  PROVE  Writes(c, "get", i, call[c].work)
  <1>1. PICK e : e = [call[c] EXCEPT !.pc = "get", !.id = i]
    OBVIOUS
  <1>2. PICK a, b, x, d, f, g, h : call[c] = [pc |-> a, id |-> b, begun |-> x, owed |-> d,
                                              debt |-> f, deal |-> g, work |-> h]
    BY DEF Calls, IsCall
  <1>3. IsCall(e)
    BY <1>1, <1>2 DEF IsCall
  <1>4. /\ e.pc = "get" /\ e.id = i /\ e.begun = call[c].begun /\ e.debt = call[c].debt
        /\ e.deal = call[c].deal /\ e.work = call[c].work
    BY <1>1, <1>2
  <1>5. call' = [call EXCEPT ![c] = e]
    BY <1>1
  <1>6. Calls' /\ call'[c] = e /\ Others(c)
    BY <1>3, <1>5, CallReplaced
  <1> QED
    BY <1>4, <1>6 DEF Writes

LEMMA SelectDoes ==
  ASSUME Calls, NEW c \in Call, Select(c)
  PROVE  call[c].pc = "select" /\ Moves(c, "wait") /\ UNCHANGED tables
  <1>1. PICK owed : owed = Owing(About(c))
    OBVIOUS
  <1>2. call' = [call EXCEPT ![c] = [call[c] EXCEPT !.pc = "wait", !.owed = owed]]
    BY <1>1 DEF Select
  <1>3. Moves(c, "wait")
    BY <1>2, WaitMoves
  <1> QED
    BY <1>3 DEF Select

LEMMA CreateFindDoes ==
  ASSUME Calls, NEW c \in Call, CreateFind(c)
  PROVE  /\ Kind(c) = "create" /\ call[c].pc = "idle" /\ UNCHANGED tables
         /\ \/ Found(c) = {} /\ Moves(c, "select")
            \/ \E i \in Found(c) :
                 \/ SameRequest(rows[i], c) /\ Ends(c, "ok", i)
                 \/ Ends(c, "refused", i)
  <1>1. Kind(c) = "create" /\ call[c].pc = "idle" /\ UNCHANGED tables
    BY DEF CreateFind
  <1>2. CASE Found(c) = {}
    <2>1. call' = [call EXCEPT ![c] = [call[c] EXCEPT !.pc = "select", !.begun = now]]
      BY <1>2 DEF CreateFind
    <2>2. Moves(c, "select")
      BY <2>1, SelectMoves
    <2> QED
      BY <1>1, <1>2, <2>2
  <1>3. CASE Found(c) # {}
    <2>1. PICK i \in Found(c) : Finish(c, IF SameRequest(rows[i], c) THEN "ok" ELSE "refused", i)
      BY <1>3 DEF CreateFind
    <2>2. CASE SameRequest(rows[i], c)
      <3>1. Ends(c, "ok", i)
        BY <2>1, <2>2, FinishEnds
      <3> QED
        BY <1>1, <2>2, <3>1
    <2>3. CASE ~SameRequest(rows[i], c)
      <3>1. Ends(c, "refused", i)
        BY <2>1, <2>3, FinishEnds
      <3> QED
        BY <1>1, <3>1
    <2> QED
      BY <2>2, <2>3
  <1> QED
    BY <1>2, <1>3

LEMMA CreateLockDoes ==
  ASSUME Calls, NEW c \in Call, CreateLock(c)
  PROVE  /\ Kind(c) = "create" /\ call[c].pc = "wait" /\ UNCHANGED tables
         /\ TakesDebt(c, About(c), "capture") \/ Ends(c, "refused", 0)
  BY LockDebtTakes, RefuseEnds DEF CreateLock

LEMMA CreateCaptureDoes ==
  ASSUME Calls, NEW c \in Call, CreateCapture(c)
  PROVE  /\ call[c].pc = "capture" /\ UNCHANGED tables
         /\ \/ cmd[c].deal \in {NoDeal} \cup ActiveDeals(About(c)) /\ Moves(c, "find")
            \/ Ends(c, "refused", 0)
  BY GotoMoves, RefuseEnds DEF CreateCapture

LEMMA CreateFindAgainDoes ==
  ASSUME Calls, NEW c \in Call, CreateFindAgain(c)
  PROVE  /\ call[c].pc = "find" /\ UNCHANGED tables
         /\ \/ Found(c) = {} /\ Moves(c, "insert")
            \/ \E i \in Found(c) :
                 \/ SameRequest(rows[i], c) /\ Ends(c, "ok", i)
                 \/ Ends(c, "refused", i)
  <1>1. call[c].pc = "find" /\ UNCHANGED tables
    BY DEF CreateFindAgain
  <1>2. CASE Found(c) = {}
    BY <1>2, GotoMoves DEF CreateFindAgain
  <1>3. CASE Found(c) # {}
    <2>1. PICK i \in Found(c) :
            Finish(c, IF cmd[c].type = "condonation" /\ SameRequest(rows[i], c)
                      THEN "ok" ELSE "refused", i)
      BY <1>3 DEF CreateFindAgain
    <2>2. CASE cmd[c].type = "condonation" /\ SameRequest(rows[i], c)
      <3>1. Ends(c, "ok", i)
        BY <2>1, <2>2, FinishEnds
      <3> QED
        BY <1>1, <2>2, <3>1
    <2>3. CASE ~(cmd[c].type = "condonation" /\ SameRequest(rows[i], c))
      <3>1. Ends(c, "refused", i)
        BY <2>1, <2>3, FinishEnds
      <3> QED
        BY <1>1, <3>1
    <2> QED
      BY <2>2, <2>3
  <1> QED
    BY <1>2, <1>3

LEMMA CreateInsertDoes ==
  ASSUME Calls, NEW c \in Call, CreateInsert(c)
  PROVE  /\ call[c].pc = "insert" /\ UNCHANGED tables
         /\ \/ Ends(c, "refused", 0)
            \/ \E i \in NewIds : Writes(c, "commit", i, Fresh(c, cmd[c].type, now + Life))
  <1>1. call[c].pc = "insert" /\ UNCHANGED tables
    BY DEF CreateInsert
  <1>2. CASE \E i \in DOMAIN rows : SameKey(c, rows[i])
    BY <1>2, FinishEnds DEF CreateInsert
  <1>3. CASE ~ \E i \in DOMAIN rows : SameKey(c, rows[i])
    <2>1. PICK row : row = Fresh(c, cmd[c].type, now + Life)
      OBVIOUS
    <2>2. PICK i \in NewIds :
            call' = [call EXCEPT ![c] = [call[c] EXCEPT !.pc = "commit", !.id = i, !.work = row]]
      BY <1>3, <2>1 DEF CreateInsert
    <2>3. Writes(c, "commit", i, row)
      BY <2>2, RowWrites
    <2> QED
      BY <1>1, <2>1, <2>3
  <1> QED
    BY <1>2, <1>3

LEMMA DecideReadDoes ==
  ASSUME Calls, NEW c \in Call, DecideRead(c)
  PROVE  /\ Kind(c) = "decide" /\ call[c].pc = "idle" /\ UNCHANGED tables
         /\ \E i \in RowsOf(cmd[c].type) :
              \/ Ends(c, "refused", i)
              \/ rows[i].status # "pending" /\ Exact(rows[i], c) /\ Ends(c, "ok", i)
              \/ rows[i].by # cmd[c].by /\ Writes(c, "update", i, call[c].work)
  <1>1. Kind(c) = "decide" /\ call[c].pc = "idle" /\ UNCHANGED tables
    BY DEF DecideRead
  <1>2. PICK i \in RowsOf(cmd[c].type) :
          \/ Finish(c, "refused", i)
          \/ rows[i].status # "pending" /\ Exact(rows[i], c) /\ Finish(c, "ok", i)
          \/ /\ rows[i].by # cmd[c].by
             /\ call' = [call EXCEPT ![c] = [call[c] EXCEPT !.pc = "update", !.id = i, !.begun = now]]
    BY DEF DecideRead
  <1>3. CASE Finish(c, "refused", i)
    BY <1>1, <1>3, FinishEnds
  <1>4. CASE rows[i].status # "pending" /\ Exact(rows[i], c) /\ Finish(c, "ok", i)
    BY <1>1, <1>4, FinishEnds
  <1>5. CASE /\ rows[i].by # cmd[c].by
             /\ call' = [call EXCEPT ![c] = [call[c] EXCEPT !.pc = "update", !.id = i, !.begun = now]]
    <2>1. Writes(c, "update", i, call[c].work)
      BY <1>5, ReadWrites
    <2> QED
      BY <1>1, <1>5, <2>1
  <1> QED
    BY <1>2, <1>3, <1>4, <1>5

LEMMA DecideUpdateDoes ==
  ASSUME Calls, NEW c \in Call, DecideUpdate(c)
  PROVE  /\ call[c].pc = "update" /\ UNCHANGED tables /\ ~Busy(call[c].id)
         /\ \/ /\ call[c].id \in DOMAIN rows /\ StillPending(call[c].id, c)
               /\ Writes(c, "commit", call[c].id, Decided(rows[call[c].id], c))
            \/ Moves(c, "reread")
  <1>1. call[c].pc = "update" /\ UNCHANGED tables /\ ~Busy(call[c].id)
    BY DEF DecideUpdate
  <1>2. CASE call[c].id \in DOMAIN rows /\ StillPending(call[c].id, c)
    <2>1. PICK row : row = Decided(rows[call[c].id], c)
      OBVIOUS
    <2>2. call' = [call EXCEPT ![c] = [call[c] EXCEPT !.pc = "commit", !.work = row]]
      BY <1>2, <2>1 DEF DecideUpdate
    <2>3. Writes(c, "commit", call[c].id, row)
      BY <2>2, UpdateWrites
    <2> QED
      BY <1>1, <1>2, <2>1, <2>3
  <1>3. CASE ~(call[c].id \in DOMAIN rows /\ StillPending(call[c].id, c))
    BY <1>1, <1>3, GotoMoves DEF DecideUpdate
  <1> QED
    BY <1>2, <1>3

LEMMA DecideRereadDoes ==
  ASSUME Calls, NEW c \in Call, DecideReread(c)
  PROVE  /\ call[c].pc = "reread" /\ UNCHANGED tables
         /\ \/ /\ call[c].id \in DOMAIN rows /\ Exact(rows[call[c].id], c)
               /\ Ends(c, "ok", call[c].id)
            \/ Ends(c, "refused", call[c].id)
  <1>1. call[c].pc = "reread" /\ UNCHANGED tables
    BY DEF DecideReread
  <1>2. CASE call[c].id \in DOMAIN rows /\ Exact(rows[call[c].id], c)
    BY <1>1, <1>2, FinishEnds DEF DecideReread
  <1>3. CASE ~(call[c].id \in DOMAIN rows /\ Exact(rows[call[c].id], c))
    BY <1>1, <1>3, FinishEnds DEF DecideReread
  <1> QED
    BY <1>2, <1>3

LEMMA ExecuteLockDoes ==
  ASSUME Calls, NEW c \in Call, ExecuteLock(c)
  PROVE  /\ Kind(c) = "execute" /\ call[c].pc = "idle" /\ UNCHANGED tables
         /\ \E i \in RowsOf(cmd[c].type) :
              /\ ~Busy(i)
              /\ \/ Executable(rows[i], c) /\ Writes(c, "agreement", i, [rows[i] EXCEPT !.used = now])
                 \/ Ends(c, "ok", i)
                 \/ Ends(c, "refused", i)
  <1>1. Kind(c) = "execute" /\ call[c].pc = "idle" /\ UNCHANGED tables
    BY DEF ExecuteLock
  <1>2. PICK i \in RowsOf(cmd[c].type) :
          /\ ~Busy(i)
          /\ \/ /\ Executable(rows[i], c)
                /\ call' = [call EXCEPT ![c] = [call[c] EXCEPT !.pc = "agreement", !.id = i,
                                                              !.work = [rows[i] EXCEPT !.used = now]]]
             \/ Finish(c, "ok", i)
             \/ Finish(c, "refused", i)
    BY DEF ExecuteLock
  <1>3. CASE Finish(c, "ok", i)
    BY <1>1, <1>2, <1>3, FinishEnds
  <1>4. CASE Finish(c, "refused", i)
    BY <1>1, <1>2, <1>4, FinishEnds
  <1>5. CASE /\ Executable(rows[i], c)
             /\ call' = [call EXCEPT ![c] = [call[c] EXCEPT !.pc = "agreement", !.id = i,
                                                           !.work = [rows[i] EXCEPT !.used = now]]]
    <2>1. PICK row : row = [rows[i] EXCEPT !.used = now]
      OBVIOUS
    <2>2. PICK pc : pc = "agreement"
      OBVIOUS
    <2>3. call' = [call EXCEPT ![c] = [call[c] EXCEPT !.pc = pc, !.id = i, !.work = row]]
      BY <1>5, <2>1, <2>2
    <2>4. Writes(c, pc, i, row)
      BY <2>3, RowWrites
    <2> QED
      BY <1>1, <1>2, <1>5, <2>1, <2>2, <2>4
  <1> QED
    BY <1>2, <1>3, <1>4, <1>5

LEMMA ExecuteAgreementDoes ==
  ASSUME Calls, NEW c \in Call, ExecuteAgreement(c)
  PROVE  /\ call[c].pc = "agreement" /\ UNCHANGED tables
         /\ \/ call[c].work.deal = NoDeal /\ Moves(c, "select")
            \/ /\ agreement[call[c].work.deal].status = "ACTIVE"
               /\ TakesDeal(c, call[c].work.deal, "select")
            \/ Ends(c, "refused", 0)
  BY GotoMoves, LockDealTakes, RefuseEnds DEF ExecuteAgreement

LEMMA ExecuteDebtDoes ==
  ASSUME Calls, NEW c \in Call, ExecuteDebt(c)
  PROVE  /\ Kind(c) = "execute" /\ call[c].pc = "wait" /\ UNCHANGED tables
         /\ \/ /\ cmd[c].type = "community" => Owing(About(c))
               /\ TakesDebt(c, About(c), "commit")
            \/ Ends(c, "refused", 0)
  BY LockDebtTakes, RefuseEnds DEF ExecuteDebt

Settled(c, type) == IF Kind(c) = "execute" /\ cmd[c].type = type THEN {About(c)} ELSE {}
LEMMA CommitDoes ==
  ASSUME Calls, NEW c \in Call, Commit(c)
  PROVE  /\ call[c].pc = "commit" /\ Ends(c, "ok", call[c].id)
         /\ DOMAIN rows' = DOMAIN rows \cup {call[c].id} /\ rows'[call[c].id] = call[c].work
         /\ \A i \in DOMAIN rows : i # call[c].id => rows'[i] = rows[i]
         /\ paid' = paid \cup Settled(c, "community")
         /\ condoned' = condoned \cup Settled(c, "condonation")
         /\ UNCHANGED <<now, gone, cmd, walk, agreement>>
  <1>1. call[c].pc = "commit" /\ Finish(c, "ok", call[c].id)
    BY DEF Commit
  <1>2. Ends(c, "ok", call[c].id)
    BY <1>1, FinishEnds
  <1>3. rows' = With(rows, call[c].id, call[c].work)
    BY DEF Commit
  <1>4. /\ DOMAIN rows' = DOMAIN rows \cup {call[c].id} /\ rows'[call[c].id] = call[c].work
        /\ \A i \in DOMAIN rows : i # call[c].id => rows'[i] = rows[i]
    BY <1>3 DEF With
  <1>5. /\ paid' = paid \cup Settled(c, "community")
        /\ condoned' = condoned \cup Settled(c, "condonation")
        /\ UNCHANGED <<now, gone, cmd, walk, agreement>>
    BY DEF Commit, Settled
  <1> QED
    BY <1>1, <1>2, <1>4, <1>5

LEMMA RollbackDoes ==
  ASSUME Calls, NEW c \in Call, Rollback(c)
  PROVE  Kind(c) # "answer" /\ Running(c) /\ Ends(c, "refused", 0) /\ UNCHANGED tables
  BY RefuseEnds DEF Rollback

LEMMA MintDoes ==
  ASSUME Calls, NEW c \in Call, Mint(c)
  PROVE  /\ Kind(c) = "mint" /\ call[c].pc = "idle"
         /\ UNCHANGED <<now, gone, cmd, walk, debts>>
         /\ \E i \in NewIds, life \in LinkLives :
              /\ DOMAIN rows' = DOMAIN rows \cup {i} /\ Ends(c, "ok", i)
              /\ rows'[i] = [Fresh(c, "link", now + life) EXCEPT !.created = now]
              /\ \A j \in DOMAIN rows : j # i => rows'[j] = rows[j]
  <1>1. Kind(c) = "mint" /\ call[c].pc = "idle" /\ UNCHANGED <<now, gone, cmd, walk, debts>>
    BY DEF Mint
  <1>2. PICK i \in NewIds, life \in LinkLives :
          /\ rows' = With(rows, i, [Fresh(c, "link", now + life) EXCEPT !.created = now])
          /\ Finish(c, "ok", i)
    BY DEF Mint
  <1>3. PICK row : row = [Fresh(c, "link", now + life) EXCEPT !.created = now]
    OBVIOUS
  <1>a. rows' = With(rows, i, row)
    BY <1>2, <1>3
  <1>4. /\ DOMAIN rows' = DOMAIN rows \cup {i} /\ rows'[i] = row
        /\ \A j \in DOMAIN rows : j # i => rows'[j] = rows[j]
    BY <1>a DEF With
  <1>5. Ends(c, "ok", i)
    BY <1>2, FinishEnds
  <1> QED
    BY <1>1, <1>3, <1>4, <1>5

LEMMA AnswerCandidateDoes ==
  ASSUME Calls, NEW c \in Call, AnswerCandidate(c)
  PROVE  /\ Kind(c) = "answer" /\ call[c].pc = "idle" /\ UNCHANGED tables
         /\ \E i \in RowsOf("link") : Writes(c, "get", i, call[c].work) \/ Ends(c, "refused", i)
  <1>1. Kind(c) = "answer" /\ call[c].pc = "idle" /\ UNCHANGED tables
    BY DEF AnswerCandidate
  <1>2. PICK i \in RowsOf("link") :
          \/ call' = [call EXCEPT ![c] = [call[c] EXCEPT !.pc = "get", !.id = i]]
          \/ Finish(c, "refused", i)
    BY DEF AnswerCandidate
  <1>3. CASE call' = [call EXCEPT ![c] = [call[c] EXCEPT !.pc = "get", !.id = i]]
    <2>1. Writes(c, "get", i, call[c].work)
      BY <1>3, GetWrites
    <2> QED
      BY <1>1, <2>1
  <1>4. CASE Finish(c, "refused", i)
    BY <1>1, <1>4, FinishEnds
  <1> QED
    BY <1>2, <1>3, <1>4

LEMMA AnswerGetDoes ==
  ASSUME Calls, NEW c \in Call, AnswerGet(c)
  PROVE  /\ call[c].pc = "get" /\ UNCHANGED tables
         /\ Moves(c, "use") \/ Ends(c, "refused", call[c].id)
  BY GotoMoves, FinishEnds DEF AnswerGet

LEMMA AnswerUseDoes ==
  ASSUME Calls, NEW c \in Call, AnswerUse(c)
  PROVE  /\ call[c].pc = "use" /\ UNCHANGED <<now, gone, cmd, walk, debts>>
         /\ \/ /\ StillUnused(call[c].id) /\ Ends(c, "ok", call[c].id)
               /\ rows' = [rows EXCEPT ![call[c].id] = [rows[call[c].id] EXCEPT !.used = now, !.status = "approved"]]
            \/ Ends(c, "refused", call[c].id) /\ UNCHANGED rows
  <1>1. call[c].pc = "use" /\ UNCHANGED <<now, gone, cmd, walk, debts>>
    BY DEF AnswerUse
  <1>2. CASE StillUnused(call[c].id)
    <2>1. Finish(c, "ok", call[c].id)
      BY <1>2 DEF AnswerUse
    <2>2. Ends(c, "ok", call[c].id)
      BY <2>1, FinishEnds
    <2>3. rows' = [rows EXCEPT ![call[c].id] = [rows[call[c].id] EXCEPT !.used = now, !.status = "approved"]]
      BY <1>2 DEF AnswerUse
    <2> QED
      BY <1>1, <1>2, <2>2, <2>3
  <1>3. CASE ~StillUnused(call[c].id)
    BY <1>1, <1>3, FinishEnds DEF AnswerUse
  <1> QED
    BY <1>2, <1>3

\* A deal is added to others, a table of the ids of agreement.
Records(c, about, of, number, others) ==
  \E i \in DealId \ DOMAIN agreement :
    /\ Ends(c, "ok", i)
    /\ DOMAIN agreement' = DOMAIN others \cup {i}
    /\ agreement'[i] = [about |-> about, terms |-> cmd[c].terms, status |-> "ACTIVE", number |-> number,
                        of |-> of, by |-> cmd[c].by, key |-> cmd[c].key, asked |-> Asked(c)]
    /\ \A j \in DOMAIN others : j # i => agreement'[j] = others[j]

LEMMA RecordDoes ==
  ASSUME Calls, NEW c \in Call, NEW about, NEW of, NEW number, NEW others,
         Record(c, about, of, number, others)
  PROVE  Records(c, about, of, number, others)
  <1>1. PICK row : row = [about |-> about, terms |-> cmd[c].terms, status |-> "ACTIVE", number |-> number,
                          of |-> of, by |-> cmd[c].by, key |-> cmd[c].key, asked |-> Asked(c)]
    OBVIOUS
  <1>2. PICK i \in DealId \ DOMAIN agreement :
          agreement' = With(others, i, row) /\ Finish(c, "ok", i)
    BY <1>1 DEF Record
  <1>3. /\ DOMAIN agreement' = DOMAIN others \cup {i} /\ agreement'[i] = row
        /\ \A j \in DOMAIN others : j # i => agreement'[j] = others[j]
    BY <1>2 DEF With
  <1>4. Ends(c, "ok", i)
    BY <1>2, FinishEnds
  <1> QED
    BY <1>1, <1>3, <1>4 DEF Records

LEMMA ReplayDoes ==
  ASSUME Calls, NEW c \in Call, Replay(c)
  PROVE  /\ UNCHANGED agreement
         /\ \E i \in Known(c) : Ends(c, "ok", i) \/ Ends(c, "refused", i)
  <1>1. PICK i \in Known(c) :
          Finish(c, IF agreement[i].asked = Asked(c) THEN "ok" ELSE "refused", i)
    BY DEF Replay
  <1>2. CASE agreement[i].asked = Asked(c)
    <2>1. Ends(c, "ok", i)
      BY <1>1, <1>2, FinishEnds
    <2> QED
      BY <2>1 DEF Replay
  <1>3. CASE agreement[i].asked # Asked(c)
    <2>1. Ends(c, "refused", i)
      BY <1>1, <1>3, FinishEnds
    <2> QED
      BY <2>1 DEF Replay
  <1> QED
    BY <1>2, <1>3

LEMMA AgreeLockDoes ==
  ASSUME Calls, NEW c \in Call, AgreeLock(c)
  PROVE  /\ Kind(c) = "agree" /\ call[c].pc = "idle" /\ UNCHANGED <<cmd, debts>>
         /\ TakesDebt(c, cmd[c].content.about, "agree")
  BY LockDebtTakes DEF AgreeLock

LEMMA AgreeInsertDoes ==
  ASSUME Calls, NEW c \in Call, AgreeInsert(c)
  PROVE  /\ call[c].pc = "agree" /\ UNCHANGED <<cmd, paid, condoned>>
         /\ \/ Ends(c, "refused", 0) /\ UNCHANGED agreement
            \/ /\ UNCHANGED agreement
               /\ \E i \in Known(c) : Ends(c, "ok", i) \/ Ends(c, "refused", i)
            \/ /\ Known(c) = {} /\ NoneActive(c)
               /\ Records(c, cmd[c].content.about, NoDeal, 1, agreement)
  BY RefuseEnds, ReplayDoes, RecordDoes DEF AgreeInsert

LEMMA ReviseLockDoes ==
  ASSUME Calls, NEW c \in Call, ReviseLock(c)
  PROVE  /\ Kind(c) = "revise" /\ call[c].pc = "idle" /\ UNCHANGED <<cmd, debts>>
         /\ \/ /\ cmd[c].deal \in DOMAIN agreement
               /\ TakesDebt(c, agreement[cmd[c].deal].about, "row")
            \/ Ends(c, "refused", 0)
  BY LockDebtTakes, RefuseEnds DEF ReviseLock

LEMMA ReviseRowDoes ==
  ASSUME Calls, NEW c \in Call, ReviseRow(c)
  PROVE  /\ call[c].pc = "row" /\ UNCHANGED <<cmd, debts>>
         /\ TakesDeal(c, cmd[c].deal, "revise")
  BY LockDealTakes DEF ReviseRow

LEMMA ReviseInsertDoes ==
  ASSUME Calls, NEW c \in Call, ReviseInsert(c)
  PROVE  /\ call[c].pc = "revise" /\ UNCHANGED <<cmd, paid, condoned>>
         /\ \/ Ends(c, "refused", 0) /\ UNCHANGED agreement
            \/ /\ UNCHANGED agreement
               /\ \E i \in Known(c) : Ends(c, "ok", i) \/ Ends(c, "refused", i)
            \/ /\ Known(c) = {} /\ Revisable(c, agreement[cmd[c].deal])
               /\ Records(c, agreement[cmd[c].deal].about, cmd[c].deal, agreement[cmd[c].deal].number + 1,
                          [agreement EXCEPT ![cmd[c].deal].status = "SUPERSEDED"])
  BY RefuseEnds, ReplayDoes, RecordDoes DEF ReviseInsert

LEMMA PayDoes ==
  ASSUME Calls, NEW c \in Call, Pay(c)
  PROVE  /\ Kind(c) = "pay" /\ call[c].pc = "idle" /\ UNCHANGED <<cmd, agreement, condoned>>
         /\ DebtIsFree(cmd[c].content.about)
         /\ \/ paid' = paid \cup {cmd[c].content.about} /\ Ends(c, "ok", 0)
            \/ Ends(c, "refused", 0) /\ UNCHANGED paid
  BY FinishEnds, RefuseEnds DEF Pay

--------------------------------------------------------------------------------
\* The calls: where each one can be

\* What a call asks, and where it is in the code of what it asks.
Command(c) ==
  /\ cmd[c].by # Nobody /\ cmd[c].type \in Requests
  /\ cmd[c].decision \in {"approved", "rejected"} /\ cmd[c].content.about # NoDebt
At(c) ==
  \/ call[c].pc \in {"idle", "ok", "refused"}
  \/ Kind(c) = "create" /\ call[c].pc \in {"select", "wait", "capture", "find", "insert", "commit"}
  \/ Kind(c) = "decide" /\ call[c].pc \in {"update", "reread", "commit"}
  \/ Kind(c) = "execute" /\ call[c].pc \in {"agreement", "select", "wait", "commit"}
  \/ Kind(c) = "answer" /\ call[c].pc \in {"get", "use"}
  \/ Kind(c) = "agree" /\ call[c].pc = "agree"
  \/ Kind(c) = "revise" /\ call[c].pc \in {"row", "revise"}
CallsInv == Calls /\ \A c \in Call : At(c) /\ Command(c)

LEMMA OneCallMoves ==
  ASSUME CallsInv, NEW c \in Call, Calls', Others(c), UNCHANGED cmd, At(c)'
  PROVE  CallsInv'
  BY DEF CallsInv, Others, At, Command, Kind

\* The steps that write nothing but the call
LEMMA CallStepsStay ==
  ASSUME CallsInv, NEW c \in Call, Step(c)
  PROVE  CallsInv'
  <1>0. Calls /\ At(c)
    BY DEF CallsInv
  <1>1. CASE Select(c)
    <2>1. Calls' /\ Others(c) /\ UNCHANGED cmd /\ At(c)'
      BY <1>0, <1>1, SelectDoes DEF At, Kind, Moves, tables
    <2> QED
      BY <2>1, OneCallMoves
  <1>2. CASE CreateFind(c)
    <2>1. Calls' /\ Others(c) /\ UNCHANGED cmd /\ At(c)'
      BY <1>0, <1>2, CreateFindDoes DEF At, Kind, Moves, Ends, tables
    <2> QED
      BY <2>1, OneCallMoves
  <1>3. CASE CreateLock(c)
    <2>1. Calls' /\ Others(c) /\ UNCHANGED cmd /\ At(c)'
      BY <1>0, <1>3, CreateLockDoes DEF At, Kind, TakesDebt, Ends, tables
    <2> QED
      BY <2>1, OneCallMoves
  <1>4. CASE CreateCapture(c)
    <2>1. Calls' /\ Others(c) /\ UNCHANGED cmd /\ At(c)'
      BY <1>0, <1>4, CreateCaptureDoes DEF At, Kind, Moves, Ends, tables
    <2> QED
      BY <2>1, OneCallMoves
  <1>5. CASE CreateFindAgain(c)
    <2>1. Calls' /\ Others(c) /\ UNCHANGED cmd /\ At(c)'
      BY <1>0, <1>5, CreateFindAgainDoes DEF At, Kind, Moves, Ends, tables
    <2> QED
      BY <2>1, OneCallMoves
  <1>6. CASE CreateInsert(c)
    <2>1. Calls' /\ Others(c) /\ UNCHANGED cmd /\ At(c)'
      BY <1>0, <1>6, CreateInsertDoes DEF At, Kind, Writes, Ends, tables
    <2> QED
      BY <2>1, OneCallMoves
  <1>7. CASE DecideRead(c)
    <2>1. Calls' /\ Others(c) /\ UNCHANGED cmd /\ At(c)'
      BY <1>0, <1>7, DecideReadDoes DEF At, Kind, Writes, Ends, tables
    <2> QED
      BY <2>1, OneCallMoves
  <1>8. CASE DecideUpdate(c)
    <2>1. Calls' /\ Others(c) /\ UNCHANGED cmd /\ At(c)'
      BY <1>0, <1>8, DecideUpdateDoes DEF At, Kind, Writes, Moves, tables
    <2> QED
      BY <2>1, OneCallMoves
  <1>9. CASE DecideReread(c)
    <2>1. Calls' /\ Others(c) /\ UNCHANGED cmd /\ At(c)'
      BY <1>0, <1>9, DecideRereadDoes DEF At, Kind, Ends, tables
    <2> QED
      BY <2>1, OneCallMoves
  <1>10. CASE ExecuteLock(c)
    <2>1. Calls' /\ Others(c) /\ UNCHANGED cmd /\ At(c)'
      BY <1>0, <1>10, ExecuteLockDoes DEF At, Kind, Writes, Ends, tables
    <2> QED
      BY <2>1, OneCallMoves
  <1>11. CASE ExecuteAgreement(c)
    <2>1. Calls' /\ Others(c) /\ UNCHANGED cmd /\ At(c)'
      BY <1>0, <1>11, ExecuteAgreementDoes DEF At, Kind, Moves, TakesDeal, Ends, tables
    <2> QED
      BY <2>1, OneCallMoves
  <1>12. CASE ExecuteDebt(c)
    <2>1. Calls' /\ Others(c) /\ UNCHANGED cmd /\ At(c)'
      BY <1>0, <1>12, ExecuteDebtDoes DEF At, Kind, TakesDebt, Ends, tables
    <2> QED
      BY <2>1, OneCallMoves
  <1>13. CASE Commit(c)
    <2>1. Calls' /\ Others(c) /\ UNCHANGED cmd /\ At(c)'
      BY <1>0, <1>13, CommitDoes DEF At, Kind, Ends, tables
    <2> QED
      BY <2>1, OneCallMoves
  <1>14. CASE Rollback(c)
    <2>1. Calls' /\ Others(c) /\ UNCHANGED cmd /\ At(c)'
      BY <1>0, <1>14, RollbackDoes DEF At, Kind, Ends, tables
    <2> QED
      BY <2>1, OneCallMoves
  <1>15. CASE Mint(c)
    <2>1. Calls' /\ Others(c) /\ UNCHANGED cmd /\ At(c)'
      BY <1>0, <1>15, MintDoes DEF At, Kind, Ends, tables
    <2> QED
      BY <2>1, OneCallMoves
  <1>16. CASE AnswerCandidate(c)
    <2>1. Calls' /\ Others(c) /\ UNCHANGED cmd /\ At(c)'
      BY <1>0, <1>16, AnswerCandidateDoes DEF At, Kind, Writes, Ends, tables
    <2> QED
      BY <2>1, OneCallMoves
  <1>17. CASE AnswerGet(c)
    <2>1. Calls' /\ Others(c) /\ UNCHANGED cmd /\ At(c)'
      BY <1>0, <1>17, AnswerGetDoes DEF At, Kind, Moves, Ends, tables
    <2> QED
      BY <2>1, OneCallMoves
  <1>18. CASE AnswerUse(c)
    <2>1. Calls' /\ Others(c) /\ UNCHANGED cmd /\ At(c)'
      BY <1>0, <1>18, AnswerUseDoes DEF At, Kind, Ends, tables
    <2> QED
      BY <2>1, OneCallMoves
  <1> QED
    BY <1>1, <1>2, <1>3, <1>4, <1>5, <1>6, <1>7, <1>8, <1>9, <1>10, <1>11, <1>12, <1>13, <1>14, <1>15, <1>16, <1>17, <1>18 DEF Step

LEMMA AgreementStepsStay ==
  ASSUME CallsInv, NEW c \in Call, AgreementStep(c)
  PROVE  CallsInv'
  <1>0. Calls /\ At(c)
    BY DEF CallsInv
  <1>1. CASE AgreeLock(c)
    <2>1. Calls' /\ Others(c) /\ UNCHANGED cmd /\ At(c)'
      BY <1>0, <1>1, AgreeLockDoes DEF At, Kind, TakesDebt, debts
    <2> QED
      BY <2>1, OneCallMoves
  <1>2. CASE AgreeInsert(c)
    <2>1. Calls' /\ Others(c) /\ UNCHANGED cmd /\ At(c)'
      BY <1>0, <1>2, AgreeInsertDoes DEF At, Kind, Ends, Records, debts
    <2> QED
      BY <2>1, OneCallMoves
  <1>3. CASE ReviseLock(c)
    <2>1. Calls' /\ Others(c) /\ UNCHANGED cmd /\ At(c)'
      BY <1>0, <1>3, ReviseLockDoes DEF At, Kind, TakesDebt, Ends, debts
    <2> QED
      BY <2>1, OneCallMoves
  <1>4. CASE ReviseRow(c)
    <2>1. Calls' /\ Others(c) /\ UNCHANGED cmd /\ At(c)'
      BY <1>0, <1>4, ReviseRowDoes DEF At, Kind, TakesDeal, debts
    <2> QED
      BY <2>1, OneCallMoves
  <1>5. CASE ReviseInsert(c)
    <2>1. Calls' /\ Others(c) /\ UNCHANGED cmd /\ At(c)'
      BY <1>0, <1>5, ReviseInsertDoes DEF At, Kind, Ends, Records, debts
    <2> QED
      BY <2>1, OneCallMoves
  <1>6. CASE Pay(c)
    <2>1. Calls' /\ Others(c) /\ UNCHANGED cmd /\ At(c)'
      BY <1>0, <1>6, PayDoes DEF At, Kind, Ends, debts
    <2> QED
      BY <2>1, OneCallMoves
  <1> QED
    BY <1>1, <1>2, <1>3, <1>4, <1>5, <1>6 DEF AgreementStep

LEMMA CallsInvHolds == Spec => []CallsInv
  <1>1. Init => CallsInv
    <2> SUFFICES ASSUME Init PROVE CallsInv
      OBVIOUS
    <2>1. Calls /\ \A c \in Call : call[c].pc = "idle"
      BY DEF Init, Calls, Idle, IsCall
    <2>2. \A c \in Call : Command(c)
      BY ScenesAssumption DEF Init, Command
    <2> QED
      BY <2>1, <2>2 DEF CallsInv, At
  <1>2. CallsInv /\ [Next]_vars => CallsInv'
    <2> SUFFICES ASSUME CallsInv, [Next]_vars PROVE CallsInv'
      OBVIOUS
    <2>1. ASSUME UNCHANGED <<call, cmd>> PROVE CallsInv'
      BY <2>1 DEF CallsInv, Calls, At, Command, Kind
    <2>2. CASE WalkStart \/ WalkPage \/ Cleanup \/ Tick \/ UNCHANGED vars
      BY <2>1, <2>2 DEF WalkStart, WalkPage, Cleanup, Tick, vars
    <2> QED
      BY <2>2, CallStepsStay, AgreementStepsStay DEF Next
  <1> QED
    BY <1>1, <1>2, PTL DEF Spec

--------------------------------------------------------------------------------
\* The agreements

\* Who revises an agreement has found it, and who was told that an agreement is
\* made finds it under the key.
Agreed(c) ==
  /\ call[c].pc \in {"row", "revise"} => cmd[c].deal \in DOMAIN agreement
  /\ Kind(c) \in {"agree", "revise"} /\ call[c].pc = "ok" => call[c].id \in Known(c)
AgreementsInv == Lineage(agreement) /\ \A c \in Call : Agreed(c)

\* The requests and the links leave the agreements, and who makes them, alone.
LEMMA StepsLeaveAgreements ==
  ASSUME CallsInv, NEW c \in Call, Step(c)
  PROVE  /\ Others(c) /\ UNCHANGED <<cmd, agreement>>
         /\ Kind(c) \in {"agree", "revise"} => call'[c].pc = "refused"
  <1>0. Calls /\ At(c)
    BY DEF CallsInv
  <1>1. CASE Select(c)
    BY <1>0, <1>1, SelectDoes DEF At, Moves, tables, debts
  <1>2. CASE CreateFind(c)
    BY <1>0, <1>2, CreateFindDoes DEF At, Moves, Ends, tables, debts
  <1>3. CASE CreateLock(c)
    BY <1>0, <1>3, CreateLockDoes DEF At, TakesDebt, Ends, tables, debts
  <1>4. CASE CreateCapture(c)
    BY <1>0, <1>4, CreateCaptureDoes DEF At, Moves, Ends, tables, debts
  <1>5. CASE CreateFindAgain(c)
    BY <1>0, <1>5, CreateFindAgainDoes DEF At, Moves, Ends, tables, debts
  <1>6. CASE CreateInsert(c)
    BY <1>0, <1>6, CreateInsertDoes DEF At, Writes, Ends, tables, debts
  <1>7. CASE DecideRead(c)
    BY <1>0, <1>7, DecideReadDoes DEF At, Writes, Ends, tables, debts
  <1>8. CASE DecideUpdate(c)
    BY <1>0, <1>8, DecideUpdateDoes DEF At, Writes, Moves, tables, debts
  <1>9. CASE DecideReread(c)
    BY <1>0, <1>9, DecideRereadDoes DEF At, Ends, tables, debts
  <1>10. CASE ExecuteLock(c)
    BY <1>0, <1>10, ExecuteLockDoes DEF At, Writes, Ends, tables, debts
  <1>11. CASE ExecuteAgreement(c)
    BY <1>0, <1>11, ExecuteAgreementDoes DEF At, Moves, TakesDeal, Ends, tables, debts
  <1>12. CASE ExecuteDebt(c)
    BY <1>0, <1>12, ExecuteDebtDoes DEF At, TakesDebt, Ends, tables, debts
  <1>13. CASE Commit(c)
    BY <1>0, <1>13, CommitDoes DEF At, Ends, tables, debts
  <1>14. CASE Rollback(c)
    BY <1>0, <1>14, RollbackDoes DEF At, Ends, tables, debts
  <1>15. CASE Mint(c)
    BY <1>0, <1>15, MintDoes DEF At, Ends, tables, debts
  <1>16. CASE AnswerCandidate(c)
    BY <1>0, <1>16, AnswerCandidateDoes DEF At, Writes, Ends, tables, debts
  <1>17. CASE AnswerGet(c)
    BY <1>0, <1>17, AnswerGetDoes DEF At, Moves, Ends, tables, debts
  <1>18. CASE AnswerUse(c)
    BY <1>0, <1>18, AnswerUseDoes DEF At, Ends, tables, debts
  <1> QED
    BY <1>1, <1>2, <1>3, <1>4, <1>5, <1>6, <1>7, <1>8, <1>9, <1>10, <1>11, <1>12, <1>13, <1>14, <1>15, <1>16, <1>17, <1>18 DEF Step

LEMMA AgreementsLeft ==
  ASSUME CallsInv, AgreementsInv, NEW c \in Call, Others(c), UNCHANGED <<cmd, agreement>>,
         call'[c].pc \in {"row", "revise"} => cmd[c].deal \in DOMAIN agreement,
         Kind(c) \in {"agree", "revise"} /\ call'[c].pc = "ok" => call'[c].id \in Known(c)
  PROVE  AgreementsInv'
  BY DEF AgreementsInv, Agreed, Others, Known, Kind

\* A deal is recorded that follows none, where none is active.
LEMMA FirstDeal ==
  ASSUME Lineage(agreement), NEW c \in Call, Known(c) = {}, NEW about, ActiveDeals(about) = {},
         Records(c, about, NoDeal, 1, agreement)
  PROVE  Lineage(agreement)'
  <1>1. PICK i \in DealId \ DOMAIN agreement :
          /\ DOMAIN agreement' = DOMAIN agreement \cup {i}
          /\ agreement'[i] = [about |-> about, terms |-> cmd[c].terms, status |-> "ACTIVE", number |-> 1,
                              of |-> NoDeal, by |-> cmd[c].by, key |-> cmd[c].key, asked |-> Asked(c)]
          /\ \A j \in DOMAIN agreement : j # i => agreement'[j] = agreement[j]
    BY DEF Records
  <1>2. \A j \in DOMAIN agreement : j # i /\ agreement'[j] = agreement[j] /\ j # NoDeal
    BY <1>1, DealIdAssumption DEF NoDeal, Lineage
  <1>3. /\ agreement'[i].about = about /\ agreement'[i].status = "ACTIVE" /\ agreement'[i].of = NoDeal
        /\ agreement'[i].by = cmd[c].by /\ agreement'[i].key = cmd[c].key /\ IsDeal(agreement'[i])
        /\ i # NoDeal /\ i \in DealId
    BY <1>1, DealIdAssumption DEF IsDeal, NoDeal
  <1>4. \A j \in DOMAIN agreement : agreement[j].of # i
    BY <1>1, <1>3 DEF Lineage
  <1>5. DOMAIN agreement' \subseteq DealId
    BY <1>1 DEF Lineage
  <1>6. ASSUME NEW j \in DOMAIN agreement'
        PROVE  /\ IsDeal(agreement'[j]) /\ agreement'[j].status \in {"ACTIVE", "SUPERSEDED"}
               /\ agreement'[j].of \in {NoDeal} \cup DOMAIN agreement'
               /\ (agreement'[j].status = "SUPERSEDED") <=>
                    \E k \in DOMAIN agreement' : agreement'[k].of = j
    <2>1. CASE j = i
      BY <1>1, <1>2, <1>3, <1>4, <2>1
    <2>2. CASE j \in DOMAIN agreement
      BY <1>1, <1>2, <1>3, <2>2 DEF Lineage
    <2> QED
      BY <1>1, <2>1, <2>2
  <1>7. ASSUME NEW j \in DOMAIN agreement', NEW k \in DOMAIN agreement', agreement'[k].of = j
        PROVE  /\ agreement'[k].about = agreement'[j].about /\ agreement'[k].terms = agreement'[j].terms
               /\ agreement'[k].number = agreement'[j].number + 1
    <2>1. k # i
      <3>1. ASSUME k = i PROVE j = NoDeal
        BY <1>3, <1>7, <3>1
      <3> QED
        BY <1>1, <1>2, <1>3, <3>1
    <2>2. k \in DOMAIN agreement /\ agreement[k].of = j /\ j \in DOMAIN agreement
      BY <1>1, <1>2, <1>4, <1>7, <2>1
    <2> QED
      BY <1>2, <2>2 DEF Lineage
  <1>8. ASSUME NEW j \in DOMAIN agreement', NEW k \in DOMAIN agreement', j # k
        PROVE  /\ ~ (/\ agreement'[j].about = agreement'[k].about
                     /\ {agreement'[j].status, agreement'[k].status} = {"ACTIVE"})
               /\ ~ (agreement'[j].by = agreement'[k].by /\ agreement'[j].key = agreement'[k].key)
               /\ ~ (agreement'[j].of = agreement'[k].of /\ agreement'[j].of # NoDeal)
    <2>1. \A l \in DOMAIN agreement :
            /\ ~ (agreement[l].about = about /\ agreement[l].status = "ACTIVE")
            /\ ~ (agreement[l].by = cmd[c].by /\ agreement[l].key = cmd[c].key)
      BY DEF ActiveDeals, Known
    <2>2. CASE j = i
      BY <1>1, <1>2, <1>3, <1>8, <2>1, <2>2
    <2>3. CASE k = i
      BY <1>1, <1>2, <1>3, <1>8, <2>1, <2>3
    <2>4. CASE j \in DOMAIN agreement /\ k \in DOMAIN agreement
      BY <1>2, <1>8, <2>4 DEF Lineage
    <2> QED
      BY <1>1, <2>2, <2>3, <2>4
  <1> QED
    BY <1>5, <1>6, <1>7, <1>8 DEF Lineage

\* A deal is recorded that follows an active one, which is superseded.
LEMMA NextDeal ==
  ASSUME Lineage(agreement), NEW c \in Call, Known(c) = {}, NEW old \in DOMAIN agreement,
         agreement[old].status = "ACTIVE", agreement[old].terms = cmd[c].terms,
         Records(c, agreement[old].about, old, agreement[old].number + 1,
                 [agreement EXCEPT ![old].status = "SUPERSEDED"])
  PROVE  Lineage(agreement)'
  <1>0. PICK others : others = [agreement EXCEPT ![old].status = "SUPERSEDED"]
    OBVIOUS
  <1>1. PICK i \in DealId \ DOMAIN agreement :
          /\ DOMAIN agreement' = DOMAIN others \cup {i}
          /\ agreement'[i] = [about |-> agreement[old].about, terms |-> cmd[c].terms, status |-> "ACTIVE",
                              number |-> agreement[old].number + 1, of |-> old,
                              by |-> cmd[c].by, key |-> cmd[c].key, asked |-> Asked(c)]
          /\ \A j \in DOMAIN others : j # i => agreement'[j] = others[j]
    BY <1>0 DEF Records
  <1>2. /\ DOMAIN others = DOMAIN agreement
        /\ \A j \in DOMAIN agreement : j # old => others[j] = agreement[j]
        /\ others[old] = [agreement[old] EXCEPT !.status = "SUPERSEDED"]
    BY <1>0
  <1>3. /\ agreement'[i].about = agreement[old].about /\ agreement'[i].status = "ACTIVE"
        /\ agreement'[i].of = old /\ agreement'[i].terms = agreement[old].terms
        /\ agreement'[i].number = agreement[old].number + 1
        /\ agreement'[i].by = cmd[c].by /\ agreement'[i].key = cmd[c].key /\ IsDeal(agreement'[i])
        /\ i \in DealId /\ DOMAIN agreement' = DOMAIN agreement \cup {i}
    BY <1>1, <1>2 DEF IsDeal
  <1>4. /\ IsDeal(others[old]) /\ others[old].status = "SUPERSEDED"
        /\ others[old].about = agreement[old].about /\ others[old].terms = agreement[old].terms
        /\ others[old].number = agreement[old].number /\ others[old].of = agreement[old].of
        /\ others[old].by = agreement[old].by /\ others[old].key = agreement[old].key
    <2>1. PICK a, b, d, f, g, h, k, l :
            agreement[old] = [about |-> a, terms |-> b, status |-> d, number |-> f,
                              of |-> g, by |-> h, key |-> k, asked |-> l]
      BY DEF Lineage, IsDeal
    <2> QED
      BY <1>2, <2>1 DEF IsDeal
  <1>5. \A j \in DOMAIN agreement :
          /\ j # i /\ IsDeal(agreement'[j])
          /\ agreement'[j].about = agreement[j].about /\ agreement'[j].terms = agreement[j].terms
          /\ agreement'[j].number = agreement[j].number /\ agreement'[j].of = agreement[j].of
          /\ agreement'[j].by = agreement[j].by /\ agreement'[j].key = agreement[j].key
          /\ agreement'[j].status = IF j = old THEN "SUPERSEDED" ELSE agreement[j].status
    <2> SUFFICES ASSUME NEW j \in DOMAIN agreement
                 PROVE  /\ j # i /\ IsDeal(agreement'[j])
                        /\ agreement'[j].about = agreement[j].about /\ agreement'[j].terms = agreement[j].terms
                        /\ agreement'[j].number = agreement[j].number /\ agreement'[j].of = agreement[j].of
                        /\ agreement'[j].by = agreement[j].by /\ agreement'[j].key = agreement[j].key
                        /\ agreement'[j].status = IF j = old THEN "SUPERSEDED" ELSE agreement[j].status
      OBVIOUS
    <2>1. j # i /\ agreement'[j] = others[j]
      BY <1>1, <1>2
    <2>2. CASE j = old
      BY <1>4, <2>1, <2>2
    <2>3. CASE j # old
      <3>1. agreement'[j] = agreement[j] /\ IsDeal(agreement[j])
        BY <1>2, <2>1, <2>3 DEF Lineage
      <3> QED
        BY <2>1, <2>3, <3>1
    <2> QED
      BY <2>2, <2>3
  <1>6. \A j \in DOMAIN agreement : agreement[j].of # i /\ agreement[j].of # old
    BY <1>1, DealIdAssumption DEF Lineage, NoDeal
  <1>7. i # NoDeal /\ old # NoDeal
    BY <1>3, DealIdAssumption DEF Lineage, NoDeal
  <1>8. ASSUME NEW j \in DOMAIN agreement'
        PROVE  /\ IsDeal(agreement'[j]) /\ agreement'[j].status \in {"ACTIVE", "SUPERSEDED"}
               /\ agreement'[j].of \in {NoDeal} \cup DOMAIN agreement'
               /\ (agreement'[j].status = "SUPERSEDED") <=>
                    \E k \in DOMAIN agreement' : agreement'[k].of = j
    <2>1. CASE j = i
      BY <1>3, <1>5, <1>6, <2>1
    <2>2. CASE j = old
      BY <1>3, <1>5, <2>2 DEF Lineage
    <2>3. CASE j \in DOMAIN agreement /\ j # old
      BY <1>3, <1>5, <2>3 DEF Lineage
    <2> QED
      BY <1>3, <2>1, <2>2, <2>3
  <1>9. ASSUME NEW j \in DOMAIN agreement', NEW k \in DOMAIN agreement', agreement'[k].of = j
        PROVE  /\ agreement'[k].about = agreement'[j].about /\ agreement'[k].terms = agreement'[j].terms
               /\ agreement'[k].number = agreement'[j].number + 1
    <2>1. CASE k = i
      BY <1>3, <1>5, <1>9, <2>1
    <2>2. CASE k \in DOMAIN agreement
      <3>1. agreement[k].of = j /\ j \in DOMAIN agreement
        BY <1>3, <1>5, <1>6, <1>9, <2>2
      <3> QED
        BY <1>5, <2>2, <3>1 DEF Lineage
    <2> QED
      BY <1>3, <2>1, <2>2
  <1>10. ASSUME NEW j \in DOMAIN agreement', NEW k \in DOMAIN agreement', j # k
         PROVE  /\ ~ (/\ agreement'[j].about = agreement'[k].about
                      /\ {agreement'[j].status, agreement'[k].status} = {"ACTIVE"})
                /\ ~ (agreement'[j].by = agreement'[k].by /\ agreement'[j].key = agreement'[k].key)
                /\ ~ (agreement'[j].of = agreement'[k].of /\ agreement'[j].of # NoDeal)
    <2>1. \A l \in DOMAIN agreement :
            /\ ~ (agreement'[l].about = agreement[old].about /\ agreement'[l].status = "ACTIVE")
            /\ ~ (agreement'[l].by = cmd[c].by /\ agreement'[l].key = cmd[c].key)
            /\ agreement'[l].of # old
      <3>1. \A l \in DOMAIN agreement :
              ~ (agreement'[l].about = agreement[old].about /\ agreement'[l].status = "ACTIVE")
        BY <1>5 DEF Lineage
      <3>2. \A l \in DOMAIN agreement :
              ~ (agreement'[l].by = cmd[c].by /\ agreement'[l].key = cmd[c].key)
        BY <1>5 DEF Known
      <3> QED
        BY <1>5, <1>6, <3>1, <3>2
    <2>2. CASE j = i
      BY <1>3, <1>10, <2>1, <2>2
    <2>3. CASE k = i
      BY <1>3, <1>10, <2>1, <2>3
    <2>4. CASE j \in DOMAIN agreement /\ k \in DOMAIN agreement
      <3>1. ~ (/\ agreement'[j].about = agreement'[k].about
               /\ {agreement'[j].status, agreement'[k].status} = {"ACTIVE"})
        <4> SUFFICES ASSUME agreement'[j].about = agreement'[k].about,
                            agreement'[j].status = "ACTIVE", agreement'[k].status = "ACTIVE"
                     PROVE  FALSE
          OBVIOUS
        <4>1. agreement[j].status = "ACTIVE" /\ agreement[k].status = "ACTIVE"
          BY <1>5, <2>4
        <4>2. agreement[j].about = agreement[k].about
          BY <1>5, <2>4
        <4> QED
          BY <1>10, <2>4, <4>1, <4>2 DEF Lineage
      <3>2. ~ (agreement'[j].by = agreement'[k].by /\ agreement'[j].key = agreement'[k].key)
        BY <1>5, <1>10, <2>4 DEF Lineage
      <3>3. ~ (agreement'[j].of = agreement'[k].of /\ agreement'[j].of # NoDeal)
        BY <1>5, <1>10, <2>4 DEF Lineage
      <3> QED
        BY <3>1, <3>2, <3>3
    <2> QED
      BY <1>3, <2>2, <2>3, <2>4
  <1>11. DOMAIN agreement' \subseteq DealId
    BY <1>3 DEF Lineage
  <1>12. \A j, k \in DOMAIN agreement' :
           /\ agreement'[k].of = j =>
                /\ agreement'[k].about = agreement'[j].about /\ agreement'[k].terms = agreement'[j].terms
                /\ agreement'[k].number = agreement'[j].number + 1
           /\ \/ /\ agreement'[j].about = agreement'[k].about
                 /\ {agreement'[j].status, agreement'[k].status} = {"ACTIVE"}
              \/ agreement'[j].by = agreement'[k].by /\ agreement'[j].key = agreement'[k].key
              \/ agreement'[j].of = agreement'[k].of /\ agreement'[j].of # NoDeal
              => j = k
    BY <1>9, <1>10
  <1> QED
    BY <1>8, <1>11, <1>12 DEF Lineage

LEMMA DealsStay ==
  ASSUME CallsInv, AgreementsInv, NEW c \in Call, AgreementStep(c)
  PROVE  AgreementsInv'
  <1>0. Calls /\ At(c) /\ Agreed(c) /\ Lineage(agreement)
    BY DEF CallsInv, AgreementsInv
  <1>1. CASE AgreeLock(c)
    <2>1. /\ Others(c) /\ UNCHANGED <<cmd, agreement>> /\ call'[c].pc = "agree"
      BY <1>0, <1>1, AgreeLockDoes DEF TakesDebt, debts
    <2> QED
      BY <2>1, AgreementsLeft
  <1>2. CASE ReviseLock(c)
    <2>1. /\ Others(c) /\ UNCHANGED <<cmd, agreement>>
          /\ call'[c].pc = "refused" \/ (call'[c].pc = "row" /\ cmd[c].deal \in DOMAIN agreement)
      BY <1>0, <1>2, ReviseLockDoes DEF TakesDebt, Ends, debts
    <2> QED
      BY <2>1, AgreementsLeft
  <1>3. CASE ReviseRow(c)
    <2>1. /\ Others(c) /\ UNCHANGED <<cmd, agreement>> /\ call'[c].pc = "revise"
          /\ cmd[c].deal \in DOMAIN agreement
      BY <1>0, <1>3, ReviseRowDoes DEF TakesDeal, debts, Agreed
    <2> QED
      BY <2>1, AgreementsLeft
  <1>4. CASE Pay(c)
    <2>1. /\ Others(c) /\ UNCHANGED <<cmd, agreement>> /\ call'[c].pc \in {"ok", "refused"}
          /\ Kind(c) = "pay"
      BY <1>0, <1>4, PayDoes DEF Ends
    <2> QED
      BY <2>1, AgreementsLeft
  <1>5. CASE AgreeInsert(c) \/ ReviseInsert(c)
    <2>1. UNCHANGED cmd
      BY <1>0, <1>5, AgreeInsertDoes, ReviseInsertDoes
    <2>2. CASE /\ UNCHANGED agreement
               /\ \/ Ends(c, "refused", 0)
                  \/ \E i \in Known(c) : Ends(c, "ok", i) \/ Ends(c, "refused", i)
      <3>1. /\ Others(c) /\ call'[c].pc \in {"ok", "refused"}
            /\ call'[c].pc = "ok" => call'[c].id \in Known(c)
        BY <2>2 DEF Ends
      <3> QED
        BY <2>1, <2>2, <3>1, AgreementsLeft
    <2>3. CASE /\ Lineage(agreement)' /\ UNCHANGED cmd /\ Known(c) = {}
               /\ \A j \in DOMAIN agreement :
                    /\ j \in DOMAIN agreement'
                    /\ agreement'[j].by = agreement[j].by /\ agreement'[j].key = agreement[j].key
               /\ \E i \in DOMAIN agreement' :
                    /\ Ends(c, "ok", i)
                    /\ agreement'[i].by = cmd[c].by /\ agreement'[i].key = cmd[c].key
      <3>1. Agreed(c)'
        BY <2>3 DEF Agreed, Ends, Known
      <3>2. ASSUME NEW d \in Call, d # c PROVE Agreed(d)'
        <4>1. Agreed(d) /\ call'[d] = call[d] /\ cmd'[d] = cmd[d] /\ Kind(d)' = Kind(d)
          BY <2>3, <3>2 DEF AgreementsInv, Ends, Others, Kind
        <4>2. \A i \in Known(d) : i \in Known(d)'
          BY <2>3 DEF Known
        <4> QED
          BY <2>3, <4>1, <4>2 DEF Agreed
      <3> QED
        BY <2>3, <3>1, <3>2 DEF AgreementsInv
    <2>4. CASE /\ Known(c) = {} /\ NoneActive(c)
               /\ Records(c, cmd[c].content.about, NoDeal, 1, agreement)
      <3>1. Lineage(agreement)'
        BY <1>0, <2>4, FirstDeal DEF NoneActive
      <3>2. /\ \A j \in DOMAIN agreement :
                    /\ j \in DOMAIN agreement'
                    /\ agreement'[j].by = agreement[j].by /\ agreement'[j].key = agreement[j].key
            /\ \E i \in DOMAIN agreement' :
                    /\ Ends(c, "ok", i)
                    /\ agreement'[i].by = cmd[c].by /\ agreement'[i].key = cmd[c].key
        BY <2>4 DEF Records
      <3> QED
        BY <2>1, <2>3, <2>4, <3>1, <3>2
    <2>5. CASE /\ Known(c) = {} /\ Revisable(c, agreement[cmd[c].deal]) /\ ReviseInsert(c)
               /\ Records(c, agreement[cmd[c].deal].about, cmd[c].deal, agreement[cmd[c].deal].number + 1,
                          [agreement EXCEPT ![cmd[c].deal].status = "SUPERSEDED"])
      <3>0. PICK old : old = cmd[c].deal
        OBVIOUS
      <3>1. /\ old \in DOMAIN agreement /\ agreement[old].status = "ACTIVE"
            /\ agreement[old].terms = cmd[c].terms
        BY <1>0, <2>5, <3>0, ReviseInsertDoes DEF Agreed, Revisable
      <3>2. Lineage(agreement)'
        BY <1>0, <2>5, <3>0, <3>1, NextDeal
      <3>3. PICK others : others = [agreement EXCEPT ![old].status = "SUPERSEDED"]
        OBVIOUS
      <3>4. PICK i \in DealId \ DOMAIN agreement :
              /\ Ends(c, "ok", i) /\ DOMAIN agreement' = DOMAIN others \cup {i}
              /\ agreement'[i].by = cmd[c].by /\ agreement'[i].key = cmd[c].key
              /\ \A j \in DOMAIN others : j # i => agreement'[j] = others[j]
        BY <2>5, <3>0, <3>3 DEF Records
      <3>5. DOMAIN others = DOMAIN agreement
        BY <3>3
      <3>6. ASSUME NEW j \in DOMAIN agreement
            PROVE  others[j].by = agreement[j].by /\ others[j].key = agreement[j].key
        <4>1. PICK a, b, d, f, g, h, k, l :
                agreement[j] = [about |-> a, terms |-> b, status |-> d, number |-> f,
                                of |-> g, by |-> h, key |-> k, asked |-> l]
          BY <1>0 DEF Lineage, IsDeal
        <4> QED
          BY <3>3, <4>1
      <3>7. \A j \in DOMAIN agreement :
              /\ j \in DOMAIN agreement'
              /\ agreement'[j].by = agreement[j].by /\ agreement'[j].key = agreement[j].key
        BY <3>4, <3>5, <3>6
      <3> QED
        BY <2>1, <2>3, <2>5, <3>2, <3>4, <3>7
    <2>6. CASE AgreeInsert(c)
      BY <1>0, <2>2, <2>4, <2>6, AgreeInsertDoes
    <2>7. CASE ReviseInsert(c)
      BY <1>0, <2>2, <2>5, <2>7, ReviseInsertDoes
    <2> QED
      BY <1>5, <2>6, <2>7
  <1> QED
    BY <1>1, <1>2, <1>3, <1>4, <1>5 DEF AgreementStep

LEMMA AgreementsInvHolds == Spec => []AgreementsInv
  <1>1. Init => AgreementsInv
    <2> SUFFICES ASSUME Init PROVE AgreementsInv
      OBVIOUS
    <2>1. Lineage(agreement)
      BY ScenesAssumption DEF Init
    <2>2. \A c \in Call : call[c].pc = "idle"
      BY DEF Init, Idle
    <2> QED
      BY <2>1, <2>2 DEF AgreementsInv, Agreed
  <1>2. CallsInv /\ AgreementsInv /\ [Next]_vars => AgreementsInv'
    <2> SUFFICES ASSUME CallsInv, AgreementsInv, [Next]_vars PROVE AgreementsInv'
      OBVIOUS
    <2>1. ASSUME NEW c \in Call, Step(c) PROVE AgreementsInv'
      <3>1. /\ Others(c) /\ UNCHANGED <<cmd, agreement>> /\ CallsInv'
            /\ Kind(c) \in {"agree", "revise"} => call'[c].pc = "refused"
        BY <2>1, StepsLeaveAgreements, CallStepsStay
      <3>2. call'[c].pc \in {"row", "revise"} => Kind(c) = "revise"
        BY <3>1 DEF CallsInv, At, Kind
      <3> QED
        BY <3>1, <3>2, AgreementsLeft
    <2>2. ASSUME UNCHANGED <<call, cmd, agreement>> PROVE AgreementsInv'
      BY <2>2 DEF AgreementsInv, Agreed, Known, Kind
    <2>3. CASE WalkStart \/ WalkPage \/ Cleanup \/ Tick \/ UNCHANGED vars
      BY <2>2, <2>3 DEF WalkStart, WalkPage, Cleanup, Tick, vars, debts
    <2> QED
      BY <2>1, <2>3, DealsStay DEF Next
  <1> QED
    BY <1>1, <1>2, CallsInvHolds, PTL DEF Spec

\* For any calls, deals and keys: an obligation has one chain of agreements, the
\* last one active, and a key is answered with one agreement (createAgreement,
\* reviseAgreementCore).
THEOREM LineagesAreChains == Spec => []AgreementsFormOneChain
  <1>1. CallsInv /\ AgreementsInv => AgreementsFormOneChain
    <2> SUFFICES ASSUME CallsInv, AgreementsInv PROVE AgreementsFormOneChain
      OBVIOUS
    <2>0. Lineage(agreement)
      BY DEF AgreementsInv
    <2>1. ASSUME NEW i \in DOMAIN agreement
          PROVE  /\ Cardinality(ActiveDeals(agreement[i].about)) <= 1
                 /\ Cardinality(Successors(i)) = (IF agreement[i].status = "ACTIVE" THEN 0 ELSE 1)
      <3>1. \A j, k \in ActiveDeals(agreement[i].about) : j = k
        BY <2>0 DEF Lineage, ActiveDeals
      <3>2. Cardinality(ActiveDeals(agreement[i].about)) <= 1
        <4>1. CASE ActiveDeals(agreement[i].about) = {}
          BY <4>1, FS_EmptySet
        <4>2. CASE ActiveDeals(agreement[i].about) # {}
          <5>1. PICK j : ActiveDeals(agreement[i].about) = {j}
            BY <3>1, <4>2
          <5>2. Cardinality({j}) = 1
            BY FS_Singleton
          <5> QED
            BY <5>1, <5>2
        <4> QED
          BY <4>1, <4>2
      <3>3. i # NoDeal
        BY <2>0, DealIdAssumption DEF Lineage, NoDeal
      <3>4. \A j, k \in Successors(i) : j = k
        BY <2>0, <3>3 DEF Lineage, Successors
      <3>5. CASE agreement[i].status = "ACTIVE"
        <4>1. Successors(i) = {}
          BY <2>0, <3>5 DEF Lineage, Successors
        <4> QED
          BY <3>2, <3>5, <4>1, FS_EmptySet
      <3>6. CASE agreement[i].status # "ACTIVE"
        <4>1. PICK j : Successors(i) = {j}
          BY <2>0, <3>4, <3>6 DEF Lineage, Successors
        <4>2. Cardinality({j}) = 1
          BY FS_Singleton
        <4> QED
          BY <3>2, <3>6, <4>1, <4>2
      <3> QED
        BY <3>5, <3>6
    <2>2. ASSUME NEW i \in DOMAIN agreement, NEW j \in Successors(i)
          PROVE  /\ agreement[j].about = agreement[i].about
                 /\ agreement[j].terms = agreement[i].terms
                 /\ agreement[j].number = agreement[i].number + 1
      BY <2>0 DEF Lineage, Successors
    <2>3. ASSUME NEW c \in Call, NEW d \in Call, {Kind(c), Kind(d)} \subseteq {"agree", "revise"},
                 call[c].pc = "ok", call[d].pc = "ok", cmd[c].by = cmd[d].by, cmd[c].key = cmd[d].key
          PROVE  call[c].id = call[d].id
      <3>1. call[c].id \in Known(c) /\ call[d].id \in Known(d)
        BY <2>3 DEF AgreementsInv, Agreed
      <3> QED
        BY <2>0, <2>3, <3>1 DEF Lineage, Known
    <2> QED
      BY <2>1, <2>2, <2>3 DEF AgreementsFormOneChain
  <1> QED
    BY <1>1, CallsInvHolds, AgreementsInvHolds, PTL

--------------------------------------------------------------------------------
\* The rows and who writes them

Writing(c) == call[c].work # NoWork
WritesNow(c) ==
  call[c].pc \in {"commit", "agreement"} \/ (Kind(c) = "execute" /\ call[c].pc \in {"select", "wait"})
OnRecord(row, c) ==
  row.status = cmd[c].decision /\ row.decider = cmd[c].by /\ row.grounds = cmd[c].grounds
AskedBy(row, c) ==
  row.type = cmd[c].type /\ row.by = cmd[c].by /\ row.key = cmd[c].key /\ row.content = cmd[c].content
Drawn(i) == i \in DOMAIN rows \cup gone

\* What a call knows of the row it is about: a creation that nobody has its id, a
\* decision and an execution that the row is as they read it until they write it,
\* and whoever was answered that the row, while it exists, says so.
Creates(c) ==
  /\ call[c].pc \in {"find", "insert"} /\ cmd[c].deal # NoDeal =>
       cmd[c].deal \in DOMAIN agreement /\ agreement[cmd[c].deal].about = cmd[c].content.about
  /\ call[c].pc = "commit" =>
       /\ call[c].id \in Id /\ ~Drawn(call[c].id)
       /\ Written(call[c].work, now, agreement) /\ AskedBy(call[c].work, c)
  /\ call[c].pc = "ok" =>
       /\ Drawn(call[c].id)
       /\ call[c].id \in DOMAIN rows => AskedBy(rows[call[c].id], c)
Decides(c) ==
  /\ call[c].pc \in {"update", "reread", "commit"} =>
       /\ Drawn(call[c].id)
       /\ call[c].id \in DOMAIN rows => /\ rows[call[c].id].type = cmd[c].type
                                        /\ rows[call[c].id].by # cmd[c].by
  /\ call[c].pc = "commit" =>
       /\ call[c].id \in DOMAIN rows /\ rows[call[c].id].status = "pending"
       /\ rows[call[c].id].used = NotYet /\ call[c].work = Decided(rows[call[c].id], c)
  /\ call[c].pc = "ok" =>
       /\ Drawn(call[c].id)
       /\ call[c].id \in DOMAIN rows => /\ rows[call[c].id].type = cmd[c].type
                                        /\ OnRecord(rows[call[c].id], c)
Executes(c) ==
  WritesNow(c) =>
    /\ call[c].id \in DOMAIN rows /\ rows[call[c].id].type = cmd[c].type
    /\ rows[call[c].id].status = "approved" /\ rows[call[c].id].used = NotYet
    /\ \E t \in 1..now : call[c].work = [rows[call[c].id] EXCEPT !.used = t]
Answers(c) ==
  call[c].pc \in {"get", "use", "ok"} =>
    /\ Drawn(call[c].id)
    /\ call[c].id \in DOMAIN rows => /\ rows[call[c].id].type = "link"
                                     /\ call[c].pc = "ok" => rows[call[c].id].used # NotYet
WorkInv(c) ==
  /\ call[c].begun \in 0..now
  /\ Writing(c) <=> WritesNow(c)
  /\ Kind(c) = "create" => Creates(c)
  /\ Kind(c) = "decide" => Decides(c)
  /\ Kind(c) = "execute" => Executes(c)
  /\ Kind(c) = "answer" => Answers(c)

RowsAreWritten ==
  /\ now \in 1..MaxTime /\ DOMAIN rows \subseteq Id /\ IsFiniteSet(DOMAIN rows)
  /\ DOMAIN rows \cap gone = {}
  /\ \A i \in DOMAIN rows : Written(rows[i], now, agreement)
OneWriter == \A c, d \in Call : c # d /\ Writing(c) /\ Writing(d) => call[c].id # call[d].id
RowsInv ==
  RowsAreWritten /\ OneWriter /\ LinksAreAnsweredOnce /\ \A c \in Call : WorkInv(c)

\* What any step does to the rows: ids are not drawn twice, a row keeps what was
\* asked, its use and its decision, and the row a call is writing is left alone.
Follows(old, new) ==
  /\ new.type = old.type /\ new.by = old.by /\ new.key = old.key /\ new.content = old.content
  /\ new.deal = old.deal /\ new.created = old.created /\ new.expires = old.expires
  /\ old.used # NotYet => new.used = old.used
  /\ old.type \in Requests /\ old.status # "pending" =>
       new.status = old.status /\ new.decider = old.decider /\ new.grounds = old.grounds
RowsGo ==
  /\ gone \subseteq gone' /\ gone' \subseteq gone \cup DOMAIN rows
  /\ DOMAIN rows \subseteq DOMAIN rows' \cup gone' /\ DOMAIN rows' \cap gone' = {}
  /\ \A i \in DOMAIN rows \cap DOMAIN rows' : Follows(rows[i], rows'[i])
HeldFor(c) ==
  \A d \in Call : d # c /\ Writing(d) =>
    /\ call[d].id \in DOMAIN rows <=> call[d].id \in DOMAIN rows'
    /\ call[d].id \in DOMAIN rows => rows'[call[d].id] = rows[call[d].id]
DealsGrow ==
  \A i \in DOMAIN agreement : i \in DOMAIN agreement' /\ agreement'[i].about = agreement[i].about

LEMMA WrittenStays ==
  ASSUME NEW row, NEW t \in Nat, NEW u \in Nat, t <= u, NEW deals, NEW more, Written(row, t, deals),
         \A i \in DOMAIN deals : i \in DOMAIN more /\ more[i].about = deals[i].about
  PROVE  Written(row, u, more)
  BY DEF Written

LEMMA OthersKeep ==
  ASSUME CallsInv, RowsInv, NEW c, Others(c), RowsGo, HeldFor(c), DealsGrow, UNCHANGED cmd,
         now' \in Nat, now <= now', NEW d \in Call, d # c
  PROVE  WorkInv(d)'
  <1>0. /\ WorkInv(d) /\ call'[d] = call[d] /\ cmd'[d] = cmd[d] /\ Kind(d)' = Kind(d)
        /\ Writing(d)' = Writing(d) /\ WritesNow(d)' = WritesNow(d) /\ now \in Nat
        /\ DOMAIN rows \cap gone = {}
    BY DEF RowsInv, RowsAreWritten, Others, Kind, Writing, WritesNow
  <1>1. Drawn(call[d].id) => Drawn(call[d].id)'
    BY <1>0 DEF RowsGo, Drawn
  <1>2. Drawn(call[d].id) /\ call[d].id \in DOMAIN rows' =>
          call[d].id \in DOMAIN rows /\ Follows(rows[call[d].id], rows'[call[d].id])
    BY <1>0 DEF RowsGo, Drawn
  <1>3. Writing(d) =>
          /\ call[d].id \in DOMAIN rows <=> call[d].id \in DOMAIN rows'
          /\ call[d].id \in DOMAIN rows => rows'[call[d].id] = rows[call[d].id]
    BY DEF HeldFor
  <1>4. Kind(d) = "create" => Creates(d)'
    <2> SUFFICES ASSUME Kind(d) = "create" PROVE Creates(d)'
      OBVIOUS
    <2>0. Creates(d)
      BY <1>0 DEF WorkInv
    <2>1. call[d].pc \in {"find", "insert"} /\ cmd[d].deal # NoDeal =>
            cmd[d].deal \in DOMAIN agreement' /\ agreement'[cmd[d].deal].about = cmd[d].content.about
      BY <2>0 DEF Creates, DealsGrow
    <2>2. ASSUME call[d].pc = "commit"
          PROVE  /\ call[d].id \in Id /\ ~Drawn(call[d].id)'
                 /\ Written(call[d].work, now', agreement') /\ AskedBy(call[d].work, d)
      <3>1. Writing(d)
        BY <1>0, <2>2 DEF WorkInv, WritesNow
      <3>2. ~Drawn(call[d].id)'
        BY <1>0, <1>3, <2>0, <2>2, <3>1 DEF Creates, Drawn, RowsGo
      <3>3. Written(call[d].work, now', agreement')
        BY <1>0, <2>0, <2>2, WrittenStays DEF Creates, DealsGrow
      <3> QED
        BY <2>0, <2>2, <3>2, <3>3 DEF Creates
    <2>3. call[d].pc = "ok" =>
            /\ Drawn(call[d].id)'
            /\ call[d].id \in DOMAIN rows' => AskedBy(rows'[call[d].id], d)
      BY <1>1, <1>2, <2>0 DEF Creates, AskedBy, Follows
    <2> QED
      BY <1>0, <2>1, <2>2, <2>3 DEF Creates, AskedBy
  <1>5. Kind(d) = "decide" => Decides(d)'
    <2> SUFFICES ASSUME Kind(d) = "decide" PROVE Decides(d)'
      OBVIOUS
    <2>0. Decides(d)
      BY <1>0 DEF WorkInv
    <2>1. call[d].pc \in {"update", "reread", "commit"} =>
            /\ Drawn(call[d].id)'
            /\ call[d].id \in DOMAIN rows' => /\ rows'[call[d].id].type = cmd[d].type
                                             /\ rows'[call[d].id].by # cmd[d].by
      BY <1>1, <1>2, <2>0 DEF Decides, Follows
    <2>2. ASSUME call[d].pc = "commit"
          PROVE  /\ call[d].id \in DOMAIN rows' /\ rows'[call[d].id].status = "pending"
                 /\ rows'[call[d].id].used = NotYet
                 /\ call[d].work = Decided(rows[call[d].id], d)'
      <3>1. Writing(d)
        BY <1>0, <2>2 DEF WorkInv, WritesNow
      <3>2. /\ call[d].id \in DOMAIN rows' /\ rows'[call[d].id] = rows[call[d].id]
            /\ call[d].work = Decided(rows[call[d].id], d)
        BY <1>3, <2>0, <2>2, <3>1 DEF Decides
      <3>3. Decided(rows[call[d].id], d)' = Decided(rows[call[d].id], d)
        BY <1>0, <3>2 DEF Decided
      <3> QED
        BY <2>0, <2>2, <3>2, <3>3 DEF Decides
    <2>3. call[d].pc = "ok" =>
            /\ Drawn(call[d].id)'
            /\ call[d].id \in DOMAIN rows' => /\ rows'[call[d].id].type = cmd[d].type
                                             /\ OnRecord(rows'[call[d].id], d)
      <3> SUFFICES ASSUME call[d].pc = "ok", call[d].id \in DOMAIN rows'
                   PROVE  rows'[call[d].id].type = cmd[d].type /\ OnRecord(rows'[call[d].id], d)
        BY <1>1, <2>0 DEF Decides
      <3>1. /\ Drawn(call[d].id) /\ call[d].id \in DOMAIN rows
            /\ Follows(rows[call[d].id], rows'[call[d].id])
        BY <1>2, <2>0 DEF Decides
      <3>2. rows[call[d].id].type = cmd[d].type /\ OnRecord(rows[call[d].id], d)
        BY <2>0, <3>1 DEF Decides
      <3>3. cmd[d].type \in Requests /\ cmd[d].decision # "pending"
        BY DEF CallsInv, Command
      <3> QED
        BY <3>1, <3>2, <3>3 DEF Follows, OnRecord
    <2> QED
      BY <1>0, <2>1, <2>2, <2>3 DEF Decides, OnRecord
  <1>6. Kind(d) = "execute" => Executes(d)'
    <2> SUFFICES ASSUME Kind(d) = "execute", WritesNow(d)
                 PROVE  /\ call[d].id \in DOMAIN rows' /\ rows'[call[d].id].type = cmd[d].type
                        /\ rows'[call[d].id].status = "approved" /\ rows'[call[d].id].used = NotYet
                        /\ \E t \in 1..now' : call[d].work = [rows'[call[d].id] EXCEPT !.used = t]
      BY <1>0 DEF Executes
    <2>1. Executes(d) /\ Writing(d)
      BY <1>0 DEF WorkInv
    <2>2. call[d].id \in DOMAIN rows' /\ rows'[call[d].id] = rows[call[d].id]
      BY <1>3, <2>1 DEF Executes
    <2>3. \A t \in 1..now : t \in 1..now'
      BY <1>0
    <2> QED
      BY <2>1, <2>2, <2>3 DEF Executes
  <1>7. Kind(d) = "answer" => Answers(d)'
    <2> SUFFICES ASSUME Kind(d) = "answer" PROVE Answers(d)'
      OBVIOUS
    <2>0. Answers(d)
      BY <1>0 DEF WorkInv
    <2> QED
      BY <1>0, <1>1, <1>2, <2>0 DEF Answers, Follows
  <1>8. call'[d].begun \in 0..now' /\ (Writing(d)' <=> WritesNow(d)')
    BY <1>0 DEF WorkInv
  <1> QED
    BY <1>0, <1>4, <1>5, <1>6, <1>7, <1>8 DEF WorkInv

LEMMA RowsInvKept ==
  ASSUME CallsInv, RowsInv, NEW c \in Call, Others(c), RowsGo, HeldFor(c), DealsGrow, UNCHANGED cmd,
         now' \in Nat, now <= now', RowsAreWritten', WorkInv(c)',
         Writing(c)' => \A d \in Call : d # c /\ Writing(d) => call[d].id # call'[c].id,
         Kind(c) = "answer" /\ call'[c].pc = "ok" =>
           \A d \in Call : d # c /\ Kind(d) = "answer" /\ call[d].pc = "ok" => call[d].id # call'[c].id
  PROVE  RowsInv'
  <1>1. \A d \in Call : d # c => /\ call'[d] = call[d] /\ Kind(d)' = Kind(d)
                                 /\ Writing(d)' = Writing(d)
    BY DEF Others, Kind, Writing
  <1>2. OneWriter'
    BY <1>1 DEF RowsInv, OneWriter
  <1>3. LinksAreAnsweredOnce'
    <2>1. Kind(c)' = Kind(c)
      BY DEF Kind
    <2> QED
      BY <1>1, <2>1 DEF RowsInv, LinksAreAnsweredOnce
  <1>4. \A d \in Call : WorkInv(d)'
    BY OthersKeep
  <1> QED
    BY <1>2, <1>3, <1>4 DEF RowsInv

\* A step of a call that writes no row
LEMMA QuietCall ==
  ASSUME CallsInv, RowsInv, NEW c \in Call, Others(c), DealsGrow, UNCHANGED <<now, rows, gone, cmd>>,
         WorkInv(c)', Kind(c) = "answer" => call'[c].pc # "ok",
         Writing(c)' => \A d \in Call : d # c /\ Writing(d) => call[d].id # call'[c].id
  PROVE  RowsInv'
  <1>1. now \in Nat /\ now' \in Nat /\ now <= now'
    BY DEF RowsInv, RowsAreWritten
  <1>2. RowsGo /\ HeldFor(c)
    BY DEF RowsGo, HeldFor, Follows, RowsInv, RowsAreWritten
  <1>3. RowsAreWritten'
    <2>1. \A i \in DOMAIN rows : Written(rows[i], now, agreement')
      BY <1>1, WrittenStays DEF RowsInv, RowsAreWritten, DealsGrow
    <2> QED
      BY <2>1 DEF RowsInv, RowsAreWritten
  <1> QED
    BY <1>1, <1>2, <1>3, RowsInvKept

LEMMA RefusedFits ==
  ASSUME NEW c \in Call, NEW i, Ends(c, "refused", i), RowsInv, UNCHANGED <<cmd, now>>
  PROVE  WorkInv(c)' /\ ~Writing(c)'
  <1>1. /\ call'[c].pc = "refused" /\ call'[c].begun = NotYet /\ call'[c].work = NoWork /\ now \in Nat
    BY DEF Ends, RowsInv, RowsAreWritten
  <1>2. ~Writing(c)' /\ ~WritesNow(c)' /\ call'[c].begun \in 0..now'
    BY <1>1 DEF Writing, WritesNow, NotYet
  <1> QED
    BY <1>1, <1>2 DEF WorkInv, Creates, Decides, Executes, Answers

LEMMA Refused ==
  ASSUME CallsInv, RowsInv, NEW c \in Call, NEW i, Ends(c, "refused", i), DealsGrow,
         UNCHANGED <<now, rows, gone, cmd>>
  PROVE  RowsInv'
  <1>1. WorkInv(c)' /\ ~Writing(c)' /\ Others(c) /\ call'[c].pc = "refused"
    BY RefusedFits DEF Ends
  <1> QED
    BY <1>1, QuietCall

\* The agreements and the payments have nothing to do with the rows.
LEMMA OtherKinds ==
  ASSUME CallsInv, RowsInv, NEW c \in Call, Kind(c) \notin {"create", "decide", "execute", "answer"},
         Others(c), DealsGrow, UNCHANGED <<now, rows, gone, cmd>>,
         call'[c].begun \in 0..now, call'[c].work \in {NoWork, call[c].work},
         call'[c].pc \notin {"commit", "agreement"}, At(c)
  PROVE  RowsInv'
  <1>1. ~WritesNow(c) /\ WorkInv(c)
    BY DEF At, WritesNow, RowsInv
  <1>2. call'[c].work = NoWork
    BY <1>1 DEF WorkInv, Writing
  <1>3. ~Writing(c)' /\ ~WritesNow(c)' /\ Kind(c)' = Kind(c)
    BY <1>2 DEF Writing, WritesNow, Kind
  <1>4. WorkInv(c)'
    BY <1>3 DEF WorkInv
  <1> QED
    BY <1>3, <1>4, QuietCall

LEMMA DealsOnlyGrow ==
  ASSUME CallsInv, AgreementsInv, [Next]_vars
  PROVE  DealsGrow
  <1>1. ASSUME UNCHANGED agreement PROVE DealsGrow
    BY <1>1 DEF DealsGrow
  <1>2. CASE WalkStart \/ WalkPage \/ Cleanup \/ Tick \/ UNCHANGED vars
    BY <1>1, <1>2 DEF WalkStart, WalkPage, Cleanup, Tick, vars, debts
  <1>3. ASSUME NEW c \in Call, Step(c) PROVE DealsGrow
    BY <1>1, <1>3, StepsLeaveAgreements
  <1>4. ASSUME NEW c \in Call, AgreementStep(c) PROVE DealsGrow
    <2>0. Calls /\ Agreed(c) /\ Lineage(agreement)
      BY DEF CallsInv, AgreementsInv
    <2>1. CASE AgreeLock(c) \/ ReviseLock(c) \/ ReviseRow(c) \/ Pay(c)
      BY <1>1, <2>0, <2>1, AgreeLockDoes, ReviseLockDoes, ReviseRowDoes, PayDoes DEF debts
    <2>2. CASE AgreeInsert(c)
      BY <1>1, <2>0, <2>2, AgreeInsertDoes DEF DealsGrow, Records
    <2>3. CASE ReviseInsert(c)
      <3>0. PICK old : old = cmd[c].deal
        OBVIOUS
      <3>1. CASE UNCHANGED agreement
        BY <1>1, <3>1
      <3>2. CASE Records(c, agreement[old].about, old, agreement[old].number + 1,
                         [agreement EXCEPT ![old].status = "SUPERSEDED"])
        <4>1. PICK others : others = [agreement EXCEPT ![old].status = "SUPERSEDED"]
          OBVIOUS
        <4>2. /\ DOMAIN agreement' = DOMAIN others \cup (DOMAIN agreement' \ DOMAIN others)
              /\ \A j \in DOMAIN others \cap DOMAIN agreement : agreement'[j] = others[j]
              /\ DOMAIN others \subseteq DOMAIN agreement'
          BY <3>2, <4>1 DEF Records
        <4>3. ASSUME NEW j \in DOMAIN agreement
              PROVE  others[j].about = agreement[j].about
          <5>1. PICK a, b, d, f, g, h, k, l :
                  agreement[j] = [about |-> a, terms |-> b, status |-> d, number |-> f,
                                  of |-> g, by |-> h, key |-> k, asked |-> l]
            BY <2>0 DEF Lineage, IsDeal
          <5> QED
            BY <4>1, <5>1
        <4>4. DOMAIN others = DOMAIN agreement
          BY <4>1
        <4> QED
          BY <4>2, <4>3, <4>4 DEF DealsGrow
      <3> QED
        BY <2>0, <2>3, <3>0, <3>1, <3>2, ReviseInsertDoes
    <2> QED
      BY <1>4, <2>1, <2>2, <2>3 DEF AgreementStep
  <1> QED
    BY <1>2, <1>3, <1>4 DEF Next

--------------------------------------------------------------------------------
\* The steps that write no row

LEMMA AgreementStepsFit ==
  ASSUME CallsInv, AgreementsInv, RowsInv, NEW c \in Call, AgreementStep(c), DealsGrow,
         UNCHANGED <<now, rows, gone>>
  PROVE  RowsInv'
  <1>0. Calls /\ At(c) /\ now \in Nat /\ call[c].begun \in 0..now /\ NotYet \in 0..now
    BY DEF CallsInv, RowsInv, RowsAreWritten, WorkInv, NotYet
  <1>1. /\ Others(c) /\ UNCHANGED cmd /\ call'[c].begun \in {NotYet, call[c].begun}
        /\ call'[c].work \in {NoWork, call[c].work} /\ Kind(c) \in {"agree", "revise", "pay"}
        /\ call'[c].pc \notin {"commit", "agreement"}
    <2>1. CASE AgreeLock(c)
      BY <1>0, <2>1, AgreeLockDoes DEF TakesDebt
    <2>2. CASE AgreeInsert(c)
      BY <1>0, <2>2, AgreeInsertDoes DEF Ends, Records, At
    <2>3. CASE ReviseLock(c)
      BY <1>0, <2>3, ReviseLockDoes DEF TakesDebt, Ends
    <2>4. CASE ReviseRow(c)
      BY <1>0, <2>4, ReviseRowDoes DEF TakesDeal, At
    <2>5. CASE ReviseInsert(c)
      BY <1>0, <2>5, ReviseInsertDoes DEF Ends, Records, At
    <2>6. CASE Pay(c)
      BY <1>0, <2>6, PayDoes DEF Ends
    <2> QED
      BY <2>1, <2>2, <2>3, <2>4, <2>5, <2>6 DEF AgreementStep
  <1> QED
    BY <1>0, <1>1, OtherKinds

\* A call goes on to a place where it writes no row, or goes on writing it.
LEMMA GoesOn ==
  ASSUME CallsInv, RowsInv, NEW c \in Call, Others(c), DealsGrow, UNCHANGED <<now, rows, gone, cmd>>,
         call'[c].begun \in {call[c].begun, now}, call'[c].id = call[c].id, call'[c].work = call[c].work,
         call'[c].pc # "ok", WritesNow(c)' <=> WritesNow(c),
         Kind(c) = "create" => Creates(c)', Kind(c) = "decide" => Decides(c)',
         Kind(c) = "execute" => Executes(c)', Kind(c) = "answer" => Answers(c)'
  PROVE  RowsInv'
  <1>0. WorkInv(c) /\ now \in Nat /\ Kind(c)' = Kind(c) /\ Writing(c)' = Writing(c)
    BY DEF RowsInv, RowsAreWritten, Kind, Writing
  <1>1. call'[c].begun \in 0..now'
    BY <1>0 DEF WorkInv
  <1>2. WorkInv(c)'
    BY <1>0, <1>1 DEF WorkInv
  <1>3. Writing(c)' => \A d \in Call : d # c /\ Writing(d) => call[d].id # call'[c].id
    BY <1>0 DEF RowsInv, OneWriter
  <1> QED
    BY <1>2, <1>3, QuietCall

LEMMA CreateStepsFit ==
  ASSUME CallsInv, AgreementsInv, RowsInv, NEW c \in Call, DealsGrow,
         \/ Select(c) \/ CreateFind(c) \/ CreateLock(c) \/ CreateCapture(c) \/ CreateFindAgain(c)
  PROVE  RowsInv'
  <1>0. Calls /\ At(c) /\ now \in Nat /\ WorkInv(c)
    BY DEF CallsInv, RowsInv, RowsAreWritten
  <1>1. CASE Select(c)
    <2>1. Moves(c, "wait") /\ call[c].pc = "select" /\ UNCHANGED tables
      BY <1>0, <1>1, SelectDoes
    <2>2. Kind(c) \in {"create", "execute"} /\ UNCHANGED <<now, rows, gone, cmd, agreement>>
      BY <1>0, <2>1 DEF At, tables, debts
    <2>3. Kind(c)' = Kind(c) /\ (WritesNow(c)' <=> WritesNow(c))
      BY <2>1, <2>2 DEF Moves, WritesNow, Kind
    <2>4. Kind(c) = "create" => Creates(c)'
      BY <2>1 DEF Moves, Creates
    <2>5. Kind(c) = "execute" => Executes(c)'
      BY <1>0, <2>1, <2>2, <2>3 DEF Moves, Executes, WorkInv, WritesNow
    <2> QED
      BY <2>1, <2>2, <2>3, <2>4, <2>5, GoesOn DEF Moves
  <1>2. CASE CreateFind(c)
    <2>0. Kind(c) = "create" /\ call[c].pc = "idle" /\ UNCHANGED <<now, rows, gone, cmd, agreement>>
      BY <1>0, <1>2, CreateFindDoes DEF tables, debts
    <2>1. CASE Moves(c, "select")
      <3>1. Creates(c)' /\ (WritesNow(c)' <=> WritesNow(c))
        BY <2>0, <2>1 DEF Moves, Creates, WritesNow, Kind
      <3> QED
        BY <2>0, <2>1, <3>1, GoesOn DEF Moves
    <2>2. ASSUME NEW i \in Found(c), SameRequest(rows[i], c), Ends(c, "ok", i) PROVE RowsInv'
      <3>1. Creates(c)' /\ ~WritesNow(c)' /\ ~Writing(c)' /\ Kind(c)' = "create" /\ call'[c].begun \in 0..now'
        BY <1>0, <2>0, <2>2 DEF Ends, Creates, WritesNow, Writing, Found, RowsOf, SameRequest, AskedBy,
                                Drawn, Kind, NotYet
      <3>2. WorkInv(c)'
        BY <3>1 DEF WorkInv
      <3> QED
        BY <2>0, <2>2, <3>1, <3>2, QuietCall DEF Ends
    <2>3. ASSUME NEW i, Ends(c, "refused", i) PROVE RowsInv'
      BY <2>0, <2>3, Refused
    <2> QED
      BY <1>0, <1>2, <2>1, <2>2, <2>3, CreateFindDoes
  <1>3. CASE CreateLock(c)
    <2>0. Kind(c) = "create" /\ call[c].pc = "wait" /\ UNCHANGED <<now, rows, gone, cmd, agreement>>
      BY <1>0, <1>3, CreateLockDoes DEF tables, debts
    <2>1. CASE TakesDebt(c, About(c), "capture")
      <3>1. Creates(c)' /\ (WritesNow(c)' <=> WritesNow(c))
        BY <2>0, <2>1 DEF TakesDebt, Creates, WritesNow, Kind
      <3> QED
        BY <2>0, <2>1, <3>1, GoesOn DEF TakesDebt
    <2>2. CASE Ends(c, "refused", 0)
      BY <2>0, <2>2, Refused
    <2> QED
      BY <1>0, <1>3, <2>1, <2>2, CreateLockDoes
  <1>4. CASE CreateCapture(c)
    <2>0. Kind(c) = "create" /\ call[c].pc = "capture" /\ UNCHANGED <<now, rows, gone, cmd, agreement>>
      BY <1>0, <1>4, CreateCaptureDoes DEF tables, debts, At
    <2>1. CASE cmd[c].deal \in {NoDeal} \cup ActiveDeals(About(c)) /\ Moves(c, "find")
      <3>0. About(c) = cmd[c].content.about
        BY <2>0 DEF About
      <3>1. cmd[c].deal # NoDeal =>
              cmd[c].deal \in DOMAIN agreement /\ agreement[cmd[c].deal].about = cmd[c].content.about
        BY <2>1, <3>0 DEF ActiveDeals
      <3>2. Creates(c)' /\ (WritesNow(c)' <=> WritesNow(c))
        BY <2>0, <2>1, <3>1 DEF Moves, Creates, WritesNow, Kind
      <3> QED
        BY <2>0, <2>1, <3>2, GoesOn DEF Moves
    <2>2. CASE Ends(c, "refused", 0)
      BY <2>0, <2>2, Refused
    <2> QED
      BY <1>0, <1>4, <2>1, <2>2, CreateCaptureDoes
  <1>5. CASE CreateFindAgain(c)
    <2>0. Kind(c) = "create" /\ call[c].pc = "find" /\ UNCHANGED <<now, rows, gone, cmd, agreement>>
      BY <1>0, <1>5, CreateFindAgainDoes DEF tables, debts, At
    <2>1. CASE Moves(c, "insert")
      <3>1. Creates(c)' /\ (WritesNow(c)' <=> WritesNow(c))
        BY <1>0, <2>0, <2>1 DEF Moves, Creates, WritesNow, Kind, WorkInv
      <3> QED
        BY <2>0, <2>1, <3>1, GoesOn DEF Moves
    <2>2. ASSUME NEW i \in Found(c), SameRequest(rows[i], c), Ends(c, "ok", i) PROVE RowsInv'
      <3>1. Creates(c)' /\ ~WritesNow(c)' /\ ~Writing(c)' /\ Kind(c)' = "create" /\ call'[c].begun \in 0..now'
        BY <1>0, <2>0, <2>2 DEF Ends, Creates, WritesNow, Writing, Found, RowsOf, SameRequest, AskedBy,
                                Drawn, Kind, NotYet
      <3>2. WorkInv(c)'
        BY <3>1 DEF WorkInv
      <3> QED
        BY <2>0, <2>2, <3>1, <3>2, QuietCall DEF Ends
    <2>3. ASSUME NEW i, Ends(c, "refused", i) PROVE RowsInv'
      BY <2>0, <2>3, Refused
    <2> QED
      BY <1>0, <1>5, <2>1, <2>2, <2>3, CreateFindAgainDoes
  <1> QED
    BY <1>1, <1>2, <1>3, <1>4, <1>5

\* The id that PostgreSQL draws is nobody's.
LEMMA CreateInsertFits ==
  ASSUME CallsInv, RowsInv, NEW c \in Call, DealsGrow, CreateInsert(c)
  PROVE  RowsInv'
  <1>0. Calls /\ At(c) /\ now \in Nat /\ WorkInv(c) /\ Command(c)
    BY DEF CallsInv, RowsInv, RowsAreWritten
  <1>1. /\ Kind(c) = "create" /\ call[c].pc = "insert" /\ UNCHANGED <<now, rows, gone, cmd, agreement>>
        /\ Creates(c)
    BY <1>0, CreateInsertDoes DEF tables, debts, At, WorkInv
  <1>2. CASE Ends(c, "refused", 0)
    BY <1>1, <1>2, Refused
  <1>3. ASSUME NEW i \in NewIds, Writes(c, "commit", i, Fresh(c, cmd[c].type, now + Life)) PROVE RowsInv'
    <2>0. PICK row : row = Fresh(c, cmd[c].type, now + Life)
      OBVIOUS
    <2>1. Written(row, now, agreement) /\ AskedBy(row, c)
      <3>1. call[c].begun \in 0..now /\ now + Life \in Nat
        BY <1>0, BoundsAssumption DEF WorkInv
      <3>2. /\ IsRow(row) /\ row.type = cmd[c].type /\ row.by = cmd[c].by /\ row.key = cmd[c].key
            /\ row.content = cmd[c].content /\ row.deal = cmd[c].deal /\ row.created = call[c].begun
            /\ row.expires = now + Life /\ row.status = "pending" /\ row.decider = Nobody
            /\ row.used = NotYet
        BY <2>0 DEF Fresh, IsRow
      <3>3. row.deal # NoDeal => row.deal \in DOMAIN agreement /\ agreement[row.deal].about = row.content.about
        BY <1>1, <3>2 DEF Creates
      <3>4. row.decider # row.by /\ row.content.about # NoDebt /\ row.type \in Requests
        BY <1>0, <3>2 DEF Command
      <3>5. row.created \in 0..now /\ row.used \in 0..now /\ row.expires \in Nat
        BY <1>0, <3>1, <3>2 DEF NotYet
      <3> QED
        BY <3>2, <3>3, <3>4, <3>5 DEF Written, AskedBy
    <2>2. /\ i \in Id /\ ~Drawn(i)
          /\ \A d \in Call : Writing(d) => call[d].id # i
      BY DEF NewIds, Drawn, Writing
    <2>3. /\ Others(c) /\ call'[c].pc = "commit" /\ call'[c].id = i /\ call'[c].work = row
          /\ call'[c].begun \in 0..now /\ Kind(c)' = "create"
      BY <1>0, <1>1, <1>3, <2>0 DEF Writes, WorkInv, Kind
    <2>4. Creates(c)'
      BY <1>1, <2>1, <2>2, <2>3 DEF Creates, Drawn, AskedBy
    <2>5. Writing(c)' /\ WritesNow(c)'
      <3>1. row.type \in Requests
        BY <1>0, <2>1 DEF AskedBy, Command
      <3>2. row # NoWork
        BY <3>1 DEF NoWork, Requests
      <3> QED
        BY <2>3, <3>2 DEF Writing, WritesNow
    <2>6. WorkInv(c)'
      BY <1>1, <2>3, <2>4, <2>5 DEF WorkInv
    <2> QED
      BY <1>1, <2>2, <2>3, <2>6, QuietCall
  <1> QED
    BY <1>0, <1>2, <1>3, CreateInsertDoes

LEMMA DecideStepsFit ==
  ASSUME CallsInv, RowsInv, NEW c \in Call, DealsGrow,
         DecideRead(c) \/ DecideUpdate(c) \/ DecideReread(c)
  PROVE  RowsInv'
  <1>0. /\ Calls /\ At(c) /\ now \in Nat /\ WorkInv(c) /\ Command(c)
        /\ \A i \in DOMAIN rows : Written(rows[i], now, agreement)
    BY DEF CallsInv, RowsInv, RowsAreWritten
  <1>1. CASE DecideRead(c)
    <2>0. Kind(c) = "decide" /\ call[c].pc = "idle" /\ UNCHANGED <<now, rows, gone, cmd, agreement>>
      BY <1>0, <1>1, DecideReadDoes DEF tables, debts
    <2>1. ASSUME NEW i, Ends(c, "refused", i) PROVE RowsInv'
      BY <2>0, <2>1, Refused
    <2>2. ASSUME NEW i \in RowsOf(cmd[c].type), Exact(rows[i], c), Ends(c, "ok", i) PROVE RowsInv'
      <3>1. /\ Decides(c)' /\ ~WritesNow(c)' /\ ~Writing(c)' /\ Kind(c)' = "decide"
            /\ call'[c].begun \in 0..now'
        BY <1>0, <2>0, <2>2 DEF Ends, Decides, WritesNow, Writing, RowsOf, Exact, OnRecord, Drawn, Kind, NotYet
      <3>2. WorkInv(c)'
        BY <3>1 DEF WorkInv
      <3> QED
        BY <2>0, <2>2, <3>1, <3>2, QuietCall DEF Ends
    <2>3. ASSUME NEW i \in RowsOf(cmd[c].type), rows[i].by # cmd[c].by,
                 Writes(c, "update", i, call[c].work)
          PROVE  RowsInv'
      <3>1. ~Writing(c)
        BY <1>0, <2>0 DEF WorkInv, WritesNow
      <3>2. /\ Decides(c)' /\ ~WritesNow(c)' /\ ~Writing(c)' /\ Kind(c)' = "decide"
            /\ call'[c].begun \in 0..now'
        BY <1>0, <2>0, <2>3, <3>1 DEF Writes, Decides, WritesNow, Writing, RowsOf, Drawn, Kind, WorkInv
      <3>3. WorkInv(c)'
        BY <3>2 DEF WorkInv
      <3> QED
        BY <2>0, <2>3, <3>2, <3>3, QuietCall DEF Writes
    <2> QED
      BY <1>0, <1>1, <2>1, <2>2, <2>3, DecideReadDoes
  <1>2. CASE DecideUpdate(c)
    <2>0. /\ Kind(c) = "decide" /\ call[c].pc = "update" /\ UNCHANGED <<now, rows, gone, cmd, agreement>>
          /\ ~Busy(call[c].id) /\ Decides(c)
      BY <1>0, <1>2, DecideUpdateDoes DEF tables, debts, At, WorkInv
    <2>1. CASE Moves(c, "reread")
      <3>1. Decides(c)' /\ (WritesNow(c)' <=> WritesNow(c))
        BY <2>0, <2>1 DEF Moves, Decides, WritesNow, Kind, Drawn
      <3> QED
        BY <2>0, <2>1, <3>1, GoesOn DEF Moves
    <2>2. CASE /\ call[c].id \in DOMAIN rows /\ StillPending(call[c].id, c)
               /\ Writes(c, "commit", call[c].id, Decided(rows[call[c].id], c))
      <3>1. /\ Others(c) /\ call'[c].pc = "commit" /\ call'[c].id = call[c].id
            /\ call'[c].work = Decided(rows[call[c].id], c)
            /\ call'[c].begun \in 0..now /\ Kind(c)' = "decide"
        BY <1>0, <2>0, <2>2 DEF Writes, WorkInv, Kind
      <3>2. Decided(rows[call[c].id], c)' = Decided(rows'[call'[c].id], c)
        BY <2>0, <3>1 DEF Decided
      <3>3. Decides(c)'
        BY <2>0, <2>2, <3>1, <3>2 DEF Decides, Drawn, StillPending, Decided
      <3>4. Writing(c)' /\ WritesNow(c)'
        <4>1. IsRow(rows[call[c].id]) /\ rows[call[c].id].type \in Requests
          BY <1>0, <2>0, <2>2 DEF Written, Decides, Command
        <4>2. Decided(rows[call[c].id], c).type = rows[call[c].id].type
          BY <4>1 DEF Decided, IsRow
        <4>3. Decided(rows[call[c].id], c) # NoWork
          BY <4>1, <4>2 DEF NoWork, Requests
        <4> QED
          BY <3>1, <4>3 DEF Writing, WritesNow
      <3>5. WorkInv(c)'
        BY <2>0, <3>1, <3>3, <3>4 DEF WorkInv
      <3>6. \A d \in Call : d # c /\ Writing(d) => call[d].id # call'[c].id
        BY <2>0, <3>1 DEF Busy, Writing
      <3> QED
        BY <2>0, <3>1, <3>5, <3>6, QuietCall
    <2> QED
      BY <1>0, <1>2, <2>1, <2>2, DecideUpdateDoes
  <1>3. CASE DecideReread(c)
    <2>0. /\ Kind(c) = "decide" /\ call[c].pc = "reread" /\ UNCHANGED <<now, rows, gone, cmd, agreement>>
          /\ Decides(c)
      BY <1>0, <1>3, DecideRereadDoes DEF tables, debts, At, WorkInv
    <2>1. CASE Ends(c, "refused", call[c].id)
      BY <2>0, <2>1, Refused
    <2>2. CASE call[c].id \in DOMAIN rows /\ Exact(rows[call[c].id], c) /\ Ends(c, "ok", call[c].id)
      <3>1. /\ Decides(c)' /\ ~WritesNow(c)' /\ ~Writing(c)' /\ Kind(c)' = "decide"
            /\ call'[c].begun \in 0..now'
        BY <1>0, <2>0, <2>2 DEF Ends, Decides, WritesNow, Writing, Exact, OnRecord, Drawn, Kind, NotYet
      <3>2. WorkInv(c)'
        BY <3>1 DEF WorkInv
      <3> QED
        BY <2>0, <2>2, <3>1, <3>2, QuietCall DEF Ends
    <2> QED
      BY <1>0, <1>3, <2>1, <2>2, DecideRereadDoes
  <1> QED
    BY <1>1, <1>2, <1>3

LEMMA ExecuteStepsFit ==
  ASSUME CallsInv, RowsInv, NEW c \in Call, DealsGrow,
         ExecuteLock(c) \/ ExecuteAgreement(c) \/ ExecuteDebt(c)
  PROVE  RowsInv'
  <1>0. /\ Calls /\ At(c) /\ now \in Nat \ {0} /\ WorkInv(c) /\ Command(c)
        /\ \A i \in DOMAIN rows : Written(rows[i], now, agreement)
    BY DEF CallsInv, RowsInv, RowsAreWritten
  <1>1. CASE ExecuteLock(c)
    <2>0. Kind(c) = "execute" /\ call[c].pc = "idle" /\ UNCHANGED <<now, rows, gone, cmd, agreement>>
      BY <1>0, <1>1, ExecuteLockDoes DEF tables, debts
    <2>1. ASSUME NEW i, Ends(c, "refused", i) PROVE RowsInv'
      BY <2>0, <2>1, Refused
    <2>2. ASSUME NEW i, Ends(c, "ok", i) PROVE RowsInv'
      <3>1. /\ ~WritesNow(c)' /\ ~Writing(c)' /\ Kind(c)' = "execute" /\ call'[c].begun \in 0..now'
        BY <1>0, <2>0, <2>2 DEF Ends, WritesNow, Writing, Kind, NotYet
      <3>2. WorkInv(c)'
        BY <3>1 DEF WorkInv, Executes
      <3> QED
        BY <2>0, <2>2, <3>1, <3>2, QuietCall DEF Ends
    <2>3. ASSUME NEW i \in RowsOf(cmd[c].type), ~Busy(i), Executable(rows[i], c),
                 Writes(c, "agreement", i, [rows[i] EXCEPT !.used = now])
          PROVE  RowsInv'
      <3>0. PICK row : row = [rows[i] EXCEPT !.used = now]
        OBVIOUS
      <3>1. /\ Others(c) /\ call'[c].pc = "agreement" /\ call'[c].id = i /\ call'[c].work = row
            /\ call'[c].begun \in 0..now /\ Kind(c)' = "execute"
        BY <1>0, <2>0, <2>3, <3>0 DEF Writes, WorkInv, Kind
      <3>2. Executes(c)'
        BY <1>0, <2>0, <2>3, <3>0, <3>1 DEF Executes, RowsOf, Executable
      <3>3. Writing(c)' /\ WritesNow(c)'
        <4>1. IsRow(rows[i]) /\ rows[i].type \in Requests
          BY <1>0, <2>3 DEF Written, RowsOf, Command
        <4>2. row.type = rows[i].type
          BY <3>0, <4>1 DEF IsRow
        <4>3. row # NoWork
          BY <4>1, <4>2 DEF NoWork, Requests
        <4> QED
          BY <3>1, <4>3 DEF Writing, WritesNow
      <3>4. WorkInv(c)'
        BY <2>0, <3>1, <3>2, <3>3 DEF WorkInv
      <3>5. \A d \in Call : d # c /\ Writing(d) => call[d].id # call'[c].id
        BY <2>3, <3>1 DEF Busy, Writing
      <3> QED
        BY <2>0, <3>1, <3>4, <3>5, QuietCall
    <2> QED
      BY <1>0, <1>1, <2>1, <2>2, <2>3, ExecuteLockDoes
  <1>2. CASE ExecuteAgreement(c)
    <2>0. /\ Kind(c) = "execute" /\ call[c].pc = "agreement"
          /\ UNCHANGED <<now, rows, gone, cmd, agreement>> /\ Executes(c)
      BY <1>0, <1>2, ExecuteAgreementDoes DEF tables, debts, At, WorkInv
    <2>1. CASE Ends(c, "refused", 0)
      BY <2>0, <2>1, Refused
    <2>2. CASE Moves(c, "select") \/ TakesDeal(c, call[c].work.deal, "select")
      <3>1. /\ Others(c) /\ call'[c].pc = "select" /\ call'[c].id = call[c].id
            /\ call'[c].work = call[c].work /\ call'[c].begun \in {call[c].begun, now}
        BY <2>2 DEF Moves, TakesDeal
      <3>2. WritesNow(c) /\ WritesNow(c)'
        BY <2>0, <3>1 DEF WritesNow, Kind
      <3>3. Executes(c)'
        BY <2>0, <3>1, <3>2 DEF Executes
      <3> QED
        BY <2>0, <3>1, <3>2, <3>3, GoesOn
    <2> QED
      BY <1>0, <1>2, <2>1, <2>2, ExecuteAgreementDoes
  <1>3. CASE ExecuteDebt(c)
    <2>0. /\ Kind(c) = "execute" /\ call[c].pc = "wait"
          /\ UNCHANGED <<now, rows, gone, cmd, agreement>> /\ Executes(c)
      BY <1>0, <1>3, ExecuteDebtDoes DEF tables, debts, WorkInv
    <2>1. CASE Ends(c, "refused", 0)
      BY <2>0, <2>1, Refused
    <2>2. CASE TakesDebt(c, About(c), "commit")
      <3>1. /\ Others(c) /\ call'[c].pc = "commit" /\ call'[c].id = call[c].id
            /\ call'[c].work = call[c].work /\ call'[c].begun \in {call[c].begun, now}
        BY <2>2 DEF TakesDebt
      <3>2. WritesNow(c) /\ WritesNow(c)'
        BY <2>0, <3>1 DEF WritesNow, Kind
      <3>3. Executes(c)'
        BY <2>0, <3>1, <3>2 DEF Executes
      <3> QED
        BY <2>0, <3>1, <3>2, <3>3, GoesOn
    <2> QED
      BY <1>0, <1>3, <2>1, <2>2, ExecuteDebtDoes
  <1> QED
    BY <1>1, <1>2, <1>3

LEMMA RollbackFits ==
  ASSUME CallsInv, RowsInv, NEW c \in Call, DealsGrow, Rollback(c)
  PROVE  RowsInv'
  <1>1. Ends(c, "refused", 0) /\ UNCHANGED <<now, rows, gone, cmd>>
    BY RollbackDoes DEF CallsInv, tables
  <1> QED
    BY <1>1, Refused

LEMMA AnswerReadsFit ==
  ASSUME CallsInv, RowsInv, NEW c \in Call, DealsGrow, AnswerCandidate(c) \/ AnswerGet(c)
  PROVE  RowsInv'
  <1>0. Calls /\ At(c) /\ now \in Nat /\ WorkInv(c)
    BY DEF CallsInv, RowsInv, RowsAreWritten
  <1>1. CASE AnswerCandidate(c)
    <2>0. Kind(c) = "answer" /\ call[c].pc = "idle" /\ UNCHANGED <<now, rows, gone, cmd, agreement>>
      BY <1>0, <1>1, AnswerCandidateDoes DEF tables, debts
    <2>1. ASSUME NEW i, Ends(c, "refused", i) PROVE RowsInv'
      BY <2>0, <2>1, Refused
    <2>2. ASSUME NEW i \in RowsOf("link"), Writes(c, "get", i, call[c].work) PROVE RowsInv'
      <3>1. ~Writing(c)
        BY <1>0, <2>0 DEF WorkInv, WritesNow
      <3>2. /\ Answers(c)' /\ ~WritesNow(c)' /\ ~Writing(c)' /\ Kind(c)' = "answer"
            /\ call'[c].begun \in 0..now' /\ call'[c].pc = "get"
        BY <1>0, <2>0, <2>2, <3>1 DEF Writes, Answers, WritesNow, Writing, RowsOf, Drawn, Kind, WorkInv
      <3>3. WorkInv(c)'
        BY <3>2 DEF WorkInv
      <3> QED
        BY <2>0, <2>2, <3>2, <3>3, QuietCall DEF Writes
    <2> QED
      BY <1>0, <1>1, <2>1, <2>2, AnswerCandidateDoes
  <1>2. CASE AnswerGet(c)
    <2>0. /\ Kind(c) = "answer" /\ call[c].pc = "get" /\ UNCHANGED <<now, rows, gone, cmd, agreement>>
          /\ Answers(c)
      BY <1>0, <1>2, AnswerGetDoes DEF tables, debts, At, WorkInv
    <2>1. CASE Ends(c, "refused", call[c].id)
      BY <2>0, <2>1, Refused
    <2>2. CASE Moves(c, "use")
      <3>1. Answers(c)' /\ (WritesNow(c)' <=> WritesNow(c))
        BY <2>0, <2>2 DEF Moves, Answers, WritesNow, Kind, Drawn
      <3> QED
        BY <2>0, <2>2, <3>1, GoesOn DEF Moves
    <2> QED
      BY <1>0, <1>2, <2>1, <2>2, AnswerGetDoes
  <1> QED
    BY <1>1, <1>2

--------------------------------------------------------------------------------
\* The steps that write rows

\* What a commit asks of the row it writes
LEMMA CommitKeeps ==
  ASSUME CallsInv, RowsInv, NEW c \in Call, DealsGrow, Commit(c),
         call[c].id \in Id, call[c].id \notin gone, Writing(c),
         Written(call[c].work, now, agreement),
         call[c].id \in DOMAIN rows => Follows(rows[call[c].id], call[c].work),
         WorkInv(c)'
  PROVE  RowsInv' /\ RowsGo
  <1>0. /\ Calls /\ At(c) /\ now \in Nat /\ now' = now /\ UNCHANGED <<gone, cmd, agreement>>
        /\ Ends(c, "ok", call[c].id) /\ call[c].pc = "commit"
        /\ DOMAIN rows' = DOMAIN rows \cup {call[c].id} /\ rows'[call[c].id] = call[c].work
        /\ \A i \in DOMAIN rows : i # call[c].id => rows'[i] = rows[i]
    <2>1. Calls /\ At(c) /\ now \in Nat
      BY DEF CallsInv, RowsInv, RowsAreWritten
    <2> QED
      BY <2>1, CommitDoes
  <1>1. RowsGo
    <2>1. \A i \in DOMAIN rows \cap DOMAIN rows' : Follows(rows[i], rows'[i])
      <3> SUFFICES ASSUME NEW i \in DOMAIN rows PROVE Follows(rows[i], rows'[i])
        OBVIOUS
      <3> QED
        BY <1>0 DEF Follows
    <2>2. DOMAIN rows \cap gone = {}
      BY DEF RowsInv, RowsAreWritten
    <2> QED
      BY <1>0, <2>1, <2>2 DEF RowsGo
  <1>2. HeldFor(c)
    <2> SUFFICES ASSUME NEW d \in Call, d # c, Writing(d)
                 PROVE  /\ call[d].id \in DOMAIN rows <=> call[d].id \in DOMAIN rows'
                        /\ call[d].id \in DOMAIN rows => rows'[call[d].id] = rows[call[d].id]
      BY DEF HeldFor
    <2>1. call[d].id # call[c].id
      BY DEF RowsInv, OneWriter
    <2> QED
      BY <1>0, <2>1
  <1>3. RowsAreWritten'
    <2>1. \A i \in DOMAIN rows' : Written(rows'[i], now, agreement)
      BY <1>0 DEF RowsInv, RowsAreWritten
    <2>2. IsFiniteSet(DOMAIN rows')
      BY <1>0, FS_AddElement DEF RowsInv, RowsAreWritten
    <2> QED
      BY <1>0, <2>1, <2>2 DEF RowsInv, RowsAreWritten
  <1>4. Others(c) /\ ~Writing(c)' /\ Kind(c) # "answer"
    BY <1>0 DEF Ends, Writing, At
  <1> QED
    BY <1>0, <1>1, <1>2, <1>3, <1>4, RowsInvKept

LEMMA CommitFits ==
  ASSUME CallsInv, RowsInv, NEW c \in Call, DealsGrow, Commit(c)
  PROVE  RowsInv' /\ RowsGo
  <1>a. /\ Calls /\ At(c) /\ now \in Nat \ {0} /\ Command(c) /\ WorkInv(c)
        /\ \A i \in DOMAIN rows : Written(rows[i], now, agreement)
        /\ DOMAIN rows \subseteq Id /\ DOMAIN rows \cap gone = {}
    BY DEF CallsInv, RowsInv, RowsAreWritten
  <1>b. /\ now' = now /\ UNCHANGED <<gone, cmd, agreement>>
        /\ Ends(c, "ok", call[c].id) /\ call[c].pc = "commit"
        /\ DOMAIN rows' = DOMAIN rows \cup {call[c].id} /\ rows'[call[c].id] = call[c].work
    BY <1>a, CommitDoes
  <1>0. /\ Calls /\ At(c) /\ now \in Nat \ {0} /\ now' = now /\ UNCHANGED <<gone, cmd, agreement>>
        /\ Command(c) /\ WorkInv(c) /\ Ends(c, "ok", call[c].id) /\ call[c].pc = "commit"
        /\ DOMAIN rows' = DOMAIN rows \cup {call[c].id} /\ rows'[call[c].id] = call[c].work
        /\ \A i \in DOMAIN rows : Written(rows[i], now, agreement)
        /\ DOMAIN rows \subseteq Id /\ DOMAIN rows \cap gone = {}
    BY <1>a, <1>b
  <1>1. /\ call'[c].pc = "ok" /\ call'[c].id = call[c].id /\ Kind(c)' = Kind(c)
        /\ ~WritesNow(c)' /\ ~Writing(c)' /\ call'[c].begun \in 0..now' /\ Writing(c)
    BY <1>0 DEF Ends, WritesNow, Writing, Kind, NotYet, WorkInv
  <1>2. CASE Kind(c) = "create"
    <2>1. Creates(c)
      BY <1>0, <1>2 DEF WorkInv
    <2>2. /\ call[c].id \in Id /\ call[c].id \notin gone /\ call[c].id \notin DOMAIN rows
          /\ Written(call[c].work, now, agreement) /\ AskedBy(call[c].work, c)
      BY <1>0, <2>1 DEF Creates, Drawn
    <2>3. Creates(c)'
      BY <1>0, <1>1, <2>2 DEF Creates, Drawn, AskedBy
    <2>4. WorkInv(c)'
      BY <1>1, <1>2, <2>3 DEF WorkInv
    <2> QED
      BY <1>1, <2>2, <2>4, CommitKeeps
  <1>3. CASE Kind(c) = "decide"
    <2>0. PICK old : old = rows[call[c].id]
      OBVIOUS
    <2>1. Decides(c)
      BY <1>0, <1>3 DEF WorkInv
    <2>2. /\ call[c].id \in DOMAIN rows /\ old.type = cmd[c].type /\ old.by # cmd[c].by
          /\ old.status = "pending" /\ old.used = NotYet /\ call[c].work = Decided(old, c)
      BY <1>0, <2>0, <2>1 DEF Decides
    <2>a. Written(old, now, agreement)
      BY <1>0, <2>0, <2>2
    <2>3. /\ IsRow(call[c].work) /\ Follows(old, call[c].work)
          /\ call[c].work.status = cmd[c].decision /\ call[c].work.decider = cmd[c].by
          /\ call[c].work.grounds = cmd[c].grounds /\ call[c].work.used = old.used
      <3>1. PICK a, b, d, e, f, g, h, j, k, l, m, n :
              old = [type |-> a, by |-> b, key |-> d, content |-> e, deal |-> f, created |-> g,
                     expires |-> h, status |-> j, decider |-> k, grounds |-> l, session |-> m, used |-> n]
        BY <2>a DEF Written, IsRow
      <3>2. PICK s : s = IF old.type = "community" THEN cmd[c].session ELSE old.session
        OBVIOUS
      <3>3. call[c].work = [type |-> a, by |-> b, key |-> d, content |-> e, deal |-> f, created |-> g,
                            expires |-> h, status |-> cmd[c].decision, decider |-> cmd[c].by,
                            grounds |-> cmd[c].grounds, session |-> s, used |-> n]
        <4>1. PICK x, y, z : x = cmd[c].decision /\ y = cmd[c].by /\ z = cmd[c].grounds
          OBVIOUS
        <4>2. call[c].work = [old EXCEPT !.status = x, !.decider = y, !.grounds = z, !.session = s]
          BY <2>2, <3>2, <4>1 DEF Decided
        <4>4. PICK mid : mid = [old EXCEPT !.status = x, !.decider = y]
          OBVIOUS
        <4>5. mid = [type |-> a, by |-> b, key |-> d, content |-> e, deal |-> f, created |-> g,
                     expires |-> h, status |-> x, decider |-> y, grounds |-> l,
                     session |-> m, used |-> n]
          BY <3>1, <4>4
        <4>6. call[c].work = [mid EXCEPT !.grounds = z, !.session = s]
          BY <4>2, <4>4
        <4>3. call[c].work = [type |-> a, by |-> b, key |-> d, content |-> e, deal |-> f, created |-> g,
                              expires |-> h, status |-> x, decider |-> y, grounds |-> z,
                              session |-> s, used |-> n]
          BY <4>5, <4>6
        <4> QED
          BY <4>1, <4>3
      <3> QED
        BY <2>2, <3>1, <3>3 DEF IsRow, Follows
    <2>4. Written(call[c].work, now, agreement)
      BY <1>0, <2>2, <2>a, <2>3 DEF Written, Follows, Command
    <2>5. Decides(c)'
      BY <1>0, <1>1, <2>0, <2>2, <2>3 DEF Decides, Drawn, OnRecord, Follows
    <2>6. WorkInv(c)'
      BY <1>1, <1>3, <2>5 DEF WorkInv
    <2>7. call[c].id \in Id /\ call[c].id \notin gone
      BY <1>0, <2>2
    <2> QED
      BY <1>1, <2>0, <2>3, <2>4, <2>6, <2>7, CommitKeeps
  <1>4. CASE Kind(c) = "execute"
    <2>0. PICK old : old = rows[call[c].id]
      OBVIOUS
    <2>1. Executes(c) /\ WritesNow(c)
      BY <1>0, <1>4 DEF WorkInv, WritesNow
    <2>2. PICK t \in 1..now : call[c].work = [old EXCEPT !.used = t]
      BY <2>0, <2>1 DEF Executes
    <2>3. /\ call[c].id \in DOMAIN rows /\ old.type = cmd[c].type /\ old.status = "approved"
          /\ old.used = NotYet /\ Written(old, now, agreement)
      BY <1>0, <2>0, <2>1 DEF Executes
    <2>4. IsRow(call[c].work) /\ Follows(old, call[c].work) /\ call[c].work.used = t
          /\ call[c].work.status = old.status /\ call[c].work.decider = old.decider
      <3>1. PICK a, b, d, e, f, g, h, j, k, l, m, n :
              old = [type |-> a, by |-> b, key |-> d, content |-> e, deal |-> f, created |-> g,
                     expires |-> h, status |-> j, decider |-> k, grounds |-> l, session |-> m, used |-> n]
        BY <2>3 DEF Written, IsRow
      <3>2. call[c].work = [type |-> a, by |-> b, key |-> d, content |-> e, deal |-> f, created |-> g,
                            expires |-> h, status |-> j, decider |-> k,
                            grounds |-> l, session |-> m, used |-> t]
        BY <2>2, <3>1
      <3> QED
        BY <2>3, <3>1, <3>2 DEF IsRow, Follows
    <2>5. Written(call[c].work, now, agreement)
      <3>1. t \in 0..now
        BY <1>0
      <3> QED
        BY <1>0, <2>3, <2>4, <3>1 DEF Written, Follows
    <2>6. WorkInv(c)'
      BY <1>1, <1>4 DEF WorkInv, Executes
    <2>7. call[c].id \in Id /\ call[c].id \notin gone
      BY <1>0, <2>3
    <2> QED
      BY <1>1, <2>0, <2>4, <2>5, <2>6, <2>7, CommitKeeps
  <1> QED
    BY <1>0, <1>2, <1>3, <1>4 DEF At

LEMMA MintFits ==
  ASSUME CallsInv, RowsInv, NEW c \in Call, DealsGrow, Mint(c)
  PROVE  RowsInv' /\ RowsGo
  <1>0. Calls /\ now \in Nat \ {0} /\ DOMAIN rows \cap gone = {}
    BY DEF CallsInv, RowsInv, RowsAreWritten
  <1>1. Kind(c) = "mint" /\ UNCHANGED <<now, gone, cmd, walk, debts>>
    BY <1>0, MintDoes
  <1>2. PICK i \in NewIds, life \in LinkLives :
          /\ DOMAIN rows' = DOMAIN rows \cup {i} /\ Ends(c, "ok", i)
          /\ rows'[i] = [Fresh(c, "link", now + life) EXCEPT !.created = now]
          /\ \A j \in DOMAIN rows : j # i => rows'[j] = rows[j]
    BY <1>0, MintDoes
  <1>3. PICK row : row = [Fresh(c, "link", now + life) EXCEPT !.created = now]
    OBVIOUS
  <1>4. Written(row, now, agreement)
    <2>1. now + life \in Nat /\ NotYet \in 0..now /\ now \in 0..now
      BY <1>0, BoundsAssumption DEF NotYet
    <2>2. /\ IsRow(row) /\ row.type = "link" /\ row.created = now /\ row.used = NotYet
          /\ row.expires = now + life
      BY <1>3 DEF Fresh, IsRow
    <2> QED
      BY <2>1, <2>2 DEF Written, Requests
  <1>5. /\ i \in Id /\ ~Drawn(i)
        /\ \A d \in Call : Writing(d) => call[d].id # i
    BY DEF NewIds, Drawn, Writing
  <1>6. RowsGo
    <2>1. \A j \in DOMAIN rows \cap DOMAIN rows' : Follows(rows[j], rows'[j])
      <3> SUFFICES ASSUME NEW j \in DOMAIN rows PROVE Follows(rows[j], rows'[j])
        OBVIOUS
      <3> QED
        BY <1>2, <1>5 DEF Follows, Drawn
    <2> QED
      BY <1>0, <1>1, <1>2, <1>5, <2>1 DEF RowsGo, Drawn
  <1>7. HeldFor(c)
    BY <1>2, <1>5 DEF HeldFor
  <1>8. RowsAreWritten'
    <2>1. \A j \in DOMAIN rows' : Written(rows'[j], now, agreement)
      BY <1>2, <1>3, <1>4 DEF RowsInv, RowsAreWritten
    <2>2. IsFiniteSet(DOMAIN rows') /\ DOMAIN rows' \subseteq Id
      BY <1>2, FS_AddElement, <1>5 DEF RowsInv, RowsAreWritten
    <2> QED
      BY <1>1, <1>6, <2>1, <2>2 DEF RowsInv, RowsAreWritten, RowsGo, debts
  <1>9. /\ Others(c) /\ ~WritesNow(c)' /\ ~Writing(c)' /\ Kind(c)' = "mint" /\ call'[c].begun \in 0..now'
    BY <1>0, <1>1, <1>2 DEF Ends, WritesNow, Writing, Kind, NotYet
  <1>10. WorkInv(c)'
    BY <1>9 DEF WorkInv
  <1> QED
    BY <1>0, <1>1, <1>6, <1>7, <1>8, <1>9, <1>10, RowsInvKept

LEMMA AnswerUseFits ==
  ASSUME CallsInv, RowsInv, NEW c \in Call, DealsGrow, AnswerUse(c)
  PROVE  RowsInv' /\ RowsGo
  <1>0. /\ Calls /\ At(c) /\ now \in Nat \ {0} /\ DOMAIN rows \cap gone = {} /\ WorkInv(c)
    BY DEF CallsInv, RowsInv, RowsAreWritten
  <1>1. call[c].pc = "use" /\ UNCHANGED <<now, gone, cmd, walk, debts>>
    BY <1>0, AnswerUseDoes
  <1>2. Kind(c) = "answer"
    BY <1>0, <1>1 DEF At
  <1>3. CASE Ends(c, "refused", call[c].id) /\ UNCHANGED rows
    BY <1>0, <1>1, <1>3, Refused DEF RowsGo, Follows
  <1>4. ASSUME StillUnused(call[c].id), Ends(c, "ok", call[c].id),
               rows' = [rows EXCEPT ![call[c].id] = [rows[call[c].id] EXCEPT !.used = now, !.status = "approved"]]
        PROVE  RowsInv' /\ RowsGo
    <2>0. PICK i : i = call[c].id
      OBVIOUS
    <2>1. i \in DOMAIN rows /\ rows[i].used = NotYet /\ rows[i].type = "link" /\ Drawn(i)
          /\ Written(rows[i], now, agreement) /\ i \in Id
      BY <1>0, <1>1, <1>2, <1>4, <2>0 DEF StillUnused, WorkInv, Answers, RowsInv, RowsAreWritten
    <2>2. /\ IsRow(rows'[i]) /\ Follows(rows[i], rows'[i]) /\ rows'[i].used = now /\ rows'[i].type = "link"
          /\ DOMAIN rows' = DOMAIN rows /\ \A j \in DOMAIN rows : j # i => rows'[j] = rows[j]
      <3>0. PICK old : old = rows[i]
        OBVIOUS
      <3>1. PICK a, b, d, e, f, g, h, j, k, l, m, n :
              old = [type |-> a, by |-> b, key |-> d, content |-> e, deal |-> f, created |-> g,
                     expires |-> h, status |-> j, decider |-> k, grounds |-> l, session |-> m, used |-> n]
        BY <2>1, <3>0 DEF Written, IsRow
      <3>2. rows' = [rows EXCEPT ![i] = [rows[i] EXCEPT !.used = now, !.status = "approved"]]
        BY <1>4, <2>0, <2>1
      <3>a. PICK new : new = [old EXCEPT !.used = now, !.status = "approved"]
        OBVIOUS
      <3>3. new = [type |-> a, by |-> b, key |-> d, content |-> e, deal |-> f, created |-> g,
                   expires |-> h, status |-> "approved", decider |-> k, grounds |-> l,
                   session |-> m, used |-> now]
        BY <3>1, <3>a
      <3>b. rows' = [rows EXCEPT ![i] = new]
        BY <3>0, <3>2, <3>a
      <3>4. /\ DOMAIN rows' = DOMAIN rows /\ \A x \in DOMAIN rows : x # i => rows'[x] = rows[x]
            /\ rows'[i] = new
        BY <2>1, <3>b
      <3> QED
        BY <2>1, <3>0, <3>1, <3>3, <3>4 DEF IsRow, Follows, Requests
    <2>3. Written(rows'[i], now, agreement)
      BY <1>0, <2>1, <2>2 DEF Written, Follows, Requests
    <2>4. RowsGo
      <3>1. \A j \in DOMAIN rows \cap DOMAIN rows' : Follows(rows[j], rows'[j])
        <4> SUFFICES ASSUME NEW j \in DOMAIN rows PROVE Follows(rows[j], rows'[j])
          OBVIOUS
        <4>1. CASE j = i
          BY <2>2, <4>1
        <4>2. CASE j # i
          BY <2>2, <4>2 DEF Follows
        <4> QED
          BY <4>1, <4>2
      <3> QED
        BY <1>0, <1>1, <2>2, <3>1 DEF RowsGo
    <2>5. HeldFor(c)
      <3> SUFFICES ASSUME NEW d \in Call, d # c, Writing(d), call[d].id = i PROVE FALSE
        BY <2>2 DEF HeldFor
      <3>1. WorkInv(d) /\ At(d) /\ Command(d) /\ WritesNow(d)
        BY DEF RowsInv, CallsInv, WorkInv
      <3>2. CASE Kind(d) = "create"
        BY <2>1, <3>1, <3>2 DEF WorkInv, Creates, WritesNow, At
      <3>3. CASE Kind(d) = "decide"
        BY <2>1, <3>1, <3>3 DEF WorkInv, Decides, WritesNow, At, Command, Requests
      <3>4. CASE Kind(d) = "execute"
        BY <2>1, <3>1, <3>4 DEF WorkInv, Executes, Command, Requests
      <3> QED
        BY <3>1, <3>2, <3>3, <3>4 DEF WritesNow, At
    <2>6. RowsAreWritten'
      <3>1. \A j \in DOMAIN rows' : Written(rows'[j], now, agreement)
        BY <2>2, <2>3 DEF RowsInv, RowsAreWritten
      <3> QED
        BY <1>1, <2>2, <3>1 DEF RowsInv, RowsAreWritten, debts
    <2>7. /\ Others(c) /\ ~WritesNow(c)' /\ ~Writing(c)' /\ Kind(c)' = "answer" /\ call'[c].begun \in 0..now'
          /\ call'[c].id = i /\ call'[c].pc = "ok"
      BY <1>0, <1>1, <1>2, <1>4, <2>0 DEF Ends, WritesNow, Writing, Kind, NotYet
    <2>8. WorkInv(c)'
      <3>1. Answers(c)'
        BY <1>0, <1>1, <2>1, <2>2, <2>7 DEF Answers, Drawn, NotYet
      <3> QED
        BY <2>7, <3>1 DEF WorkInv
    <2>9. \A d \in Call : d # c /\ Kind(d) = "answer" /\ call[d].pc = "ok" => call[d].id # call'[c].id
      BY <2>1, <2>7 DEF RowsInv, WorkInv, Answers
    <2> QED
      BY <1>0, <1>1, <2>4, <2>5, <2>6, <2>7, <2>8, <2>9, RowsInvKept
  <1> QED
    BY <1>0, <1>3, <1>4, AnswerUseDoes

\* The steps of no call
LEMMA NoCallFits ==
  ASSUME CallsInv, RowsInv, DealsGrow, RowsGo, RowsAreWritten', UNCHANGED <<call, cmd>>,
         now' \in Nat, now <= now', \A i : Busy(i) => (i \in DOMAIN rows <=> i \in DOMAIN rows'),
         \A i \in DOMAIN rows : Busy(i) => rows'[i] = rows[i]
  PROVE  RowsInv'
  <1>1. \A c : Others(c) /\ HeldFor(c)
    BY DEF Others, HeldFor, Busy, Writing
  <1>2. ASSUME NEW d \in Call PROVE WorkInv(d)'
    <2>1. PICK c : c # d
      <3>1. CASE d = 0
        BY <3>1
      <3>2. CASE d # 0
        BY <3>2
      <3> QED
        BY <3>1, <3>2
    <2> QED
      BY <1>1, <2>1, OthersKeep
  <1>3. OneWriter' /\ LinksAreAnsweredOnce'
    BY DEF RowsInv, OneWriter, LinksAreAnsweredOnce, Writing, Kind
  <1> QED
    BY <1>2, <1>3 DEF RowsInv

LEMMA CleanupFits ==
  ASSUME CallsInv, RowsInv, DealsGrow, Cleanup
  PROVE  RowsInv' /\ RowsGo
  <1>1. PICK old : old = {i \in DOMAIN rows : Old(i)}
    OBVIOUS
  <1>2. /\ \A i \in old : ~Busy(i)
        /\ rows' = [i \in DOMAIN rows \ old |-> rows[i]] /\ gone' = gone \cup old
        /\ UNCHANGED <<now, cmd, call, walk, debts>> /\ old \subseteq DOMAIN rows
    BY <1>1 DEF Cleanup
  <1>3. /\ DOMAIN rows' = DOMAIN rows \ old /\ \A i \in DOMAIN rows' : rows'[i] = rows[i]
    BY <1>2
  <1>4. RowsGo
    <2>1. \A j \in DOMAIN rows \cap DOMAIN rows' : Follows(rows[j], rows'[j])
      BY <1>3 DEF Follows
    <2> QED
      BY <1>2, <1>3, <2>1 DEF RowsGo, RowsInv, RowsAreWritten
  <1>5. RowsAreWritten'
    <2>1. IsFiniteSet(DOMAIN rows')
      BY <1>3, FS_Subset DEF RowsInv, RowsAreWritten
    <2> QED
      BY <1>2, <1>3, <1>4, <2>1 DEF RowsInv, RowsAreWritten, RowsGo, debts
  <1>6. /\ \A i : Busy(i) => (i \in DOMAIN rows <=> i \in DOMAIN rows')
        /\ \A i \in DOMAIN rows : Busy(i) => rows'[i] = rows[i]
    BY <1>2, <1>3
  <1>7. now \in Nat
    BY DEF RowsInv, RowsAreWritten
  <1> QED
    BY <1>2, <1>4, <1>5, <1>6, <1>7, NoCallFits

LEMMA TickFits ==
  ASSUME CallsInv, RowsInv, DealsGrow, Tick
  PROVE  RowsInv' /\ RowsGo
  <1>1. /\ now \in 1..MaxTime /\ now' = now + 1 /\ now' \in 1..MaxTime
        /\ UNCHANGED <<rows, gone, cmd, call, walk, debts>>
    BY BoundsAssumption DEF Tick, RowsInv, RowsAreWritten
  <1>2. RowsGo
    BY <1>1 DEF RowsGo, Follows, RowsInv, RowsAreWritten
  <1>3. RowsAreWritten'
    <2>1. \A i \in DOMAIN rows : Written(rows[i], now', agreement)
      BY <1>1, WrittenStays DEF RowsInv, RowsAreWritten
    <2> QED
      BY <1>1, <2>1 DEF RowsInv, RowsAreWritten, debts
  <1> QED
    BY <1>1, <1>2, <1>3, NoCallFits

LEMMA QuietStepFits ==
  ASSUME CallsInv, RowsInv, DealsGrow, UNCHANGED <<now, rows, gone, cmd, call, agreement>>
  PROVE  RowsInv' /\ RowsGo
  <1>1. RowsGo
    BY DEF RowsGo, Follows, RowsInv, RowsAreWritten
  <1>2. RowsAreWritten' /\ now \in Nat
    BY DEF RowsInv, RowsAreWritten
  <1> QED
    BY <1>1, <1>2, NoCallFits

LEMMA StepsFit ==
  ASSUME CallsInv, AgreementsInv, RowsInv, [Next]_vars
  PROVE  RowsInv'
  <1>0. DealsGrow
    BY DealsOnlyGrow
  <1>1. ASSUME NEW c \in Call, Step(c) PROVE RowsInv'
    BY <1>0, <1>1, CreateStepsFit, CreateInsertFits, DecideStepsFit, ExecuteStepsFit, CommitFits,
       RollbackFits, MintFits, AnswerReadsFit, AnswerUseFits DEF Step
  <1>2. ASSUME NEW c \in Call, AgreementStep(c), UNCHANGED <<now, rows, gone, walk>> PROVE RowsInv'
    BY <1>0, <1>2, AgreementStepsFit
  <1>3. CASE Cleanup \/ Tick
    BY <1>0, <1>3, CleanupFits, TickFits
  <1>4. CASE WalkStart \/ WalkPage \/ UNCHANGED vars
    BY <1>0, <1>4, QuietStepFits DEF WalkStart, WalkPage, vars, debts
  <1> QED
    BY <1>1, <1>2, <1>3, <1>4 DEF Next

LEMMA RowsInvHolds == Spec => []RowsInv
  <1>1. Init => RowsInv
    <2> SUFFICES ASSUME Init PROVE RowsInv
      OBVIOUS
    <2>0. PICK scene \in Scenes : rows = scene.store /\ agreement = scene.deals
      BY DEF Init
    <2>1. now = 1 /\ gone = {} /\ \A c \in Call : call[c] = Idle
      BY DEF Init
    <2>2. RowsAreWritten
      BY <2>0, <2>1, ScenesAssumption, BoundsAssumption DEF RowsAreWritten
    <2>3. \A c \in Call : ~Writing(c) /\ call[c].pc = "idle" /\ call[c].begun = 0
      BY <2>1 DEF Idle, Writing, NotYet
    <2>4. OneWriter /\ LinksAreAnsweredOnce
      BY <2>3 DEF OneWriter, LinksAreAnsweredOnce
    <2>5. \A c \in Call : WorkInv(c)
      BY <2>1, <2>3 DEF WorkInv, WritesNow, Creates, Decides, Executes, Answers
    <2> QED
      BY <2>2, <2>4, <2>5 DEF RowsInv
  <1>2. CallsInv /\ AgreementsInv /\ RowsInv /\ [Next]_vars => RowsInv'
    BY StepsFit
  <1> QED
    BY <1>1, <1>2, CallsInvHolds, AgreementsInvHolds, PTL DEF Spec

\* For any calls, scenes, expiries and pages: every row is as the schema has it,
\* decided exactly when somebody other than its requester decided it, and used
\* only when it was approved.
THEOREM RowsAreWellFormed == Spec => []TypeOK
  <1>1. CallsInv /\ RowsInv => TypeOK
    <2> SUFFICES ASSUME CallsInv, RowsInv PROVE TypeOK
      OBVIOUS
    <2>1. now \in 1..MaxTime /\ DOMAIN rows \subseteq Id
      BY DEF RowsInv, RowsAreWritten
    <2>2. \A i \in DOMAIN rows : Written(rows[i], now, agreement)
      BY DEF RowsInv, RowsAreWritten
    <2>3. \A c \in Call : call[c].pc \in
            {"idle", "select", "wait", "capture", "find", "insert", "update", "reread", "agreement",
             "commit", "get", "use", "agree", "row", "revise", "ok", "refused"}
      BY DEF CallsInv, At
    <2> QED
      BY <2>1, <2>2, <2>3 DEF TypeOK, Written
  <1> QED
    BY <1>1, CallsInvHolds, RowsInvHolds, PTL

\* For any calls that decide: who was told that a decision is recorded finds it
\* on the row for as long as the row exists (decideCondonationApproval,
\* decideCommunityWorkApproval).
THEOREM AnswersStayOnRecord == Spec => []AnswersAreOnRecord
  <1>1. RowsInv => AnswersAreOnRecord
    BY DEF RowsInv, WorkInv, Decides, OnRecord, AnswersAreOnRecord
  <1> QED
    BY <1>1, RowsInvHolds, PTL

\* For any calls that answer links: no two are told of the success of one link
\* (consumeApprovalToken).
THEOREM LinksAreSpentOnce == Spec => []LinksAreAnsweredOnce
  <1>1. RowsInv => LinksAreAnsweredOnce
    BY DEF RowsInv
  <1> QED
    BY <1>1, RowsInvHolds, PTL

--------------------------------------------------------------------------------
\* The locks

\* A creation holds its obligation from the selection to the commit and, once it
\* has looked, knows that its request does not exist; an execution holds its
\* agreement, which stays active, and its obligation, which stays owing when the
\* work is to be settled; a revision holds what it revises.
Holds(c) ==
  /\ Kind(c) = "create" /\ call[c].pc \in {"capture", "find", "insert", "commit"} =>
       call[c].debt = cmd[c].content.about
  /\ Kind(c) = "create" /\ call[c].pc \in {"insert", "commit"} =>
       \A i \in DOMAIN rows : ~AskedBy(rows[i], c)
  /\ Kind(c) = "execute" /\ call[c].pc \in {"select", "wait", "commit"} /\ call[c].work.deal # NoDeal =>
       call[c].deal = call[c].work.deal /\ agreement[call[c].deal].status = "ACTIVE"
  /\ Kind(c) = "execute" /\ call[c].pc = "commit" =>
       /\ call[c].debt = call[c].work.content.about
       /\ cmd[c].type = "community" => Owing(call[c].debt)
  /\ call[c].pc = "revise" => call[c].deal = cmd[c].deal
Exclusive ==
  \A c, d \in Call : c # d =>
    /\ call[c].debt = call[d].debt => call[c].debt = NoDebt
    /\ call[c].deal = call[d].deal => call[c].deal = NoDeal
AskedOnce == \A i, j \in DOMAIN rows : SameAsked(rows[i], rows[j]) => i = j
LocksInv == Exclusive /\ AskedOnce /\ \A c \in Call : Holds(c)

\* What a step of a call does to the others: a row is added by the commit of a
\* creation or is a link, an agreement is superseded and an obligation settled
\* by the call that holds it or when nobody does.
RowsFrom(c) ==
  \A i \in DOMAIN rows' \ DOMAIN rows :
    \/ rows'[i].type = "link"
    \/ /\ Kind(c) = "create" /\ call[c].pc = "commit" /\ i = call[c].id
       /\ AskedBy(rows'[i], c)
DealsFrom(c) ==
  \A i \in DOMAIN agreement : agreement[i].status = "ACTIVE" =>
    i \in DOMAIN agreement' /\ (agreement'[i].status = "ACTIVE" \/ i = call[c].deal)
DebtsFrom(c) ==
  \A a : Owing(a) => Owing(a)' \/ a = call[c].debt \/ DebtIsFree(a)

\* An execution is about the obligation and the agreement of its row.
LEMMA WorkOfRow ==
  ASSUME CallsInv, AgreementsInv, RowsInv, NEW c \in Call, Kind(c) = "execute", WritesNow(c)
  PROVE  /\ call[c].id \in DOMAIN rows /\ rows[call[c].id].type = cmd[c].type
         /\ call[c].work.content = rows[call[c].id].content /\ call[c].work.deal = rows[call[c].id].deal
         /\ call[c].work.content.about # NoDebt
         /\ call[c].work.deal # NoDeal =>
              /\ call[c].work.deal \in DOMAIN agreement
              /\ agreement[call[c].work.deal].about = call[c].work.content.about
  <1>0. PICK old : old = rows[call[c].id]
    OBVIOUS
  <1>1. Executes(c) /\ Command(c) /\ \A i \in DOMAIN rows : Written(rows[i], now, agreement)
    BY DEF RowsInv, WorkInv, RowsAreWritten, CallsInv
  <1>2. /\ call[c].id \in DOMAIN rows /\ old.type = cmd[c].type
        /\ \E t \in 1..now : call[c].work = [old EXCEPT !.used = t]
    BY <1>0, <1>1 DEF Executes
  <1>3. Written(old, now, agreement)
    BY <1>0, <1>1, <1>2
  <1>4. old.type \in Requests
    BY <1>1, <1>2 DEF Command
  <1>5. PICK t \in 1..now : call[c].work = [old EXCEPT !.used = t]
    BY <1>2
  <1>6. call[c].work.content = old.content /\ call[c].work.deal = old.deal
    <2>1. PICK a, b, d, e, f, g, h, j, k, l, m, n :
            old = [type |-> a, by |-> b, key |-> d, content |-> e, deal |-> f, created |-> g,
                   expires |-> h, status |-> j, decider |-> k, grounds |-> l, session |-> m, used |-> n]
      BY <1>3 DEF Written, IsRow
    <2> QED
      BY <1>5, <2>1
  <1> QED
    BY <1>0, <1>2, <1>3, <1>4, <1>6 DEF Written

LEMMA OthersHold ==
  ASSUME CallsInv, AgreementsInv, RowsInv, LocksInv, NEW c \in Call, Others(c), UNCHANGED cmd,
         RowsGo, RowsFrom(c), DealsFrom(c), DebtsFrom(c), NEW d \in Call, d # c
  PROVE  Holds(d)'
  <1>0. /\ call'[d] = call[d] /\ cmd'[d] = cmd[d] /\ Kind(d)' = Kind(d) /\ Holds(d) /\ WorkInv(d)
        /\ Command(d)
    BY DEF Others, Kind, LocksInv, RowsInv, CallsInv
  <1>1. ASSUME Kind(d) = "create", call[d].pc \in {"insert", "commit"}, NEW i \in DOMAIN rows',
               AskedBy(rows'[i], d)
        PROVE  FALSE
    <2>1. CASE i \in DOMAIN rows
      <3>1. Follows(rows[i], rows'[i])
        BY <2>1 DEF RowsGo
      <3> QED
        BY <1>0, <1>1, <2>1, <3>1 DEF Holds, AskedBy, Follows
    <2>2. CASE i \notin DOMAIN rows
      <3>1. Kind(c) = "create" /\ call[c].pc = "commit" /\ AskedBy(rows'[i], c)
        BY <1>0, <1>1, <2>2 DEF RowsFrom, AskedBy, Command, Requests
      <3>2. call[c].debt = cmd[c].content.about /\ call[d].debt = cmd[d].content.about
        BY <1>0, <1>1, <3>1 DEF Holds, LocksInv
      <3>3. cmd[c].content = cmd[d].content
        BY <1>1, <3>1 DEF AskedBy
      <3> QED
        BY <1>0, <3>2, <3>3 DEF LocksInv, Exclusive, Command
    <2> QED
      BY <2>1, <2>2
  <1>2. ASSUME Kind(d) = "execute", call[d].pc \in {"select", "wait", "commit"},
               call[d].work.deal # NoDeal
        PROVE  call[d].deal = call[d].work.deal /\ agreement'[call[d].deal].status = "ACTIVE"
    <2>1. call[d].deal = call[d].work.deal /\ agreement[call[d].deal].status = "ACTIVE"
      BY <1>0, <1>2 DEF Holds
    <2>2. call[d].deal \in DOMAIN agreement
      BY <1>2, <2>1, WorkOfRow DEF WritesNow
    <2>3. call[d].deal # call[c].deal
      BY <1>2, <2>1 DEF LocksInv, Exclusive
    <2> QED
      BY <2>1, <2>2, <2>3 DEF DealsFrom
  <1>3. ASSUME Kind(d) = "execute", call[d].pc = "commit"
        PROVE  /\ call[d].debt = call[d].work.content.about
               /\ cmd[d].type = "community" => Owing(call[d].debt)'
    <2>1. /\ call[d].debt = call[d].work.content.about
          /\ cmd[d].type = "community" => Owing(call[d].debt)
      BY <1>0, <1>3 DEF Holds
    <2>2. call[d].debt # NoDebt
      BY <1>3, <2>1, WorkOfRow DEF WritesNow
    <2>3. call[d].debt # call[c].debt /\ ~DebtIsFree(call[d].debt)
      BY <2>2 DEF LocksInv, Exclusive, DebtIsFree
    <2>4. Owing(call[d].debt) => Owing(call[d].debt)'
      <3>1. PICK a : a = call[d].debt
        OBVIOUS
      <3>2. Owing(a) => Owing(a)'
        BY <2>3, <3>1 DEF DebtsFrom
      <3> QED
        BY <1>0, <3>1, <3>2 DEF Owing
    <2> QED
      BY <2>1, <2>4
  <1>4. /\ Kind(d)' = "create" /\ call'[d].pc \in {"capture", "find", "insert", "commit"} =>
             call'[d].debt = cmd'[d].content.about
        /\ call'[d].pc = "revise" => call'[d].deal = cmd'[d].deal
    BY <1>0 DEF Holds
  <1>5. Kind(d)' = "create" /\ call'[d].pc \in {"insert", "commit"} =>
          \A i \in DOMAIN rows' : ~AskedBy(rows[i], d)'
    BY <1>0, <1>1 DEF AskedBy
  <1>6. Kind(d)' = "execute" /\ call'[d].pc \in {"select", "wait", "commit"}
          /\ call'[d].work.deal # NoDeal =>
            call'[d].deal = call'[d].work.deal /\ agreement'[call'[d].deal].status = "ACTIVE"
    BY <1>0, <1>2
  <1>7. Kind(d)' = "execute" /\ call'[d].pc = "commit" =>
          /\ call'[d].debt = call'[d].work.content.about
          /\ cmd'[d].type = "community" => Owing(call[d].debt)'
    BY <1>0, <1>3
  <1> QED
    BY <1>4, <1>5, <1>6, <1>7 DEF Holds

LEMMA LocksKept ==
  ASSUME CallsInv, AgreementsInv, RowsInv, LocksInv, NEW c \in Call, Others(c), UNCHANGED cmd,
         RowsGo, RowsFrom(c), DealsFrom(c), DebtsFrom(c), Holds(c)',
         call'[c].debt \in {NoDebt, call[c].debt} \/ DebtIsFree(call'[c].debt),
         call'[c].deal \in {NoDeal, call[c].deal} \/ DealIsFree(call'[c].deal)
  PROVE  LocksInv'
  <1>1. Exclusive'
    <2>1. \A d \in Call : d # c => call'[d] = call[d]
      BY DEF Others
    <2>2. ASSUME NEW d \in Call, d # c
          PROVE  /\ call'[c].debt = call'[d].debt => call'[c].debt = NoDebt
                 /\ call'[c].deal = call'[d].deal => call'[c].deal = NoDeal
      BY <2>1, <2>2 DEF LocksInv, Exclusive, DebtIsFree, DealIsFree
    <2> QED
      BY <2>1, <2>2 DEF LocksInv, Exclusive
  <1>2. AskedOnce'
    <2> SUFFICES ASSUME NEW i \in DOMAIN rows', NEW j \in DOMAIN rows', SameAsked(rows'[i], rows'[j]),
                        i # j
                 PROVE  FALSE
      BY DEF AskedOnce
    <2>1. ASSUME NEW k \in DOMAIN rows \cap DOMAIN rows' PROVE Follows(rows[k], rows'[k])
      BY DEF RowsGo
    <2>2. ASSUME NEW k \in DOMAIN rows' \ DOMAIN rows, rows'[k].type \in Requests
          PROVE  /\ Kind(c) = "create" /\ call[c].pc = "commit" /\ k = call[c].id
                 /\ AskedBy(rows'[k], c)
      BY <2>2 DEF RowsFrom, Requests
    <2>3. rows'[i].type \in Requests /\ rows'[j].type \in Requests
      BY DEF SameAsked
    <2>4. ASSUME Kind(c) = "create", call[c].pc = "commit", NEW k \in DOMAIN rows \cap DOMAIN rows'
          PROVE  ~AskedBy(rows'[k], c)
      BY <2>1, <2>4 DEF LocksInv, Holds, AskedBy, Follows
    <2>5. CASE i \in DOMAIN rows /\ j \in DOMAIN rows
      <3>1. SameAsked(rows[i], rows[j])
        BY <2>1, <2>5 DEF SameAsked, Follows
      <3> QED
        BY <2>5, <3>1 DEF LocksInv, AskedOnce
    <2>6. CASE i \in DOMAIN rows /\ j \notin DOMAIN rows
      BY <2>2, <2>3, <2>4, <2>6 DEF SameAsked, AskedBy
    <2>7. CASE i \notin DOMAIN rows /\ j \in DOMAIN rows
      BY <2>2, <2>3, <2>4, <2>7 DEF SameAsked, AskedBy
    <2>8. CASE i \notin DOMAIN rows /\ j \notin DOMAIN rows
      BY <2>2, <2>3, <2>8
    <2> QED
      BY <2>5, <2>6, <2>7, <2>8
  <1>3. \A d \in Call : Holds(d)'
    BY OthersHold
  <1> QED
    BY <1>1, <1>2, <1>3 DEF LocksInv

\* A step of a call that writes nothing but its own progress
LEMMA QuietHolds ==
  ASSUME CallsInv, AgreementsInv, RowsInv, LocksInv, NEW c \in Call, Others(c),
         UNCHANGED <<rows, gone, cmd, agreement, paid, condoned>>, Holds(c)',
         call'[c].debt \in {NoDebt, call[c].debt} \/ DebtIsFree(call'[c].debt),
         call'[c].deal \in {NoDeal, call[c].deal} \/ DealIsFree(call'[c].deal)
  PROVE  LocksInv'
  <1>1. RowsGo
    BY DEF RowsGo, Follows, RowsInv, RowsAreWritten
  <1>2. RowsFrom(c) /\ DealsFrom(c) /\ DebtsFrom(c)
    BY DEF RowsFrom, DealsFrom, DebtsFrom, Owing
  <1> QED
    BY <1>1, <1>2, LocksKept

LEMMA EndedHolds ==
  ASSUME NEW c \in Call, NEW id, Ends(c, "ok", id) \/ Ends(c, "refused", id)
  PROVE  Holds(c)' /\ Others(c) /\ call'[c].debt = NoDebt /\ call'[c].deal = NoDeal
  BY DEF Ends, Holds

LEMMA EndsQuietly ==
  ASSUME CallsInv, AgreementsInv, RowsInv, LocksInv, NEW c \in Call, NEW id,
         Ends(c, "ok", id) \/ Ends(c, "refused", id),
         UNCHANGED <<rows, gone, cmd, agreement, paid, condoned>>
  PROVE  LocksInv'
  <1>1. Holds(c)' /\ Others(c) /\ call'[c].debt = NoDebt /\ call'[c].deal = NoDeal
    BY EndedHolds
  <1> QED
    BY <1>1, QuietHolds

LEMMA CreateStepsHold ==
  ASSUME CallsInv, AgreementsInv, RowsInv, LocksInv, NEW c \in Call,
         \/ CreateFind(c) \/ CreateLock(c) \/ CreateCapture(c) \/ CreateFindAgain(c) \/ CreateInsert(c)
  PROVE  LocksInv'
  <1>0. Calls /\ At(c) /\ Holds(c)
    BY DEF CallsInv, LocksInv
  <1>1. /\ UNCHANGED <<rows, gone, cmd, agreement, paid, condoned>> /\ Kind(c) = "create"
        /\ Kind(c)' = "create"
    <2>1. UNCHANGED tables /\ Kind(c) = "create"
      BY <1>0, CreateFindDoes, CreateLockDoes, CreateCaptureDoes, CreateFindAgainDoes,
         CreateInsertDoes DEF At
    <2> QED
      BY <2>1 DEF tables, debts, Kind
  <1>2. ASSUME NEW id, Ends(c, "ok", id) \/ Ends(c, "refused", id) PROVE LocksInv'
    BY <1>1, <1>2, EndsQuietly
  <1>3. CASE CreateFind(c)
    <2>1. CASE Moves(c, "select")
      <3>1. Holds(c)'
        BY <1>1, <2>1 DEF Moves, Holds
      <3> QED
        BY <1>1, <2>1, <3>1, QuietHolds DEF Moves
    <2> QED
      BY <1>0, <1>2, <1>3, <2>1, CreateFindDoes
  <1>4. CASE CreateLock(c)
    <2>1. CASE TakesDebt(c, About(c), "capture")
      <3>0. About(c) = cmd[c].content.about
        BY <1>1 DEF About
      <3>1. Holds(c)'
        BY <1>1, <2>1, <3>0 DEF TakesDebt, Holds
      <3> QED
        BY <1>1, <2>1, <3>1, QuietHolds DEF TakesDebt
    <2> QED
      BY <1>0, <1>2, <1>4, <2>1, CreateLockDoes
  <1>5. CASE CreateCapture(c)
    <2>1. CASE Moves(c, "find")
      <3>1. Holds(c)'
        BY <1>0, <1>1, <1>5, <2>1, CreateCaptureDoes DEF Moves, Holds
      <3> QED
        BY <1>1, <2>1, <3>1, QuietHolds DEF Moves
    <2> QED
      BY <1>0, <1>2, <1>5, <2>1, CreateCaptureDoes
  <1>6. CASE CreateFindAgain(c)
    <2>0. call[c].pc = "find"
      BY <1>0, <1>6, CreateFindAgainDoes
    <2>1. CASE Found(c) = {} /\ Moves(c, "insert")
      <3>1. \A i \in DOMAIN rows : ~AskedBy(rows[i], c)
        BY <2>1 DEF Found, RowsOf, AskedBy
      <3>2. Holds(c)'
        BY <1>0, <1>1, <2>0, <2>1, <3>1 DEF Moves, Holds, AskedBy
      <3> QED
        BY <1>1, <2>1, <3>2, QuietHolds DEF Moves
    <2> QED
      BY <1>0, <1>2, <1>6, <2>1, CreateFindAgainDoes
  <1>7. CASE CreateInsert(c)
    <2>0. call[c].pc = "insert"
      BY <1>0, <1>7, CreateInsertDoes
    <2>1. ASSUME NEW i \in NewIds, Writes(c, "commit", i, Fresh(c, cmd[c].type, now + Life)) PROVE LocksInv'
      <3>1. Holds(c)'
        BY <1>0, <1>1, <2>0, <2>1 DEF Writes, Holds, AskedBy
      <3> QED
        BY <1>1, <2>1, <3>1, QuietHolds DEF Writes
    <2> QED
      BY <1>0, <1>2, <1>7, <2>1, CreateInsertDoes
  <1> QED
    BY <1>3, <1>4, <1>5, <1>6, <1>7

LEMMA DecideStepsHold ==
  ASSUME CallsInv, AgreementsInv, RowsInv, LocksInv, NEW c \in Call,
         DecideRead(c) \/ DecideUpdate(c) \/ DecideReread(c)
  PROVE  LocksInv'
  <1>0. Calls /\ At(c) /\ Holds(c)
    BY DEF CallsInv, LocksInv
  <1>1. /\ UNCHANGED <<rows, gone, cmd, agreement, paid, condoned>> /\ Kind(c)' = "decide"
    <2>1. UNCHANGED tables /\ Kind(c) = "decide"
      BY <1>0, DecideReadDoes, DecideUpdateDoes, DecideRereadDoes DEF At
    <2> QED
      BY <2>1 DEF tables, debts, Kind
  <1>2. \/ \E id : Ends(c, "ok", id) \/ Ends(c, "refused", id)
        \/ Moves(c, "reread")
        \/ \E id, work : Writes(c, "update", id, work) \/ Writes(c, "commit", id, work)
    BY <1>0, DecideReadDoes, DecideUpdateDoes, DecideRereadDoes
  <1>3. ASSUME NEW id, Ends(c, "ok", id) \/ Ends(c, "refused", id) PROVE LocksInv'
    BY <1>1, <1>3, EndsQuietly
  <1>4. CASE Moves(c, "reread")
    <2>1. Holds(c)'
      BY <1>1, <1>4 DEF Moves, Holds
    <2> QED
      BY <1>1, <1>4, <2>1, QuietHolds DEF Moves
  <1>5. ASSUME NEW id, NEW work, Writes(c, "update", id, work) \/ Writes(c, "commit", id, work)
        PROVE  LocksInv'
    <2>1. Holds(c)'
      BY <1>1, <1>5 DEF Writes, Holds
    <2> QED
      BY <1>1, <1>5, <2>1, QuietHolds DEF Writes
  <1> QED
    BY <1>2, <1>3, <1>4, <1>5

LEMMA ExecuteStepsHold ==
  ASSUME CallsInv, AgreementsInv, RowsInv, LocksInv, NEW c \in Call,
         ExecuteLock(c) \/ ExecuteAgreement(c) \/ ExecuteDebt(c)
  PROVE  LocksInv'
  <1>0. Calls /\ At(c) /\ Holds(c)
    BY DEF CallsInv, LocksInv
  <1>1. /\ UNCHANGED <<rows, gone, cmd, agreement, paid, condoned>> /\ Kind(c) = "execute"
        /\ Kind(c)' = "execute"
    <2>1. UNCHANGED tables /\ Kind(c) = "execute"
      BY <1>0, ExecuteLockDoes, ExecuteAgreementDoes, ExecuteDebtDoes DEF At
    <2> QED
      BY <2>1 DEF tables, debts, Kind
  <1>2. ASSUME NEW id, Ends(c, "ok", id) \/ Ends(c, "refused", id) PROVE LocksInv'
    BY <1>1, <1>2, EndsQuietly
  <1>3. CASE ExecuteLock(c)
    <2>1. ASSUME NEW id, NEW work, Writes(c, "agreement", id, work) PROVE LocksInv'
      <3>1. Holds(c)'
        BY <1>1, <2>1 DEF Writes, Holds
      <3> QED
        BY <1>1, <2>1, <3>1, QuietHolds DEF Writes
    <2> QED
      BY <1>0, <1>2, <1>3, <2>1, ExecuteLockDoes
  <1>4. CASE ExecuteAgreement(c)
    <2>1. CASE call[c].work.deal = NoDeal /\ Moves(c, "select")
      <3>1. Holds(c)'
        BY <1>1, <2>1 DEF Moves, Holds
      <3> QED
        BY <1>1, <2>1, <3>1, QuietHolds DEF Moves
    <2>2. CASE agreement[call[c].work.deal].status = "ACTIVE" /\ TakesDeal(c, call[c].work.deal, "select")
      <3>1. Holds(c)'
        BY <1>1, <2>2 DEF TakesDeal, Holds
      <3> QED
        BY <1>1, <2>2, <3>1, QuietHolds DEF TakesDeal
    <2> QED
      BY <1>0, <1>2, <1>4, <2>1, <2>2, ExecuteAgreementDoes
  <1>5. CASE ExecuteDebt(c)
    <2>0. call[c].pc = "wait" /\ About(c) = call[c].work.content.about
      BY <1>0, <1>1, <1>5, ExecuteDebtDoes DEF About
    <2>1. CASE /\ cmd[c].type = "community" => Owing(About(c))
               /\ TakesDebt(c, About(c), "commit")
      <3>1. /\ Others(c) /\ call'[c].pc = "commit" /\ call'[c].debt = call[c].work.content.about
            /\ call'[c].work = call[c].work /\ call'[c].deal = call[c].deal
            /\ cmd[c].type = "community" => call[c].work.content.about \notin paid' \cup condoned'
        BY <1>1, <2>0, <2>1 DEF TakesDebt, Owing
      <3>2. call[c].work.deal # NoDeal =>
              call[c].deal = call[c].work.deal /\ agreement[call[c].deal].status = "ACTIVE"
        BY <1>0, <1>1, <2>0 DEF Holds
      <3>3. Holds(c)'
        BY <1>1, <3>1, <3>2 DEF Holds, Owing
      <3> QED
        BY <1>1, <2>0, <2>1, <3>1, <3>3, QuietHolds DEF TakesDebt
    <2> QED
      BY <1>0, <1>2, <1>5, <2>1, ExecuteDebtDoes
  <1> QED
    BY <1>3, <1>4, <1>5

LEMMA SelectHolds ==
  ASSUME CallsInv, AgreementsInv, RowsInv, LocksInv, NEW c \in Call, Select(c)
  PROVE  LocksInv'
  <1>0. Calls /\ At(c) /\ Holds(c)
    BY DEF CallsInv, LocksInv
  <1>1. call[c].pc = "select" /\ Moves(c, "wait") /\ UNCHANGED tables
    BY <1>0, SelectDoes
  <1>2. Kind(c)' = Kind(c) /\ UNCHANGED <<rows, gone, cmd, agreement, paid, condoned>>
    BY <1>1 DEF Kind, tables, debts
  <1>3. Holds(c)'
    BY <1>0, <1>1, <1>2 DEF Holds, Moves
  <1> QED
    BY <1>1, <1>2, <1>3, QuietHolds DEF Moves

LEMMA CommitHolds ==
  ASSUME CallsInv, AgreementsInv, RowsInv, LocksInv, NEW c \in Call, DealsGrow, Commit(c)
  PROVE  LocksInv'
  <1>0. Calls /\ At(c) /\ Holds(c) /\ WorkInv(c)
    BY DEF CallsInv, LocksInv, RowsInv
  <1>1. /\ call[c].pc = "commit" /\ Ends(c, "ok", call[c].id)
        /\ DOMAIN rows' = DOMAIN rows \cup {call[c].id} /\ rows'[call[c].id] = call[c].work
        /\ paid' = paid \cup Settled(c, "community")
        /\ condoned' = condoned \cup Settled(c, "condonation")
        /\ UNCHANGED <<now, gone, cmd, walk, agreement>>
    BY <1>0, CommitDoes
  <1>2. RowsGo
    BY CommitFits
  <1>3. RowsFrom(c)
    <2>1. CASE Kind(c) = "create"
      BY <1>0, <1>1, <2>1 DEF RowsFrom, WorkInv, Creates
    <2>2. CASE Kind(c) # "create"
      <3>1. call[c].id \in DOMAIN rows
        BY <1>0, <1>1, <2>2 DEF At, WorkInv, Decides, Executes, WritesNow
      <3> QED
        BY <1>1, <3>1 DEF RowsFrom
    <2> QED
      BY <2>1, <2>2
  <1>4. DealsFrom(c)
    BY <1>1 DEF DealsFrom
  <1>5. DebtsFrom(c)
    <2>1. Settled(c, "community") \cup Settled(c, "condonation") \subseteq {call[c].debt}
      BY <1>0, <1>1 DEF Settled, Holds, About
    <2> QED
      BY <1>1, <2>1 DEF DebtsFrom, Owing
  <1>6. Holds(c)' /\ Others(c) /\ call'[c].debt = NoDebt /\ call'[c].deal = NoDeal
    BY <1>1, EndedHolds
  <1> QED
    BY <1>1, <1>2, <1>3, <1>4, <1>5, <1>6, LocksKept

LEMMA LinkStepsHold ==
  ASSUME CallsInv, AgreementsInv, RowsInv, LocksInv, NEW c \in Call, DealsGrow,
         Mint(c) \/ AnswerCandidate(c) \/ AnswerGet(c) \/ AnswerUse(c)
  PROVE  LocksInv'
  <1>0. Calls /\ At(c) /\ Holds(c)
    BY DEF CallsInv, LocksInv
  <1>1. CASE Mint(c) \/ AnswerUse(c)
    <2>1. UNCHANGED <<cmd, agreement, paid, condoned>>
      BY <1>0, <1>1, MintDoes, AnswerUseDoes DEF debts
    <2>2. \E id : Ends(c, "ok", id) \/ Ends(c, "refused", id)
      BY <1>0, <1>1, MintDoes, AnswerUseDoes
    <2>3. RowsGo
      BY <1>1, MintFits, AnswerUseFits
    <2>4. RowsFrom(c)
      <3>1. CASE Mint(c)
        <4>1. PICK i \in NewIds, life \in LinkLives :
                /\ DOMAIN rows' = DOMAIN rows \cup {i} /\ Ends(c, "ok", i)
                /\ rows'[i] = [Fresh(c, "link", now + life) EXCEPT !.created = now]
                /\ \A j \in DOMAIN rows : j # i => rows'[j] = rows[j]
          BY <1>0, <3>1, MintDoes
        <4>2. PICK row : row = [Fresh(c, "link", now + life) EXCEPT !.created = now]
          OBVIOUS
        <4>3. row.type = "link"
          BY <4>2 DEF Fresh
        <4> QED
          BY <4>1, <4>2, <4>3 DEF RowsFrom
      <3>2. CASE AnswerUse(c)
        <4>1. DOMAIN rows' = DOMAIN rows
          BY <1>0, <3>2, AnswerUseDoes
        <4> QED
          BY <4>1 DEF RowsFrom
      <3> QED
        BY <1>1, <3>1, <3>2
    <2>5. DealsFrom(c) /\ DebtsFrom(c)
      BY <2>1 DEF DealsFrom, DebtsFrom, Owing
    <2>6. Holds(c)' /\ Others(c) /\ call'[c].debt = NoDebt /\ call'[c].deal = NoDeal
      BY <2>2, EndedHolds
    <2> QED
      BY <2>1, <2>3, <2>4, <2>5, <2>6, LocksKept
  <1>2. CASE AnswerCandidate(c) \/ AnswerGet(c)
    <2>1. UNCHANGED <<rows, gone, cmd, agreement, paid, condoned>> /\ Kind(c)' = "answer"
      <3>1. UNCHANGED tables /\ Kind(c) = "answer"
        BY <1>0, <1>2, AnswerCandidateDoes, AnswerGetDoes DEF At
      <3> QED
        BY <3>1 DEF tables, debts, Kind
    <2>2. \/ \E id : Ends(c, "refused", id)
          \/ Moves(c, "use")
          \/ \E id : Writes(c, "get", id, call[c].work)
      BY <1>0, <1>2, AnswerCandidateDoes, AnswerGetDoes
    <2>3. ASSUME NEW id, Ends(c, "refused", id) PROVE LocksInv'
      BY <2>1, <2>3, EndsQuietly
    <2>4. CASE Moves(c, "use")
      <3>1. Holds(c)'
        BY <2>1, <2>4 DEF Moves, Holds
      <3> QED
        BY <2>1, <2>4, <3>1, QuietHolds DEF Moves
    <2>5. ASSUME NEW id, Writes(c, "get", id, call[c].work) PROVE LocksInv'
      <3>1. Holds(c)'
        BY <2>1, <2>5 DEF Writes, Holds
      <3> QED
        BY <2>1, <2>5, <3>1, QuietHolds DEF Writes
    <2> QED
      BY <2>2, <2>3, <2>4, <2>5
  <1> QED
    BY <1>1, <1>2

\* The agreement a revision supersedes is the one it holds.
LEMMA AgreementStepsHold ==
  ASSUME CallsInv, AgreementsInv, RowsInv, LocksInv, NEW c \in Call, AgreementStep(c),
         UNCHANGED <<rows, gone>>
  PROVE  LocksInv'
  <1>0. Calls /\ At(c) /\ Holds(c)
    BY DEF CallsInv, LocksInv
  <1>1. CASE AgreeLock(c)
    <2>1. /\ TakesDebt(c, cmd[c].content.about, "agree") /\ Kind(c)' = "agree"
          /\ UNCHANGED <<cmd, agreement, paid, condoned>>
      BY <1>0, <1>1, AgreeLockDoes DEF debts, Kind
    <2>2. Holds(c)'
      BY <2>1 DEF TakesDebt, Holds
    <2> QED
      BY <2>1, <2>2, QuietHolds DEF TakesDebt
  <1>2. CASE ReviseLock(c)
    <2>1. UNCHANGED <<cmd, agreement, paid, condoned>> /\ Kind(c)' = "revise"
      BY <1>0, <1>2, ReviseLockDoes DEF debts, Kind
    <2>2. CASE Ends(c, "refused", 0)
      BY <2>1, <2>2, EndsQuietly
    <2>3. CASE TakesDebt(c, agreement[cmd[c].deal].about, "row")
      <3>1. Holds(c)'
        BY <2>1, <2>3 DEF TakesDebt, Holds
      <3> QED
        BY <2>1, <2>3, <3>1, QuietHolds DEF TakesDebt
    <2> QED
      BY <1>0, <1>2, <2>2, <2>3, ReviseLockDoes
  <1>3. CASE ReviseRow(c)
    <2>1. /\ TakesDeal(c, cmd[c].deal, "revise") /\ Kind(c)' = "revise"
          /\ UNCHANGED <<cmd, agreement, paid, condoned>>
      BY <1>0, <1>3, ReviseRowDoes DEF debts, Kind, At
    <2>2. Holds(c)'
      BY <2>1 DEF TakesDeal, Holds
    <2> QED
      BY <2>1, <2>2, QuietHolds DEF TakesDeal
  <1>4. CASE Pay(c)
    <2>1. CASE Ends(c, "refused", 0) /\ UNCHANGED paid
      BY <1>0, <1>4, <2>1, PayDoes, EndsQuietly
    <2>2. CASE paid' = paid \cup {cmd[c].content.about} /\ Ends(c, "ok", 0)
      <3>1. UNCHANGED <<cmd, agreement, condoned>> /\ DebtIsFree(cmd[c].content.about)
        BY <1>0, <1>4, PayDoes
      <3>2. DebtsFrom(c)
        BY <2>2, <3>1 DEF DebtsFrom, Owing
      <3>3. RowsGo /\ RowsFrom(c) /\ DealsFrom(c)
        BY <3>1 DEF RowsGo, Follows, RowsFrom, DealsFrom, RowsInv, RowsAreWritten
      <3>4. Holds(c)' /\ Others(c) /\ call'[c].debt = NoDebt /\ call'[c].deal = NoDeal
        BY <2>2, EndedHolds
      <3> QED
        BY <3>1, <3>2, <3>3, <3>4, LocksKept
    <2> QED
      BY <1>0, <1>4, <2>1, <2>2, PayDoes
  <1>5. CASE AgreeInsert(c) \/ ReviseInsert(c)
    <2>1. UNCHANGED <<cmd, paid, condoned>>
      BY <1>0, <1>5, AgreeInsertDoes, ReviseInsertDoes
    <2>2. CASE UNCHANGED agreement /\ \E id : Ends(c, "ok", id) \/ Ends(c, "refused", id)
      BY <2>1, <2>2, EndsQuietly
    <2>3. ASSUME NEW about, NEW of, NEW number, NEW others, Records(c, about, of, number, others),
                 DOMAIN others = DOMAIN agreement,
                 \A i \in DOMAIN agreement : i # call[c].deal => others[i].status = agreement[i].status
          PROVE  LocksInv'
      <3>1. DealsFrom(c)
        BY <2>3 DEF DealsFrom, Records
      <3>2. RowsGo /\ RowsFrom(c) /\ DebtsFrom(c)
        BY <2>1 DEF RowsGo, Follows, RowsFrom, DebtsFrom, Owing, RowsInv, RowsAreWritten
      <3>3. Holds(c)' /\ Others(c) /\ call'[c].debt = NoDebt /\ call'[c].deal = NoDeal
        BY <2>3, EndedHolds DEF Records
      <3> QED
        BY <2>1, <3>1, <3>2, <3>3, LocksKept
    <2>4. CASE AgreeInsert(c)
      BY <1>0, <2>2, <2>3, <2>4, AgreeInsertDoes
    <2>5. CASE ReviseInsert(c)
      <3>0. PICK old : old = cmd[c].deal
        OBVIOUS
      <3>1. PICK others : others = [agreement EXCEPT ![old].status = "SUPERSEDED"]
        OBVIOUS
      <3>2. call[c].pc = "revise" /\ call[c].deal = old
        BY <1>0, <2>5, <3>0, ReviseInsertDoes DEF Holds
      <3>3. /\ DOMAIN others = DOMAIN agreement
            /\ \A i \in DOMAIN agreement : i # call[c].deal => others[i].status = agreement[i].status
        BY <3>1, <3>2
      <3> QED
        BY <1>0, <2>2, <2>3, <2>5, <3>0, <3>1, <3>3, ReviseInsertDoes
    <2> QED
      BY <1>5, <2>4, <2>5
  <1> QED
    BY <1>1, <1>2, <1>3, <1>4, <1>5 DEF AgreementStep

LEMMA NoCallHolds ==
  ASSUME CallsInv, RowsInv, LocksInv, RowsGo, DOMAIN rows' \subseteq DOMAIN rows,
         UNCHANGED <<cmd, call, agreement, paid, condoned>>
  PROVE  LocksInv'
  <1>1. Exclusive'
    BY DEF LocksInv, Exclusive
  <1>2. \A i \in DOMAIN rows' : i \in DOMAIN rows /\ Follows(rows[i], rows'[i])
    BY DEF RowsGo
  <1>3. AskedOnce'
    BY <1>2 DEF LocksInv, AskedOnce, SameAsked, Follows
  <1>4. ASSUME NEW c \in Call PROVE Holds(c)'
    <2>1. Holds(c) /\ Kind(c)' = Kind(c)
      BY DEF LocksInv, Kind
    <2>2. \A i \in DOMAIN rows' : AskedBy(rows[i], c)' => AskedBy(rows[i], c)
      BY <1>2 DEF AskedBy, Follows
    <2> QED
      BY <1>2, <2>1, <2>2 DEF Holds, Owing
  <1> QED
    BY <1>1, <1>3, <1>4 DEF LocksInv

LEMMA StepsHold ==
  ASSUME CallsInv, AgreementsInv, RowsInv, LocksInv, [Next]_vars
  PROVE  LocksInv'
  <1>0. DealsGrow
    BY DealsOnlyGrow
  <1>1. ASSUME NEW c \in Call, Rollback(c) PROVE LocksInv'
    <2>1. Ends(c, "refused", 0) /\ UNCHANGED <<rows, gone, cmd, agreement, paid, condoned>>
      BY <1>1, RollbackDoes DEF CallsInv, tables, debts
    <2> QED
      BY <2>1, EndsQuietly
  <1>2. ASSUME NEW c \in Call, Step(c) PROVE LocksInv'
    BY <1>0, <1>1, <1>2, SelectHolds, CreateStepsHold, DecideStepsHold, ExecuteStepsHold, CommitHolds,
       LinkStepsHold DEF Step
  <1>3. ASSUME NEW c \in Call, AgreementStep(c), UNCHANGED <<now, rows, gone, walk>> PROVE LocksInv'
    BY <1>3, AgreementStepsHold
  <1>4. CASE Cleanup
    <2>1. RowsGo
      BY <1>0, <1>4, CleanupFits
    <2>2. DOMAIN rows' \subseteq DOMAIN rows /\ UNCHANGED <<cmd, call, agreement, paid, condoned>>
      BY <1>4 DEF Cleanup, debts
    <2> QED
      BY <2>1, <2>2, NoCallHolds
  <1>5. CASE Tick \/ WalkStart \/ WalkPage \/ UNCHANGED vars
    <2>1. UNCHANGED <<rows, gone, cmd, call, agreement, paid, condoned>>
      BY <1>5 DEF Tick, WalkStart, WalkPage, vars, debts
    <2>2. RowsGo
      BY <2>1 DEF RowsGo, Follows, RowsInv, RowsAreWritten
    <2> QED
      BY <2>1, <2>2, NoCallHolds
  <1> QED
    BY <1>2, <1>3, <1>4, <1>5 DEF Next

LEMMA LocksInvHolds == Spec => []LocksInv
  <1>1. Init => LocksInv
    <2> SUFFICES ASSUME Init PROVE LocksInv
      OBVIOUS
    <2>1. \A c \in Call : call[c] = Idle
      BY DEF Init
    <2>2. \A c \in Call : call[c].pc = "idle" /\ call[c].debt = NoDebt /\ call[c].deal = NoDeal
      BY <2>1 DEF Idle
    <2>3. AskedOnce
      BY ScenesAssumption DEF Init, AskedOnce
    <2> QED
      BY <2>2, <2>3 DEF LocksInv, Exclusive, Holds
  <1>2. CallsInv /\ AgreementsInv /\ RowsInv /\ LocksInv /\ [Next]_vars => LocksInv'
    BY StepsHold
  <1> QED
    BY <1>1, <1>2, CallsInvHolds, AgreementsInvHolds, RowsInvHolds, PTL DEF Spec

\* For any calls that create requests, at once or one after the other: those that
\* are answered with success under one key name one row, as long as it exists.
THEOREM RetriesAreOneRequest == Spec => []RetriesFindTheirRequest
  <1>1. CallsInv /\ RowsInv /\ LocksInv => RetriesFindTheirRequest
    <2> SUFFICES ASSUME CallsInv, RowsInv, LocksInv, NEW c \in Call, NEW d \in Call,
                        Kind(c) = "create", Kind(d) = "create", call[c].pc = "ok", call[d].pc = "ok",
                        cmd[c].type = cmd[d].type, cmd[c].by = cmd[d].by, cmd[c].key = cmd[d].key,
                        cmd[c].content = cmd[d].content, {call[c].id, call[d].id} \cap gone = {}
                 PROVE  call[c].id = call[d].id
      BY DEF RetriesFindTheirRequest
    <2>1. ASSUME NEW e \in Call, Kind(e) = "create", call[e].pc = "ok", call[e].id \notin gone
          PROVE  call[e].id \in DOMAIN rows /\ AskedBy(rows[call[e].id], e) /\ cmd[e].type \in Requests
      BY <2>1 DEF RowsInv, WorkInv, Creates, Drawn, CallsInv, Command
    <2>2. SameAsked(rows[call[c].id], rows[call[d].id])
      BY <2>1 DEF SameAsked, AskedBy
    <2> QED
      BY <2>1, <2>2 DEF LocksInv, AskedOnce
  <1> QED
    BY <1>1, CallsInvHolds, RowsInvHolds, LocksInvHolds, PTL

\* For any calls that execute, revise and pay: a row of community work is used in
\* a step only when its obligation owes and the agreement it was asked under is
\* the active one (executeApproved, lockAgreement, reviseAgreementCore).
THEOREM WorkIsUnderActiveAgreement == Spec => WorkUnderActiveAgreement
  <1> DEFINE Used(i) ==
        rows[i].type = "community" /\ rows[i].used = NotYet /\ rows'[i].used # NotYet =>
          /\ Owing(rows[i].content.about)
          /\ rows[i].deal \in {NoDeal} \cup ActiveDeals(rows[i].content.about)
  <1>1. ASSUME CallsInv, AgreementsInv, RowsInv, LocksInv, [Next]_vars,
               NEW i \in DOMAIN rows \cap DOMAIN rows'
        PROVE  Used(i)
    <2>0. Calls /\ DealsGrow
      BY <1>1, DealsOnlyGrow DEF CallsInv
    <2>1. ASSUME rows'[i] = rows[i] PROVE Used(i)
      BY <2>1
    <2>2. ASSUME NEW c \in Call, Commit(c) PROVE Used(i)
      <3>0. At(c) /\ Holds(c) /\ WorkInv(c)
        BY <1>1 DEF CallsInv, LocksInv, RowsInv
      <3>1. /\ call[c].pc = "commit" /\ rows'[call[c].id] = call[c].work
            /\ i # call[c].id => rows'[i] = rows[i]
        BY <2>0, <2>2, CommitDoes
      <3>2. CASE i # call[c].id
        BY <2>1, <3>1, <3>2
      <3>3. CASE i = call[c].id /\ Kind(c) = "create"
        BY <1>1, <3>0, <3>1, <3>3 DEF WorkInv, Creates, Drawn
      <3>4. CASE i = call[c].id /\ Kind(c) = "decide"
        <4>1. call[c].work = Decided(rows[i], c) /\ Written(rows[i], now, agreement)
          BY <1>1, <3>0, <3>1, <3>4 DEF WorkInv, Decides, RowsInv, RowsAreWritten
        <4>2. Decided(rows[i], c).used = rows[i].used
          BY <4>1 DEF Decided, Written, IsRow
        <4> QED
          BY <3>1, <3>4, <4>1, <4>2
      <3>5. CASE i = call[c].id /\ Kind(c) = "execute"
        <4>1. WritesNow(c)
          BY <3>1 DEF WritesNow
        <4>2. /\ rows[i].type = cmd[c].type
              /\ call[c].work.content = rows[i].content /\ call[c].work.deal = rows[i].deal
              /\ rows[i].deal # NoDeal =>
                   rows[i].deal \in DOMAIN agreement /\ agreement[rows[i].deal].about = rows[i].content.about
          BY <1>1, <3>5, <4>1, WorkOfRow
        <4>3. /\ call[c].debt = rows[i].content.about
              /\ cmd[c].type = "community" => Owing(call[c].debt)
              /\ rows[i].deal # NoDeal => agreement[rows[i].deal].status = "ACTIVE"
          BY <3>0, <3>1, <3>5, <4>2 DEF Holds
        <4> QED
          BY <4>2, <4>3 DEF ActiveDeals
      <3> QED
        BY <3>0, <3>1, <3>2, <3>3, <3>4, <3>5 DEF At
    <2>3. ASSUME NEW c \in Call, Mint(c) PROVE Used(i)
      <3>1. PICK j \in NewIds : \A k \in DOMAIN rows : k # j => rows'[k] = rows[k]
        BY <2>0, <2>3, MintDoes
      <3>2. i # j
        BY DEF NewIds
      <3> QED
        BY <2>1, <3>1, <3>2
    <2>4. ASSUME NEW c \in Call, AnswerUse(c) PROVE Used(i)
      <3>1. CASE UNCHANGED rows
        BY <2>1, <3>1
      <3>2. CASE StillUnused(call[c].id) /\
                 rows' = [rows EXCEPT ![call[c].id] = [rows[call[c].id] EXCEPT !.used = now, !.status = "approved"]]
        <4>1. rows[call[c].id].type = "link"
          <5>1. At(c) /\ WorkInv(c) /\ call[c].pc = "use"
            BY <1>1, <2>0, <2>4, AnswerUseDoes DEF CallsInv, RowsInv
          <5> QED
            BY <3>2, <5>1 DEF At, WorkInv, Answers, StillUnused
        <4>2. CASE i = call[c].id
          BY <4>1, <4>2
        <4>3. CASE i # call[c].id
          BY <2>1, <3>2, <4>3
        <4> QED
          BY <4>2, <4>3
      <3> QED
        BY <2>0, <2>4, <3>1, <3>2, AnswerUseDoes
    <2>5. CASE Cleanup
      BY <2>1, <2>5 DEF Cleanup
    <2>6. CASE UNCHANGED rows
      BY <2>1, <2>6
    <2>7. ASSUME NEW c \in Call, Step(c) PROVE Commit(c) \/ Mint(c) \/ AnswerUse(c) \/ UNCHANGED rows
      BY <2>0, <2>7, SelectDoes, CreateFindDoes, CreateLockDoes, CreateCaptureDoes, CreateFindAgainDoes,
         CreateInsertDoes, DecideReadDoes, DecideUpdateDoes, DecideRereadDoes, ExecuteLockDoes,
         ExecuteAgreementDoes, ExecuteDebtDoes, RollbackDoes, AnswerCandidateDoes, AnswerGetDoes
         DEF Step, tables
    <2>8. CASE WalkStart \/ WalkPage \/ Tick \/ UNCHANGED vars
      BY <2>6, <2>8 DEF WalkStart, WalkPage, Tick, vars
    <2> QED
      BY <1>1, <2>2, <2>3, <2>4, <2>5, <2>6, <2>7, <2>8 DEF Next
  <1>2. CallsInv /\ AgreementsInv /\ RowsInv /\ LocksInv /\ [Next]_vars =>
          [\A i \in DOMAIN rows \cap DOMAIN rows' :
             LET row == rows[i] IN
             row.type = "community" /\ row.used = NotYet /\ rows'[i].used # NotYet =>
               /\ Owing(row.content.about)
               /\ row.deal \in {NoDeal} \cup ActiveDeals(row.content.about)]_vars
    BY <1>1
  <1> QED
    BY <1>2, CallsInvHolds, AgreementsInvHolds, RowsInvHolds, LocksInvHolds, PTL
       DEF Spec, WorkUnderActiveAgreement

--------------------------------------------------------------------------------
\* The walk: pages are cut from an order of the rows

\* The rows of S have a place in the order of (created_at, id).
Placed(S) == IsFiniteSet(S) /\ \A i \in S : i \in Nat /\ rows[i].created \in Nat
Older(i, j) == Before(Place(i), Place(j))
Newer(S, i) == {j \in S : Older(i, j)}

LEMMA PlacesAreOrdered ==
  ASSUME NEW S, Placed(S)
  PROVE  /\ \A i \in S : ~Older(i, i)
         /\ \A i, j \in S : /\ i # j => Older(i, j) \/ Older(j, i)
                            /\ ~(Older(i, j) /\ Older(j, i))
         /\ \A i, j, k \in S : Older(i, j) /\ Older(j, k) => Older(i, k)
  <1>1. \A i, j : Older(i, j) <=>
          \/ rows[i].created < rows[j].created
          \/ rows[i].created = rows[j].created /\ i < j
    BY DEF Older, Before, Place
  <1>2. \A i \in S : ~Older(i, i)
    BY <1>1 DEF Placed
  <1>3. \A i, j \in S : /\ i # j => Older(i, j) \/ Older(j, i)
                        /\ ~(Older(i, j) /\ Older(j, i))
    BY <1>1 DEF Placed
  <1>4. ASSUME NEW i \in S, NEW j \in S, NEW k \in S, Older(i, j), Older(j, k)
        PROVE  Older(i, k)
    BY <1>1, <1>4 DEF Placed
  <1> QED
    BY <1>2, <1>3, <1>4

\* Among subsets of a finite set there is one that contains no other.
LEMMA SmallestSubset ==
  ASSUME NEW S, IsFiniteSet(S), NEW Family \in SUBSET SUBSET S, Family # {}
  PROVE  \E T \in Family : \A U \in Family : U \subseteq T => U = T
  <1>1. IsWellFoundedOn(StrictSubsetOrdering(S), FiniteSubsetsOf(S)) /\ FiniteSubsetsOf(S) = SUBSET S
    BY FS_StrictSubsetOrderingWellFounded, FS_FiniteSubsetsOfFinite
  <1>2. PICK T \in Family : \A U \in Family : ~ (<<U, T>> \in StrictSubsetOrdering(S))
    BY <1>1, WFMin
  <1> QED
    BY <1>2 DEF StrictSubsetOrdering

\* Some rows have a newest and an oldest one.
LEMMA NewestOf ==
  ASSUME NEW S, Placed(S), S # {}
  PROVE  \E i \in S : \A j \in S \ {i} : Older(j, i)
  <1> DEFINE Family == {Newer(S, i) : i \in S}
  <1>1. Family \in SUBSET SUBSET S /\ Family # {} /\ IsFiniteSet(S)
    BY DEF Newer, Placed
  <1>2. PICK T \in Family : \A U \in Family : U \subseteq T => U = T
    <2> HIDE DEF Family
    <2> QED
      BY <1>1, SmallestSubset
  <1>3. PICK i \in S : T = Newer(S, i)
    BY <1>2
  <1>4. ASSUME NEW j \in S, Older(i, j) PROVE FALSE
    <2>1. Newer(S, j) \subseteq Newer(S, i)
      BY <1>4, PlacesAreOrdered DEF Newer
    <2>2. Newer(S, j) = Newer(S, i)
      BY <1>2, <1>3, <2>1
    <2>3. j \in Newer(S, i) /\ j \notin Newer(S, j)
      BY <1>4, PlacesAreOrdered DEF Newer
    <2> QED
      BY <2>2, <2>3
  <1> QED
    BY <1>4, PlacesAreOrdered

LEMMA OldestOf ==
  ASSUME NEW S, Placed(S), S # {}
  PROVE  Oldest(S) \in S /\ \A j \in S \ {Oldest(S)} : Older(Oldest(S), j)
  <1> DEFINE Olders(i) == {j \in S : Older(j, i)}
             Family == {Olders(i) : i \in S}
  <1>1. Family \in SUBSET SUBSET S /\ Family # {} /\ IsFiniteSet(S)
    BY DEF Placed
  <1>2. PICK T \in Family : \A U \in Family : U \subseteq T => U = T
    <2> HIDE DEF Family
    <2> QED
      BY <1>1, SmallestSubset
  <1>3. PICK i \in S : T = Olders(i)
    BY <1>2
  <1>4. ASSUME NEW j \in S, Older(j, i) PROVE FALSE
    <2>1. Olders(j) \subseteq Olders(i)
      BY <1>4, PlacesAreOrdered
    <2>2. Olders(j) = Olders(i)
      BY <1>2, <1>3, <2>1
    <2>3. j \in Olders(i) /\ j \notin Olders(j)
      BY <1>4, PlacesAreOrdered
    <2> QED
      BY <2>2, <2>3
  <1>5. \A j \in S \ {i} : Older(i, j)
    BY <1>4, PlacesAreOrdered
  <1> QED
    BY <1>5 DEF Oldest, Older

\* A page has every row that is newer than one of its own, it is not empty when
\* rows are left, and the row read in addition to it tells whether some are.
LEMMA PageIsNewest ==
  ASSUME NEW S, Placed(S), NEW n \in Nat, NEW i \in Newest(S, n), NEW j \in S, Older(i, j)
  PROVE  j \in Newest(S, n)
  <1>1. i \in S /\ Cardinality(Newer(S, i)) < n
    BY DEF Newest, Newer, Older
  <1>2. Newer(S, j) \subseteq Newer(S, i) /\ IsFiniteSet(Newer(S, i)) /\ IsFiniteSet(Newer(S, j))
    BY <1>1, PlacesAreOrdered, FS_Subset DEF Newer, Placed
  <1>3. /\ Cardinality(Newer(S, j)) <= Cardinality(Newer(S, i))
        /\ Cardinality(Newer(S, j)) \in Nat /\ Cardinality(Newer(S, i)) \in Nat
    BY <1>2, FS_Subset, FS_CardinalityType
  <1>4. Cardinality(Newer(S, j)) < n
    BY <1>1, <1>3
  <1> QED
    BY <1>4 DEF Newest, Newer, Older

LEMMA PageIsNotEmpty ==
  ASSUME NEW S, Placed(S), NEW n \in Nat \ {0}, S # {}
  PROVE  Newest(S, n) # {}
  <1>1. PICK i \in S : \A j \in S \ {i} : Older(j, i)
    BY NewestOf
  <1>2. Newer(S, i) = {}
    BY <1>1, PlacesAreOrdered DEF Newer
  <1>3. Cardinality(Newer(S, i)) < n
    BY <1>2, FS_EmptySet
  <1> QED
    BY <1>3 DEF Newest, Newer, Older

LEMMA NextPageIsSeen ==
  ASSUME NEW S, Placed(S), NEW n \in Nat, Cardinality(Newest(S, n + 1)) <= n
  PROVE  Newest(S, n) = S
  <1> SUFFICES ASSUME S \ Newest(S, n) # {} PROVE FALSE
    BY DEF Newest
  <1>0. PICK R : R = S \ Newest(S, n)
    OBVIOUS
  <1>1. Placed(R) /\ R # {} /\ R \subseteq S
    BY <1>0, FS_Subset DEF Placed
  <1>2. PICK i \in R : \A j \in R \ {i} : Older(j, i)
    BY <1>1, NewestOf
  <1>3. IsFiniteSet(Newest(S, n + 1)) /\ IsFiniteSet(Newer(S, i))
    BY FS_Subset DEF Newest, Newer, Placed
  <1>4. Newest(S, n) \subseteq Newest(S, n + 1)
    <2> SUFFICES ASSUME NEW j \in Newest(S, n) PROVE j \in Newest(S, n + 1)
      OBVIOUS
    <2>1. j \in S /\ Cardinality(Newer(S, j)) < n /\ IsFiniteSet(Newer(S, j))
      BY FS_Subset DEF Newest, Newer, Older, Placed
    <2>2. Cardinality(Newer(S, j)) < n + 1
      BY <2>1, FS_CardinalityType
    <2> QED
      BY <2>1, <2>2 DEF Newest, Newer, Older
  <1>5. Newer(S, i) \subseteq Newest(S, n)
    <2> SUFFICES ASSUME NEW j \in Newer(S, i), j \in R PROVE FALSE
      BY <1>0 DEF Newer
    <2> QED
      BY <1>1, <1>2, PlacesAreOrdered DEF Newer
  <1>6. /\ Cardinality(Newer(S, i)) \in Nat /\ ~(Cardinality(Newer(S, i)) < n)
        /\ Cardinality(Newest(S, n + 1)) \in Nat
    BY <1>0, <1>1, <1>3, FS_CardinalityType DEF Newest, Newer, Older
  <1>7. Cardinality(Newer(S, i)) <= Cardinality(Newest(S, n + 1))
    BY <1>3, <1>4, <1>5, FS_Subset
  <1>8. CASE Cardinality(Newer(S, i)) = n
    <2>1. i \in Newest(S, n + 1)
      <3>1. n < n + 1
        OBVIOUS
      <3> QED
        BY <1>1, <1>8, <3>1 DEF Newest, Newer, Older
    <2>2. i \notin Newer(S, i)
      BY <1>1, PlacesAreOrdered DEF Newer
    <2>3. Cardinality(Newer(S, i) \cup {i}) = n + 1 /\ IsFiniteSet(Newer(S, i) \cup {i})
      BY <1>3, <1>8, <2>2, FS_AddElement
    <2>4. Cardinality(Newer(S, i) \cup {i}) <= Cardinality(Newest(S, n + 1))
      BY <1>3, <1>4, <1>5, <2>1, FS_Subset
    <2> QED
      BY <1>6, <2>3, <2>4
  <1> QED
    BY <1>6, <1>7, <1>8

--------------------------------------------------------------------------------
\* The walk: what it has seen

\* What was seen is not after the cursor, and what was due and still waits is
\* after it or was seen.
Seen(i) == \E m \in DOMAIN walk.seen : i \in walk.seen[m]
WalkForm ==
  walk = [type |-> walk.type, pc |-> walk.pc, cursor |-> walk.cursor, seen |-> walk.seen, due |-> walk.due]
Pages ==
  /\ \A i : Seen(i) => /\ Drawn(i)
                       /\ walk.pc = "reading" /\ i \in DOMAIN rows => ~AfterCursor(i, walk.cursor)
  /\ \A m, n \in DOMAIN walk.seen : m # n => walk.seen[m] \cap walk.seen[n] = {}
Due ==
  /\ \A i \in walk.due : Drawn(i)
  /\ walk.pc # "idle" =>
       \A i \in walk.due \cap Actionable(walk.type) :
         Seen(i) \/ (walk.pc = "reading" /\ AfterCursor(i, walk.cursor))
WalkInv ==
  /\ WalkForm /\ walk.seen \in Seq(SUBSET Nat) /\ walk.pc \in {"idle", "reading", "done"}
  /\ walk.pc # "idle" => walk.type \in Requests
  /\ walk.pc = "idle" => walk.seen = <<>> /\ walk.cursor = <<>> /\ walk.due = {}
  /\ walk.cursor = <<>> \/ walk.cursor \in Nat \X Nat
  /\ Pages /\ Due

LEMMA RowsOnlyGo ==
  ASSUME CallsInv, AgreementsInv, RowsInv, [Next]_vars
  PROVE  RowsGo /\ now \in Nat /\ now' \in Nat /\ now <= now'
  <1>0. DealsGrow /\ Calls /\ now \in Nat
    BY DealsOnlyGrow DEF CallsInv, RowsInv, RowsAreWritten
  <1>1. ASSUME UNCHANGED <<rows, gone>> PROVE RowsGo
    BY <1>1 DEF RowsGo, Follows, RowsInv, RowsAreWritten
  <1>2. ASSUME NEW c \in Call, Step(c) PROVE RowsGo /\ now' = now
    <2>1. CASE Commit(c) \/ Mint(c) \/ AnswerUse(c)
      BY <1>0, <2>1, CommitFits, MintFits, AnswerUseFits, CommitDoes, MintDoes, AnswerUseDoes
    <2>2. CASE UNCHANGED tables
      BY <1>1, <2>2 DEF tables
    <2> QED
      BY <1>0, <1>2, <2>1, <2>2, SelectDoes, CreateFindDoes, CreateLockDoes, CreateCaptureDoes,
         CreateFindAgainDoes, CreateInsertDoes, DecideReadDoes, DecideUpdateDoes, DecideRereadDoes,
         ExecuteLockDoes, ExecuteAgreementDoes, ExecuteDebtDoes, RollbackDoes, AnswerCandidateDoes,
         AnswerGetDoes DEF Step
  <1>3. CASE Cleanup
    BY <1>0, <1>3, CleanupFits DEF Cleanup
  <1>4. CASE Tick
    BY <1>0, <1>4, TickFits DEF Tick
  <1>5. CASE WalkStart \/ WalkPage \/ UNCHANGED vars
    BY <1>0, <1>1, <1>5 DEF WalkStart, WalkPage, vars
  <1>6. ASSUME NEW c \in Call, UNCHANGED <<now, rows, gone, walk>> PROVE RowsGo /\ now' = now
    BY <1>1, <1>6
  <1> QED
    BY <1>0, <1>2, <1>3, <1>4, <1>5, <1>6 DEF Next

\* A request that waits after a step and was drawn before it, waited before it
\* and is where it was in the order.
LEMMA WaitingStays ==
  ASSUME RowsInv, RowsGo, now \in Nat, now' \in Nat, now <= now', NEW type \in Requests, NEW i, Drawn(i)
  PROVE  /\ Drawn(i)'
         /\ i \in DOMAIN rows' => i \in DOMAIN rows /\ rows'[i].created = rows[i].created
         /\ i \in DOMAIN rows' /\ rows'[i].type = type /\ rows'[i].status = "pending"
              /\ rows'[i].used = NotYet /\ ~(rows'[i].expires <= now') => i \in Actionable(type)
  <1>1. Drawn(i)' /\ (i \in DOMAIN rows' => i \in DOMAIN rows)
    BY DEF RowsGo, Drawn
  <1>2. i \in DOMAIN rows' => Follows(rows[i], rows'[i]) /\ rows[i].expires \in Nat
    BY <1>1 DEF RowsGo, RowsInv, RowsAreWritten, Written
  <1> QED
    BY <1>1, <1>2 DEF Follows, Actionable, RowsOf, Expired

LEMMA WalkGoesOn ==
  ASSUME RowsInv, RowsGo, now \in Nat, now' \in Nat, now <= now', WalkInv, UNCHANGED walk
  PROVE  WalkInv'
  <1>1. \A i : Seen(i)' <=> Seen(i)
    BY DEF Seen
  <1>2. ASSUME NEW i, Drawn(i)
        PROVE  /\ Drawn(i)'
               /\ i \in DOMAIN rows' =>
                    i \in DOMAIN rows /\ (AfterCursor(i, walk.cursor)' <=> AfterCursor(i, walk.cursor))
    <2>1. /\ Drawn(i)'
          /\ i \in DOMAIN rows' => i \in DOMAIN rows /\ rows'[i].created = rows[i].created
      <3>1. "community" \in Requests
        BY DEF Requests
      <3> QED
        BY <1>2, <3>1, WaitingStays
    <2> QED
      BY <2>1 DEF AfterCursor, Before, Place
  <1>3. Pages'
    BY <1>1, <1>2 DEF WalkInv, Pages, Seen
  <1>4. Due'
    <2>1. \A i \in walk.due : Drawn(i)'
      BY <1>2 DEF WalkInv, Due
    <2>2. ASSUME walk.pc # "idle", NEW i \in walk.due, i \in Actionable(walk.type)'
          PROVE  Seen(i)' \/ (walk.pc = "reading" /\ AfterCursor(i, walk.cursor)')
      <3>1. Drawn(i) /\ walk.type \in Requests
        BY <2>2 DEF WalkInv, Due
      <3>2. /\ i \in DOMAIN rows' /\ rows'[i].type = walk.type /\ rows'[i].status = "pending"
            /\ rows'[i].used = NotYet /\ ~(rows'[i].expires <= now')
        BY <2>2 DEF Actionable, RowsOf, Expired
      <3>3. i \in Actionable(walk.type)
        BY <3>1, <3>2, WaitingStays
      <3> QED
        BY <1>1, <1>2, <2>2, <3>1, <3>2, <3>3 DEF WalkInv, Due
    <2> QED
      BY <2>1, <2>2 DEF Due
  <1> QED
    BY <1>3, <1>4 DEF WalkInv, WalkForm

LEMMA WalkStarts ==
  ASSUME RowsInv, WalkInv, WalkStart
  PROVE  WalkInv'
  <1>1. /\ walk.pc = "idle" /\ walk.type \in Requests /\ UNCHANGED <<now, rows, gone>>
        /\ walk.seen = <<>> /\ walk.cursor = <<>>
    BY DEF WalkStart, WalkInv
  <1>2. /\ walk'.type = walk.type /\ walk'.pc = "reading" /\ walk'.seen = <<>> /\ walk'.cursor = <<>>
        /\ walk'.due = Actionable(walk.type) /\ WalkForm'
    <2>1. PICK a, b, d, e, f : walk = [type |-> a, pc |-> b, cursor |-> d, seen |-> e, due |-> f]
      BY DEF WalkInv, WalkForm
    <2>2. PICK due : due = Actionable(walk.type)
      OBVIOUS
    <2>3. walk' = [walk EXCEPT !.pc = "reading", !.due = due]
      BY <2>2 DEF WalkStart
    <2>4. walk' = [type |-> a, pc |-> "reading", cursor |-> d, seen |-> e, due |-> due]
      BY <2>1, <2>3
    <2> QED
      BY <1>1, <2>1, <2>2, <2>4 DEF WalkForm
  <1>3. Pages'
    BY <1>2 DEF Pages, Seen
  <1>4. Due'
    <2>1. \A i \in Actionable(walk.type) : i \in DOMAIN rows
      BY DEF Actionable, RowsOf
    <2> QED
      BY <1>1, <1>2, <2>1 DEF Due, Drawn, AfterCursor
  <1> QED
    BY <1>1, <1>2, <1>3, <1>4 DEF WalkInv

LEMMA WalkPageDoes ==
  ASSUME WalkInv, WalkPage, NEW S, S = {i \in Actionable(walk.type) : AfterCursor(i, walk.cursor)},
         NEW page, page = Newest(S, PageSize)
  PROVE  /\ walk.pc = "reading" /\ UNCHANGED <<now, rows, gone>> /\ WalkForm'
         /\ walk'.type = walk.type /\ walk'.due = walk.due /\ walk'.seen = Append(walk.seen, page)
         /\ \/ /\ Cardinality(Newest(S, PageSize + 1)) > PageSize
               /\ walk'.pc = "reading" /\ walk'.cursor = Place(Oldest(page))
            \/ /\ ~(Cardinality(Newest(S, PageSize + 1)) > PageSize)
               /\ walk'.pc = "done" /\ walk'.cursor = walk.cursor
  <1>1. PICK a, b, d, e, f : walk = [type |-> a, pc |-> b, cursor |-> d, seen |-> e, due |-> f]
    BY DEF WalkInv, WalkForm
  <1>2. walk.pc = "reading" /\ UNCHANGED <<now, rows, gone>>
    BY DEF WalkPage
  <1>3. PICK seen : seen = Append(walk.seen, page)
    OBVIOUS
  <1>4. CASE Cardinality(Newest(S, PageSize + 1)) > PageSize
    <2>1. PICK cursor : cursor = Place(Oldest(page))
      OBVIOUS
    <2>2. walk' = [walk EXCEPT !.seen = seen, !.pc = walk.pc, !.cursor = cursor]
      BY <1>3, <1>4, <2>1 DEF WalkPage
    <2>3. walk' = [type |-> a, pc |-> b, cursor |-> cursor, seen |-> seen, due |-> f]
      BY <1>1, <2>2
    <2> QED
      BY <1>1, <1>2, <1>3, <1>4, <2>1, <2>3 DEF WalkForm
  <1>5. CASE ~(Cardinality(Newest(S, PageSize + 1)) > PageSize)
    <2>2. walk' = [walk EXCEPT !.seen = seen, !.pc = "done", !.cursor = walk.cursor]
      BY <1>3, <1>5 DEF WalkPage
    <2>3. walk' = [type |-> a, pc |-> "done", cursor |-> d, seen |-> seen, due |-> f]
      BY <1>1, <2>2
    <2> QED
      BY <1>1, <1>2, <1>3, <1>5, <2>3 DEF WalkForm
  <1> QED
    BY <1>4, <1>5

LEMMA AfterPlace ==
  ASSUME NEW i, NEW o
  PROVE  AfterCursor(i, Place(o)) <=> Older(i, o)
  <1>1. Place(o) # <<>>
    BY DEF Place
  <1> QED
    BY <1>1 DEF AfterCursor, Older

\* Whatever is after a place that is itself after a cursor is after the cursor.
LEMMA CursorMoves ==
  ASSUME NEW i \in Nat, NEW o \in Nat, rows[i].created \in Nat, rows[o].created \in Nat,
         NEW cursor, cursor = <<>> \/ cursor \in Nat \X Nat, AfterCursor(o, cursor), Older(i, o)
  PROVE  AfterCursor(i, cursor)
  <1>1. CASE cursor = <<>>
    BY <1>1 DEF AfterCursor
  <1>2. CASE cursor \in Nat \X Nat
    <2>1. PICK t \in Nat, n \in Nat : cursor = <<t, n>>
      BY <1>2
    <2>2. cursor # <<>> /\ cursor[1] = t /\ cursor[2] = n
      BY <2>1
    <2>3. \/ rows[o].created < t
          \/ rows[o].created = t /\ o < n
      BY <2>2 DEF AfterCursor, Before, Place
    <2>4. \/ rows[i].created < rows[o].created
          \/ rows[i].created = rows[o].created /\ i < o
      BY DEF Older, Before, Place
    <2>5. \/ rows[i].created < t
          \/ rows[i].created = t /\ i < n
      BY <2>1, <2>3, <2>4
    <2> QED
      BY <2>2, <2>5 DEF AfterCursor, Before, Place
  <1> QED
    BY <1>1, <1>2

LEMMA WalkReads ==
  ASSUME RowsInv, WalkInv, WalkPage
  PROVE  WalkInv'
  <1>1. PICK S : S = {i \in Actionable(walk.type) : AfterCursor(i, walk.cursor)}
    OBVIOUS
  <1>2. PICK page : page = Newest(S, PageSize)
    OBVIOUS
  <1> DEFINE more == Cardinality(Newest(S, PageSize + 1)) > PageSize
  <1>3. /\ walk.pc = "reading" /\ UNCHANGED <<now, rows, gone>> /\ WalkForm'
        /\ walk'.type = walk.type /\ walk'.due = walk.due /\ walk'.seen = Append(walk.seen, page)
        /\ \/ more /\ walk'.pc = "reading" /\ walk'.cursor = Place(Oldest(page))
           \/ ~more /\ walk'.pc = "done" /\ walk'.cursor = walk.cursor
    BY <1>1, <1>2, WalkPageDoes
  <1>4. \A i \in DOMAIN rows : i \in Nat /\ rows[i].created \in Nat
    <2>1. DOMAIN rows \subseteq Id /\ now \in Nat /\ \A i \in DOMAIN rows : Written(rows[i], now, agreement)
      BY DEF RowsInv, RowsAreWritten
    <2>2. \A i \in DOMAIN rows : rows[i].created \in 0..now
      BY <2>1 DEF Written
    <2>3. \A t \in 0..now : t \in Nat
      BY <2>1
    <2>4. Id \subseteq Nat
      BY BoundsAssumption
    <2> QED
      BY <2>1, <2>2, <2>3, <2>4
  <1>5. S \subseteq DOMAIN rows /\ Placed(S) /\ page \subseteq S /\ Placed(page) /\ PageSize \in Nat \ {0}
    <2>1. S \subseteq DOMAIN rows /\ page \subseteq S
      BY <1>1, <1>2 DEF Actionable, RowsOf, Newest
    <2>2. IsFiniteSet(S) /\ IsFiniteSet(page)
      BY <2>1, FS_Subset DEF RowsInv, RowsAreWritten
    <2> QED
      BY <1>4, <2>1, <2>2, BoundsAssumption DEF Placed
  <1>6. /\ walk'.seen \in Seq(SUBSET Nat) /\ DOMAIN walk'.seen = 1..Len(walk.seen) + 1
        /\ walk'.seen[Len(walk.seen) + 1] = page /\ Len(walk.seen) \in Nat
        /\ DOMAIN walk.seen = 1..Len(walk.seen)
        /\ \A m \in DOMAIN walk.seen : walk'.seen[m] = walk.seen[m]
    <2>1. page \in SUBSET Nat /\ walk.seen \in Seq(SUBSET Nat)
      BY <1>4, <1>5 DEF WalkInv
    <2> QED
      BY <1>3, <2>1
  <1>7. \A i : Seen(i)' <=> Seen(i) \/ i \in page
    <2>1. ASSUME NEW i, Seen(i) PROVE Seen(i)'
      BY <1>6, <2>1 DEF Seen
    <2>2. ASSUME NEW i \in page PROVE Seen(i)'
      <3>1. Len(walk.seen) + 1 \in DOMAIN walk'.seen
        BY <1>6
      <3> QED
        BY <1>6, <3>1 DEF Seen
    <2>3. ASSUME NEW i, Seen(i)' PROVE Seen(i) \/ i \in page
      <3>1. PICK m \in DOMAIN walk'.seen : i \in walk'.seen[m]
        BY <2>3 DEF Seen
      <3>2. m \in DOMAIN walk.seen \/ m = Len(walk.seen) + 1
        BY <1>6
      <3> QED
        BY <1>6, <3>1, <3>2 DEF Seen
    <2> QED
      BY <2>1, <2>2, <2>3
  <1>8. \A i \in page : ~Seen(i)
    BY <1>1, <1>3, <1>5 DEF WalkInv, Pages
  <1>9. \A m, n \in DOMAIN walk'.seen : m # n => walk'.seen[m] \cap walk'.seen[n] = {}
    <2> SUFFICES ASSUME NEW m \in DOMAIN walk'.seen, NEW n \in DOMAIN walk'.seen, m # n
                 PROVE  walk'.seen[m] \cap walk'.seen[n] = {}
      OBVIOUS
    <2>1. /\ m \in DOMAIN walk.seen \/ m = Len(walk.seen) + 1
          /\ n \in DOMAIN walk.seen \/ n = Len(walk.seen) + 1
      BY <1>6
    <2>2. CASE m \in DOMAIN walk.seen /\ n \in DOMAIN walk.seen
      BY <1>6, <2>2 DEF WalkInv, Pages
    <2>3. \A k \in DOMAIN walk.seen : walk.seen[k] \cap page = {}
      BY <1>8 DEF Seen
    <2> QED
      BY <1>6, <2>1, <2>2, <2>3
  <1>10. \A i : Seen(i)' => Drawn(i)'
    BY <1>3, <1>5, <1>7 DEF WalkInv, Pages, Drawn
  <1>11. CASE more
    <2>0. PICK o : o = Oldest(page)
      OBVIOUS
    <2>1. S # {}
      <3> SUFFICES ASSUME S = {} PROVE FALSE
        OBVIOUS
      <3>1. Newest(S, PageSize + 1) = {}
        BY DEF Newest
      <3> QED
        BY <1>5, <1>11, <3>1, FS_EmptySet
    <2>2. page # {}
      BY <1>2, <1>5, <2>1, PageIsNotEmpty
    <2>3. o \in page /\ \A j \in page \ {o} : Older(o, j)
      BY <1>5, <2>0, <2>2, OldestOf
    <2>4. /\ walk'.pc = "reading" /\ walk'.cursor = Place(o)
          /\ \A i : AfterCursor(i, walk.cursor)' <=> Older(i, o)
      <3>1. walk'.pc = "reading" /\ walk'.cursor = Place(o)
        BY <1>3, <1>11, <2>0
      <3>2. \A i : AfterCursor(i, walk.cursor)' <=> AfterCursor(i, Place(o))
        BY <1>3, <3>1 DEF AfterCursor, Place, Before
      <3> QED
        BY <3>1, <3>2, AfterPlace
    <2>5. walk'.cursor \in Nat \X Nat
      BY <1>4, <1>5, <2>3, <2>4 DEF Place
    <2>6. Pages'
      <3>1. ASSUME NEW i \in page PROVE ~Older(i, o)
        BY <1>5, <2>3, PlacesAreOrdered
      <3>2. ASSUME NEW i \in DOMAIN rows, Seen(i), Older(i, o) PROVE FALSE
        <4>1. AfterCursor(o, walk.cursor) /\ o \in DOMAIN rows
          BY <1>1, <1>5, <2>3
        <4>2. AfterCursor(i, walk.cursor)
          BY <1>4, <3>2, <4>1, CursorMoves DEF WalkInv
        <4> QED
          BY <1>3, <3>2, <4>2 DEF WalkInv, Pages
      <3>3. \A i : Seen(i)' /\ i \in DOMAIN rows' => ~AfterCursor(i, walk.cursor)'
        BY <1>3, <1>7, <2>4, <3>1, <3>2
      <3> QED
        BY <1>9, <1>10, <3>3 DEF Pages
    <2>7. Due'
      <3>1. \A i \in walk'.due : Drawn(i)'
        BY <1>3 DEF WalkInv, Due, Drawn
      <3>2. ASSUME NEW i \in walk.due \cap Actionable(walk.type), ~Seen(i), i \notin page
            PROVE  Older(i, o)
        <4>1. i \in S
          BY <1>1, <1>3, <3>2 DEF WalkInv, Due
        <4>2. ~Older(o, i)
          BY <1>2, <1>5, <2>3, <3>2, <4>1, PageIsNewest
        <4>3. i # o
          BY <2>3, <3>2
        <4> QED
          BY <1>5, <2>3, <4>1, <4>2, <4>3, PlacesAreOrdered
      <3>3. Actionable(walk.type)' = Actionable(walk.type)
        BY <1>3 DEF Actionable, RowsOf, Expired
      <3>4. \A i \in walk'.due \cap Actionable(walk.type)' :
              Seen(i)' \/ (walk'.pc = "reading" /\ AfterCursor(i, walk.cursor)')
        BY <1>3, <1>7, <2>4, <3>2, <3>3
      <3> QED
        BY <3>1, <3>4 DEF Due
    <2> QED
      BY <1>3, <1>6, <2>4, <2>5, <2>6, <2>7 DEF WalkInv
  <1>12. CASE ~more
    <2>1. page = S
      <3>1. Cardinality(Newest(S, PageSize + 1)) <= PageSize
        <4>1. IsFiniteSet(Newest(S, PageSize + 1))
          BY <1>5, FS_Subset DEF Newest, Placed
        <4>2. Cardinality(Newest(S, PageSize + 1)) \in Nat
          BY <4>1, FS_CardinalityType
        <4> QED
          BY <1>5, <1>12, <4>2
      <3> QED
        BY <1>2, <1>5, <3>1, NextPageIsSeen
    <2>2. walk'.pc = "done" /\ walk'.cursor = walk.cursor
      BY <1>3, <1>12
    <2>3. Pages'
      BY <1>9, <1>10, <2>2 DEF Pages
    <2>4. Due'
      <3>1. \A i \in walk'.due : Drawn(i)'
        BY <1>3 DEF WalkInv, Due, Drawn
      <3>2. Actionable(walk.type)' = Actionable(walk.type)
        BY <1>3 DEF Actionable, RowsOf, Expired
      <3>3. \A i \in walk.due \cap Actionable(walk.type) : Seen(i) \/ i \in page
        BY <1>1, <1>3, <2>1 DEF WalkInv, Due
      <3> QED
        BY <1>3, <1>7, <3>1, <3>2, <3>3 DEF Due
    <2> QED
      BY <1>3, <1>6, <2>2, <2>3, <2>4 DEF WalkInv
  <1> QED
    BY <1>11, <1>12

LEMMA WalkInvHolds == Spec => []WalkInv
  <1>1. Init => WalkInv
    <2> SUFFICES ASSUME Init PROVE WalkInv
      OBVIOUS
    <2>1. PICK type : walk = [NoWalk EXCEPT !.type = type]
      BY DEF Init
    <2>2. walk = [type |-> type, pc |-> "idle", cursor |-> <<>>, seen |-> <<>>, due |-> {}]
      BY <2>1 DEF NoWalk
    <2>3. WalkForm /\ walk.pc = "idle" /\ walk.cursor = <<>> /\ walk.seen = <<>> /\ walk.due = {}
      BY <2>2 DEF WalkForm
    <2> QED
      BY <2>3 DEF WalkInv, Pages, Due, Seen
  <1>2. CallsInv /\ AgreementsInv /\ RowsInv /\ WalkInv /\ [Next]_vars => WalkInv'
    <2> SUFFICES ASSUME CallsInv, AgreementsInv, RowsInv, WalkInv, [Next]_vars PROVE WalkInv'
      OBVIOUS
    <2>1. RowsGo /\ now \in Nat /\ now' \in Nat /\ now <= now'
      BY RowsOnlyGo
    <2>2. WalkStart \/ WalkPage \/ UNCHANGED walk
      <3>1. ASSUME NEW c \in Call, Step(c) PROVE UNCHANGED walk
        <4>1. Calls
          BY DEF CallsInv
        <4> QED
          BY <3>1, <4>1, SelectDoes, CreateFindDoes, CreateLockDoes, CreateCaptureDoes, CreateFindAgainDoes,
             CreateInsertDoes, DecideReadDoes, DecideUpdateDoes, DecideRereadDoes, ExecuteLockDoes,
             ExecuteAgreementDoes, ExecuteDebtDoes, RollbackDoes, AnswerCandidateDoes, AnswerGetDoes,
             CommitDoes, MintDoes, AnswerUseDoes DEF Step, tables
      <3> QED
        BY <3>1 DEF Next, Cleanup, Tick, vars
    <2> QED
      BY <2>1, <2>2, WalkGoesOn, WalkStarts, WalkReads
  <1> QED
    BY <1>1, <1>2, CallsInvHolds, AgreementsInvHolds, RowsInvHolds, PTL DEF Spec

\* For any page size, clock and rows: a walk to the end of the queue has seen
\* every request that waited when it began and still waits, and none twice
\* (listCondonationQueue, listCommunityWorkQueue).
THEOREM WalksAreComplete == Spec => []WalkSeesEachOnce
  <1>1. WalkInv => WalkSeesEachOnce
    BY DEF WalkInv, Pages, Due, Seen, WalkSeesEachOnce
  <1> QED
    BY <1>1, WalkInvHolds, PTL
================================================================================
