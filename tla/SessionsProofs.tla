----------------------------- MODULE SessionsProofs -----------------------------
(* What the sessions of an operator guarantee for any tabs, calls and pairs: a  *)
(* token is exchanged once, a deactivated operator gets nothing, the refreshes  *)
(* of apiFetch do not collide, and an account is locked for a reason.           *)
EXTENDS Sessions, FiniteSetTheorems, SequenceTheorems, TLAPS

Accounts == [active : BOOLEAN, attempts : 0..(Threshold - 1), locked : BOOLEAN,
             password : {"old", "new"}]
Pair == [row : {"live", "expired", "revoked", "deleted"}, fresh : BOOLEAN,
         spentBy : Call \cup {None}]
Flying == {"find", "operator", "rotate", "issued", "denied", "sync"}
Pcs == Flying \cup {"idle", "retry", "sent", "joined", "leaving", "wrong", "grant", "rewrite",
                    "revokeAll", "ok", "refused", "login"}
CallRow == [pc : Pcs, with : Nat, again : BOOLEAN, token : Nat, pair : Nat,
            seen : 0..(Threshold - 1), wrong : BOOLEAN]
CallRows == [Call -> CallRow]

TypeInv ==
  /\ op \in Accounts
  /\ pair \in Seq(Pair)
  /\ mem \in [Tab -> Nat] /\ store \in Nat
  /\ flight \in [Tab -> Call \cup {None}]
  /\ cmd \in [Call -> Cmds]
  /\ call \in CallRows
  /\ late \subseteq Call

\* A pair that is named has been issued.
Bounded ==
  /\ store <= Len(pair)
  /\ \A t \in Tab : mem[t] <= Len(pair)
  /\ \A c \in Call : call[c].token <= Len(pair) /\ call[c].pair <= Len(pair) /\ call[c].with <= Len(pair)

PairInv == \A k \in 1..Len(pair) : pair[k].spentBy # None => ~Unrevoked(pair[k].row)

\* The attempts that have failed, and what the account says of them.
Wrongs == {c \in Call : call[c].wrong}
AccountInv ==
  /\ op.active => late = {}
  /\ op.attempts <= Cardinality(Wrongs)
  /\ op.locked => Cardinality(Wrongs) >= Threshold

\* refreshInFlight of a tab is the refresh of its apiFetch that is on its way.
FlightInv ==
  /\ \A t \in Tab : flight[t] # None =>
       Kind(flight[t]) = "fetch" /\ TabOf(flight[t]) = t /\ call[flight[t]].pc \in Flying
  /\ \A c \in Call :
       /\ Kind(c) = "fetch" /\ call[c].pc \in Flying => flight[TabOf(c)] = c
       /\ call[c].pc = "joined" => flight[TabOf(c)] # None

\* What a call has: a request presents one token in its life and before it has a
\* pair; the token of one that has a pair was spent by it.
Unsent(c) == \/ call[c].pc \in {"idle", "joined", "wrong", "grant"}
             \/ call[c].pc = "sent" /\ ~call[c].again
CallInv(c) ==
  /\ call[c].pc \in {"sent", "retry", "find", "operator", "rotate", "denied"} => Kind(c) \in {"fetch", "blob"}
  /\ call[c].pc = "joined" => Kind(c) = "fetch"
  /\ call[c].pc \in {"issued", "sync"} => Kind(c) \in {"fetch", "blob", "login"}
  /\ call[c].pc \in {"wrong", "grant"} => Kind(c) = "login"
  /\ call[c].pc = "rewrite" => Kind(c) = "password"
  /\ call[c].pc = "revokeAll" => Kind(c) = "delete"
  /\ Unsent(c) => call[c].token = 0 /\ call[c].pair = 0
  /\ Kind(c) = "login" => call[c].token = 0
  /\ call[c].pc \in {"find", "operator", "rotate"} => call[c].token # 0 /\ call[c].pair = 0
  /\ call[c].token # 0 /\ call[c].pair # 0 => pair[call[c].token].spentBy = c
  /\ call[c].wrong => call[c].pc = "refused"
  /\ call[c].pc = "wrong" => call[c].seen <= Cardinality(Wrongs)
  /\ c \in late => call[c].pair = 0 /\ call[c].pc \notin {"rotate", "grant"}

Inv == /\ TypeInv /\ Bounded /\ PairInv /\ AccountInv /\ FlightInv
       /\ \A c \in Call : CallInv(c)

--------------------------------------------------------------------------------
\* Types

LEMMA CmdTypes ==
  ASSUME TypeInv, NEW c \in Call
  PROVE  /\ Kind(c) \in Kinds /\ TabOf(c) \in Tab
         /\ cmd[c].password \in {"old", "new"} /\ cmd[c].next \in {"old", "new"}
  BY DEF TypeInv, Cmds, Kind, TabOf

LEMMA GotoType ==
  ASSUME call \in CallRows, NEW c \in Call, NEW pc \in Pcs, Goto(c, pc)
  PROVE  /\ call' \in CallRows
         /\ call'[c].pc = pc /\ call'[c].with = call[c].with /\ call'[c].again = call[c].again
         /\ call'[c].token = call[c].token /\ call'[c].pair = call[c].pair
         /\ call'[c].seen = call[c].seen /\ call'[c].wrong = call[c].wrong
         /\ \A d \in Call : d # c => call'[d] = call[d]
  BY DEF Goto, CallRows, CallRow

\* A row of a token is written, and nothing of who spent it.
Kept ==
  /\ pair' \in Seq(Pair) /\ Len(pair') = Len(pair)
  /\ \A k \in 1..Len(pair) : /\ pair'[k].spentBy = pair[k].spentBy
                             /\ ~Unrevoked(pair[k].row) => ~Unrevoked(pair'[k].row)

LEMMA RowKept ==
  ASSUME pair \in Seq(Pair), NEW k \in 1..Len(pair), NEW row \in {"live", "expired", "revoked", "deleted"},
         pair' = [pair EXCEPT ![k].row = row],
         ~Unrevoked(pair[k].row) => ~Unrevoked(row)
  PROVE  Kept
  <1>1. pair[k] \in Pair
    BY ElementOfSeq
  <1>2. PICK e : e = [pair[k] EXCEPT !.row = row]
    OBVIOUS
  <1>3. e \in Pair /\ e.spentBy = pair[k].spentBy /\ e.row = row
    BY <1>1, <1>2 DEF Pair
  <1>4. pair' = [pair EXCEPT ![k] = e]
    BY <1>2
  <1>5. /\ pair' \in Seq(Pair) /\ Len(pair') = Len(pair)
        /\ \A j \in 1..Len(pair) : pair'[j] = IF j = k THEN e ELSE pair[j]
    BY <1>3, <1>4, ExceptSeq
  <1> QED
    BY <1>3, <1>5 DEF Kept

LEMMA RevokedRow ==
  ASSUME NEW row \in {"live", "expired", "revoked", "deleted"}
  PROVE  /\ Revoked(row) \in {"live", "expired", "revoked", "deleted"}
         /\ ~Unrevoked(Revoked(row))
  BY DEF Revoked, Unrevoked

--------------------------------------------------------------------------------
\* Steps of one call

\* Who has spent a token stays, and there are as many pairs or more.
PairsStand ==
  /\ Len(pair) <= Len(pair')
  /\ \A k \in 1..Len(pair) : pair[k].spentBy # None => pair'[k].spentBy = pair[k].spentBy

LEMMA WrongsCount ==
  ASSUME \A d \in Call : call[d].wrong => call'[d].wrong
  PROVE  /\ Cardinality(Wrongs) \in Nat /\ Cardinality(Wrongs') \in Nat
         /\ Cardinality(Wrongs) <= Cardinality(Wrongs')
  <1>1. Wrongs \subseteq Wrongs' /\ Wrongs' \subseteq Call /\ IsFiniteSet(Call)
    BY SessionAssumption DEF Wrongs
  <1>2. IsFiniteSet(Wrongs')
    BY <1>1, FS_Subset
  <1>3. IsFiniteSet(Wrongs) /\ Cardinality(Wrongs) <= Cardinality(Wrongs')
    BY <1>1, <1>2, FS_Subset
  <1> QED
    BY <1>2, <1>3, FS_CardinalityType

LEMMA CallStep ==
  ASSUME Inv, NEW c \in Call, TypeInv', Bounded', PairInv', AccountInv', FlightInv', CallInv(c)',
         cmd' = cmd, \A d \in Call : d # c => call'[d] = call[d],
         call[c].wrong => call'[c].wrong,
         PairsStand, late' \subseteq late \cup {c}
  PROVE  Inv'
  <1> SUFFICES ASSUME NEW d \in Call, d # c PROVE CallInv(d)'
    BY DEF Inv
  <1>1. CallInv(d) /\ call'[d] = call[d] /\ Kind(d)' = Kind(d)
    BY DEF Inv, Kind
  <1>2. Unsent(d)' = Unsent(d)
    BY <1>1 DEF Unsent
  <1>3. call[d].seen \in Nat
    BY SessionAssumption DEF Inv, TypeInv, CallRows, CallRow
  <1>4. Cardinality(Wrongs) \in Nat /\ Cardinality(Wrongs') \in Nat /\ Cardinality(Wrongs) <= Cardinality(Wrongs')
    BY WrongsCount
  <1>5. call[d].token # 0 /\ call[d].pair # 0 => pair'[call[d].token].spentBy = d
    <2>1. call[d].token \in Nat /\ call[d].token <= Len(pair)
      BY DEF Inv, TypeInv, CallRows, CallRow, Bounded
    <2>2. d # None
      BY SessionAssumption
    <2> QED
      BY <1>1, <2>1, <2>2 DEF CallInv, PairsStand, Inv, TypeInv
  <1>6. d \in late' => d \in late
    OBVIOUS
  <1> QED
    BY <1>1, <1>2, <1>3, <1>4, <1>5, <1>6 DEF CallInv

\* The refreshes in flight are the same.
LEMMA FlightStands ==
  ASSUME Inv, NEW c \in Call, flight' = flight, cmd' = cmd,
         \A d \in Call : d # c => call'[d] = call[d],
         Kind(c) = "fetch" => (call'[c].pc \in Flying <=> call[c].pc \in Flying),
         call'[c].pc = "joined" => flight[TabOf(c)] # None
  PROVE  FlightInv'
  <1>1. FlightInv /\ \A d \in Call : Kind(d)' = Kind(d) /\ TabOf(d)' = TabOf(d) /\ TabOf(d) \in Tab
    BY CmdTypes DEF Inv, Kind, TabOf
  <1>2. flight \in [Tab -> Call \cup {None}]
    BY DEF Inv, TypeInv
  <1>3. ASSUME NEW t \in Tab, flight'[t] # None
        PROVE  Kind(flight[t])' = "fetch" /\ TabOf(flight[t])' = t /\ call'[flight'[t]].pc \in Flying
    <2>1. PICK d \in Call : d = flight[t]
      BY <1>2, <1>3
    <2>2. Kind(d) = "fetch" /\ TabOf(d) = t /\ call[d].pc \in Flying
      BY <1>1, <1>3, <2>1 DEF FlightInv
    <2>3. Kind(d)' = "fetch" /\ TabOf(d)' = t /\ call'[d].pc \in Flying
      BY <1>1, <2>2
    <2> QED
      BY <2>1, <2>3
  <1>4. ASSUME NEW d \in Call
        PROVE  /\ Kind(d)' = "fetch" /\ call'[d].pc \in Flying => flight'[TabOf(d)'] = d
               /\ call'[d].pc = "joined" => flight'[TabOf(d)'] # None
    <2>1. /\ Kind(d) = "fetch" /\ call[d].pc \in Flying => flight[TabOf(d)] = d
          /\ call[d].pc = "joined" => flight[TabOf(d)] # None
      BY <1>1 DEF FlightInv
    <2> QED
      BY <1>1, <2>1
  <1> QED
    BY <1>3, <1>4 DEF FlightInv

\* Neither the account nor the tokens are written.
LEMMA AccountStands ==
  ASSUME Inv, NEW c \in Call, op' = op, pair' = pair, late' = late \/ (~op.active /\ late' = late \cup {c}),
         \A d \in Call : call'[d].wrong = call[d].wrong
  PROVE  PairInv' /\ PairsStand /\ AccountInv' /\ late' \subseteq late \cup {c}
  <1>1. Wrongs' = Wrongs
    BY DEF Wrongs
  <1>2. Len(pair) \in Nat
    BY DEF Inv, TypeInv
  <1> QED
    BY <1>1, <1>2 DEF Inv, PairInv, PairsStand, AccountInv

LEMMA GotoStep ==
  ASSUME Inv, NEW c \in Call, NEW pc \in Pcs, Goto(c, pc), UNCHANGED <<op, pair, flight, cmd, late>>,
         mem' \in [Tab -> Nat], store' \in Nat,
         store' <= Len(pair), \A t \in Tab : mem'[t] <= Len(pair),
         Kind(c) = "fetch" => (pc \in Flying <=> call[c].pc \in Flying),
         pc = "joined" => flight[TabOf(c)] # None,
         CallInv(c)'
  PROVE  Inv'
  <1>0. TypeInv /\ call \in CallRows
    BY DEF Inv, TypeInv
  <1>1. /\ call' \in CallRows /\ call'[c].pc = pc
        /\ call'[c].token = call[c].token /\ call'[c].pair = call[c].pair
        /\ call'[c].with = call[c].with /\ call'[c].wrong = call[c].wrong
        /\ \A d \in Call : d # c => call'[d] = call[d]
    BY <1>0, GotoType
  <1>2. TypeInv' /\ Bounded'
    BY <1>0, <1>1 DEF Inv, TypeInv, Bounded
  <1>3. \A d \in Call : call'[d].wrong = call[d].wrong
    BY <1>1
  <1>4. PairInv' /\ PairsStand /\ AccountInv'
    BY <1>3, AccountStands
  <1>5. FlightInv'
    BY <1>1, FlightStands
  <1> QED
    BY <1>1, <1>2, <1>3, <1>4, <1>5, CallStep

LEMMA BrowserGoesOn ==
  ASSUME Inv, NEW c \in Call, Answered(c) \/ Join(c) \/ Issued(c) \/ Leave(c) \/ Left(c)
  PROVE  Inv'
  <1>a. /\ TypeInv /\ call \in CallRows /\ CallInv(c) /\ TabOf(c) \in Tab
        /\ mem \in [Tab -> Nat] /\ store \in Nat /\ Len(pair) \in Nat
    BY CmdTypes DEF Inv, TypeInv
  <1>b. /\ store <= Len(pair) /\ call[c].pair \in Nat /\ call[c].pair <= Len(pair)
        /\ \A t \in Tab : mem[t] <= Len(pair)
    BY <1>a DEF Inv, Bounded, CallRows, CallRow
  <1>0. /\ TypeInv /\ call \in CallRows /\ CallInv(c) /\ TabOf(c) \in Tab
        /\ mem \in [Tab -> Nat] /\ store \in Nat /\ Len(pair) \in Nat
        /\ store <= Len(pair) /\ call[c].pair \in Nat /\ call[c].pair <= Len(pair)
        /\ \A t \in Tab : mem[t] <= Len(pair)
    BY <1>a, <1>b
  <1>1. CASE Answered(c)
    <2>1. Goto(c, "ok") /\ call[c].pc = "sent" /\ UNCHANGED <<op, pair, mem, store, flight, cmd, late>>
      BY <1>1 DEF Answered
    <2>2. CallInv(c)'
      BY <1>0, <2>1, GotoType DEF CallInv, Unsent, Pcs, Kind
    <2> QED
      BY <1>0, <2>1, <2>2, GotoStep DEF Pcs, Flying
  <1>2. CASE Join(c)
    <2>1. /\ Goto(c, "joined") /\ call[c].pc = "sent" /\ ~call[c].again /\ Joins(c)
          /\ UNCHANGED <<op, pair, mem, store, flight, cmd, late>>
      BY <1>2 DEF Join
    <2>2. CallInv(c)'
      BY <1>0, <2>1, GotoType DEF CallInv, Unsent, Pcs, Kind, Joins
    <2> QED
      BY <1>0, <2>1, <2>2, GotoStep DEF Pcs, Flying, Joins
  <1>3. CASE Issued(c)
    <2>1. /\ Goto(c, "sync") /\ call[c].pc = "issued" /\ Hold(TabOf(c), call[c].pair)
          /\ UNCHANGED <<op, pair, flight, cmd, late>>
      BY <1>3 DEF Issued
    <2>2. CallInv(c)'
      BY <1>0, <2>1, GotoType DEF CallInv, Unsent, Pcs, Flying, Kind
    <2>3. mem' \in [Tab -> Nat] /\ store' \in Nat /\ store' <= Len(pair) /\ \A t \in Tab : mem'[t] <= Len(pair)
      BY <1>0, <2>1 DEF Hold
    <2> QED
      BY <1>0, <2>1, <2>2, <2>3, GotoStep DEF Pcs, Flying
  <1>4. CASE Leave(c)
    <2>1. /\ Goto(c, "leaving") /\ call[c].pc = "idle"
          /\ UNCHANGED <<op, pair, mem, store, flight, cmd, late>>
      BY <1>4 DEF Leave
    <2>2. CallInv(c)'
      BY <1>0, <2>1, GotoType DEF CallInv, Unsent, Pcs, Kind
    <2> QED
      BY <1>0, <2>1, <2>2, GotoStep DEF Pcs, Flying
  <1>5. CASE Left(c)
    <2>1. /\ Goto(c, "ok") /\ call[c].pc = "leaving" /\ Hold(TabOf(c), 0)
          /\ UNCHANGED <<op, pair, flight, cmd, late>>
      BY <1>5 DEF Left
    <2>2. CallInv(c)'
      BY <1>0, <2>1, GotoType DEF CallInv, Unsent, Pcs, Kind
    <2>3. mem' \in [Tab -> Nat] /\ store' \in Nat /\ store' <= Len(pair) /\ \A t \in Tab : mem'[t] <= Len(pair)
      BY <1>0, <2>1 DEF Hold
    <2> QED
      BY <1>0, <2>1, <2>2, <2>3, GotoStep DEF Pcs, Flying
  <1> QED
    BY <1>1, <1>2, <1>3, <1>4, <1>5

LEMMA SendStep ==
  ASSUME Inv, NEW c \in Call, Send(c)
  PROVE  Inv'
  <1>0. /\ TypeInv /\ call \in CallRows /\ call[c] \in CallRow /\ CallInv(c) /\ TabOf(c) \in Tab
        /\ mem[TabOf(c)] \in Nat /\ mem[TabOf(c)] <= Len(pair)
    BY CmdTypes DEF Inv, TypeInv, Bounded, CallRows
  <1>1. /\ Kind(c) \in {"fetch", "blob"} /\ call[c].pc \in {"idle", "retry"}
        /\ UNCHANGED <<op, pair, mem, store, flight, cmd, late>>
    BY DEF Send
  <1>2. PICK e : e = [call[c] EXCEPT !.pc = "sent", !.with = mem[TabOf(c)],
                                     !.again = call[c].pc = "retry"]
    OBVIOUS
  <1>3. /\ e \in CallRow /\ e.pc = "sent" /\ e.again = (call[c].pc = "retry") /\ e.with = mem[TabOf(c)]
        /\ e.token = call[c].token /\ e.pair = call[c].pair /\ e.wrong = call[c].wrong
    BY <1>0, <1>2 DEF CallRow, Pcs
  <1>4. call' = [call EXCEPT ![c] = e]
    BY <1>2 DEF Send
  <1>5. call' \in CallRows /\ call'[c] = e /\ \A d \in Call : d # c => call'[d] = call[d]
    BY <1>0, <1>3, <1>4 DEF CallRows
  <1>6. TypeInv' /\ Bounded'
    BY <1>0, <1>1, <1>3, <1>5 DEF Inv, TypeInv, Bounded
  <1>7. \A d \in Call : call'[d].wrong = call[d].wrong
    BY <1>3, <1>5
  <1>8. PairInv' /\ PairsStand /\ AccountInv'
    BY <1>1, <1>7, AccountStands
  <1>9. FlightInv'
    BY <1>1, <1>3, <1>5, FlightStands DEF Flying
  <1>10. CallInv(c)'
    BY <1>0, <1>1, <1>3, <1>5 DEF CallInv, Unsent, Kind
  <1> QED
    BY <1>1, <1>5, <1>6, <1>7, <1>8, <1>9, <1>10, CallStep

\* A tab has one refresh in flight; whoever begins one finds none.
LEMMA RefreshSent ==
  ASSUME Inv, NEW c \in Call, Refresh(c), mem[TabOf(c)] # 0
  PROVE  Inv'
  <1>0. /\ TypeInv /\ call \in CallRows /\ call[c] \in CallRow /\ CallInv(c) /\ TabOf(c) \in Tab
        /\ mem[TabOf(c)] \in Nat /\ mem[TabOf(c)] <= Len(pair)
        /\ flight \in [Tab -> Call \cup {None}] /\ late \subseteq Call
    BY CmdTypes DEF Inv, TypeInv, Bounded, CallRows
  <1>1. PICK k \in Nat : k = mem[TabOf(c)] /\ k # 0 /\ k <= Len(pair)
    BY <1>0
  <1>2. /\ call[c].pc = "sent" /\ ~call[c].again /\ ~Joins(c) /\ Started(c)
        /\ call' = [call EXCEPT ![c].pc = "find", ![c].token = k]
        /\ flight' = IF Kind(c) = "fetch" THEN [flight EXCEPT ![TabOf(c)] = c] ELSE flight
        /\ UNCHANGED <<op, pair, mem, store, cmd>>
    BY <1>1 DEF Refresh
  <1>3. /\ call' \in CallRows /\ call'[c].pc = "find" /\ call'[c].token = k
        /\ call'[c].pair = call[c].pair /\ call'[c].with = call[c].with /\ call'[c].wrong = call[c].wrong
        /\ \A d \in Call : d # c => call'[d] = call[d]
    BY <1>0, <1>2 DEF CallRows, CallRow, Pcs, Flying
  <1>4. late' = late \/ (~op.active /\ late' = late \cup {c})
    BY <1>2 DEF Started
  <1>5. TypeInv' /\ Bounded'
    BY <1>0, <1>1, <1>2, <1>3, <1>4 DEF Inv, TypeInv, Bounded
  <1>6. \A d \in Call : call'[d].wrong = call[d].wrong
    BY <1>3
  <1>7. PairInv' /\ PairsStand /\ AccountInv' /\ late' \subseteq late \cup {c}
    BY <1>2, <1>4, <1>6, AccountStands
  <1>8. FlightInv'
    <2>1. CASE Kind(c) = "fetch"
      <3>1. flight[TabOf(c)] = None /\ flight' = [flight EXCEPT ![TabOf(c)] = c]
        BY <1>2, <2>1 DEF Joins
      <3>2. /\ flight'[TabOf(c)] = c /\ c # None
            /\ \A t \in Tab : t # TabOf(c) => flight'[t] = flight[t]
        BY <1>0, <3>1, SessionAssumption
      <3>3. \A d \in Call : Kind(d)' = Kind(d) /\ TabOf(d)' = TabOf(d) /\ TabOf(d) \in Tab
        BY <1>0, <1>2, CmdTypes DEF Kind, TabOf
      <3>4. ASSUME NEW t \in Tab, flight'[t] # None
            PROVE  Kind(flight[t])' = "fetch" /\ TabOf(flight[t])' = t /\ call'[flight'[t]].pc \in Flying
        <4>1. CASE t = TabOf(c)
          BY <1>3, <2>1, <3>2, <3>3, <4>1 DEF Flying
        <4>2. CASE t # TabOf(c)
          <5>1. PICK d \in Call : d = flight[t]
            BY <1>0, <3>2, <3>4, <4>2
          <5>2. Kind(d) = "fetch" /\ TabOf(d) = t /\ call[d].pc \in Flying /\ flight'[t] = d
            BY <3>2, <3>4, <4>2, <5>1 DEF Inv, FlightInv
          <5> QED
            BY <1>3, <3>3, <4>2, <5>2
        <4> QED
          BY <4>1, <4>2
      <3>5. ASSUME NEW d \in Call
            PROVE  /\ Kind(d)' = "fetch" /\ call'[d].pc \in Flying => flight'[TabOf(d)'] = d
                   /\ call'[d].pc = "joined" => flight'[TabOf(d)'] # None
        <4>1. CASE d = c
          BY <1>3, <3>2, <3>3, <4>1
        <4>2. CASE d # c
          <5>1. call'[d] = call[d] /\ TabOf(d)' = TabOf(d) /\ TabOf(d) \in Tab /\ Kind(d)' = Kind(d) /\ d # None
            BY <1>3, <3>3, <4>2, SessionAssumption
          <5>2. /\ Kind(d) = "fetch" /\ call[d].pc \in Flying => flight[TabOf(d)] = d
                /\ call[d].pc = "joined" => flight[TabOf(d)] # None
            BY DEF Inv, FlightInv
          <5> QED
            BY <3>1, <3>2, <5>1, <5>2
        <4> QED
          BY <4>1, <4>2
      <3> QED
        BY <3>4, <3>5 DEF FlightInv
    <2>2. CASE Kind(c) # "fetch"
      BY <1>2, <1>3, <2>2, FlightStands
    <2> QED
      BY <2>1, <2>2
  <1>9. CallInv(c)'
    BY <1>0, <1>1, <1>2, <1>3 DEF CallInv, Unsent, Kind
  <1> QED
    BY <1>2, <1>3, <1>5, <1>6, <1>7, <1>8, <1>9, CallStep

--------------------------------------------------------------------------------
\* Steps that end a refresh for all who share it

LEMMA ShareStep ==
  ASSUME Inv, NEW c \in Call, call[c].pc \notin {"refused", "joined"}, UNCHANGED <<op, pair, cmd, late>>,
         mem' \in [Tab -> Nat], store' \in Nat,
         store' <= Len(pair), \A t \in Tab : mem'[t] <= Len(pair),
         flight' = Landed(c), call' \in CallRows,
         \A d \in Call :
           IF d \in Sharing(c)
           THEN /\ call'[d].pc \in {"login", "ok", "retry"}
                /\ call'[d].pc = "retry" => Kind(d) \in {"fetch", "blob"}
                /\ call'[d].with = call[d].with
                /\ call'[d].token = call[d].token /\ call'[d].pair = call[d].pair
                /\ call'[d].wrong = call[d].wrong
           ELSE call'[d] = call[d]
  PROVE  Inv'
  <1>0. /\ TypeInv /\ FlightInv /\ TabOf(c) \in Tab /\ flight \in [Tab -> Call \cup {None}] /\ None \notin Call
        /\ \A d \in Call : Kind(d)' = Kind(d) /\ TabOf(d)' = TabOf(d) /\ TabOf(d) \in Tab
    BY CmdTypes, SessionAssumption DEF Inv, TypeInv, Kind, TabOf
  <1>1. /\ flight' \in [Tab -> Call \cup {None}]
        /\ flight'[TabOf(c)] = IF flight[TabOf(c)] = c THEN None ELSE flight[TabOf(c)]
        /\ \A t \in Tab : t # TabOf(c) => flight'[t] = flight[t]
    BY <1>0 DEF Landed
  <1>2. TypeInv'
    BY <1>0, <1>1 DEF Inv, TypeInv
  <1>3. \A d \in Call : /\ call'[d].with = call[d].with /\ call'[d].token = call[d].token
                        /\ call'[d].pair = call[d].pair /\ call'[d].wrong = call[d].wrong
    OBVIOUS
  <1>4. Bounded'
    BY <1>3 DEF Inv, Bounded
  <1>5. PairInv' /\ AccountInv'
    BY <1>3, AccountStands
  <1>6. \A d \in Sharing(c) : d = c \/ (flight[TabOf(c)] = c /\ call[d].pc = "joined" /\ TabOf(d) = TabOf(c))
    BY DEF Sharing
  <1>7. FlightInv'
    <2>1. ASSUME NEW t \in Tab, flight'[t] # None
          PROVE  Kind(flight[t])' = "fetch" /\ TabOf(flight[t])' = t /\ call'[flight'[t]].pc \in Flying
      <3>1. flight'[t] = flight[t] /\ flight[t] # c
        <4>1. CASE t = TabOf(c)
          BY <1>0, <1>1, <2>1, <4>1
        <4>2. CASE t # TabOf(c)
          BY <1>0, <1>1, <2>1, <4>2 DEF FlightInv
        <4> QED
          BY <4>1, <4>2
      <3>2. PICK d \in Call : d = flight[t]
        BY <1>0, <2>1, <3>1
      <3>3. Kind(d) = "fetch" /\ TabOf(d) = t /\ call[d].pc \in Flying /\ d # c
        BY <1>0, <2>1, <3>1, <3>2 DEF FlightInv
      <3>4. d \notin Sharing(c)
        BY <1>6, <3>3 DEF Flying
      <3> QED
        BY <1>0, <3>1, <3>2, <3>3, <3>4
    <2>2. ASSUME NEW d \in Call
          PROVE  /\ Kind(d)' = "fetch" /\ call'[d].pc \in Flying => flight'[TabOf(d)'] = d
                 /\ call'[d].pc = "joined" => flight'[TabOf(d)'] # None
      <3>1. CASE d \in Sharing(c)
        BY <3>1 DEF Flying
      <3>2. CASE d \notin Sharing(c)
        <4>1. call'[d] = call[d] /\ Kind(d)' = Kind(d) /\ TabOf(d)' = TabOf(d) /\ TabOf(d) \in Tab /\ d # c
          BY <1>0, <3>2 DEF Sharing
        <4>2. /\ Kind(d) = "fetch" /\ call[d].pc \in Flying => flight[TabOf(d)] = d
              /\ call[d].pc = "joined" => flight[TabOf(d)] # None
          BY <1>0 DEF FlightInv
        <4>3. call[d].pc = "joined" /\ TabOf(d) = TabOf(c) => flight[TabOf(c)] # c
          BY <3>2 DEF Sharing
        <4>4. flight'[TabOf(d)] = IF TabOf(d) = TabOf(c) /\ flight[TabOf(d)] = c THEN None ELSE flight[TabOf(d)]
          BY <1>1, <4>1
        <4> QED
          BY <4>1, <4>2, <4>3, <4>4
      <3> QED
        BY <3>1, <3>2
    <2> QED
      BY <2>1, <2>2 DEF FlightInv
  <1>8. ASSUME NEW d \in Call PROVE CallInv(d)'
    <2>1. CallInv(d) /\ Kind(d)' = Kind(d)
      BY <1>0 DEF Inv
    <2>2. Wrongs' = Wrongs
      BY <1>3 DEF Wrongs
    <2>3. CASE d \in Sharing(c)
      <3>1. ~call[d].wrong
        BY <1>6, <2>1, <2>3 DEF CallInv
      <3> QED
        BY <1>3, <2>1, <2>3, <3>1 DEF CallInv, Unsent
    <2>4. CASE d \notin Sharing(c)
      BY <2>1, <2>2, <2>4 DEF CallInv, Unsent
    <2> QED
      BY <2>3, <2>4
  <1> QED
    BY <1>2, <1>4, <1>5, <1>7, <1>8 DEF Inv

LEMMA SignedOutStep ==
  ASSUME Inv, NEW c \in Call, call[c].pc \notin {"refused", "joined"}, SignedOut(c),
         UNCHANGED <<op, pair, cmd, late>>
  PROVE  Inv'
  <1>0. /\ call \in CallRows /\ TabOf(c) \in Tab /\ mem \in [Tab -> Nat] /\ Len(pair) \in Nat
        /\ \A t \in Tab : mem[t] <= Len(pair)
    BY CmdTypes DEF Inv, TypeInv, Bounded
  <1>1. mem' \in [Tab -> Nat] /\ store' \in Nat /\ store' <= Len(pair) /\ \A t \in Tab : mem'[t] <= Len(pair)
    BY <1>0 DEF SignedOut, Hold
  <1>2. \A d \in Call :
          call'[d] = IF d \in Sharing(c) THEN [call[d] EXCEPT !.pc = "login"] ELSE call[d]
    BY DEF SignedOut
  <1>3. \A d \in Call : call[d] \in CallRow /\ [call[d] EXCEPT !.pc = "login"] \in CallRow
    BY <1>0 DEF CallRows, CallRow, Pcs
  <1>4. call' \in CallRows
    BY <1>2, <1>3 DEF SignedOut, CallRows
  <1>5. \A d \in Call :
           IF d \in Sharing(c)
           THEN /\ call'[d].pc = "login" /\ call'[d].with = call[d].with
                /\ call'[d].token = call[d].token /\ call'[d].pair = call[d].pair
                /\ call'[d].wrong = call[d].wrong
           ELSE call'[d] = call[d]
    BY <1>2, <1>3 DEF CallRow
  <1>6. flight' = Landed(c)
    BY DEF SignedOut
  <1> QED
    BY <1>1, <1>4, <1>5, <1>6, ShareStep

LEMMA SyncedStep ==
  ASSUME Inv, NEW c \in Call, Synced(c)
  PROVE  Inv'
  <1>0. /\ TypeInv /\ call \in CallRows /\ TabOf(c) \in Tab /\ mem \in [Tab -> Nat] /\ Len(pair) \in Nat
        /\ \A t \in Tab : mem[t] <= Len(pair)
        /\ store \in Nat /\ store <= Len(pair)
        /\ call[c].pc = "sync" /\ CallInv(c) /\ Kind(c) \in {"fetch", "blob", "login"}
        /\ UNCHANGED <<op, pair, cmd, late>>
    BY CmdTypes DEF Inv, TypeInv, Bounded, Synced, CallInv
  <1>1. CASE mem[TabOf(c)] # 0
    <2>1. /\ store' = mem[TabOf(c)] /\ flight' = Landed(c) /\ mem' = mem
          /\ call' = [d \in Call |->
               IF d \in Sharing(c)
               THEN [call[d] EXCEPT !.pc = IF Kind(d) = "login" THEN "ok" ELSE "retry"] ELSE call[d]]
      BY <1>1 DEF Synced
    <2>2. \A d \in Call : /\ call[d] \in CallRow
                          /\ [call[d] EXCEPT !.pc = "ok"] \in CallRow
                          /\ [call[d] EXCEPT !.pc = "retry"] \in CallRow
      BY <1>0 DEF CallRows, CallRow, Pcs
    <2>3. \A d \in Call :
            call'[d] = IF d \in Sharing(c)
                       THEN IF Kind(d) = "login" THEN [call[d] EXCEPT !.pc = "ok"] ELSE [call[d] EXCEPT !.pc = "retry"]
                       ELSE call[d]
      BY <2>1
    <2>4. call' \in CallRows
      BY <2>1, <2>2, <2>3 DEF CallRows
    <2>5. \A d \in Sharing(c) : d \in Call /\ Kind(d) \in {"fetch", "blob", "login"}
      BY <1>0 DEF Sharing, Inv, CallInv
    <2>6. \A d \in Call :
           IF d \in Sharing(c)
           THEN /\ call'[d].pc \in {"login", "ok", "retry"}
                /\ call'[d].pc = "retry" => Kind(d) \in {"fetch", "blob"}
                /\ call'[d].with = call[d].with
                /\ call'[d].token = call[d].token /\ call'[d].pair = call[d].pair
                /\ call'[d].wrong = call[d].wrong
           ELSE call'[d] = call[d]
      BY <2>2, <2>3, <2>5 DEF CallRow
    <2> QED
      BY <1>0, <2>1, <2>4, <2>6, ShareStep
  <1>2. CASE mem[TabOf(c)] = 0 /\ Kind(c) = "login"
    <2>1. Goto(c, "refused") /\ UNCHANGED <<mem, store, flight>>
      BY <1>2 DEF Synced
    <2>2. CallInv(c)'
      BY <1>0, <2>1, GotoType DEF CallInv, Unsent, Pcs, Kind
    <2> QED
      BY <1>0, <1>2, <2>1, <2>2, GotoStep DEF Pcs
  <1>3. CASE mem[TabOf(c)] = 0 /\ Kind(c) # "login"
    <2>1. SignedOut(c)
      BY <1>3 DEF Synced
    <2> QED
      BY <1>0, <2>1, SignedOutStep
  <1> QED
    BY <1>1, <1>2, <1>3

LEMMA BrowserStep ==
  ASSUME Inv, NEW c \in Call, Browser(c)
  PROVE  Inv'
  <1>1. CASE Answered(c) \/ Join(c) \/ Issued(c) \/ Leave(c) \/ Left(c)
    BY <1>1, BrowserGoesOn
  <1>2. CASE Send(c)
    BY <1>2, SendStep
  <1>3. CASE Synced(c)
    BY <1>3, SyncedStep
  <1>4. CASE RefusedAgain(c) \/ Denied(c) \/ AnswerLost(c)
    <2>1. /\ SignedOut(c) /\ UNCHANGED <<op, pair, cmd, late>>
          /\ call[c].pc \notin {"refused", "joined"}
      BY <1>4 DEF RefusedAgain, Denied, AnswerLost
    <2> QED
      BY <2>1, SignedOutStep
  <1>5. CASE Refresh(c)
    <2>1. CASE mem[TabOf(c)] # 0
      BY <1>5, <2>1, RefreshSent
    <2>2. CASE mem[TabOf(c)] = 0
      <3>1. /\ SignedOut(c) /\ UNCHANGED <<op, pair, cmd, late>>
            /\ call[c].pc \notin {"refused", "joined"}
        BY <1>5, <2>2 DEF Refresh
      <3> QED
        BY <3>1, SignedOutStep
    <2> QED
      BY <2>1, <2>2
  <1> QED
    BY <1>1, <1>2, <1>3, <1>4, <1>5 DEF Browser

--------------------------------------------------------------------------------
\* The server

LEMMA ServerReads ==
  ASSUME Inv, NEW c \in Call, RefreshFind(c) \/ PasswordRead(c)
  PROVE  Inv'
  <1>0. /\ TypeInv /\ call \in CallRows /\ CallInv(c)
        /\ mem \in [Tab -> Nat] /\ store \in Nat /\ store <= Len(pair) /\ \A t \in Tab : mem[t] <= Len(pair)
    BY DEF Inv, TypeInv, Bounded
  <1>1. CASE RefreshFind(c)
    <2>1. PICK pc \in {"operator", "denied"} :
            /\ Goto(c, pc) /\ call[c].pc = "find" /\ UNCHANGED <<op, pair, mem, store, flight, cmd, late>>
      BY <1>1 DEF RefreshFind
    <2>2. CallInv(c)'
      BY <1>0, <2>1, GotoType DEF CallInv, Unsent, Pcs, Flying, Kind
    <2> QED
      BY <1>0, <2>1, <2>2, GotoStep DEF Pcs, Flying
  <1>2. CASE PasswordRead(c)
    <2>1. PICK pc \in {"rewrite", "refused"} :
            /\ Goto(c, pc) /\ call[c].pc = "idle" /\ Kind(c) = "password"
            /\ UNCHANGED <<op, pair, mem, store, flight, cmd, late>>
      BY <1>2 DEF PasswordRead
    <2>2. CallInv(c)'
      BY <1>0, <2>1, GotoType DEF CallInv, Unsent, Pcs, Kind
    <2> QED
      BY <1>0, <2>1, <2>2, GotoStep DEF Pcs, Flying
  <1> QED
    BY <1>1, <1>2

\* The tokens are written, but not who spent them; a call goes on or nobody does.
LEMMA KeptStep ==
  ASSUME Inv, NEW c \in Call, NEW pc \in Pcs, Goto(c, pc), Kept, PairInv',
         UNCHANGED <<mem, store, flight, cmd>>, op' \in Accounts, late' \subseteq late,
         Kind(c) = "fetch" => (pc \in Flying <=> call[c].pc \in Flying), pc # "joined",
         AccountInv', CallInv(c)'
  PROVE  Inv'
  <1>0. TypeInv /\ call \in CallRows
    BY DEF Inv, TypeInv
  <1>1. /\ call' \in CallRows /\ call'[c].pc = pc
        /\ call'[c].token = call[c].token /\ call'[c].pair = call[c].pair
        /\ call'[c].with = call[c].with /\ call'[c].wrong = call[c].wrong
        /\ \A d \in Call : d # c => call'[d] = call[d]
    BY <1>0, GotoType
  <1>2. TypeInv' /\ Bounded'
    BY <1>0, <1>1 DEF Inv, TypeInv, Bounded, Kept
  <1>3. PairsStand
    BY <1>0 DEF PairsStand, Kept, TypeInv
  <1>4. FlightInv'
    BY <1>1, FlightStands
  <1> QED
    BY <1>1, <1>2, <1>3, <1>4, CallStep

LEMMA KeptPairs ==
  ASSUME Inv, Kept
  PROVE  PairInv'
  BY DEF Inv, PairInv, Kept

LEMMA SamePairs ==
  ASSUME Inv, pair' = pair
  PROVE  Kept /\ PairInv'
  BY DEF Inv, TypeInv, PairInv, Kept

LEMMA RefreshOperatorStep ==
  ASSUME Inv, NEW c \in Call, RefreshOperator(c)
  PROVE  Inv'
  <1>0. /\ TypeInv /\ call \in CallRows /\ CallInv(c) /\ pair \in Seq(Pair)
        /\ call[c].token \in Nat /\ call[c].token <= Len(pair) /\ call[c].pc = "operator"
        /\ op \in Accounts /\ AccountInv
        /\ UNCHANGED <<op, mem, store, flight, cmd, late>>
    BY DEF Inv, TypeInv, Bounded, CallRows, CallRow, RefreshOperator
  <1>1. PICK k \in 1..Len(pair) : k = call[c].token
    BY <1>0 DEF CallInv
  <1>2. PICK pc \in {"rotate", "denied"} :
          /\ Goto(c, pc) /\ (pc = "rotate" => op.active)
          /\ pair' = pair \/ pair' = [pair EXCEPT ![k].row = Revoked(pair[k].row)]
    BY <1>1 DEF RefreshOperator, LetIn
  <1>3. pc \in Pcs /\ pc \in Flying /\ call[c].pc \in Flying
    BY <1>0 DEF Pcs, Flying
  <1>4. /\ call'[c].pc = pc /\ call'[c].again = call[c].again /\ call'[c].token = call[c].token
        /\ call'[c].pair = call[c].pair /\ call'[c].wrong = call[c].wrong
        /\ \A d \in Call : call'[d].wrong = call[d].wrong
    BY <1>0, <1>2, <1>3, GotoType
  <1>5. Kept
    <2>1. CASE pair' = pair
      BY <2>1, SamePairs
    <2>2. CASE pair' = [pair EXCEPT ![k].row = Revoked(pair[k].row)]
      <3>0. pair[k] \in Pair
        BY <1>0, ElementOfSeq
      <3>1. pair[k].row \in {"live", "expired", "revoked", "deleted"}
        BY <3>0 DEF Pair
      <3> QED
        BY <1>0, <2>2, <3>1, RevokedRow, RowKept
    <2> QED
      BY <1>2, <2>1, <2>2
  <1>6. Wrongs' = Wrongs /\ AccountInv'
    BY <1>0, <1>4 DEF Wrongs, AccountInv
  <1>7. CallInv(c)'
    BY <1>0, <1>2, <1>4 DEF CallInv, AccountInv, Unsent, Kind
  <1> QED
    BY <1>0, <1>2, <1>3, <1>5, <1>6, <1>7, KeptPairs, KeptStep

\* Steps that are answered and write the tokens or the account.
LEMMA Requests ==
  ASSUME Inv, NEW c \in Call, NEW pc \in {"ok", "revokeAll"}, Goto(c, pc),
         Kind(c) \notin {"fetch", "login"}, ~call[c].wrong, pc = "revokeAll" => Kind(c) = "delete",
         call[c].pc \in {"idle", "rewrite", "revokeAll"},
         Kept, UNCHANGED <<mem, store, flight, cmd>>, op' \in Accounts, late' \subseteq late,
         op'.active => late' = {},
         \/ op'.attempts = op.attempts /\ op'.locked = op.locked
         \/ op'.attempts = 0 /\ op'.locked = FALSE
  PROVE  Inv'
  <1>0. TypeInv /\ call \in CallRows /\ CallInv(c) /\ AccountInv /\ op \in Accounts
    BY DEF Inv, TypeInv
  <1>1. pc \in Pcs /\ pc \notin Flying /\ call[c].pc \notin Flying
    BY DEF Pcs, Flying
  <1>2. /\ call'[c].pc = pc /\ call'[c].again = call[c].again /\ call'[c].token = call[c].token
        /\ call'[c].pair = call[c].pair /\ call'[c].wrong = call[c].wrong
        /\ \A d \in Call : call'[d].wrong = call[d].wrong
    BY <1>0, <1>1, GotoType
  <1>3. Wrongs' = Wrongs /\ Cardinality(Wrongs) \in Nat
    BY <1>2, WrongsCount DEF Wrongs
  <1>4. AccountInv'
    BY <1>0, <1>3 DEF AccountInv, Accounts
  <1>5. call[c].token # 0 /\ call[c].pair # 0 => pair'[call[c].token].spentBy = c
    <2>1. call[c].token \in Nat /\ call[c].token <= Len(pair) /\ Len(pair) \in Nat
      BY <1>0 DEF Inv, TypeInv, Bounded, CallRows, CallRow
    <2> QED
      BY <1>0, <2>1 DEF CallInv, Kept
  <1>6. CallInv(c)'
    BY <1>0, <1>2, <1>5 DEF CallInv, Unsent, Kind
  <1> QED
    BY <1>1, <1>4, <1>6, KeptPairs, KeptStep

LEMMA IssuedType ==
  ASSUME call \in CallRows, NEW c \in Call, NEW n \in Nat,
         call' = [call EXCEPT ![c].pc = "issued", ![c].pair = n]
  PROVE  /\ call' \in CallRows /\ call'[c].pc = "issued" /\ call'[c].pair = n
         /\ call'[c].token = call[c].token /\ call'[c].with = call[c].with
         /\ call'[c].wrong = call[c].wrong /\ call'[c].again = call[c].again
         /\ \A d \in Call : d # c => call'[d] = call[d]
  <1>1. PICK e : e = [call[c] EXCEPT !.pc = "issued", !.pair = n]
    OBVIOUS
  <1>2. /\ e \in CallRow /\ e.pc = "issued" /\ e.pair = n
        /\ e.token = call[c].token /\ e.with = call[c].with
        /\ e.wrong = call[c].wrong /\ e.again = call[c].again
    BY <1>1 DEF CallRows, CallRow, Pcs, Flying
  <1>3. call' = [call EXCEPT ![c] = e]
    BY <1>1
  <1> QED
    BY <1>2, <1>3 DEF CallRows

LEMMA AttemptsType ==
  ASSUME op \in Accounts, NEW n \in 0..(Threshold - 1), NEW b \in BOOLEAN,
         op' = [op EXCEPT !.attempts = n, !.locked = b]
  PROVE  op' \in Accounts /\ op'.active = op.active /\ op'.attempts = n /\ op'.locked = b
  BY DEF Accounts

LEMMA BoundedKept ==
  ASSUME TypeInv, Bounded, NEW c \in Call, NEW n \in Nat, Len(pair') = n,
         Len(pair) \in Nat, Len(pair) <= n, UNCHANGED <<mem, store>>,
         call'[c].token <= n, call'[c].pair <= n, call'[c].with <= n,
         \A d \in Call : d # c => call'[d] = call[d]
  PROVE  Bounded'
  <1>1. /\ store \in Nat /\ \A t \in Tab : mem[t] \in Nat
        /\ \A d \in Call : call[d].token \in Nat /\ call[d].pair \in Nat /\ call[d].with \in Nat
    BY DEF TypeInv, CallRows, CallRow
  <1> QED
    BY <1>1 DEF Bounded

LEMMA UnlockedType ==
  ASSUME op \in Accounts, op' = [op EXCEPT !.attempts = 0, !.locked = FALSE]
  PROVE  op' \in Accounts /\ op'.active = op.active /\ op'.attempts = 0 /\ op'.locked = FALSE
  <1>1. 0 \in 0..(Threshold - 1)
    BY SessionAssumption
  <1> QED
    BY <1>1 DEF Accounts

LEMMA TypesKept ==
  ASSUME TypeInv, UNCHANGED <<mem, store, flight, cmd>>, late' \subseteq Call,
         op' \in Accounts, pair' \in Seq(Pair), call' \in CallRows
  PROVE  TypeInv'
  BY DEF TypeInv

LEMMA RequestStep ==
  ASSUME Inv, NEW c \in Call,
         Revoke(c) \/ PasswordWrite(c) \/ Deactivate(c) \/ RevokeAll(c) \/ Update(c) \/ Unlock(c)
  PROVE  Inv'
  <1>0. /\ TypeInv /\ CallInv(c) /\ AccountInv /\ op \in Accounts /\ pair \in Seq(Pair)
        /\ cmd[c].next \in {"old", "new"}
    BY CmdTypes DEF Inv, TypeInv
  <1>1. CASE Revoke(c)
    <2>1. PICK k \in 1..Len(pair) : pair' = [pair EXCEPT ![k].row = Revoked(pair[k].row)]
      BY <1>0, <1>1, LenProperties DEF Revoke
    <2>2. /\ Goto(c, "ok") /\ Kind(c) = "revoke" /\ call[c].pc = "idle"
          /\ UNCHANGED <<op, mem, store, flight, cmd, late>>
      BY <1>1 DEF Revoke
    <2>3. pair[k] \in Pair
      BY <1>0, ElementOfSeq
    <2>4. pair[k].row \in {"live", "expired", "revoked", "deleted"}
      BY <2>3 DEF Pair
    <2>5. Kept
      BY <1>0, <2>1, <2>4, RevokedRow, RowKept
    <2> QED
      BY <1>0, <2>2, <2>5, Requests DEF CallInv, AccountInv
  <1>2. CASE RevokeAll(c)
    <2>1. /\ Goto(c, "ok") /\ call[c].pc = "revokeAll"
          /\ UNCHANGED <<op, mem, store, flight, cmd, late>>
          /\ pair' = [k \in DOMAIN pair |-> [pair[k] EXCEPT !.row = Revoked(pair[k].row)]]
      BY <1>2 DEF RevokeAll
    <2>2. \A k \in 1..Len(pair) : pair[k] \in Pair
      BY <1>0, ElementOfSeq
    <2>3. ASSUME NEW k \in 1..Len(pair)
          PROVE  /\ [pair[k] EXCEPT !.row = Revoked(pair[k].row)] \in Pair
                 /\ [pair[k] EXCEPT !.row = Revoked(pair[k].row)].spentBy = pair[k].spentBy
                 /\ ~Unrevoked([pair[k] EXCEPT !.row = Revoked(pair[k].row)].row)
      BY <2>2, RevokedRow DEF Pair
    <2>4. pair' = [k \in 1..Len(pair) |-> [pair[k] EXCEPT !.row = Revoked(pair[k].row)]]
      BY <1>0, <2>1, LenProperties
    <2>5. pair' \in Seq(Pair) /\ Len(pair') = Len(pair)
      BY <1>0, <2>3, <2>4, LenProperties, IsASeq
    <2>6. Kept
      BY <2>3, <2>4, <2>5 DEF Kept
    <2> QED
      BY <1>0, <2>1, <2>6, Requests DEF CallInv, AccountInv
  <1>3. CASE PasswordWrite(c)
    <2>1. /\ Goto(c, "ok") /\ call[c].pc = "rewrite" /\ op' = [op EXCEPT !.password = cmd[c].next]
          /\ UNCHANGED <<pair, mem, store, flight, cmd, late>>
      BY <1>3 DEF PasswordWrite
    <2>2. /\ op' \in Accounts /\ op'.active = op.active
          /\ op'.attempts = op.attempts /\ op'.locked = op.locked
      BY <1>0, <2>1 DEF Accounts
    <2> QED
      BY <1>0, <2>1, <2>2, SamePairs, Requests DEF CallInv, AccountInv
  <1>4. CASE Deactivate(c)
    <2>1. /\ Goto(c, "revokeAll") /\ call[c].pc = "idle" /\ Kind(c) = "delete"
          /\ op' = [op EXCEPT !.active = FALSE]
          /\ UNCHANGED <<pair, mem, store, flight, cmd, late>>
      BY <1>4 DEF Deactivate
    <2>2. /\ op' \in Accounts /\ ~op'.active
          /\ op'.attempts = op.attempts /\ op'.locked = op.locked
      BY <1>0, <2>1 DEF Accounts
    <2> QED
      BY <1>0, <2>1, <2>2, SamePairs, Requests DEF CallInv
  <1>5. CASE Update(c)
    <2>1. /\ Goto(c, "ok") /\ call[c].pc = "idle" /\ Kind(c) = "update"
          /\ op' = [op EXCEPT !.active = ~op.active]
          /\ late' = IF op.active THEN late ELSE {}
          /\ UNCHANGED <<pair, mem, store, flight, cmd>>
      BY <1>5 DEF Update
    <2>2. /\ op' \in Accounts /\ op'.active = ~op.active
          /\ op'.attempts = op.attempts /\ op'.locked = op.locked
      BY <1>0, <2>1 DEF Accounts
    <2>3. late' \subseteq late /\ (op'.active => late' = {})
      BY <2>1, <2>2
    <2> QED
      BY <1>0, <2>1, <2>2, <2>3, SamePairs, Requests DEF CallInv
  <1>6. CASE Unlock(c)
    <2>1. /\ Goto(c, "ok") /\ call[c].pc = "idle" /\ Kind(c) = "unlock"
          /\ op' = [op EXCEPT !.attempts = 0, !.locked = FALSE]
          /\ UNCHANGED <<pair, mem, store, flight, cmd, late>>
      BY <1>6 DEF Unlock
    <2>2. /\ op' \in Accounts /\ op'.active = op.active
          /\ op'.attempts = 0 /\ op'.locked = FALSE
      BY <1>0, <2>1, UnlockedType
    <2> QED
      BY <1>0, <2>1, <2>2, SamePairs, Requests DEF CallInv, AccountInv
  <1> QED
    BY <1>1, <1>2, <1>3, <1>4, <1>5, <1>6

--------------------------------------------------------------------------------
\* New pairs, and attempts

LEMMA NewPairType == NewPair \in Pair /\ NewPair.spentBy = None /\ NewPair.row = "live"
  BY DEF NewPair, Pair

\* The exchange of a token writes who spent it, once.
LEMMA RotateStep ==
  ASSUME Inv, NEW c \in Call, RefreshRotate(c)
  PROVE  Inv'
  <1>0. /\ TypeInv /\ call \in CallRows /\ CallInv(c) /\ pair \in Seq(Pair) /\ Len(pair) \in Nat
        /\ call[c].token \in Nat /\ call[c].token <= Len(pair) /\ call[c].pc = "rotate"
        /\ call[c].token # 0 /\ Kind(c) \in {"fetch", "blob"}
        /\ mem \in [Tab -> Nat] /\ store \in Nat /\ store <= Len(pair) /\ \A t \in Tab : mem[t] <= Len(pair)
        /\ UNCHANGED <<op, mem, store, flight, cmd, late>>
    BY DEF Inv, TypeInv, Bounded, CallRows, CallRow, RefreshRotate, CallInv
  <1>1. PICK k \in 1..Len(pair) : k = call[c].token
    BY <1>0
  <1>2. CASE ~Rotates(k)
    <2>1. Goto(c, "denied") /\ pair' = pair
      BY <1>1, <1>2 DEF RefreshRotate
    <2>2. CallInv(c)'
      BY <1>0, <2>1, GotoType DEF CallInv, Unsent, Pcs, Flying, Kind
    <2> QED
      BY <1>0, <2>1, <2>2, GotoStep DEF Pcs, Flying
  <1>3. CASE Rotates(k)
    <2>1. PICK n \in Nat : n = Len(pair) + 1
      BY <1>0
    <2>2. /\ pair' = Append([pair EXCEPT ![k].row = "revoked", ![k].spentBy = c], NewPair)
          /\ call' = [call EXCEPT ![c].pc = "issued", ![c].pair = n]
      BY <1>1, <1>3, <2>1 DEF RefreshRotate
    <2>3. pair[k] \in Pair
      BY <1>0, ElementOfSeq
    <2>4. PICK e : e = [pair[k] EXCEPT !.row = "revoked", !.spentBy = c]
      OBVIOUS
    <2>5. e \in Pair /\ e.row = "revoked" /\ e.spentBy = c
      BY <2>3, <2>4 DEF Pair
    <2>6. PICK spent : spent = [pair EXCEPT ![k] = e]
      OBVIOUS
    <2>7. /\ spent \in Seq(Pair) /\ Len(spent) = Len(pair)
          /\ \A j \in 1..Len(pair) : spent[j] = IF j = k THEN e ELSE pair[j]
      BY <1>0, <2>5, <2>6, ExceptSeq
    <2>8. pair' = Append(spent, NewPair)
      BY <2>2, <2>4, <2>6
    <2>9. /\ pair' \in Seq(Pair) /\ Len(pair') = n /\ pair'[n] = NewPair
          /\ \A j \in 1..Len(pair) : pair'[j] = IF j = k THEN e ELSE pair[j]
      BY <2>1, <2>7, <2>8, NewPairType, AppendProperties
    <2>10. /\ call' \in CallRows /\ call'[c].pc = "issued" /\ call'[c].pair = n
           /\ call'[c].token = call[c].token /\ call'[c].with = call[c].with
           /\ call'[c].wrong = call[c].wrong /\ call'[c].again = call[c].again
           /\ \A d \in Call : d # c => call'[d] = call[d]
      BY <1>0, <2>2, IssuedType
    <2>11. TypeInv'
      <3>1. op \in Accounts /\ late \subseteq Call
        BY <1>0 DEF TypeInv
      <3> QED
        BY <1>0, <2>9, <2>10, <3>1, TypesKept
    <2>12. Bounded'
      <3>1. /\ Bounded /\ Len(pair) <= n /\ call[c].token <= n
            /\ call[c].with \in Nat /\ call[c].with <= n
        BY <1>0, <2>1 DEF Inv, Bounded, CallRows, CallRow
      <3> QED
        BY <1>0, <2>1, <2>9, <2>10, <3>1, BoundedKept
    <2>13. PairInv'
      <3> SUFFICES ASSUME NEW j \in 1..Len(pair'), pair'[j].spentBy # None
                   PROVE  ~Unrevoked(pair'[j].row)
        BY DEF PairInv
      <3>1. CASE j = n
        BY <2>9, <3>1, NewPairType
      <3>2. CASE j = k
        BY <2>5, <2>9, <3>2 DEF Unrevoked
      <3>3. CASE j # n /\ j # k
        <4>1. j \in 1..Len(pair) /\ pair'[j] = pair[j]
          BY <2>1, <2>9, <3>3
        <4> QED
          BY <4>1 DEF Inv, PairInv
      <3> QED
        BY <3>1, <3>2, <3>3
    <2>14. pair[k].spentBy = None
      BY <1>3 DEF Inv, PairInv, Rotates
    <2>15. PairsStand
      BY <1>0, <2>1, <2>9, <2>14 DEF PairsStand
    <2>16. Wrongs' = Wrongs
      BY <2>10 DEF Wrongs
    <2>17. AccountInv'
      BY <1>0, <2>16 DEF Inv, AccountInv
    <2>18. FlightInv'
      BY <1>0, <2>10, FlightStands DEF Flying
    <2>19. c \notin late /\ pair'[call[c].token].spentBy = c
      BY <1>0, <1>1, <2>5, <2>9 DEF CallInv
    <2>20. CallInv(c)'
      BY <1>0, <2>10, <2>19 DEF CallInv, Unsent, Kind
    <2> QED
      BY <1>0, <2>10, <2>11, <2>12, <2>13, <2>15, <2>17, <2>18, <2>20, CallStep
  <1> QED
    BY <1>2, <1>3

LEMMA LoginGrantStep ==
  ASSUME Inv, NEW c \in Call, LoginGrant(c)
  PROVE  Inv'
  <1>0. /\ TypeInv /\ call \in CallRows /\ CallInv(c) /\ pair \in Seq(Pair) /\ Len(pair) \in Nat
        /\ call[c].pc = "grant" /\ Kind(c) = "login" /\ c \notin late /\ call[c].token = 0
        /\ op \in Accounts /\ AccountInv
        /\ UNCHANGED <<mem, store, flight, cmd, late>>
    BY DEF Inv, TypeInv, LoginGrant, CallInv
  <1>1. PICK n \in Nat : n = Len(pair) + 1
    BY <1>0
  <1>2. /\ pair' = Append(pair, NewPair) /\ op' = [op EXCEPT !.attempts = 0, !.locked = FALSE]
        /\ call' = [call EXCEPT ![c].pc = "issued", ![c].pair = n]
    BY <1>1 DEF LoginGrant
  <1>3. /\ pair' \in Seq(Pair) /\ Len(pair') = n /\ pair'[n] = NewPair
        /\ \A j \in 1..Len(pair) : pair'[j] = pair[j]
    BY <1>0, <1>1, <1>2, NewPairType, AppendProperties
  <1>4. /\ call' \in CallRows /\ call'[c].pc = "issued" /\ call'[c].pair = n
        /\ call'[c].token = call[c].token /\ call'[c].with = call[c].with
        /\ call'[c].wrong = call[c].wrong
        /\ \A d \in Call : d # c => call'[d] = call[d]
    BY <1>0, <1>2, IssuedType
  <1>5. op' \in Accounts /\ op'.active = op.active /\ op'.attempts = 0 /\ op'.locked = FALSE
    BY <1>0, <1>2, UnlockedType
  <1>6. TypeInv'
    <2>1. late \subseteq Call
      BY <1>0 DEF TypeInv
    <2> QED
      BY <1>0, <1>3, <1>4, <1>5, <2>1, TypesKept
  <1>7. Bounded'
    <2>1. /\ Bounded /\ Len(pair) <= n /\ 0 <= n
          /\ call[c].with \in Nat /\ call[c].with <= n
      BY <1>0, <1>1 DEF Inv, Bounded, CallRows, CallRow
    <2> QED
      BY <1>0, <1>1, <1>3, <1>4, <2>1, BoundedKept
  <1>8. PairInv'
    <2> SUFFICES ASSUME NEW j \in 1..Len(pair'), pair'[j].spentBy # None
                 PROVE  ~Unrevoked(pair'[j].row)
      BY DEF PairInv
    <2>1. j # n
      BY <1>3, NewPairType
    <2>2. j \in 1..Len(pair) /\ pair'[j] = pair[j]
      BY <1>0, <1>1, <1>3, <2>1
    <2> QED
      BY <2>2 DEF Inv, PairInv
  <1>9. PairsStand
    BY <1>0, <1>1, <1>3 DEF PairsStand
  <1>10. Wrongs' = Wrongs /\ Cardinality(Wrongs) \in Nat
    BY <1>4, WrongsCount DEF Wrongs
  <1>11. AccountInv'
    BY <1>0, <1>5, <1>10 DEF AccountInv
  <1>12. FlightInv'
    BY <1>0, <1>4, FlightStands
  <1>13. CallInv(c)'
    BY <1>0, <1>4 DEF CallInv, Unsent, Kind
  <1> QED
    BY <1>0, <1>4, <1>6, <1>7, <1>8, <1>9, <1>11, <1>12, <1>13, CallStep

LEMMA LoginReadStep ==
  ASSUME Inv, NEW c \in Call, LoginRead(c)
  PROVE  Inv'
  <1>0. /\ TypeInv /\ call \in CallRows /\ CallInv(c)
        /\ op \in Accounts /\ op.attempts \in 0..(Threshold - 1) /\ AccountInv /\ late \subseteq Call
        /\ call[c].pc = "idle" /\ Kind(c) = "login" /\ call[c].token = 0 /\ call[c].pair = 0
        /\ UNCHANGED <<op, pair, mem, store, flight, cmd>>
    BY DEF Inv, TypeInv, LoginRead, CallInv, Unsent, Accounts
  <1>1. PICK pc \in {"refused", "grant", "wrong"} :
          /\ call' = [call EXCEPT ![c].seen = op.attempts, ![c].pc = pc]
          /\ pc # "refused" => op.active
    BY DEF LoginRead, LetIn
  <1>2. late' = late \/ (~op.active /\ late' = late \cup {c})
    BY DEF LoginRead, Started
  <1>3. /\ call' \in CallRows /\ call'[c].pc = pc /\ call'[c].seen = op.attempts
        /\ call'[c].pair = 0 /\ call'[c].token = 0 /\ call'[c].with = call[c].with
        /\ call'[c].wrong = call[c].wrong
        /\ \A d \in Call : d # c => call'[d] = call[d]
    BY <1>0, <1>1 DEF CallRows, CallRow, Pcs
  <1>4. TypeInv'
    BY <1>0, <1>2, <1>3 DEF TypeInv
  <1>5. Bounded'
    BY <1>0, <1>3 DEF Inv, Bounded
  <1>6. Wrongs' = Wrongs /\ \A d \in Call : call'[d].wrong = call[d].wrong
    BY <1>3 DEF Wrongs
  <1>7. PairInv' /\ PairsStand /\ AccountInv' /\ late' \subseteq late \cup {c}
    BY <1>0, <1>2, <1>6, AccountStands
  <1>8. FlightInv'
    BY <1>0, <1>3, FlightStands
  <1>9. ~call[c].wrong /\ (pc # "refused" => c \notin late')
    BY <1>0, <1>1, <1>2 DEF CallInv, AccountInv
  <1>10. CallInv(c)'
    BY <1>0, <1>1, <1>3, <1>6, <1>9 DEF CallInv, Unsent, Kind, AccountInv
  <1> QED
    BY <1>0, <1>3, <1>4, <1>5, <1>6, <1>7, <1>8, <1>10, CallStep

\* One more attempt has failed than the row that was read counted.
LEMMA LoginWrongStep ==
  ASSUME Inv, NEW c \in Call, LoginWrong(c)
  PROVE  Inv'
  <1>0. /\ TypeInv /\ call \in CallRows /\ CallInv(c) /\ call[c].seen \in 0..(Threshold - 1)
        /\ op \in Accounts /\ AccountInv /\ Threshold \in Nat /\ Threshold > 0
        /\ call[c].pc = "wrong" /\ Kind(c) = "login" /\ call[c].token = 0 /\ ~call[c].wrong
        /\ call[c].pair = 0 /\ call[c].seen <= Cardinality(Wrongs)
        /\ UNCHANGED <<pair, mem, store, flight, cmd, late>>
    <2>1. /\ TypeInv /\ call \in CallRows /\ CallInv(c) /\ op \in Accounts /\ AccountInv
          /\ Threshold \in Nat /\ Threshold > 0
      BY SessionAssumption DEF Inv, TypeInv
    <2>2. call[c].pc = "wrong" /\ UNCHANGED <<pair, mem, store, flight, cmd, late>>
      BY DEF LoginWrong
    <2>3. call[c].seen \in 0..(Threshold - 1)
      BY <2>1 DEF CallRows, CallRow
    <2>4. /\ Kind(c) = "login" /\ call[c].token = 0 /\ call[c].pair = 0 /\ ~call[c].wrong
          /\ call[c].seen <= Cardinality(Wrongs)
      BY <2>1, <2>2 DEF CallInv, Unsent
    <2> QED
      BY <2>1, <2>2, <2>3, <2>4
  <1>1. PICK n \in Nat : n = call[c].seen + 1
    BY <1>0
  <1>2. /\ op' = [op EXCEPT !.attempts = IF Locks(n) THEN 0 ELSE n, !.locked = Locks(n)]
        /\ call' = [call EXCEPT ![c].pc = "refused", ![c].wrong = TRUE]
    BY <1>1 DEF LoginWrong
  <1>3. /\ call' \in CallRows /\ call'[c].pc = "refused" /\ call'[c].wrong
        /\ call'[c].pair = call[c].pair /\ call'[c].token = 0 /\ call'[c].with = call[c].with
        /\ \A d \in Call : d # c => call'[d] = call[d]
    BY <1>0, <1>2 DEF CallRows, CallRow, Pcs
  <1>4. /\ op' \in Accounts /\ op'.active = op.active
        /\ op'.attempts = IF n >= Threshold THEN 0 ELSE n
        /\ op'.locked <=> n >= Threshold
    <2>1. op \in Accounts /\ Threshold \in Nat /\ Threshold > 0
      BY <1>0
    <2>2. (IF Locks(n) THEN 0 ELSE n) \in 0..(Threshold - 1)
      BY <1>0 DEF Locks
    <2>3. Locks(n) = (n >= Threshold)
      BY DEF Locks
    <2>4. Locks(n) \in BOOLEAN
      BY <2>3
    <2>5. /\ op' \in Accounts /\ op'.active = op.active /\ op'.locked = Locks(n)
          /\ op'.attempts = IF Locks(n) THEN 0 ELSE n
      BY <1>2, <2>1, <2>2, <2>4, AttemptsType
    <2> QED
      BY <2>5 DEF Locks
  <1>5. Wrongs' = Wrongs \cup {c} /\ c \notin Wrongs
    BY <1>0, <1>3 DEF Wrongs
  <1>6. Cardinality(Wrongs') = Cardinality(Wrongs) + 1 /\ Cardinality(Wrongs) \in Nat
    <2>1. IsFiniteSet(Wrongs)
      BY SessionAssumption, FS_Subset DEF Wrongs
    <2> QED
      BY <1>5, <2>1, FS_AddElement, FS_CardinalityType
  <1>7. TypeInv'
    <2>1. late \subseteq Call /\ pair \in Seq(Pair)
      BY <1>0 DEF TypeInv
    <2> QED
      BY <1>0, <1>3, <1>4, <2>1, TypesKept
  <1>8. Bounded'
    BY <1>0, <1>3 DEF Inv, Bounded
  <1>9. AccountInv'
    <2>1. n <= Cardinality(Wrongs') /\ Cardinality(Wrongs') \in Nat
      BY <1>0, <1>1, <1>6
    <2>2. op'.attempts <= Cardinality(Wrongs')
      BY <1>1, <1>4, <2>1
    <2>3. op'.locked => Cardinality(Wrongs') >= Threshold
      BY <1>0, <1>1, <1>4, <2>1
    <2>4. op'.active => late' = {}
      BY <1>0, <1>4 DEF AccountInv
    <2> QED
      BY <2>2, <2>3, <2>4 DEF AccountInv
  <1>10. PairInv' /\ PairsStand
    BY <1>0 DEF Inv, TypeInv, PairInv, PairsStand
  <1>11. FlightInv'
    BY <1>0, <1>3, FlightStands
  <1>12. CallInv(c)'
    BY <1>0, <1>3 DEF CallInv, Unsent, Kind
  <1> QED
    BY <1>0, <1>3, <1>7, <1>8, <1>9, <1>10, <1>11, <1>12, CallStep

LEMMA ServerStep ==
  ASSUME Inv, NEW c \in Call, Server(c)
  PROVE  Inv'
  BY ServerReads, RefreshOperatorStep, RotateStep, LoginReadStep, LoginWrongStep, LoginGrantStep,
     RequestStep DEF Server

--------------------------------------------------------------------------------
\* Time, and the pages that are loaded again

\* The calls stay where they are, and nothing is said of who spent a token.
LEMMA TimeStep ==
  ASSUME Inv, Kept, UNCHANGED <<flight, cmd, call, late>>,
         mem' \in [Tab -> Nat], store' = store, \A t \in Tab : mem'[t] <= Len(pair),
         op' \in Accounts, op'.active = op.active, op'.attempts = op.attempts,
         op'.locked => op.locked
  PROVE  Inv'
  <1>1. TypeInv'
    BY DEF Inv, TypeInv, Kept
  <1>2. Bounded'
    BY DEF Inv, TypeInv, Bounded, Kept
  <1>3. PairInv'
    BY KeptPairs
  <1>4. Wrongs' = Wrongs
    BY DEF Wrongs
  <1>5. AccountInv'
    BY <1>4 DEF Inv, AccountInv
  <1>6. FlightInv'
    BY DEF Inv, FlightInv, Kind, TabOf
  <1>7. ASSUME NEW c \in Call PROVE CallInv(c)'
    <2>1. CallInv(c) /\ call[c].token \in Nat /\ call[c].token <= Len(pair) /\ Len(pair) \in Nat
      BY DEF Inv, TypeInv, Bounded, CallRows, CallRow
    <2>2. Kind(c)' = Kind(c) /\ Unsent(c)' = Unsent(c)
      BY DEF Kind, Unsent
    <2>3. call[c].token # 0 /\ call[c].pair # 0 => pair'[call[c].token].spentBy = c
      BY <2>1 DEF CallInv, Kept
    <2> QED
      BY <1>4, <2>1, <2>2, <2>3 DEF CallInv
  <1> QED
    BY <1>1, <1>2, <1>3, <1>5, <1>6, <1>7 DEF Inv

LEMMA ReloadStep ==
  ASSUME Inv, NEW t \in Tab, Reload(t)
  PROVE  Inv'
  <1>1. /\ mem' = [mem EXCEPT ![t] = store] /\ mem \in [Tab -> Nat] /\ store \in Nat /\ store <= Len(pair)
        /\ \A u \in Tab : mem[u] <= Len(pair)
        /\ op \in Accounts /\ UNCHANGED <<op, pair, store, flight, cmd, call, late>>
    BY DEF Inv, TypeInv, Bounded, Reload
  <1>2. mem' \in [Tab -> Nat] /\ \A u \in Tab : mem'[u] <= Len(pair)
    BY <1>1
  <1> QED
    BY <1>1, <1>2, SamePairs, TimeStep

LEMMA PairTimeStep ==
  ASSUME Inv, NEW k \in DOMAIN pair, AccessExpires(k) \/ TokenExpires(k) \/ Cleanup(k)
  PROVE  Inv'
  <1>0. /\ mem \in [Tab -> Nat] /\ \A u \in Tab : mem[u] <= Len(pair)
        /\ op \in Accounts /\ pair \in Seq(Pair) /\ k \in 1..Len(pair)
    BY LenProperties DEF Inv, TypeInv, Bounded
  <1>1. UNCHANGED <<op, mem, store, flight, cmd, call, late>>
    BY DEF AccessExpires, TokenExpires, Cleanup
  <1>2. pair[k] \in Pair
    BY <1>0, ElementOfSeq
  <1>3. Kept
    <2>1. CASE AccessExpires(k)
      <3>1. PICK e : e = [pair[k] EXCEPT !.fresh = FALSE]
        OBVIOUS
      <3>2. e \in Pair /\ e.spentBy = pair[k].spentBy /\ e.row = pair[k].row
        BY <1>2, <3>1 DEF Pair
      <3>3. pair' = [pair EXCEPT ![k] = e]
        BY <2>1, <3>1 DEF AccessExpires
      <3>4. /\ pair' \in Seq(Pair) /\ Len(pair') = Len(pair)
            /\ \A j \in 1..Len(pair) : pair'[j] = IF j = k THEN e ELSE pair[j]
        BY <1>0, <3>2, <3>3, ExceptSeq
      <3> QED
        BY <3>2, <3>4 DEF Kept
    <2>2. CASE TokenExpires(k)
      <3>1. pair' = [pair EXCEPT ![k].row = "expired"] /\ pair[k].row = "live"
        BY <2>2 DEF TokenExpires
      <3>2. ~Unrevoked(pair[k].row) => ~Unrevoked("expired")
        BY <3>1 DEF Unrevoked
      <3> QED
        BY <1>0, <3>1, <3>2, RowKept
    <2>3. CASE Cleanup(k)
      <3>1. pair' = [pair EXCEPT ![k].row = "deleted"]
        BY <2>3 DEF Cleanup
      <3>2. ~Unrevoked("deleted")
        BY DEF Unrevoked
      <3> QED
        BY <1>0, <3>1, <3>2, RowKept
    <2> QED
      BY <2>1, <2>2, <2>3
  <1> QED
    BY <1>0, <1>1, <1>3, TimeStep

LEMMA LockExpiresStep ==
  ASSUME Inv, LockExpires
  PROVE  Inv'
  <1>1. /\ op \in Accounts /\ op' = [op EXCEPT !.locked = FALSE]
        /\ mem \in [Tab -> Nat] /\ \A u \in Tab : mem[u] <= Len(pair)
        /\ UNCHANGED <<pair, mem, store, flight, cmd, call, late>>
    BY DEF Inv, TypeInv, Bounded, LockExpires
  <1>2. /\ op' \in Accounts /\ op'.active = op.active /\ op'.attempts = op.attempts
        /\ op'.locked = FALSE
    BY <1>1 DEF Accounts
  <1> QED
    BY <1>1, <1>2, SamePairs, TimeStep

--------------------------------------------------------------------------------
\* The invariant, and what it says

LEMMA InitInv ==
  ASSUME Init
  PROVE  Inv
  <1>1. /\ op \in Accounts /\ op.attempts = 0 /\ ~op.locked /\ op.active
    BY SessionAssumption DEF Init, Accounts
  <1>2. pair \in Seq(Pair) /\ Len(pair) = 1 /\ pair[1].spentBy = None
    BY NewPairType DEF Init
  <1>3. /\ call \in CallRows
        /\ \A c \in Call : /\ call[c].pc = "idle" /\ call[c].token = 0 /\ call[c].pair = 0
                           /\ call[c].with = 0 /\ ~call[c].wrong
    <2>1. Idle \in CallRow /\ Idle.pc = "idle" /\ Idle.token = 0 /\ Idle.pair = 0 /\ Idle.with = 0 /\ ~Idle.wrong
      BY SessionAssumption DEF Idle, CallRow, Pcs
    <2> QED
      BY <2>1 DEF Init, CallRows
  <1>4. cmd \in [Call -> Cmds]
    BY SessionAssumption DEF Init
  <1>5. TypeInv
    BY <1>1, <1>2, <1>3, <1>4 DEF Init, TypeInv
  <1>6. Bounded
    BY <1>2, <1>3 DEF Init, Bounded
  <1>7. PairInv
    <2>1. \A k \in 1..Len(pair) : k = 1
      BY <1>2
    <2> QED
      BY <1>2, <2>1 DEF PairInv
  <1>8. AccountInv
    <2>1. IsFiniteSet(Wrongs)
      BY SessionAssumption, FS_Subset DEF Wrongs
    <2>2. Cardinality(Wrongs) \in Nat
      BY <2>1, FS_CardinalityType
    <2> QED
      BY <1>1, <2>2 DEF Init, AccountInv
  <1>9. FlightInv
    <2>1. \A c \in Call : call[c].pc \notin Flying /\ call[c].pc # "joined"
      BY <1>3 DEF Flying
    <2>2. \A t \in Tab : flight[t] = None
      BY DEF Init
    <2> QED
      BY <2>1, <2>2 DEF FlightInv
  <1>10. \A c \in Call : CallInv(c)
    BY <1>3 DEF CallInv, Init
  <1> QED
    BY <1>5, <1>6, <1>7, <1>8, <1>9, <1>10 DEF Inv

LEMMA NextInv ==
  ASSUME Inv, [Next]_vars
  PROVE  Inv'
  <1>1. CASE UNCHANGED vars
    <2>1. /\ op \in Accounts /\ mem \in [Tab -> Nat]
          /\ \A u \in Tab : mem[u] <= Len(pair)
      BY DEF Inv, TypeInv, Bounded
    <2>2. /\ pair' = pair /\ mem' = mem /\ store' = store /\ op' = op
          /\ UNCHANGED <<flight, cmd, call, late>>
      BY <1>1 DEF vars
    <2>3. Kept
      BY <2>2, SamePairs
    <2>4. mem' \in [Tab -> Nat] /\ \A u \in Tab : mem'[u] <= Len(pair)
      BY <2>1, <2>2
    <2>5. /\ op' \in Accounts /\ op'.active = op.active /\ op'.attempts = op.attempts
          /\ (op'.locked => op.locked)
      BY <2>1, <2>2
    <2>6. UNCHANGED <<flight, cmd, call, late>> /\ store' = store
      BY <2>2
    <2> QED
      BY <2>3, <2>4, <2>5, <2>6, TimeStep
  <1>2. CASE Next
    BY <1>2, BrowserStep, ServerStep, ReloadStep, PairTimeStep, LockExpiresStep DEF Next
  <1> QED
    BY <1>1, <1>2

\* Inv holds in every reachable state, with any tabs, calls, threshold and bound
\* of the pairs: every step of the tabs, of the server and of time keeps it
\* (api.ts, login.ts, auth.ts, operators.ts, token-cleanup.ts).
THEOREM SessionInvariant == Spec => []Inv
  BY InitInv, NextInv, PTL DEF Spec

\* A token is exchanged only by being revoked, tabs hold pairs that were issued,
\* and the refresh a tab has in flight is its own (refresh, ensureRefresh).
THEOREM TabsAndTokensFit == Spec => []TypeOK
  <1>1. Inv => TypeOK
    <2> SUFFICES ASSUME Inv PROVE TypeOK
      OBVIOUS
    <2>1. /\ pair \in Seq(Pair) /\ DOMAIN pair = 1..Len(pair) /\ Len(pair) \in Nat
      BY LenProperties DEF Inv, TypeInv
    <2>2. ASSUME NEW k \in DOMAIN pair
          PROVE  /\ pair[k].row \in {"live", "expired", "revoked", "deleted"}
                 /\ pair[k].spentBy # None => ~Unrevoked(pair[k].row)
      <3>1. pair[k] \in Pair
        BY <2>1, ElementOfSeq
      <3> QED
        BY <2>1, <3>1 DEF Pair, Inv, PairInv
    <2>3. mem \in [Tab -> 0..Len(pair)] /\ store \in 0..Len(pair)
      BY <2>1 DEF Inv, TypeInv, Bounded
    <2>4. op \in Accounts
      BY DEF Inv, TypeInv
    <2>5. \A t \in Tab : flight[t] # None =>
             TabOf(flight[t]) = t /\ call[flight[t]].pc \in Flying
      BY DEF Inv, FlightInv
    <2>6. \A c \in Call : call[c].pc = "joined" => flight[TabOf(c)] # None
      <3> SUFFICES ASSUME NEW c \in Call, call[c].pc = "joined" PROVE flight[TabOf(c)] # None
        OBVIOUS
      <3> QED
        BY DEF Inv, FlightInv, CallInv
    <2> QED
      BY <2>2, <2>3, <2>4, <2>5, <2>6 DEF TypeOK, Accounts, Flying
  <1> QED
    BY <1>1, SessionInvariant, PTL

\* A refresh token is exchanged for a new pair once, whichever requests race on
\* it: the one that got the pair is in its row (refresh).
THEOREM TokensRotateOnce == Spec => []RotatedOnce
  <1>1. Inv => RotatedOnce
    BY DEF Inv, CallInv, RotatedOnce
  <1> QED
    BY <1>1, SessionInvariant, PTL

\* A login or a refresh sent after the deactivation gets no pair: it finds the
\* operator inactive, or the account is active again and nothing is late.
THEOREM NothingAfterDeactivation == Spec => []DeactivatedGetsNothing
  <1>1. Inv => DeactivatedGetsNothing
    BY DEF Inv, TypeInv, CallInv, DeactivatedGetsNothing
  <1> QED
    BY <1>1, SessionInvariant, PTL

\* The requests of a tab that go through apiFetch share one refresh: whoever
\* presents a token is the one in refreshInFlight (ensureRefresh).
THEOREM FetchesShareOneRefresh == Spec => []FetchesDoNotCollide
  <1>1. Inv => FetchesDoNotCollide
    BY DEF Inv, FlightInv, FetchesDoNotCollide, Collide, Renewing, Flying
  <1> QED
    BY <1>1, SessionInvariant, PTL

\* A lock is written only when Threshold attempts have failed, however the
\* attempts overlap (recordFailedAttempt, computeLockoutUpdate).
THEOREM LocksFollowFailures == Spec => []LocksAreEarned
  <1>1. Inv => LocksAreEarned
    BY DEF Inv, AccountInv, Wrongs, LocksAreEarned
  <1> QED
    BY <1>1, SessionInvariant, PTL
================================================================================
