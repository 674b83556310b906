-------------------------------- MODULE Sessions --------------------------------
(* The sessions of one operator: the account and its refresh tokens on the      *)
(* server (apps/api/src/services/login.ts, auth.ts, operators.ts) and the tabs  *)
(* of the console that hold, share, renew and lose them (apps/web/src/lib).     *)
(*                                                                              *)
(* A server step is one statement, or one transaction, with the code up to the  *)
(* next.  A step of a tab is the code between two awaits.  A pair is an access  *)
(* token with the refresh token it came with; time is a choice: an access       *)
(* token, a refresh token or a lock runs out at any moment.                     *)
EXTENDS Naturals, FiniteSets, Sequences, TLC

CONSTANTS Tab,        \* tabs of the operator's browser
          Call,       \* what is asked for during the behaviour
          None,       \* no call
          Scenes,     \* [cmd]: what each call is
          Threshold,  \* failed attempts that lock the account (5)
          MaxPairs    \* bound of the pairs issued

Kinds == {"fetch", "blob", "logout", "login", "revoke", "password", "delete", "update", "unlock"}
Cmds == [kind : Kinds, tab : Tab, password : {"old", "new"}, next : {"old", "new"}]

ASSUME SessionAssumption ==
  /\ Threshold \in Nat \ {0}
  /\ MaxPairs \in Nat
  /\ IsFiniteSet(Call) /\ None \notin Call
  /\ Scenes \subseteq [Call -> Cmds]

VARIABLES op,      \* the row of operators
          pair,    \* the pairs issued: a sequence, with the row of refresh_tokens
          mem,     \* the pair each tab has in its module scope, 0 if none
          store,   \* the pair in localStorage, which the tabs share
          flight,  \* refreshInFlight of each tab: the call that renews, or None
          cmd,     \* what each call is, fixed
          call,    \* progress of each call
          late      \* history: calls begun since the operator was deactivated

vars == <<op, pair, mem, store, flight, cmd, call, late>>

NewPair == [row |-> "live", fresh |-> TRUE, spentBy |-> None]
Idle == [pc |-> "idle", with |-> 0, again |-> FALSE, token |-> 0, pair |-> 0,
         seen |-> 0, wrong |-> FALSE]
Ended == {"ok", "refused", "login"}

------------------------------------------------------------------------------
\* Helpers

Kind(c) == cmd[c].kind
TabOf(c) == cmd[c].tab
Goto(c, pc) == call' = [call EXCEPT ![c].pc = pc]
Started(c) == late' = IF op.active THEN late ELSE late \cup {c}
\* Rows: live; expired and not revoked; revoked; deleted
Unrevoked(row) == row \in {"live", "expired"}
Revoked(row) == IF Unrevoked(row) THEN "revoked" ELSE row

\* Those who wait for the refresh of c: with apiFetch, the calls of its tab
Sharing(c) ==
  {c} \cup (IF flight[TabOf(c)] = c
            THEN {d \in Call : call[d].pc = "joined" /\ TabOf(d) = TabOf(c)} ELSE {})
NeverLanded(c) == flight   \* mutant: refreshInFlight is not reset
Landed(c) == [flight EXCEPT ![TabOf(c)] = IF @ = c THEN None ELSE @]

\* setAccessToken and setRefreshToken write the module and localStorage
Hold(t, k) == mem' = [mem EXCEPT ![t] = k] /\ store' = k

\* clearAccessToken, then /login?expired=1
SignedOut(c) ==
  /\ Hold(TabOf(c), 0)
  /\ flight' = Landed(c)
  /\ call' = [d \in Call |-> IF d \in Sharing(c) THEN [call[d] EXCEPT !.pc = "login"] ELSE call[d]]

------------------------------------------------------------------------------
\* apiFetch and apiFetchBlob

\* The request leaves with the access token of the moment.
Send(c) ==
  /\ Kind(c) \in {"fetch", "blob"} /\ call[c].pc \in {"idle", "retry"}
  /\ call' = [call EXCEPT ![c] = [@ EXCEPT !.pc = "sent", !.with = mem[TabOf(c)],
                                           !.again = call[c].pc = "retry"]]
  /\ UNCHANGED <<op, pair, mem, store, flight, cmd, late>>

Authorized(c) == call[c].with # 0 /\ pair[call[c].with].fresh

Answered(c) ==
  /\ call[c].pc = "sent" /\ Authorized(c)
  /\ Goto(c, "ok")
  /\ UNCHANGED <<op, pair, mem, store, flight, cmd, late>>

\* A second 401 ends the session.
RefusedAgain(c) ==
  /\ call[c].pc = "sent" /\ ~Authorized(c) /\ call[c].again
  /\ SignedOut(c)
  /\ UNCHANGED <<op, pair, cmd, late>>

NotShared(c) == FALSE   \* mutant: ensureRefresh does not look for a refresh in flight

\* ensureRefresh; apiFetchBlob calls refreshAccessToken itself
Joins(c) == Kind(c) = "fetch" /\ flight[TabOf(c)] # None

Join(c) ==
  /\ call[c].pc = "sent" /\ ~Authorized(c) /\ ~call[c].again
  /\ Joins(c)
  /\ Goto(c, "joined")
  /\ UNCHANGED <<op, pair, mem, store, flight, cmd, late>>

\* refreshAccessToken up to its fetch
Refresh(c) ==
  LET k == mem[TabOf(c)] IN
  /\ call[c].pc = "sent" /\ ~Authorized(c) /\ ~call[c].again
  /\ ~Joins(c)
  /\ IF k = 0
     THEN SignedOut(c) /\ UNCHANGED late
     ELSE /\ call' = [call EXCEPT ![c].pc = "find", ![c].token = k]
          /\ flight' = IF Kind(c) = "fetch" THEN [flight EXCEPT ![TabOf(c)] = c] ELSE flight
          /\ Started(c)
          /\ UNCHANGED <<mem, store>>
  /\ UNCHANGED <<op, pair, cmd>>

------------------------------------------------------------------------------
\* POST /auth/refresh

\* findActiveRefreshToken
RefreshFind(c) ==
  LET k == call[c].token IN
  /\ call[c].pc = "find"
  /\ Goto(c, IF pair[k].row = "live" THEN "operator" ELSE "denied")
  /\ UNCHANGED <<op, pair, mem, store, flight, cmd, late>>

AlwaysIn == TRUE   \* mutant: the operator is looked up without is_active
LetIn == op.active

RefreshOperator(c) ==
  LET k == call[c].token IN
  /\ call[c].pc = "operator"
  /\ IF LetIn
     THEN Goto(c, "rotate") /\ UNCHANGED pair
     ELSE /\ Goto(c, "denied")
          /\ pair' = [pair EXCEPT ![k].row = Revoked(@)]
  /\ UNCHANGED <<op, mem, store, flight, cmd, late>>

RotatesAnyway(k) == pair[k].row # "deleted"   \* mutant: revoked_at is not in the WHERE
Rotates(k) == Unrevoked(pair[k].row)

\* One transaction: revoke the token if it is not, insert the next
RefreshRotate(c) ==
  LET k == call[c].token IN
  /\ call[c].pc = "rotate"
  /\ IF Rotates(k)
     THEN /\ Len(pair) < MaxPairs
          /\ pair' = Append([pair EXCEPT ![k].row = "revoked", ![k].spentBy = c], NewPair)
          /\ call' = [call EXCEPT ![c].pc = "issued", ![c].pair = Len(pair) + 1]
     ELSE Goto(c, "denied") /\ UNCHANGED pair
  /\ UNCHANGED <<op, mem, store, flight, cmd, late>>

------------------------------------------------------------------------------
\* Back in the tab

\* The pair is kept, and syncDataStewardPermission asks for the permissions.
Issued(c) ==
  /\ call[c].pc = "issued"
  /\ Hold(TabOf(c), call[c].pair)
  /\ Goto(c, "sync")
  /\ UNCHANGED <<op, pair, flight, cmd, late>>

\* Its answer writes the tab's state to localStorage again.  A profile dropped
\* meanwhile makes it throw.  refreshInFlight is reset after it.
Synced(c) ==
  LET t == TabOf(c) IN
  /\ call[c].pc = "sync"
  /\ IF mem[t] # 0
     THEN /\ store' = mem[t]
          /\ flight' = Landed(c)
          /\ call' = [d \in Call |->
               IF d \in Sharing(c)
               THEN [call[d] EXCEPT !.pc = IF Kind(d) = "login" THEN "ok" ELSE "retry"] ELSE call[d]]
          /\ UNCHANGED mem
     ELSE IF Kind(c) = "login"
          THEN Goto(c, "refused") /\ UNCHANGED <<mem, store, flight>>
          ELSE SignedOut(c)
  /\ UNCHANGED <<op, pair, cmd, late>>

\* The refresh is refused, or no answer comes: apiFetch and apiFetchBlob clear.
Denied(c) ==
  /\ call[c].pc = "denied"
  /\ SignedOut(c)
  /\ UNCHANGED <<op, pair, cmd, late>>

AnswerLost(c) ==
  /\ Kind(c) \in {"fetch", "blob"}
  /\ call[c].pc \in {"find", "issued"}
  /\ SignedOut(c)
  /\ UNCHANGED <<op, pair, cmd, late>>

\* logout() of the console: the request carries no Authorization header, so
\* requireAuth refuses it; the tab clears whatever the answer is.
Leave(c) ==
  /\ Kind(c) = "logout" /\ call[c].pc = "idle"
  /\ Goto(c, "leaving")
  /\ UNCHANGED <<op, pair, mem, store, flight, cmd, late>>

Left(c) ==
  /\ call[c].pc = "leaving"
  /\ Hold(TabOf(c), 0)
  /\ Goto(c, "ok")
  /\ UNCHANGED <<op, pair, flight, cmd, late>>

\* The page is loaded again, with nothing on its way, and reads localStorage.
Reload(t) ==
  /\ mem[t] # store
  /\ \A c \in Call : TabOf(c) = t => call[c].pc \in Ended \cup {"idle"}
  /\ mem' = [mem EXCEPT ![t] = store]
  /\ UNCHANGED <<op, pair, store, flight, cmd, call, late>>

------------------------------------------------------------------------------
\* POST /auth/login

\* One SELECT, the checks of the row it returned and of the password
LoginRead(c) ==
  /\ Kind(c) = "login" /\ call[c].pc = "idle"
  /\ call' = [call EXCEPT ![c].seen = op.attempts,
                          ![c].pc = IF ~LetIn \/ op.locked THEN "refused"
                                    ELSE IF cmd[c].password = op.password THEN "grant" ELSE "wrong"]
  /\ Started(c)
  /\ UNCHANGED <<op, pair, mem, store, flight, cmd>>

EarlyLock(n) == n + 1 >= Threshold   \* mutant: the attempt is counted twice
Locks(n) == n >= Threshold

\* recordFailedAttempt writes what the row read before says, lock included.
LoginWrong(c) ==
  LET n == call[c].seen + 1 IN
  /\ call[c].pc = "wrong"
  /\ op' = [op EXCEPT !.attempts = IF Locks(n) THEN 0 ELSE n, !.locked = Locks(n)]
  /\ call' = [call EXCEPT ![c].pc = "refused", ![c].wrong = TRUE]
  /\ UNCHANGED <<pair, mem, store, flight, cmd, late>>

LoginGrant(c) ==
  /\ call[c].pc = "grant"
  /\ Len(pair) < MaxPairs
  /\ pair' = Append(pair, NewPair)
  /\ op' = [op EXCEPT !.attempts = 0, !.locked = FALSE]
  /\ call' = [call EXCEPT ![c].pc = "issued", ![c].pair = Len(pair) + 1]
  /\ UNCHANGED <<mem, store, flight, cmd, late>>

------------------------------------------------------------------------------
\* The other requests on the account

\* POST /auth/logout with an access token
Revoke(c) ==
  /\ Kind(c) = "revoke" /\ call[c].pc = "idle"
  /\ \E k \in DOMAIN pair : pair' = [pair EXCEPT ![k].row = Revoked(@)]
  /\ Goto(c, "ok")
  /\ UNCHANGED <<op, mem, store, flight, cmd, late>>

PasswordRead(c) ==
  /\ Kind(c) = "password" /\ call[c].pc = "idle"
  /\ Goto(c, IF cmd[c].password = op.password THEN "rewrite" ELSE "refused")
  /\ UNCHANGED <<op, pair, mem, store, flight, cmd, late>>

PasswordWrite(c) ==
  /\ call[c].pc = "rewrite"
  /\ op' = [op EXCEPT !.password = cmd[c].next]
  /\ Goto(c, "ok")
  /\ UNCHANGED <<pair, mem, store, flight, cmd, late>>

\* softDeleteOperator: two statements
Deactivate(c) ==
  /\ Kind(c) = "delete" /\ call[c].pc = "idle"
  /\ op' = [op EXCEPT !.active = FALSE]
  /\ Goto(c, "revokeAll")
  /\ UNCHANGED <<pair, mem, store, flight, cmd, late>>

RevokeAll(c) ==
  /\ call[c].pc = "revokeAll"
  /\ pair' = [k \in DOMAIN pair |-> [pair[k] EXCEPT !.row = Revoked(@)]]
  /\ Goto(c, "ok")
  /\ UNCHANGED <<op, mem, store, flight, cmd, late>>

\* updateOperator with isActive, which leaves the tokens alone
Update(c) ==
  /\ Kind(c) = "update" /\ call[c].pc = "idle"
  /\ op' = [op EXCEPT !.active = ~op.active]
  /\ late' = IF op.active THEN late ELSE {}
  /\ Goto(c, "ok")
  /\ UNCHANGED <<pair, mem, store, flight, cmd>>

Unlock(c) ==
  /\ Kind(c) = "unlock" /\ call[c].pc = "idle"
  /\ op' = [op EXCEPT !.attempts = 0, !.locked = FALSE]
  /\ Goto(c, "ok")
  /\ UNCHANGED <<pair, mem, store, flight, cmd, late>>

------------------------------------------------------------------------------
\* Time, and the token-cleanup job

AccessExpires(k) ==
  /\ pair[k].fresh
  /\ pair' = [pair EXCEPT ![k].fresh = FALSE]
  /\ UNCHANGED <<op, mem, store, flight, cmd, call, late>>

TokenExpires(k) ==
  /\ ~pair[k].fresh /\ pair[k].row = "live"
  /\ pair' = [pair EXCEPT ![k].row = "expired"]
  /\ UNCHANGED <<op, mem, store, flight, cmd, call, late>>

LockExpires ==
  /\ op.locked
  /\ op' = [op EXCEPT !.locked = FALSE]
  /\ UNCHANGED <<pair, mem, store, flight, cmd, call, late>>

\* A row whose expiry is a week gone, revoked or not
Cleanup(k) ==
  /\ ~pair[k].fresh /\ pair[k].row \in {"expired", "revoked"}
  /\ pair' = [pair EXCEPT ![k].row = "deleted"]
  /\ UNCHANGED <<op, mem, store, flight, cmd, call, late>>

------------------------------------------------------------------------------
\* Every tab has been opened on the session that was signed in.
Init ==
  /\ op = [active |-> TRUE, attempts |-> 0, locked |-> FALSE, password |-> "old"]
  /\ pair = <<NewPair>>
  /\ mem = [t \in Tab |-> 1]
  /\ store = 1
  /\ flight = [t \in Tab |-> None]
  /\ cmd \in Scenes
  /\ call = [c \in Call |-> Idle]
  /\ late = {}

Browser(c) ==
  \/ Send(c) \/ Answered(c) \/ RefusedAgain(c) \/ Join(c) \/ Refresh(c)
  \/ Issued(c) \/ Synced(c) \/ Denied(c) \/ AnswerLost(c) \/ Leave(c) \/ Left(c)

Server(c) ==
  \/ RefreshFind(c) \/ RefreshOperator(c) \/ RefreshRotate(c)
  \/ LoginRead(c) \/ LoginWrong(c) \/ LoginGrant(c)
  \/ Revoke(c) \/ PasswordRead(c) \/ PasswordWrite(c)
  \/ Deactivate(c) \/ RevokeAll(c) \/ Update(c) \/ Unlock(c)

Next ==
  \/ \E c \in Call : Browser(c) \/ Server(c)
  \/ \E t \in Tab : Reload(t)
  \/ \E k \in DOMAIN pair : AccessExpires(k) \/ TokenExpires(k) \/ Cleanup(k)
  \/ LockExpires

Spec == Init /\ [][Next]_vars
------------------------------------------------------------------------------
\* Properties

\* The rows of the tokens and the tabs fit together: a token is exchanged only
\* by being revoked, tabs hold pairs that were issued, and the refresh a tab has
\* in flight is one of its own that is on its way (refresh, ensureRefresh).
TypeOK ==
  /\ op \in [active : BOOLEAN, attempts : 0..(Threshold - 1), locked : BOOLEAN,
             password : {"old", "new"}]
  /\ \A k \in DOMAIN pair :
       /\ pair[k].row \in {"live", "expired", "revoked", "deleted"}
       /\ pair[k].spentBy # None => ~Unrevoked(pair[k].row)
  /\ mem \in [Tab -> 0..Len(pair)] /\ store \in 0..Len(pair)
  /\ \A t \in Tab : flight[t] # None =>
       /\ TabOf(flight[t]) = t
       /\ call[flight[t]].pc \in {"find", "operator", "rotate", "issued", "denied", "sync"}
  /\ \A c \in Call : call[c].pc = "joined" => flight[TabOf(c)] # None

\* "Two callers racing on the same token see one success and one TOKEN_INVALID":
\* a refresh token is exchanged for a new pair once (refresh).
RotatedOnce ==
  \A c, d \in Call :
    c # d /\ call[c].token # 0 /\ call[c].token = call[d].token
    => call[c].pair = 0 \/ call[d].pair = 0

\* Nobody gets a pair by a login or a refresh sent after the operator was
\* deactivated, although the two statements of softDeleteOperator leave a window
\* and updateOperator revokes no token (login, refresh).
DeactivatedGetsNothing == \A c \in late : call[c].pair = 0

\* Two requests of a tab present the same token at the same time: one of them
\* will be refused, and clear the session the other has renewed.
Renewing(c) == call[c].pc \in {"find", "operator", "rotate", "issued", "denied"}
Collide(c, d) ==
  /\ c # d /\ TabOf(c) = TabOf(d)
  /\ Renewing(c) /\ Renewing(d)
  /\ call[c].token = call[d].token

\* "When N concurrent requests 401, only ONE refresh request is issued": the
\* requests of a tab that go through apiFetch never collide (ensureRefresh).
FetchesDoNotCollide ==
  \A c, d \in Call : Kind(c) = "fetch" /\ Kind(d) = "fetch" => ~Collide(c, d)

\* The same of every request of a tab: apiFetchBlob has "the same auth +
\* single-flight refresh logic as apiFetch" (apps/web/src/lib/api.ts).
RefreshesDoNotCollide ==
  \A c, d \in Call : {Kind(c), Kind(d)} \subseteq {"fetch", "blob"} => ~Collide(c, d)

\* The account is locked only when as many attempts as it takes have failed,
\* whatever attempts overlap and write over each other (computeLockoutUpdate).
LocksAreEarned ==
  op.locked => Cardinality({c \in Call : call[c].wrong}) >= Threshold
================================================================================
