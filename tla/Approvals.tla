------------------------------- MODULE Approvals -------------------------------
(* The life of a row of approval_tokens: the requests for a condonation or for *)
(* community work that Treasury decides (packages/approval/src/service.ts,     *)
(* apps/api/src/routes/approval.ts), the single-use links a second person      *)
(* answers, the queue Treasury reads page by page, and the nightly cleanup.    *)
(*                                                                             *)
(* A step is one statement with the code up to the next one.  What a           *)
(* transaction has written is in call[c].work until it commits; until then it  *)
(* holds the row, and whoever updates the row waits.                           *)
EXTENDS Agreements, Sequences

CONSTANTS Id,         \* ids of rows; a uuid has no order in time, any is drawn
          Scenes,     \* [store, deals, cmd, walk]: rows and agreements that exist, what each
                      \*   call asks for, and the type of the queue that is read, if one is
          Life,       \* expiry of a request (48 hours), in units of the clock
          LinkLives,  \* expiries a link may be given
          Retention,  \* units after which the cleanup takes a row (30 days)
          PageSize,   \* rows in a page of the queue
          MaxTime     \* bound of the clock

ASSUME BoundsAssumption ==
  /\ Id \subseteq Nat
  /\ PageSize \in Nat \ {0}
  /\ {Life, Retention} \subseteq Nat /\ MaxTime \in Nat \ {0}
  /\ LinkLives \subseteq Nat

VARIABLES now,    \* the clock of the host
          rows,   \* approval_tokens: [id -> Row], committed
          gone,   \* ids of deleted rows: a uuid does not come back
          walk    \* an operator paging through the queue

vars == <<now, rows, gone, cmd, call, walk, debts>>

tables == <<now, rows, gone, cmd, walk, debts>>

Nobody == "nobody"
Requests == {"condonation", "community"}

\* A row as these calls leave it, at some time: decided exactly when somebody
\* decided it, never by its requester, used only when it was approved, and about
\* the obligation of the agreement it was asked under.
IsRow(row) ==
  row = [type |-> row.type, by |-> row.by, key |-> row.key, content |-> row.content,
         deal |-> row.deal, created |-> row.created, expires |-> row.expires,
         status |-> row.status, decider |-> row.decider, grounds |-> row.grounds,
         session |-> row.session, used |-> row.used]
Written(row, time, deals) ==
  /\ IsRow(row) /\ row.type \in Requests \cup {"link"}
  /\ row.created \in 0..time /\ row.used \in 0..time /\ row.expires \in Nat
  /\ row.type \in Requests =>
       /\ (row.status = "pending") <=> (row.decider = Nobody)
       /\ row.decider # row.by /\ row.content.about # NoDebt
       /\ row.used # NotYet => row.status = "approved"
       /\ row.deal # NoDeal => row.deal \in DOMAIN deals /\ deals[row.deal].about = row.content.about
SameAsked(a, b) ==
  a.type \in Requests /\ a.type = b.type /\ a.by = b.by /\ a.key = b.key /\ a.content = b.content

\* What a call asks is authenticated and validated (the schemas of routes/approval.ts),
\* and what it finds was written by earlier calls.
ASSUME ScenesAssumption ==
  \A scene \in Scenes :
    /\ \A c \in Call :
         /\ scene.cmd[c].by # Nobody /\ scene.cmd[c].type \in Requests
         /\ scene.cmd[c].decision \in {"approved", "rejected"}
         /\ scene.cmd[c].content.about # NoDebt
    /\ Lineage(scene.deals)
    /\ DOMAIN scene.store \subseteq Id /\ IsFiniteSet(DOMAIN scene.store)
    /\ \A i \in DOMAIN scene.store : Written(scene.store[i], 1, scene.deals)
    /\ \A i, j \in DOMAIN scene.store : SameAsked(scene.store[i], scene.store[j]) => i = j

NoWalk == [type |-> "none", pc |-> "idle", cursor |-> <<>>, seen |-> <<>>, due |-> {}]

------------------------------------------------------------------------------
\* Helpers

RowsOf(type) == {i \in DOMAIN rows : rows[i].type = type}
NewIds == Id \ (DOMAIN rows \cup gone \cup {call[d].id : d \in {e \in Call : call[e].work # NoWork}})
Busy(i) == \E c \in Call : call[c].work # NoWork /\ call[c].id = i
Expired(row) == row.expires <= now

\* findCondonationRequest, findCommunityWorkRequest
Found(c) == {i \in RowsOf(cmd[c].type) : rows[i].by = cmd[c].by /\ rows[i].key = cmd[c].key}

ExactByActor(row, c) == row.decider = cmd[c].by   \* mutant: any decision of the caller is the one asked for

\* isExactDecision, isExactCommunityWorkDecision
Exact(row, c) ==
  /\ row.status = cmd[c].decision
  /\ row.decider = cmd[c].by
  /\ row.grounds = cmd[c].grounds
  /\ row.type = "community" => row.session = cmd[c].session

\* The row as inserted.  created_at is the start of the transaction.
Fresh(c, type, expires) ==
  [type |-> type, by |-> cmd[c].by, key |-> cmd[c].key, content |-> cmd[c].content,
   deal |-> cmd[c].deal, created |-> call[c].begun, expires |-> expires, status |-> "pending",
   decider |-> Nobody, grounds |-> "none", session |-> "none", used |-> NotYet]

\* sameSnapshot, the agreement of the body and the fingerprint
SameRequest(row, c) == row.content = cmd[c].content /\ row.deal = cmd[c].deal

\* The obligation a creation or an execution is about
About(c) == IF Kind(c) = "execute" THEN call[c].work.content.about ELSE cmd[c].content.about

\* selectFullOutstanding: the balance is the one of the statement's snapshot, and
\* the lock that CreateLock and ExecuteDebt wait for comes after it.
Select(c) ==
  /\ call[c].pc = "select"
  /\ call' = [call EXCEPT ![c] = [@ EXCEPT !.pc = "wait", !.owed = Owing(About(c))]]
  /\ UNCHANGED tables

------------------------------------------------------------------------------
\* POST /condonation-requests and /community-work-requests

\* The route looks for an earlier request under the key.
CreateFind(c) ==
  /\ Kind(c) = "create" /\ call[c].pc = "idle"
  /\ IF Found(c) = {}
     THEN call' = [call EXCEPT ![c] = [@ EXCEPT !.pc = "select", !.begun = now]]
     ELSE \E i \in Found(c) : Finish(c, IF SameRequest(rows[i], c) THEN "ok" ELSE "refused", i)
  /\ UNCHANGED tables

CreateUnlocked(c) ==   \* mutant: the selection does not lock
  /\ Kind(c) = "create" /\ call[c].pc = "wait"
  /\ IF call[c].owed THEN Goto(c, "capture") ELSE Refuse(c)
  /\ UNCHANGED tables

\* The obligation stays locked until the transaction ends.
CreateLock(c) ==
  /\ Kind(c) = "create" /\ call[c].pc = "wait"
  /\ DebtIsFree(About(c))
  /\ IF call[c].owed THEN LockDebt(c, About(c), "capture") ELSE Refuse(c)
  /\ UNCHANGED tables

\* findActiveCommunityWorkAgreement: the agreement named by the request is the
\* active one of its obligation.
CreateCapture(c) ==
  /\ call[c].pc = "capture"
  /\ IF cmd[c].deal \in {NoDeal} \cup ActiveDeals(About(c)) THEN Goto(c, "find") ELSE Refuse(c)
  /\ UNCHANGED tables

\* The service looks again.  The fingerprint of a community request contains a
\* key drawn by this call, so it differs from that of any row found only now.
CreateFindAgain(c) ==
  /\ call[c].pc = "find"
  /\ IF Found(c) = {}
     THEN Goto(c, "insert")
     ELSE \E i \in Found(c) :
            Finish(c, IF cmd[c].type = "condonation" /\ SameRequest(rows[i], c)
                      THEN "ok" ELSE "refused", i)
  /\ UNCHANGED tables

\* Migration 0063: one condonation request per requester and key.  An insert
\* waits for an uncommitted one with the same key.
KeyIsIndexed(type) == type = "condonation"
SameKey(c, row) ==
  /\ KeyIsIndexed(cmd[c].type)
  /\ row.type = cmd[c].type /\ row.by = cmd[c].by /\ row.key = cmd[c].key

\* A refused insert (23505) has aborted the transaction it ran in: the look-up
\* of the recovery fails, and with it the call.
CreateInsert(c) ==
  /\ call[c].pc = "insert"
  /\ ~ \E d \in Call \ {c} : call[d].work # NoWork /\ SameKey(c, call[d].work)
  /\ IF \E i \in DOMAIN rows : SameKey(c, rows[i])
     THEN Finish(c, "refused", 0)
     ELSE \E i \in NewIds :
            call' = [call EXCEPT ![c] = [@ EXCEPT !.pc = "commit", !.id = i,
                                                     !.work = Fresh(c, cmd[c].type, now + Life)]]
  /\ UNCHANGED tables

------------------------------------------------------------------------------
\* POST .../:id/decision

DecideRead(c) ==
  /\ Kind(c) = "decide" /\ call[c].pc = "idle"
  /\ \E i \in RowsOf(cmd[c].type) :
       IF \/ rows[i].by = cmd[c].by
          \/ rows[i].status # "pending" /\ ~Exact(rows[i], c)
          \/ rows[i].status = "pending" /\ Expired(rows[i])
       THEN Finish(c, "refused", i)
       ELSE IF rows[i].status # "pending"
            THEN Finish(c, "ok", i)
            ELSE call' = [call EXCEPT ![c] = [@ EXCEPT !.pc = "update", !.id = i, !.begun = now]]
  /\ UNCHANGED tables

DecideAgain(i, c) == rows[i].expires > call[c].begun   \* mutant: status and used_at are not in the WHERE

\* UPDATE ... WHERE status = 'pending' AND used_at IS NULL AND expires_at > decisionAt,
\* evaluated on the row as committed once the row is free
StillPending(i, c) ==
  /\ rows[i].status = "pending"
  /\ rows[i].used = NotYet
  /\ rows[i].expires > call[c].begun

Decided(row, c) ==
  [row EXCEPT !.status = cmd[c].decision, !.decider = cmd[c].by, !.grounds = cmd[c].grounds,
              !.session = IF row.type = "community" THEN cmd[c].session ELSE row.session]

DecideUpdate(c) ==
  LET i == call[c].id IN
  /\ call[c].pc = "update"
  /\ ~Busy(i)
  /\ IF i \in DOMAIN rows /\ StillPending(i, c)
     THEN call' = [call EXCEPT ![c] = [@ EXCEPT !.pc = "commit", !.work = Decided(rows[i], c)]]
     ELSE Goto(c, "reread")
  /\ UNCHANGED tables

\* The race was lost: the row that won is the answer if it says the same.
DecideReread(c) ==
  LET i == call[c].id IN
  /\ call[c].pc = "reread"
  /\ Finish(c, IF i \in DOMAIN rows /\ Exact(rows[i], c) THEN "ok" ELSE "refused", i)
  /\ UNCHANGED tables

------------------------------------------------------------------------------
\* POST .../:id/execution: the row of the approval, the agreement it was asked
\* under, the obligation, in this order (a revision locks the obligation before
\* the agreement: each may wait for the other, until PostgreSQL fails one).
\* How the debt is extinguished, statement by statement, is in DuesLedger.

Executable(row, c) ==
  /\ row.status = "approved" /\ row.used = NotYet
  /\ ~Expired(row)
  /\ row.decider = cmd[c].by

\* The receipt of an earlier execution is the answer: of a condonation, to the
\* one who made it; of community work, to whoever asks.
Replayed(row, c) ==
  row.used # NotYet /\ (row.type = "condonation" => row.decider = cmd[c].by)

ExecuteLock(c) ==
  /\ Kind(c) = "execute" /\ call[c].pc = "idle"
  /\ \E i \in RowsOf(cmd[c].type) :
       /\ ~Busy(i)
       /\ IF Executable(rows[i], c)
          THEN call' = [call EXCEPT ![c] = [@ EXCEPT !.pc = "agreement", !.id = i,
                                                      !.work = [rows[i] EXCEPT !.used = now]]]
          ELSE Finish(c, IF Replayed(rows[i], c) THEN "ok" ELSE "refused", i)
  /\ UNCHANGED tables

ExecuteAgreementRead(c) ==   \* mutant: the agreement is read without FOR UPDATE
  LET i == call[c].work.deal IN
  /\ call[c].pc = "agreement"
  /\ IF i = NoDeal \/ agreement[i].status = "ACTIVE" THEN Goto(c, "select") ELSE Refuse(c)
  /\ UNCHANGED tables

\* lockAgreement: WHERE status = 'ACTIVE' is evaluated on the row as it is once
\* it is free.
ExecuteAgreement(c) ==
  LET i == call[c].work.deal IN
  /\ call[c].pc = "agreement"
  /\ IF i = NoDeal THEN Goto(c, "select")
     ELSE /\ DealIsFree(i)
          /\ IF agreement[i].status = "ACTIVE" THEN LockDeal(c, i, "select") ELSE Refuse(c)
  /\ UNCHANGED tables

\* Community work allocates a settlement, which reads the balance under the lock;
\* a condonation is content with the balance it selected.
ExecuteDebt(c) ==
  /\ Kind(c) = "execute" /\ call[c].pc = "wait"
  /\ DebtIsFree(About(c))
  /\ IF call[c].owed /\ (cmd[c].type = "community" => Owing(About(c)))
     THEN LockDebt(c, About(c), "commit")
     ELSE Refuse(c)
  /\ UNCHANGED tables

------------------------------------------------------------------------------
\* The audit event and the commit, or any statement of the transaction fails

Commit(c) ==
  LET settled(type) == IF Kind(c) = "execute" /\ cmd[c].type = type THEN {About(c)} ELSE {} IN
  /\ call[c].pc = "commit"
  /\ rows' = With(rows, call[c].id, call[c].work)
  /\ paid' = paid \cup settled("community")
  /\ condoned' = condoned \cup settled("condonation")
  /\ Finish(c, "ok", call[c].id)
  /\ UNCHANGED <<now, gone, cmd, walk, agreement>>

Rollback(c) ==
  /\ Running(c) /\ Kind(c) # "answer"
  /\ Refuse(c)
  /\ UNCHANGED tables

------------------------------------------------------------------------------
\* Links: POST /internal/approval-links and POST /approval/:token, outside any
\* transaction

Mint(c) ==
  /\ Kind(c) = "mint" /\ call[c].pc = "idle"
  /\ \E i \in NewIds, life \in LinkLives :
       /\ rows' = With(rows, i, [Fresh(c, "link", now + life) EXCEPT !.created = now])
       /\ Finish(c, "ok", i)
  /\ UNCHANGED <<now, gone, cmd, walk, debts>>

\* getApprovalToken: unused and not expired
Usable(i) == i \in DOMAIN rows /\ rows[i].used = NotYet /\ ~Expired(rows[i])

\* The route reads the candidate to refuse the types Treasury decides (no raw
\* token of theirs ever leaves the service).
AnswerCandidate(c) ==
  /\ Kind(c) = "answer" /\ call[c].pc = "idle"
  /\ \E i \in RowsOf("link") :
       IF Usable(i) THEN call' = [call EXCEPT ![c] = [@ EXCEPT !.pc = "get", !.id = i]]
                    ELSE Finish(c, "refused", i)
  /\ UNCHANGED tables

\* consumeApprovalToken validates again ...
AnswerGet(c) ==
  /\ call[c].pc = "get"
  /\ IF Usable(call[c].id) THEN Goto(c, "use") ELSE Finish(c, "refused", call[c].id)
  /\ UNCHANGED tables

StillThere(i) == i \in DOMAIN rows   \* mutant: used_at is not in the WHERE

\* ... and marks the row, whose expiry is not in the WHERE.  The status says
\* approved whatever the approver answered.
StillUnused(i) == i \in DOMAIN rows /\ rows[i].used = NotYet
AnswerUse(c) ==
  LET i == call[c].id IN
  /\ call[c].pc = "use"
  /\ IF StillUnused(i)
     THEN /\ rows' = [rows EXCEPT ![i] = [@ EXCEPT !.used = now, !.status = "approved"]]
          /\ Finish(c, "ok", i)
     ELSE /\ Finish(c, "refused", i)
          /\ UNCHANGED rows
  /\ UNCHANGED <<now, gone, cmd, walk, debts>>

------------------------------------------------------------------------------
\* GET /condonation-requests, GET /community-work-requests: pages ordered by
\* (created_at, id), newest first, each from the cursor of the one before

Actionable(type) ==
  {i \in RowsOf(type) : rows[i].status = "pending" /\ rows[i].used = NotYet /\ ~Expired(rows[i])}

Place(i) == <<rows[i].created, i>>
Before(p, q) == p[1] < q[1] \/ (p[1] = q[1] /\ p[2] < q[2])
CursorByTime(i, cursor) == cursor = <<>> \/ Place(i)[1] < cursor[1]   \* mutant: the cursor has no id
AfterCursor(i, cursor) == cursor = <<>> \/ Before(Place(i), cursor)

\* The rows of S from the newest, at most n of them
Newest(S, n) ==
  {i \in S : Cardinality({j \in S : Before(Place(i), Place(j))}) < n}

Oldest(S) == CHOOSE i \in S : \A j \in S \ {i} : Before(Place(i), Place(j))

WalkStart ==
  /\ walk.pc = "idle" /\ walk.type \in Requests
  /\ walk' = [walk EXCEPT !.pc = "reading", !.due = Actionable(walk.type)]
  /\ UNCHANGED <<now, rows, gone, cmd, call, debts>>

\* One row more than the page is read, to know whether there is a next page.
WalkPage ==
  LET S == {i \in Actionable(walk.type) : AfterCursor(i, walk.cursor)}
      read == Newest(S, PageSize + 1)
      page == Newest(S, PageSize)
      more == Cardinality(read) > PageSize
  IN
  /\ walk.pc = "reading"
  /\ walk' = [walk EXCEPT !.seen = Append(@, page), !.pc = IF more THEN @ ELSE "done",
                          !.cursor = IF more THEN Place(Oldest(page)) ELSE @]
  /\ UNCHANGED <<now, rows, gone, cmd, call, debts>>

------------------------------------------------------------------------------
\* The token-cleanup job.  Execution receipts reference their row ON DELETE
\* RESTRICT: a single such row makes the whole DELETE fail.

Old(i) ==
  \/ rows[i].expires + Retention < now
  \/ rows[i].used # NotYet /\ rows[i].used + Retention < now

HasReceipt(i) == rows[i].type \in Requests /\ rows[i].used # NotYet

Cleanup ==
  LET old == {i \in DOMAIN rows : Old(i)} IN
  /\ old # {}
  /\ \A i \in old : ~Busy(i) /\ ~HasReceipt(i)
  /\ rows' = [i \in DOMAIN rows \ old |-> rows[i]]
  /\ gone' = gone \cup old
  /\ UNCHANGED <<now, cmd, call, walk, debts>>

Tick ==
  /\ now < MaxTime
  /\ now' = now + 1
  /\ UNCHANGED <<rows, gone, cmd, call, walk, debts>>

------------------------------------------------------------------------------
Init ==
  /\ now = 1
  /\ \E scene \in Scenes :
       /\ rows = scene.store /\ agreement = scene.deals /\ cmd = scene.cmd
       /\ walk = [NoWalk EXCEPT !.type = scene.walk]
  /\ paid = {} /\ condoned = {}
  /\ gone = {}
  /\ call = [c \in Call |-> Idle]

Step(c) ==
  \/ Select(c)
  \/ CreateFind(c) \/ CreateLock(c) \/ CreateCapture(c) \/ CreateFindAgain(c) \/ CreateInsert(c)
  \/ DecideRead(c) \/ DecideUpdate(c) \/ DecideReread(c)
  \/ ExecuteLock(c) \/ ExecuteAgreement(c) \/ ExecuteDebt(c)
  \/ Commit(c) \/ Rollback(c)
  \/ Mint(c) \/ AnswerCandidate(c) \/ AnswerGet(c) \/ AnswerUse(c)

Next ==
  \/ \E c \in Call : Step(c)
  \/ \E c \in Call : AgreementStep(c) /\ UNCHANGED <<now, rows, gone, walk>>
  \/ WalkStart \/ WalkPage \/ Cleanup \/ Tick

\* The scheduler runs the job every night; nothing obliges anybody else.
Spec == Init /\ [][Next]_vars /\ WF_vars(Cleanup)

------------------------------------------------------------------------------
\* Properties

\* The rows are approval_tokens as the schema describes them, and a request is
\* in the status its columns say: decided exactly when somebody decided it, never
\* by its requester, and used only when it was approved.
TypeOK ==
  /\ now \in 1..MaxTime
  /\ DOMAIN rows \subseteq Id
  /\ \A i \in DOMAIN rows :
       /\ rows[i].type \in Requests \cup {"link"}
       /\ rows[i].used \in 0..now
       /\ rows[i].type \in Requests =>
            /\ (rows[i].status = "pending") <=> (rows[i].decider = Nobody)
            /\ rows[i].decider # rows[i].by
            /\ rows[i].used # NotYet => rows[i].status = "approved"
  /\ \A c \in Call : call[c].pc \in
       {"idle", "select", "wait", "capture", "find", "insert", "update", "reread", "agreement",
        "commit", "get", "use", "agree", "row", "revise", "ok", "refused"}

\* An approver who was told that a decision is recorded is told the truth, then
\* and for as long as the row exists, whoever else was deciding: the decision, the
\* person and the grounds on the row are the ones that were answered
\* (decideCondonationApproval, decideCommunityWorkApproval).
AnswersAreOnRecord ==
  \A c \in Call :
    Kind(c) = "decide" /\ call[c].pc = "ok" /\ call[c].id \in DOMAIN rows =>
      LET row == rows[call[c].id] IN
      /\ row.status = cmd[c].decision
      /\ row.decider = cmd[c].by
      /\ row.grounds = cmd[c].grounds

\* A creation that is sent again under its key, at once or later, never opens a
\* second request: all that are answered with success name one row, as long as
\* it exists (the two look-ups, the lock of the obligation and the unique index).
RetriesFindTheirRequest ==
  \A c, d \in Call :
    /\ Kind(c) = "create" /\ Kind(d) = "create"
    /\ call[c].pc = "ok" /\ call[d].pc = "ok"
    /\ cmd[c].type = cmd[d].type /\ cmd[c].by = cmd[d].by /\ cmd[c].key = cmd[d].key
    /\ cmd[c].content = cmd[d].content
    /\ {call[c].id, call[d].id} \cap gone = {}
    => call[c].id = call[d].id

\* "Two callers racing on the same token will see one success": a link is
\* answered with success once (consumeApprovalToken).
LinksAreAnsweredOnce ==
  \A c, d \in Call :
    /\ Kind(c) = "answer" /\ Kind(d) = "answer" /\ c # d
    /\ call[c].pc = "ok" /\ call[d].pc = "ok"
    => call[c].id # call[d].id

\* Community work that was agreed extinguishes a debt once, and only while the
\* agreement it was asked under is the one in force: not after a revision, even
\* one that commits between two statements of the execution (executeApproved,
\* reviseAgreementCore).
WorkUnderActiveAgreement ==
  [][\A i \in DOMAIN rows \cap DOMAIN rows' :
       LET row == rows[i] IN
       row.type = "community" /\ row.used = NotYet /\ rows'[i].used # NotYet =>
         /\ Owing(row.content.about)
         /\ row.deal \in {NoDeal} \cup ActiveDeals(row.content.about)]_vars

\* A treasurer who pages through the queue to its end has seen every request that
\* waited when the walk began and still waits, and none twice, whatever was
\* created, decided or expired meanwhile (the cursor of listCondonationQueue).
WalkSeesEachOnce ==
  /\ \A m, n \in DOMAIN walk.seen : m # n => walk.seen[m] \cap walk.seen[n] = {}
  /\ walk.pc = "done" =>
       \A i \in walk.due \cap Actionable(walk.type) :
         \E m \in DOMAIN walk.seen : i \in walk.seen[m]

\* "Expired approval tokens where expires_at < now() - 30 days" are deleted by the
\* nightly job (openspec/specs/scheduler-jobs/spec.md).
ExpiredTokensAreDeleted ==
  \A i \in Id :
    (i \in DOMAIN rows /\ rows[i].expires + Retention < now) ~> (i \notin DOMAIN rows)
================================================================================
