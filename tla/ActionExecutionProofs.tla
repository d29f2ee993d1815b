------------------------- MODULE ActionExecutionProofs -------------------------
(***************************************************************************)
(* The invariants of ActionExecution that hold for any number of actions,  *)
(* sessions, attempts and ticket versions, and their proofs.  They rest on *)
(* one inductive invariant: what each row may hold while a transaction has *)
(* written it (RowInv), and what each session may carry in memory from an  *)
(* earlier read (SessionInv).                                              *)
(***************************************************************************)
EXTENDS ActionExecution, TLAPS

--------------------------------------------------------------------------------
(* The inductive invariant *)

\* The actions the transaction of a session x approves when it commits.
Signing(x) == IF x.kind \in {"approve", "bulk"} THEN x.signed ELSE {}

\* The session x is inside the handler of a claimed action.
Handling(x) ==
    \/ x.pc \in {"gate", "write", "record", "done"}
    \/ x.pc \in {"select", "update"} /\ x.next = "done"

\* Where a request that approves is: never in an execution.
Approving(x) ==
    \/ x.pc \in {"read", "sign", "commit"}
    \/ x.pc \in {"select", "update"} /\ x.next \in {"sign", "commit"}

\* A bulk approval is stamping or about to sign.
BulkSigning(x) == x.pc = "sign" \/ (x.pc \in {"select", "update"} /\ x.next = "sign")

\* What the session x of s holds: entities that are settled, backed by an approval
\* of its own or a committed one, and not reported executed before the write; the
\* lock and the approval of the action it executes; the locks of the rows it is about to sign.
\* (lk, ap and wr are the locks, approvals and writes the session meets.)
SessionInv(s, x, lk, ap, wr) ==
    /\ \A a \in Actions :
        /\ x.ent[a].status # "executing"
        /\ x.ent[a].status \in {"approved", "executed"} => a \in ap \cup Signing(x)
        /\ x.ent[a].status = "executed" => wr[a] > 0
    /\ Handling(x) => \A a \in First(x.run) : lk[a] = s /\ a \in ap
    /\ x.kind \in {"approve", "bulk"} => Approving(x)
    /\ x.pc = "read" => x.signed = {}
    /\ x.pc = "sign" => x.todo = {}
    /\ BulkSigning(x) => /\ x.kind = "bulk"
                         /\ x.signed = {}
                         /\ \A a \in x.run \ x.todo : lk[a] = s

\* What the row of action a holds, committed and as its lock holder sees it.
RowInv(a) ==
    /\ lock[a] = NoSession => draft[a] = row[a]
    /\ row[a].status # "executing"
    /\ row[a].status \in {"approved", "executed"} => a \in approvals
    /\ row[a].status = "executed" => writes[a] > 0
    /\ writes[a] > 0 => a \in approvals
    /\ draft[a].status = "executing" =>
        /\ lock[a] \in Sessions
        /\ ses[lock[a]].pc \in {"gate", "write"}
        /\ a \in First(ses[lock[a]].run)
    /\ draft[a].status \in {"approved", "executed", "executing"} =>
        \/ a \in approvals
        \/ lock[a] \in Sessions /\ a \in Signing(ses[lock[a]])
    /\ draft[a].status = "executed" => writes[a] > 0

IInv ==
    /\ TypeOK
    /\ \A a \in Actions : RowInv(a)
    /\ \A s \in Sessions : SessionInv(s, ses[s], lock, approvals, writes)

--------------------------------------------------------------------------------
(* Lemmas about the operators *)

\* First picks at most one action, one of its set.
LEMMA FirstIsOne ==
    ASSUME NEW S \in SUBSET Actions, NEW a \in First(S)
    PROVE  a \in S /\ a \in Actions /\ \A b \in First(S) : b = a
BY SizeAssumption DEF First, Actions

\* The entity of an action as it was prepared, and the idle session, are typed.
LEMMA PreparedTyped == Prepared \in Row /\ Prepared.status = "pending"
BY SizeAssumption DEF Prepared, Row, Metadata, Status, Reviewable

LEMMA IdleTyped ==
    /\ Idle \in SessionState
    /\ \A s, lk, ap, wr : SessionInv(s, Idle, lk, ap, wr)
    /\ Signing(Idle) = {}
BY PreparedTyped
   DEF Idle, SessionState, SessionInv, Signing, Handling, Approving, BulkSigning

\* What a session sees of a row is typed, backed and written as its draft or the
\* committed row is; it sees "executing" only of the action it executes.
LEMMA SeenRow ==
    ASSUME IInv, NEW s \in Sessions, NEW a \in Actions
    PROVE  /\ See(s, a) \in Row
           /\ See(s, a).status \in {"approved", "executed"}
                => a \in approvals \cup Signing(ses[s])
           /\ See(s, a).status = "executed" => writes[a] > 0
           /\ See(s, a).status = "executing"
                => ses[s].pc \in {"gate", "write"} /\ a \in First(ses[s].run)
BY PartiesAssumption DEF IInv, TypeOK, RowInv, See, Visible

--------------------------------------------------------------------------------
(* Steps in general *)

\* A step of s that touches nothing but its own session.
LEMMA QuietStep ==
    ASSUME IInv, NEW s \in Sessions, NEW x \in SessionState,
           SessionInv(s, x, lock, approvals, writes),
           Signing(ses[s]) \subseteq Signing(x),
           ses[s].pc \in {"gate", "write"}
             => x.pc \in {"gate", "write"} /\ x.run = ses[s].run,
           UNCHANGED <<db, world>>,
           ses' = [ses EXCEPT ![s] = x]
    PROVE  IInv'
<1>1. TypeOK'
  BY DEF IInv, TypeOK, db, world
<1>2. ASSUME NEW a \in Actions PROVE RowInv(a)'
  BY DEF IInv, TypeOK, RowInv, db, world
<1>3. ASSUME NEW t \in Sessions PROVE SessionInv(t, ses[t], lock, approvals, writes)'
  BY DEF IInv, TypeOK, SessionInv, db, world
<1> QED BY <1>1, <1>2, <1>3 DEF IInv

\* A step of s that writes version r of row a and goes on as x.
LEMMA PutStep ==
    ASSUME IInv, NEW s \in Sessions, NEW a \in Actions, NEW r \in Row,
           NEW x \in SessionState,
           Put(s, a, r),
           ses' = [ses EXCEPT ![s] = x],
           ver' \in 1 .. MaxVersion, edited' \in BOOLEAN, unread' = unread,
           writes' \in [Actions -> 0 .. 2],
           \A b \in Actions : writes[b] > 0 => writes'[b] > 0,
           \A b \in Actions : writes'[b] > 0 => writes[b] > 0 \/ b \in approvals,
           SessionInv(s, x, lock', approvals, writes'),
           Signing(ses[s]) \subseteq Signing(x),
           r.status = "executing" => x.pc \in {"gate", "write"} /\ a \in First(x.run),
           r.status \in {"approved", "executed", "executing"}
             => a \in approvals \cup Signing(x),
           r.status = "executed" => writes'[a] > 0,
           \A b \in Actions \ {a} :
             ses[s].pc \in {"gate", "write"} => b \notin First(ses[s].run)
    PROVE  IInv'
<1>1. TypeOK'
  BY DEF IInv, TypeOK, Put, Writable
<1>2. ASSUME NEW b \in Actions PROVE RowInv(b)'
  <2>1. CASE b = a
    BY <2>1, PartiesAssumption DEF IInv, TypeOK, RowInv, Put, Writable
  <2>2. CASE b # a
    BY <2>2, PartiesAssumption DEF IInv, TypeOK, RowInv, Put, Writable
  <2> QED BY <2>1, <2>2
<1>3. ASSUME NEW t \in Sessions PROVE SessionInv(t, ses[t], lock, approvals, writes)'
  <2>1. CASE t = s
    BY <2>1 DEF IInv, TypeOK, SessionInv, Put
  <2>2. CASE t # s
    BY <2>2, PartiesAssumption DEF IInv, TypeOK, SessionInv, SessionState, First, Put, Writable
  <2> QED BY <2>1, <2>2
<1> QED BY <1>1, <1>2, <1>3 DEF IInv

\* A step that rolls back the transaction of s, which goes on as x.
LEMMA RollbackStep ==
    ASSUME IInv, NEW s \in Sessions, NEW x \in SessionState,
           Rollback(s, x),
           SessionInv(s, x, lock', approvals, writes)
    PROVE  IInv'
<1>1. TypeOK'
  BY DEF IInv, TypeOK, Rollback, RolledBack, Released, Go, world
<1>2. ASSUME NEW a \in Actions PROVE RowInv(a)'
  BY PartiesAssumption DEF IInv, TypeOK, RowInv, Rollback, RolledBack, Released, Go, world
<1>3. ASSUME NEW t \in Sessions PROVE SessionInv(t, ses[t], lock, approvals, writes)'
  <2>1. CASE t = s
    BY <2>1 DEF IInv, TypeOK, SessionInv, Rollback, Go, world
  <2>2. CASE t # s
    BY <2>2, PartiesAssumption DEF IInv, TypeOK, SessionInv, SessionState, First,
       Rollback, Released, Go, world
  <2> QED BY <2>1, <2>2
<1> QED BY <1>1, <1>2, <1>3 DEF IInv

--------------------------------------------------------------------------------
(* Repository.save *)

\* Every session keeps a record that its invariant describes.
LEMMA TheSession ==
    ASSUME IInv, NEW s \in Sessions
    PROVE  \E y \in SessionState :
             y = ses[s] /\ SessionInv(s, y, lock, approvals, writes)
BY DEF IInv, TypeOK

LEMMA SelectKeeps == ASSUME IInv, NEW s \in Sessions, Select(s) PROVE IInv'
<1>1. PICK y \in SessionState : y = ses[s] /\ SessionInv(s, y, lock, approvals, writes)
  BY TheSession
<1>2. PICK C \in SUBSET Columns :
        ses' = [ses EXCEPT ![s] = [y EXCEPT !.pc = "update", !.cols = C]]
  BY <1>1 DEF Select, Go, DirtyColumns, Columns
<1> DEFINE x == [y EXCEPT !.pc = "update", !.cols = C]
<1>3. x \in SessionState
  BY DEF SessionState
<1>4. SessionInv(s, x, lock, approvals, writes) /\ Signing(x) = Signing(y)
  BY <1>1 DEF SessionState, SessionInv, Signing, Handling, Approving, BulkSigning, Select, At
<1> QED BY <1>1, <1>2, <1>3, <1>4, QuietStep DEF Select, At

\* An overwritten row is typed, and its status is one of the two versions'.
LEMMA OverwriteTyped ==
    ASSUME NEW c \in Row, NEW e \in Row, NEW C \in SUBSET Columns
    PROVE  Overwrite(c, e, C) \in Row /\ Overwrite(c, e, C).status \in {c.status, e.status}
<1> DEFINE o == Overwrite(c, e, C)
<1>1. DOMAIN c = {"status", "exp", "at", "meta"}
  BY DEF Row
<1>2. o = [status |-> IF "status" \in C THEN e.status ELSE c.status,
           exp    |-> IF "exp" \in C THEN e.exp ELSE c.exp,
           at     |-> IF "at" \in C THEN e.at ELSE c.at,
           meta   |-> IF "meta" \in C THEN e.meta ELSE c.meta]
  BY <1>1 DEF Overwrite, Row
<1> QED BY <1>2 DEF Row

LEMMA UpdateKeeps == ASSUME IInv, NEW s \in Sessions, Update(s) PROVE IInv'
<1>1. PICK y \in SessionState : y = ses[s] /\ SessionInv(s, y, lock, approvals, writes)
  BY TheSession
<1>2. PICK a \in First(y.todo) :
        LET rest == y.todo \ {a}
        IN  /\ Put(s, a, Overwrite(See(s, a), y.ent[a], y.cols))
            /\ Go(s, [y EXCEPT !.todo = rest, !.cols = {},
                        !.ent = IF y.next = "sign" THEN @ ELSE [@ EXCEPT ![a] = Prepared],
                        !.pc = IF rest = {} THEN y.next ELSE "select"])
  BY <1>1 DEF Update
<1> DEFINE r == Overwrite(See(s, a), y.ent[a], y.cols)
           rest == y.todo \ {a}
           ent == IF y.next = "sign" THEN y.ent ELSE [y.ent EXCEPT ![a] = Prepared]
           pc == IF rest = {} THEN y.next ELSE "select"
           x == [y EXCEPT !.todo = rest, !.cols = {}, !.ent = ent, !.pc = pc]
<1>3. y.pc = "update" /\ ses' = [ses EXCEPT ![s] = x] /\ Put(s, a, r)
  BY <1>1, <1>2 DEF Update, At, Go
<1>4. a \in y.todo /\ a \in Actions
  BY FirstIsOne DEF SessionState
<1>5. r \in Row /\ r.status \in {See(s, a).status, y.ent[a].status}
  BY <1>4, SeenRow, OverwriteTyped DEF SessionState
<1>6. x \in SessionState
  BY <1>4, PreparedTyped DEF SessionState
<1>7. Signing(x) = Signing(y)
  BY DEF SessionState, Signing
<1>8. SessionInv(s, x, lock', approvals, writes)
  <2>1. \A b \in Actions : lock[b] = s => lock'[b] = s
    BY <1>3, <1>4 DEF Put, IInv, TypeOK
  <2>2. lock'[a] = s
    BY <1>3, <1>4 DEF Put, IInv, TypeOK
  <2> HIDE DEF r
  <2> QED BY <1>1, <1>3, <1>4, <1>7, <2>1, <2>2, PreparedTyped, FirstIsOne
          DEF SessionState, SessionInv, Signing, Handling, Approving, BulkSigning, First
<1>9. /\ r.status # "executing"
      /\ r.status \in {"approved", "executed"} => a \in approvals \cup Signing(x)
      /\ r.status = "executed" => writes[a] > 0
  BY <1>1, <1>3, <1>4, <1>5, <1>7, SeenRow DEF SessionInv
<1> HIDE DEF x, r
<1> QED BY <1>1, <1>3, <1>4, <1>5, <1>6, <1>7, <1>8, <1>9, PutStep
        DEF Update, world, IInv, TypeOK

--------------------------------------------------------------------------------
(* Requests *)

\* A session outside the states of an approval signs nothing.
LEMMA SignsNothing ==
    ASSUME NEW y, NEW s, NEW lk, NEW ap, NEW wr,
           SessionInv(s, y, lk, ap, wr), y.pc = "read" \/ ~ Approving(y)
    PROVE  Signing(y) = {}
BY DEF SessionInv, Signing

LEMMA BeginKeeps ==
    ASSUME IInv, NEW s \in Sessions, NEW k, NEW S \in SUBSET Actions, Begin(s, k, S)
    PROVE  IInv'
<1>1. PICK y \in SessionState : y = ses[s] /\ SessionInv(s, y, lock, approvals, writes)
  BY TheSession
<1> DEFINE x == [Idle EXCEPT !.kind = k, !.pc = "read", !.todo = S]
<1>2. k \in {"approve", "reject", "dismiss", "bulk", "sweep"}
  BY PartiesAssumption DEF Begin
<1>3. x \in SessionState
  BY <1>2, IdleTyped DEF SessionState
<1>4. SessionInv(s, x, lock, approvals, writes)
  BY PreparedTyped DEF Idle, SessionInv, Signing, Handling, Approving, BulkSigning
<1>5. Signing(y) = {}
  BY <1>1, SignsNothing DEF Begin, At, Approving
<1> QED BY <1>1, <1>3, <1>4, <1>5, QuietStep DEF Begin, At, Go

\* The entities ent of the actions S are typed, settled, backed for the session z
\* and written: what a session may save.
Savable(z, ent) ==
    /\ ent \in [Actions -> Row]
    /\ \A a \in Actions :
        /\ ent[a].status # "executing"
        /\ ent[a].status \in {"approved", "executed"} => a \in approvals \cup Signing(z)
        /\ ent[a].status = "executed" => writes[a] > 0

\* A session that starts to save savable entities outside a claim.
LEMMA SavingKeeps ==
    ASSUME NEW s \in Sessions, NEW z \in SessionState,
           NEW S \in SUBSET Actions, NEW ent, NEW pc \in {"commit", "sign", "xread", "queue", "filter"},
           Savable(z, ent),
           z.kind \in {"approve", "bulk"} => pc \in {"commit", "sign"},
           pc = "sign" => z.kind = "bulk" /\ z.signed = {} /\ z.run = S
    PROVE  LET x == Saving(z, S, ent, pc)
           IN  /\ x \in SessionState
               /\ SessionInv(s, x, lock, approvals, writes)
               /\ Signing(x) = Signing(z)
<1> DEFINE x == Saving(z, S, ent, pc)
<1>1. x \in SessionState
  BY DEF Saving, SessionState, Savable
<1>2. Signing(x) = Signing(z)
  BY DEF Saving, SessionState, Signing
<1>3. SessionInv(s, x, lock, approvals, writes)
  BY <1>2 DEF Saving, SessionState, SessionInv, Savable, Handling, Approving, BulkSigning
<1> QED BY <1>1, <1>2, <1>3

LEMMA DecideKeeps == ASSUME IInv, NEW s \in Sessions, Decide(s) PROVE IInv'
<1>1. PICK y \in SessionState : y = ses[s] /\ SessionInv(s, y, lock, approvals, writes)
  BY TheSession
<1>2. PICK a \in y.todo :
        LET e  == See(s, a)
            ok == e.status \in Decidable(y.kind) /\ e.exp = "live"
            decided == [e EXCEPT !.status = Outcome[y.kind]]
        IN  Go(s, IF ok
                  THEN Saving([y EXCEPT !.signed = {a}, !.run = {a}], {a},
                              [y.ent EXCEPT ![a] = decided], "commit")
                  ELSE Idle)
  BY <1>1 DEF Decide
<1> DEFINE decided == [See(s, a) EXCEPT !.status = Outcome[y.kind]]
           ent == [y.ent EXCEPT ![a] = decided]
           z == [y EXCEPT !.signed = {a}, !.run = {a}]
           x == Saving(z, {a}, ent, "commit")
<1>3. /\ y.pc = "read" /\ y.kind \in {"approve", "reject", "dismiss"} /\ Signing(y) = {}
      /\ a \in Actions
  BY <1>1, SignsNothing DEF Decide, At, Outcome, SessionState
<1>4. CASE ses' = [ses EXCEPT ![s] = Idle]
  BY <1>1, <1>3, <1>4, IdleTyped, QuietStep DEF Decide
<1>5. CASE ses' = [ses EXCEPT ![s] = x]
  <2>1. z \in SessionState /\ z.kind = y.kind
    BY <1>3 DEF SessionState
  <2>2. decided \in Row /\ decided.status = Outcome[y.kind]
    BY <1>3, SeenRow DEF Row, Outcome, Status, Reviewable, Terminal
  <2>3. Savable(z, ent)
    BY <1>1, <1>3, <2>2 DEF Savable, SessionState, SessionInv, Signing, Outcome
  <2>4. /\ x \in SessionState
        /\ SessionInv(s, x, lock, approvals, writes)
    <3> HIDE DEF z, ent
    <3> QED BY <1>3, <2>1, <2>3, SavingKeeps
  <2> HIDE DEF x
  <2> QED BY <1>1, <1>3, <1>5, <2>4, QuietStep DEF Decide
<1> QED BY <1>2, <1>4, <1>5 DEF Go

\* Stamping rows that are under review, approved or executed.
LEMMA StampingKeeps ==
    ASSUME IInv, NEW s \in Sessions, NEW y \in SessionState, y = ses[s],
           SessionInv(s, y, lock, approvals, writes),
           y.pc \notin {"gate", "write"},
           NEW S \in SUBSET Actions, S # {}, NEW queue \in BOOLEAN,
           NEW pc \in {"commit", "sign", "xread"},
           pc = "sign" => y.kind = "bulk" /\ y.signed = {},
           y.kind \in {"approve", "bulk"} => pc \in {"commit", "sign"}
    PROVE  LET x == Stamping(s, y, S, queue, pc)
           IN  /\ x \in SessionState
               /\ SessionInv(s, x, lock, approvals, writes)
               /\ Signing(x) = Signing(y)
<1> DEFINE ent == [a \in Actions |-> IF a \in S THEN Stamped(See(s, a), S, queue)
                                                ELSE y.ent[a]]
           z == [y EXCEPT !.run = S]
<1>1. z \in SessionState /\ Signing(z) = Signing(y) /\ z.kind = y.kind /\ z.signed = y.signed /\ z.run = S
  BY DEF SessionState, Signing
<1>2. ASSUME NEW a \in Actions
      PROVE  /\ Stamped(See(s, a), S, queue) \in Row
             /\ Stamped(See(s, a), S, queue).status = See(s, a).status
  <2>1. PICK e \in Row : e = See(s, a)
    BY SeenRow
  <2> QED BY <2>1 DEF Stamped, Row, Metadata
<1>3. Savable(z, ent)
  BY <1>1, <1>2, SeenRow DEF Savable, SessionState, SessionInv
<1> HIDE DEF z, ent
<1>4. Stamping(s, y, S, queue, pc) = Saving(z, S, ent, pc)
  BY DEF Stamping, z, ent
<1> QED BY <1>1, <1>3, <1>4, SavingKeeps

LEMMA BulkReadKeeps == ASSUME IInv, NEW s \in Sessions, BulkRead(s) PROVE IInv'
<1>1. PICK y \in SessionState : y = ses[s] /\ SessionInv(s, y, lock, approvals, writes)
  BY TheSession
<1> DEFINE S == {a \in y.todo : See(s, a).status \in Reviewable \cup {"executed"}}
           x == Stamping(s, y, S, TRUE, "sign")
<1>2. /\ y.pc = "read" /\ y.kind = "bulk" /\ y.signed = {} /\ Signing(y) = {}
      /\ S \in SUBSET Actions
  <2>1. y.pc = "read" /\ y.kind = "bulk"
    BY <1>1 DEF BulkRead, At
  <2>2. y.signed = {} /\ Signing(y) = {}
    BY <1>1, <2>1 DEF SessionInv, Signing
  <2>3. S \in SUBSET Actions
    BY DEF SessionState
  <2> QED BY <2>1, <2>2, <2>3
<1>3. CASE S = {} /\ ses' = [ses EXCEPT ![s] = Idle]
  BY <1>1, <1>2, <1>3, IdleTyped, QuietStep DEF BulkRead
<1>4. CASE S # {} /\ ses' = [ses EXCEPT ![s] = x]
  <2>1. /\ x \in SessionState
        /\ SessionInv(s, x, lock, approvals, writes)
    <3> HIDE DEF S
    <3> QED BY <1>1, <1>2, <1>4, StampingKeeps
  <2> HIDE DEF x
  <2> QED BY <1>1, <1>2, <1>4, <2>1, QuietStep DEF BulkRead
<1> QED BY <1>1, <1>3, <1>4 DEF BulkRead, Go

LEMMA PlanReadKeeps == ASSUME IInv, NEW s \in Sessions, PlanRead(s) PROVE IInv'
<1>1. PICK y \in SessionState : y = ses[s] /\ SessionInv(s, y, lock, approvals, writes)
  BY TheSession
<1> DEFINE S == {a \in y.run : See(s, a).status \in {"approved", "executed"}}
           pc == IF y.kind = "sweep" THEN "xread" ELSE "commit"
           x == Stamping(s, y, S, FALSE, pc)
           w == [y EXCEPT !.pc = BatchOrEnd(y.batches)]
<1>2. y.pc = "plan" /\ S \in SUBSET Actions /\ Signing(y) = {} /\ y.kind \notin {"approve", "bulk"}
  <2>1. y.pc = "plan"
    BY <1>1 DEF PlanRead, At
  <2>2. Signing(y) = {} /\ y.kind \notin {"approve", "bulk"}
    BY <1>1, <2>1 DEF SessionInv, Signing, Approving
  <2>3. S \in SUBSET Actions
    BY DEF SessionState
  <2> QED BY <2>1, <2>2, <2>3
<1>3. CASE S # {} /\ ses' = [ses EXCEPT ![s] = x]
  <2>1. /\ x \in SessionState
        /\ SessionInv(s, x, lock, approvals, writes)
    <3> HIDE DEF S
    <3> QED BY <1>1, <1>2, <1>3, StampingKeeps
  <2> HIDE DEF x
  <2> QED BY <1>1, <1>2, <1>3, <2>1, QuietStep DEF PlanRead
<1>4. CASE ses' = [ses EXCEPT ![s] = w]
  <2>1. w \in SessionState
    BY DEF SessionState, BatchOrEnd
  <2>2. SessionInv(s, w, lock, approvals, writes)
    BY <1>1, <1>2 DEF SessionState, SessionInv, Signing, Handling, Approving, BulkSigning, BatchOrEnd
  <2> HIDE DEF w
  <2> QED BY <1>1, <1>2, <1>4, <2>1, <2>2, QuietStep DEF PlanRead
<1>5. CASE ses' = [ses EXCEPT ![s] = Idle]
  BY <1>1, <1>2, <1>5, IdleTyped, QuietStep DEF PlanRead
<1> QED BY <1>1, <1>3, <1>4, <1>5 DEF PlanRead, Go

LEMMA BulkSignKeeps == ASSUME IInv, NEW s \in Sessions, BulkSign(s) PROVE IInv'
<1>1. PICK y \in SessionState : y = ses[s] /\ SessionInv(s, y, lock, approvals, writes)
  BY TheSession
<1>2. /\ y.pc = "sign" /\ y.kind = "bulk" /\ y.signed = {} /\ y.run \in SUBSET Actions
      /\ \A a \in y.run : lock[a] = s
  BY <1>1 DEF BulkSign, At, SessionInv, BulkSigning, SessionState
<1>3. PICK S \in SUBSET y.run, run \in SUBSET y.run :
        /\ draft' = [a \in Actions |-> IF a \in S THEN [draft[a] EXCEPT !.status = "approved"]
                                                 ELSE draft[a]]
        /\ ses' = [ses EXCEPT ![s] = [y EXCEPT !.signed = S, !.run = run, !.pc = "commit"]]
  BY <1>1 DEF BulkSign, Go
<1> DEFINE x == [y EXCEPT !.signed = S, !.run = run, !.pc = "commit"]
<1>4. x \in SessionState /\ Signing(x) = S
  BY <1>2 DEF SessionState, Signing
<1>5. SessionInv(s, x, lock, approvals, writes)
  BY <1>1, <1>2 DEF SessionState, SessionInv, Signing, Handling, Approving, BulkSigning
<1>6. UNCHANGED <<row, lock, approvals, verdict, ver, edited, unread, writes>>
  BY DEF BulkSign, world
<1>7. ASSUME NEW a \in Actions
      PROVE  /\ draft'[a] \in Row
             /\ a \in S => draft'[a].status = "approved" /\ lock[a] = s
             /\ a \notin S => draft'[a] = draft[a]
  <2>1. draft[a] \in Row
    BY DEF IInv, TypeOK
  <2> QED BY <1>2, <1>3, <2>1 DEF Row, Status, Reviewable
<1> HIDE DEF x
<1>8. ses' = [ses EXCEPT ![s] = x]
  BY <1>3 DEF x
<1>9. TypeOK'
  <2>1. draft' \in [Actions -> Row]
    BY <1>3, <1>7
  <2> QED BY <1>4, <1>6, <1>8, <2>1 DEF IInv, TypeOK
<1>10. ASSUME NEW a \in Actions PROVE RowInv(a)'
  <2>1. Signing(ses[s]) = {} /\ ses[s].pc = "sign"
    BY <1>1, <1>2 DEF Signing
  <2>2. s # NoSession
    BY PartiesAssumption
  <2>3. ses'[s] = x /\ \A t \in Sessions \ {s} : ses'[t] = ses[t]
    BY <1>8 DEF IInv, TypeOK
  <2>4. CASE a \in S
    BY <1>4, <1>6, <1>7, <2>2, <2>3, <2>4 DEF IInv, RowInv
  <2>5. CASE a \notin S
    BY <1>6, <1>7, <2>1, <2>3, <2>5 DEF IInv, RowInv
  <2> QED BY <2>4, <2>5
<1>11. ASSUME NEW t \in Sessions PROVE SessionInv(t, ses[t], lock, approvals, writes)'
  BY <1>5, <1>6, <1>8 DEF IInv, TypeOK, SessionInv
<1> QED BY <1>9, <1>10, <1>11 DEF IInv

--------------------------------------------------------------------------------
(* The end of a transaction *)

LEMMA CommitKeeps == ASSUME IInv, NEW s \in Sessions, Commit(s) PROVE IInv'
<1>1. PICK y \in SessionState : y = ses[s] /\ SessionInv(s, y, lock, approvals, writes)
  BY TheSession
<1>2. y.pc = "commit"
  BY <1>1 DEF Commit, At
<1> DEFINE resumed == [Idle EXCEPT !.kind = "plan", !.run = y.run]
           x == CASE y.run = {} -> Idle
                  [] y.kind \in {"approve", "bulk"} -> [resumed EXCEPT !.pc = "plan"]
                  [] y.kind = "plan" -> [resumed EXCEPT !.pc = "xread"]
                  [] OTHER -> Idle
<1>3. ses' = [ses EXCEPT ![s] = x]
  BY <1>1 DEF Commit, Go
<1>4. x \in SessionState /\ \A lk, ap, wr : SessionInv(s, x, lk, ap, wr)
  <2>1. ASSUME NEW P \in {"plan", "xread"}
        PROVE  /\ [resumed EXCEPT !.pc = P] \in SessionState
               /\ \A lk, ap, wr : SessionInv(s, [resumed EXCEPT !.pc = P], lk, ap, wr)
    <3> DEFINE z == [resumed EXCEPT !.pc = P]
    <3>1. y.run \in SUBSET Actions
      BY DEF SessionState
    <3>2. z = [Idle EXCEPT !.kind = "plan", !.run = y.run, !.pc = P]
      BY DEF Idle
    <3>3. z \in SessionState
      BY <3>1, <3>2, IdleTyped DEF SessionState
    <3>4. \A lk, ap, wr : SessionInv(s, z, lk, ap, wr)
      BY <3>2, PreparedTyped
         DEF Idle, SessionInv, Signing, Handling, Approving, BulkSigning
    <3> QED BY <3>3, <3>4
  <2> HIDE DEF resumed
  <2> QED BY <2>1, IdleTyped
<1> HIDE DEF x
<1>5. /\ row' = [a \in Actions |-> IF lock[a] = s THEN draft[a] ELSE row[a]]
      /\ lock' = [a \in Actions |-> IF lock[a] = s THEN NoSession ELSE lock[a]]
      /\ UNCHANGED <<draft, ver, edited, unread, writes>>
  BY DEF Commit, Committed, Released, IInv, TypeOK, world
<1>6. approvals' = approvals \cup Signing(y)
  BY <1>1 DEF Commit, Signing, Outcome, SessionState
<1>7. verdict' \in [Actions -> {"none", "approved", "rejected", "dismissed"}]
  BY <1>1 DEF Commit, Outcome, IInv, TypeOK
<1>8. TypeOK'
  <2>1. Signing(y) \subseteq Actions
    BY DEF Signing, SessionState
  <2> QED BY <1>3, <1>4, <1>5, <1>6, <1>7, <2>1 DEF IInv, TypeOK
<1>9. ASSUME NEW a \in Actions PROVE RowInv(a)'
  <2>1. ses[s].pc = "commit" /\ Signing(ses[s]) = Signing(y)
    BY <1>1, <1>2
  <2>2. \A t \in Sessions \ {s} : ses'[t] = ses[t]
    BY <1>3 DEF IInv, TypeOK
  <2>3. CASE lock[a] = s
    BY <1>5, <1>6, <2>1, <2>3, PartiesAssumption DEF IInv, RowInv
  <2>4. CASE lock[a] # s
    BY <1>5, <1>6, <2>2, <2>4, PartiesAssumption DEF IInv, TypeOK, RowInv
  <2> QED BY <2>3, <2>4
<1>10. ASSUME NEW t \in Sessions PROVE SessionInv(t, ses[t], lock, approvals, writes)'
  <2>1. CASE t = s
    <3>1. SessionInv(s, x, lock', approvals', writes')
      BY <1>4
    <3>2. ses'[s] = x
      BY <1>3 DEF IInv, TypeOK
    <3> QED BY <2>1, <3>1, <3>2 DEF SessionInv
  <2>2. CASE t # s
    BY <1>3, <1>5, <1>6, <2>2 DEF IInv, TypeOK, SessionInv, SessionState, First
  <2> QED BY <2>1, <2>2
<1> QED BY <1>8, <1>9, <1>10 DEF IInv

LEMMA CrashKeeps ==
    ASSUME IInv, NEW s \in Sessions, Crash(s) \/ DeadlockVictim(s) PROVE IInv'
BY IdleTyped, RollbackStep DEF Crash, DeadlockVictim

--------------------------------------------------------------------------------
(* Executions *)

\* A session that is done with an action holds nothing any more.
Leaving(y, a) ==
    [y EXCEPT !.run = y.run \ {a}, !.ent = Idle.ent,
              !.pc = IF y.kind = "plan" THEN "commit"
                     ELSE IF y.run \ {a} = {} THEN BatchOrEnd(y.batches) ELSE "xread"]

LEMMA DoneKeeps ==
    ASSUME NEW s \in Sessions, NEW y \in SessionState, NEW a \in Actions,
           NEW lk, NEW ap, NEW wr, SessionInv(s, y, lk, ap, wr),
           y.pc \in Executing \cup {"xread"} \/ Handling(y)
    PROVE  /\ y.kind \notin {"approve", "bulk"} /\ Signing(y) = {}
           /\ Leaving(y, a) \in SessionState
           /\ \A lk2, ap2, wr2 : SessionInv(s, Leaving(y, a), lk2, ap2, wr2)
           /\ Signing(Leaving(y, a)) = {}
<1>1. y.kind \notin {"approve", "bulk"} /\ Signing(y) = {}
  BY DEF SessionInv, Approving, Executing, Signing, Handling
<1> DEFINE pc == IF y.kind = "plan" THEN "commit"
                 ELSE IF y.run \ {a} = {} THEN BatchOrEnd(y.batches) ELSE "xread"
           d == [y EXCEPT !.run = y.run \ {a}, !.ent = Idle.ent, !.pc = pc]
<1>2. pc \in {"commit", "xread", "batch"}
  BY DEF BatchOrEnd
<1>3. Idle.ent \in [Actions -> Row] /\ \A b \in Actions : Idle.ent[b].status = "pending"
  BY PreparedTyped DEF Idle
<1>4. Leaving(y, a) = d
  BY DEF Leaving
<1> HIDE DEF pc
<1>5. d \in SessionState /\ Signing(d) = {}
  BY <1>1, <1>2, <1>3 DEF SessionState, Signing
<1>6. \A lk2, ap2, wr2 : SessionInv(s, d, lk2, ap2, wr2)
  BY <1>1, <1>2, <1>3
     DEF SessionState, SessionInv, Signing, Handling, Approving, BulkSigning
<1> HIDE DEF d
<1> QED BY <1>1, <1>4, <1>5, <1>6

\* The claimed action a of session s ends as r, and the session leaves it, whatever
\* the provider has applied for an approved action.
LEMMA LeavingWrites ==
    ASSUME IInv, NEW s \in Sessions, Handling(ses[s]), NEW a \in First(ses[s].run),
           NEW r \in Row, r.status \notin {"executing", "executed"},
           Put(s, a, r), Go(s, Leaving(ses[s], a)),
           ver' \in 1 .. MaxVersion, edited' \in BOOLEAN, unread' = unread,
           writes' \in [Actions -> 0 .. 2],
           \A b \in Actions : writes[b] > 0 => writes'[b] > 0,
           \A b \in Actions : writes'[b] > 0 => writes[b] > 0 \/ b \in approvals
    PROVE  IInv'
<1>1. PICK y \in SessionState : y = ses[s] /\ SessionInv(s, y, lock, approvals, writes)
  BY TheSession
<1>2. a \in Actions /\ \A b \in First(y.run) : b = a
  BY <1>1, FirstIsOne DEF SessionState
<1>3. a \in approvals
  BY <1>1 DEF SessionInv
<1> DEFINE x == Leaving(y, a)
<1>4. /\ x \in SessionState /\ Signing(y) = {}
      /\ SessionInv(s, x, lock', approvals, writes')
  BY <1>1, <1>2, DoneKeeps
<1> HIDE DEF x
<1>5. ses' = [ses EXCEPT ![s] = x]
  BY <1>1 DEF Go, x
<1> QED BY <1>1, <1>2, <1>3, <1>4, <1>5, PutStep

LEMMA LeavingKeeps ==
    ASSUME IInv, NEW s \in Sessions, Handling(ses[s]), NEW a \in First(ses[s].run),
           NEW r \in Row, r.status \notin {"executing", "executed"},
           Settle(s, a, r, Leaving(ses[s], a))
    PROVE  IInv'
BY LeavingWrites DEF Settle, world, IInv, TypeOK

\* The draft of an action being executed.
LEMMA TheDraft ==
    ASSUME IInv, NEW a \in Actions
    PROVE  \E d \in Row : d = draft[a]
BY DEF IInv, TypeOK

LEMMA FailedTyped ==
    ASSUME NEW r \in Row
    PROVE  Failed(r) \in Row /\ Failed(r).status = "approved"
<1>1. PICK m \in Metadata : m = r.meta
  BY DEF Row
<1>2. Failed(r) = [r EXCEPT !.status = "approved", !.meta = [m EXCEPT !.att = m.att + 1]]
  BY <1>1 DEF Failed, Row, Metadata
<1>3. [m EXCEPT !.att = m.att + 1] \in Metadata
  BY DEF Metadata
<1> QED BY <1>2, <1>3 DEF Row, Status, Reviewable

LEMMA AttemptFailsKeeps ==
    ASSUME IInv, NEW s \in Sessions, AttemptFails(s) PROVE IInv'
<1>1. PICK a \in First(ses[s].run) : Settle(s, a, Failed(draft[a]), Done(s, a))
  BY DEF AttemptFails
<1>2. a \in Actions
  BY FirstIsOne, TheSession DEF SessionState
<1>3. Failed(draft[a]) \in Row /\ Failed(draft[a]).status = "approved"
  BY <1>2, TheDraft, FailedTyped
<1>4. Handling(ses[s])
  BY DEF AttemptFails, Handling
<1>5. Done(s, a) = Leaving(ses[s], a)
  BY DEF Done, Leaving
<1> QED BY <1>1, <1>2, <1>3, <1>4, <1>5, LeavingKeeps

LEMMA StaleKeeps ==
    ASSUME IInv, NEW s \in Sessions, GateFindsLapsed(s) \/ TicketStale(s) PROVE IInv'
<1>1. PICK a \in First(ses[s].run) :
        Settle(s, a, [draft[a] EXCEPT !.status = "expired"], Done(s, a))
  BY DEF GateFindsLapsed, TicketStale
<1>2. a \in Actions
  BY FirstIsOne, TheSession DEF SessionState
<1>3. PICK d \in Row : d = draft[a]
  BY <1>2, TheDraft
<1>4. [d EXCEPT !.status = "expired"] \in Row /\ [d EXCEPT !.status = "expired"].status = "expired"
  BY DEF Row, Status, Terminal
<1>5. Handling(ses[s])
  BY DEF GateFindsLapsed, TicketStale, GateOpens, At, Handling
<1>6. Done(s, a) = Leaving(ses[s], a)
  BY DEF Done, Leaving
<1> QED BY <1>1, <1>2, <1>3, <1>4, <1>5, <1>6, LeavingKeeps

LEMMA ReadApprovedKeeps == ASSUME IInv, NEW s \in Sessions, ReadApproved(s) PROVE IInv'
<1>1. PICK y \in SessionState : y = ses[s] /\ SessionInv(s, y, lock, approvals, writes)
  BY TheSession
<1>2. PICK a \in First(y.run) :
        Go(s, IF See(s, a).status = "approved"
              THEN [y EXCEPT !.ent = [@ EXCEPT ![a] = See(s, a)], !.pc = "claim"]
              ELSE Done(s, a))
  BY <1>1 DEF ReadApproved
<1>3. a \in Actions /\ y.pc = "xread"
  BY <1>1, <1>2, FirstIsOne DEF SessionState, ReadApproved, At
<1>4. y.pc \in Executing \cup {"xread"}
  BY <1>3
<1>5. CASE ses' = [ses EXCEPT ![s] = Leaving(y, a)]
  BY <1>1, <1>3, <1>4, <1>5, DoneKeeps, QuietStep DEF ReadApproved
<1>6. CASE /\ See(s, a).status = "approved"
           /\ ses' = [ses EXCEPT ![s] = [y EXCEPT !.ent = [y.ent EXCEPT ![a] = See(s, a)],
                                                  !.pc = "claim"]]
  <2> DEFINE ent == [y.ent EXCEPT ![a] = See(s, a)]
             x == [y EXCEPT !.ent = ent, !.pc = "claim"]
  <2>1. y.kind \notin {"approve", "bulk"} /\ Signing(y) = {}
    BY <1>1, <1>3, <1>4, DoneKeeps
  <2>2. Savable(y, ent)
    BY <1>1, <1>3, <1>6, SeenRow DEF Savable, SessionState, SessionInv
  <2> HIDE DEF ent
  <2>3. x \in SessionState /\ Signing(x) = {}
    BY <2>1, <2>2 DEF Savable, SessionState, Signing
  <2>4. SessionInv(s, x, lock, approvals, writes)
    BY <2>1, <2>2, <2>3
       DEF Savable, SessionState, SessionInv, Handling, Approving, BulkSigning
  <2> HIDE DEF x
  <2>5. ses' = [ses EXCEPT ![s] = x]
    BY <1>6 DEF x, ent
  <2> QED BY <1>1, <1>3, <2>1, <2>3, <2>4, <2>5, QuietStep DEF ReadApproved
<1>7. Done(s, a) = Leaving(y, a)
  BY <1>1 DEF Done, Leaving
<1> QED BY <1>2, <1>5, <1>6, <1>7 DEF Go

LEMMA ClaimWonKeeps == ASSUME IInv, NEW s \in Sessions, ClaimWon(s) PROVE IInv'
<1>1. PICK y \in SessionState : y = ses[s] /\ SessionInv(s, y, lock, approvals, writes)
  BY TheSession
<1>2. PICK a \in First(y.run) :
        /\ See(s, a).status = "approved"
        /\ Put(s, a, [See(s, a) EXCEPT !.status = "executing", !.meta = y.ent[a].meta])
        /\ Go(s, [y EXCEPT !.pc = "gate"])
  BY <1>1 DEF ClaimWon
<1>3. a \in Actions /\ y.pc = "claim" /\ \A b \in First(y.run) : b = a
  BY <1>1, <1>2, FirstIsOne DEF SessionState, ClaimWon, At
<1> DEFINE r == [See(s, a) EXCEPT !.status = "executing", !.meta = y.ent[a].meta]
           x == [y EXCEPT !.pc = "gate"]
<1>4. r \in Row /\ r.status = "executing"
  <2>1. PICK e \in Row, f \in Row : e = See(s, a) /\ f = y.ent[a]
    BY <1>3, SeenRow DEF SessionState
  <2>2. [e EXCEPT !.status = "executing", !.meta = f.meta] \in Row
    BY DEF Row, Status
  <2> QED BY <2>1, <2>2 DEF Row
<1>5. y.kind \notin {"approve", "bulk"} /\ Signing(y) = {} /\ y.pc \notin {"gate", "write"}
  BY <1>1, <1>3 DEF SessionInv, Approving, Signing
<1>6. a \in approvals
  BY <1>1, <1>2, <1>3, <1>5, SeenRow
<1>7. lock'[a] = s
  BY <1>2, <1>3 DEF Put, IInv, TypeOK
<1>8. x \in SessionState /\ Signing(x) = {}
  BY <1>5 DEF SessionState, Signing
<1>9. SessionInv(s, x, lock', approvals, writes)
  BY <1>1, <1>3, <1>5, <1>6, <1>7, <1>8
     DEF SessionState, SessionInv, Handling, Approving, BulkSigning
<1>10. x.pc = "gate" /\ a \in First(x.run)
  BY DEF SessionState
<1>11. /\ ver' \in 1 .. MaxVersion /\ edited' \in BOOLEAN /\ unread' = unread /\ writes' = writes
       /\ writes' \in [Actions -> 0 .. 2]
  BY DEF ClaimWon, world, IInv, TypeOK
<1>12. Put(s, a, r) /\ ses' = [ses EXCEPT ![s] = x]
  BY <1>2 DEF Go
<1> HIDE DEF r, x
<1> QED BY <1>1, <1>3, <1>4, <1>5, <1>6, <1>8, <1>9, <1>10, <1>11, <1>12, PutStep

LEMMA ClaimLostKeeps == ASSUME IInv, NEW s \in Sessions, ClaimLost(s) PROVE IInv'
<1>1. PICK y \in SessionState : y = ses[s] /\ SessionInv(s, y, lock, approvals, writes)
  BY TheSession
<1>2. PICK a \in First(y.run) : ses' = [ses EXCEPT ![s] = Leaving(y, a)]
  BY <1>1 DEF ClaimLost, Done, Leaving, Go
<1>3. a \in Actions /\ y.pc = "claim"
  BY <1>1, <1>2, FirstIsOne DEF SessionState, ClaimLost, At
<1>4. y.pc \in Executing \cup {"xread"}
  BY <1>3 DEF Executing
<1> QED BY <1>1, <1>2, <1>3, <1>4, DoneKeeps, QuietStep DEF ClaimLost

\* A session that stays inside its handler, at pc.
LEMMA HandlingMoves ==
    ASSUME NEW s \in Sessions, NEW y \in SessionState, NEW lk, NEW ap, NEW wr,
           SessionInv(s, y, lk, ap, wr), Handling(y),
           NEW pc \in {"write", "record", "done"}
    PROVE  LET x == [y EXCEPT !.pc = pc]
           IN  /\ x \in SessionState /\ Signing(x) = {} /\ Signing(y) = {}
               /\ SessionInv(s, x, lk, ap, wr)
<1> DEFINE x == [y EXCEPT !.pc = pc]
<1>1. y.kind \notin {"approve", "bulk"} /\ Signing(y) = {}
  BY DEF SessionInv, Approving, Signing, Handling
<1>2. x \in SessionState /\ Signing(x) = {}
  BY <1>1 DEF SessionState, Signing
<1>3. SessionInv(s, x, lk, ap, wr)
  BY <1>1, <1>2 DEF SessionState, SessionInv, Handling, Approving, BulkSigning, Signing
<1> QED BY <1>1, <1>2, <1>3

LEMMA GatePassesKeeps == ASSUME IInv, NEW s \in Sessions, GatePasses(s) PROVE IInv'
<1>1. PICK y \in SessionState : y = ses[s] /\ SessionInv(s, y, lock, approvals, writes)
  BY TheSession
<1> DEFINE x == [y EXCEPT !.pc = "write"]
<1>2. Handling(y) /\ y.pc = "gate"
  BY <1>1 DEF GatePasses, GateOpens, At, Handling
<1>3. /\ x \in SessionState /\ Signing(x) = {} /\ Signing(y) = {}
      /\ SessionInv(s, x, lock, approvals, writes)
  BY <1>1, <1>2, HandlingMoves
<1>4. x.pc = "write" /\ x.run = y.run
  BY DEF SessionState
<1>5. ses' = [ses EXCEPT ![s] = x]
  BY <1>1 DEF GatePasses, Go
<1> HIDE DEF x
<1> QED BY <1>1, <1>3, <1>4, <1>5, QuietStep DEF GatePasses

LEMMA BaselineUnreadKeeps ==
    ASSUME IInv, NEW s \in Sessions, BaselineUnread(s) PROVE IInv'
<1>1. PICK y \in SessionState : y = ses[s] /\ SessionInv(s, y, lock, approvals, writes)
  BY TheSession
<1> DEFINE x == [y EXCEPT !.pc = "done"]
<1>2. Handling(y) /\ y.pc = "record"
  BY <1>1 DEF BaselineUnread, At, Handling
<1>3. /\ x \in SessionState /\ Signing(x) = {} /\ Signing(y) = {}
      /\ SessionInv(s, x, lock, approvals, writes)
  BY <1>1, <1>2, HandlingMoves
<1>4. ses' = [ses EXCEPT ![s] = x]
  BY <1>1 DEF BaselineUnread, Go
<1> HIDE DEF x
<1> QED BY <1>1, <1>2, <1>3, <1>4, QuietStep DEF BaselineUnread

LEMMA FinishKeeps == ASSUME IInv, NEW s \in Sessions, Finish(s) PROVE IInv'
<1>1. PICK y \in SessionState : y = ses[s] /\ SessionInv(s, y, lock, approvals, writes)
  BY TheSession
<1>2. PICK a \in First(y.run) : ses' = [ses EXCEPT ![s] = Leaving(y, a)]
  BY <1>1 DEF Finish, Done, Leaving, Go
<1>3. a \in Actions /\ y.pc = "done" /\ Handling(y)
  BY <1>1, <1>2, FirstIsOne DEF SessionState, Finish, At, Handling
<1> QED BY <1>1, <1>2, <1>3, DoneKeeps, QuietStep DEF Finish

\* A write makes the next version of the ticket and counts for its action.
LEMMA ApplyTyped ==
    ASSUME IInv, NEW a \in Actions, a \in approvals, Apply(a)
    PROVE  /\ ver' = ver + 1 /\ ver' \in 1 .. MaxVersion /\ edited' \in BOOLEAN /\ unread' = unread
           /\ writes' \in [Actions -> 0 .. 2] /\ writes'[a] > 0
           /\ \A b \in Actions : writes[b] > 0 => writes'[b] > 0
           /\ \A b \in Actions : writes'[b] > 0 => writes[b] > 0 \/ b \in approvals
BY SizeAssumption DEF IInv, TypeOK, Apply

LEMMA WriteAnsweredKeeps == ASSUME IInv, NEW s \in Sessions, WriteAnswered(s) PROVE IInv'
<1>1. PICK y \in SessionState : y = ses[s] /\ SessionInv(s, y, lock, approvals, writes)
  BY TheSession
<1>2. PICK a \in First(y.run) :
        /\ Apply(a)
        /\ Put(s, a, [draft[a] EXCEPT !.status = "executed", !.at = ver + 1])
        /\ Go(s, [y EXCEPT !.pc = "record"])
  BY <1>1 DEF WriteAnswered
<1>3. a \in Actions /\ y.pc = "write" /\ Handling(y) /\ \A b \in First(y.run) : b = a
  BY <1>1, <1>2, FirstIsOne DEF SessionState, WriteAnswered, At, Handling
<1>4. a \in approvals
  BY <1>1, <1>2, <1>3 DEF SessionInv
<1>5. /\ ver' = ver + 1 /\ ver' \in 1 .. MaxVersion /\ edited' \in BOOLEAN /\ unread' = unread
      /\ writes' \in [Actions -> 0 .. 2] /\ writes'[a] > 0
      /\ \A b \in Actions : writes[b] > 0 => writes'[b] > 0
      /\ \A b \in Actions : writes'[b] > 0 => writes[b] > 0 \/ b \in approvals
  BY <1>2, <1>3, <1>4, ApplyTyped
<1> DEFINE r == [draft[a] EXCEPT !.status = "executed", !.at = ver + 1]
           x == [y EXCEPT !.pc = "record"]
<1>6. r \in Row /\ r.status = "executed"
  <2>1. PICK d \in Row : d = draft[a]
    BY <1>3, TheDraft
  <2>2. ver + 1 \in 0 .. MaxVersion
    BY <1>5
  <2>3. ASSUME NEW v \in 0 .. MaxVersion
        PROVE  LET z == [d EXCEPT !.status = "executed", !.at = v]
               IN  z \in Row /\ z.status = "executed"
    BY DEF Row, Status, Terminal
  <2> QED BY <2>1, <2>2, <2>3
<1>7. /\ x \in SessionState /\ Signing(x) = {} /\ Signing(y) = {}
      /\ SessionInv(s, x, lock, approvals, writes)
  BY <1>1, <1>3, HandlingMoves
<1>8. SessionInv(s, x, lock', approvals, writes')
  <2>1. \A b \in Actions : lock[b] = s => lock'[b] = s
    BY <1>2, <1>3 DEF Put, IInv, TypeOK
  <2> HIDE DEF x
  <2> QED BY <1>5, <1>7, <2>1 DEF SessionInv, SessionState, First
<1>9. Put(s, a, r) /\ ses' = [ses EXCEPT ![s] = x]
  BY <1>2 DEF Go
<1> HIDE DEF r, x
<1> QED BY <1>1, <1>3, <1>4, <1>5, <1>6, <1>7, <1>8, <1>9, PutStep

LEMMA WriteUnansweredKeeps ==
    ASSUME IInv, NEW s \in Sessions, WriteUnanswered(s) PROVE IInv'
<1>1. PICK y \in SessionState : y = ses[s] /\ SessionInv(s, y, lock, approvals, writes)
  BY TheSession
<1>2. PICK a \in First(ses[s].run) :
        Apply(a) /\ Put(s, a, Failed(draft[a])) /\ Go(s, Done(s, a))
  BY DEF WriteUnanswered
<1>3. a \in Actions /\ Handling(ses[s])
  BY <1>1, <1>2, FirstIsOne DEF SessionState, WriteUnanswered, At, Handling
<1>4. a \in approvals
  BY <1>1, <1>2, <1>3 DEF SessionInv
<1>5. Failed(draft[a]) \in Row /\ Failed(draft[a]).status = "approved"
  BY <1>3, TheDraft, FailedTyped
<1>6. Done(s, a) = Leaving(ses[s], a)
  BY DEF Done, Leaving
<1> QED BY <1>2, <1>3, <1>4, <1>5, <1>6, ApplyTyped, LeavingWrites

LEMMA RecordBaselineKeeps ==
    ASSUME IInv, NEW s \in Sessions, RecordBaseline(s) PROVE IInv'
<1>1. PICK y \in SessionState : y = ses[s] /\ SessionInv(s, y, lock, approvals, writes)
  BY TheSession
<1> DEFINE sib(a) == {b \in draft[a].meta.batch \ {a} : See(s, b).status \in Reviewable}
           ent(a) == [b \in Actions |-> IF b \in sib(a)
                        THEN [See(s, b) EXCEPT !.meta.base = ver] ELSE y.ent[b]]
           r(a) == [draft[a] EXCEPT !.meta.post = ver]
           x(a) == Saving(y, sib(a), ent(a), "done")
<1>2. PICK a \in First(y.run) :
        Put(s, a, r(a)) /\ Go(s, x(a)) /\ UNCHANGED world
  BY <1>1 DEF RecordBaseline, Settle
<1>3. a \in Actions /\ y.pc = "record" /\ Handling(y) /\ \A b \in First(y.run) : b = a
  BY <1>1, <1>2, FirstIsOne DEF SessionState, RecordBaseline, At, Handling
<1>4. /\ a \in approvals /\ lock[a] = s
      /\ y.kind \notin {"approve", "bulk"} /\ Signing(y) = {}
  BY <1>1, <1>2, <1>3 DEF SessionInv, Approving, Signing
<1>5. ver \in 0 .. MaxVersion
  BY DEF IInv, TypeOK
<1>6. ASSUME NEW e \in Row
      PROVE  /\ [e EXCEPT !.meta.base = ver] \in Row
             /\ [e EXCEPT !.meta.base = ver].status = e.status
             /\ [e EXCEPT !.meta.post = ver] \in Row
             /\ [e EXCEPT !.meta.post = ver].status = e.status
  <2>1. PICK m \in Metadata : m = e.meta
    BY DEF Row
  <2>2. [m EXCEPT !.base = ver] \in Metadata /\ [m EXCEPT !.post = ver] \in Metadata
    BY <1>5 DEF Metadata
  <2>3. /\ [e EXCEPT !.meta.base = ver] = [e EXCEPT !.meta = [m EXCEPT !.base = ver]]
        /\ [e EXCEPT !.meta.post = ver] = [e EXCEPT !.meta = [m EXCEPT !.post = ver]]
    BY <2>1 DEF Row
  <2> QED BY <2>2, <2>3 DEF Row
<1>7. /\ r(a) \in Row /\ r(a).status = draft[a].status /\ r(a).status # "executing"
      /\ r(a).status = "executed" => writes[a] > 0
  <2>1. PICK d \in Row : d = draft[a]
    BY <1>3, TheDraft
  <2>2. d.status # "executing" /\ (d.status = "executed" => writes[a] > 0)
    BY <1>1, <1>3, <1>4, <2>1 DEF IInv, RowInv
  <2> QED BY <1>6, <2>1, <2>2
<1>8. Savable(y, ent(a))
  <2>1. ASSUME NEW b \in Actions
        PROVE  /\ ent(a)[b] \in Row /\ ent(a)[b].status # "executing"
               /\ ent(a)[b].status \in {"approved", "executed"} => b \in approvals
               /\ ent(a)[b].status = "executed" => writes[b] > 0
    <3>1. CASE b \in sib(a)
      <4>1. PICK e \in Row : e = See(s, b)
        BY SeenRow
      <4>2. e.status \in {"approved", "executed"} => b \in approvals
        BY <1>1, <1>4, <4>1, SeenRow
      <4>3. e.status \in Reviewable
        BY <3>1, <4>1
      <4>4. ent(a)[b] = [e EXCEPT !.meta.base = ver]
        BY <3>1, <4>1
      <4> HIDE DEF ent
      <4> QED BY <1>6, <4>2, <4>3, <4>4 DEF Reviewable
    <3>2. CASE b \notin sib(a)
      BY <1>1, <1>4, <3>2 DEF SessionState, SessionInv
    <3> QED BY <3>1, <3>2
  <2>2. ent(a) = [b \in Actions |-> ent(a)[b]]
    OBVIOUS
  <2> HIDE DEF ent
  <2> QED BY <2>1, <2>2 DEF Savable
<1>9. sib(a) \in SUBSET Actions
  <2>1. PICK d \in Row : d = draft[a]
    BY <1>3, TheDraft
  <2> QED BY <2>1 DEF Row, Metadata
<1>10. x(a) \in SessionState /\ Signing(x(a)) = {}
  <2> HIDE DEF ent, sib
  <2> QED BY <1>4, <1>8, <1>9 DEF Saving, SessionState, Savable, Signing
<1>11. SessionInv(s, x(a), lock', approvals, writes)
  <2>1. lock' = lock
    BY <1>2, <1>3, <1>4 DEF Put, IInv, TypeOK
  <2>2. /\ x(a).run = y.run /\ x(a).kind = y.kind /\ x(a).ent = ent(a)
        /\ x(a).pc \in {"select", "done"} /\ x(a).next = "done"
    <3> HIDE DEF ent, sib
    <3> QED BY DEF Saving, SessionState
  <2> HIDE DEF x, ent, sib
  <2>3. /\ \A b \in Actions : ent(a)[b].status # "executing"
        /\ \A b \in Actions : ent(a)[b].status \in {"approved", "executed"} => b \in approvals
        /\ \A b \in Actions : ent(a)[b].status = "executed" => writes[b] > 0
    BY <1>4, <1>8 DEF Savable
  <2>4. \A b \in First(x(a).run) : lock'[b] = s /\ b \in approvals
    BY <1>3, <1>4, <2>1, <2>2
  <2> QED BY <1>4, <2>2, <2>3, <2>4 DEF SessionInv, Approving, BulkSigning
<1>12. /\ ver' \in 1 .. MaxVersion /\ edited' \in BOOLEAN /\ unread' = unread /\ writes' = writes
       /\ writes' \in [Actions -> 0 .. 2]
  BY <1>2 DEF world, IInv, TypeOK
<1>13. ses' = [ses EXCEPT ![s] = x(a)]
  BY <1>2 DEF Go
<1> HIDE DEF r, x
<1> QED BY <1>1, <1>2, <1>3, <1>4, <1>7, <1>10, <1>11, <1>12, <1>13, PutStep

LEMMA HandlerFailsKeeps == ASSUME IInv, NEW s \in Sessions, HandlerFails(s) PROVE IInv'
<1>1. PICK y \in SessionState : y = ses[s] /\ SessionInv(s, y, lock, approvals, writes)
  BY TheSession
<1> DEFINE undone(a) == {b \in Actions \ {a} : lock[b] = s /\ y.kind = "plan"}
           r(a) == Failed(AtSavepoint(s, a))
<1>2. PICK a \in First(y.run) :
        /\ draft' = [b \in Actions |-> CASE b = a -> r(a)
                                         [] b \in undone(a) -> row[b]
                                         [] OTHER -> draft[b]]
        /\ lock' = [b \in Actions |-> IF b \in undone(a) THEN NoSession ELSE lock[b]]
        /\ Go(s, Done(s, a))
  BY <1>1 DEF HandlerFails
<1>3. /\ a \in Actions /\ Handling(y) /\ y.pc \notin {"gate", "write"}
  BY <1>1, <1>2, FirstIsOne DEF SessionState, HandlerFails, At, Handling, Rebasing
<1>4. a \in approvals /\ lock[a] = s
  BY <1>1, <1>2, <1>3 DEF SessionInv
<1> DEFINE x == Leaving(y, a)
<1>5. /\ x \in SessionState /\ Signing(y) = {} /\ Signing(x) = {}
      /\ SessionInv(s, x, lock', approvals, writes)
  BY <1>1, <1>3, DoneKeeps
<1>6. ses' = [ses EXCEPT ![s] = x]
  BY <1>1, <1>2 DEF Go, Done, Leaving
<1>7. r(a) \in Row /\ r(a).status = "approved"
  <2>1. PICK d \in Row, e \in Row, f \in Row : d = draft[a] /\ e = row[a] /\ f = y.ent[a]
    BY <1>3 DEF IInv, TypeOK, SessionState
  <2>2. AtSavepoint(s, a) = [d EXCEPT !.status = "executing", !.at = e.at, !.meta = f.meta]
    BY <1>1, <2>1 DEF AtSavepoint
  <2>3. [d EXCEPT !.status = "executing", !.at = e.at, !.meta = f.meta] \in Row
    BY DEF Row, Status
  <2> QED BY <2>2, <2>3, FailedTyped
<1> HIDE DEF x, r
<1>8. UNCHANGED <<row, approvals, verdict, ver, edited, unread, writes>>
  BY DEF HandlerFails, world
<1>9. ASSUME NEW b \in Actions
      PROVE  \/ b = a /\ draft'[b] = r(a) /\ lock'[b] = s
             \/ b # a /\ lock[b] = s /\ draft'[b] = row[b] /\ lock'[b] = NoSession
             \/ b # a /\ draft'[b] = draft[b] /\ lock'[b] = lock[b]
  BY <1>2, <1>4
<1>10. TypeOK'
  <2>1. draft' \in [Actions -> Row] /\ lock' \in [Actions -> Sessions \cup {NoSession}]
    BY <1>2, <1>7, <1>9 DEF IInv, TypeOK
  <2> QED BY <1>5, <1>6, <1>8, <2>1 DEF IInv, TypeOK
<1>11. ASSUME NEW b \in Actions PROVE RowInv(b)'
  <2>1. s # NoSession /\ ses[s] = y /\ Signing(ses[s]) = {}
    BY <1>1, <1>5, PartiesAssumption
  <2>2. \A t \in Sessions \ {s} : ses'[t] = ses[t]
    BY <1>6 DEF IInv, TypeOK
  <2> QED BY <1>3, <1>4, <1>7, <1>8, <1>9, <2>1, <2>2 DEF IInv, RowInv
<1>12. ASSUME NEW t \in Sessions PROVE SessionInv(t, ses[t], lock, approvals, writes)'
  <2>1. CASE t = s
    BY <1>5, <1>6, <1>8, <2>1 DEF IInv, TypeOK, SessionInv
  <2>2. CASE t # s
    <3>1. \A b \in Actions : lock[b] = t => lock'[b] = t
      BY <1>4, <1>9, <2>2
    <3>2. ses'[t] = ses[t]
      BY <1>6, <2>2 DEF IInv, TypeOK
    <3> QED BY <1>8, <3>1, <3>2 DEF IInv, TypeOK, SessionInv, SessionState, First
  <2> QED BY <2>1, <2>2
<1> QED BY <1>10, <1>11, <1>12 DEF IInv

LEMMA AbortOneKeeps == ASSUME IInv, NEW s \in Sessions, AbortOne(s) PROVE IInv'
<1>1. PICK y \in SessionState : y = ses[s] /\ SessionInv(s, y, lock, approvals, writes)
  BY TheSession
<1> DEFINE x(a) == [Leaving(y, a) EXCEPT !.pc = "xread"]
<1>2. PICK a \in First(y.run) : Rollback(s, IF y.run = {a} THEN Idle ELSE x(a))
  BY <1>1 DEF AbortOne, Done, Leaving
<1>3. a \in Actions /\ y.pc \in Executing /\ y.kind = "plan"
  BY <1>1, <1>2, FirstIsOne DEF SessionState, AbortOne
<1>4. CASE Rollback(s, Idle)
  BY <1>4, IdleTyped, RollbackStep
<1>5. CASE Rollback(s, x(a))
  <2>1. PICK z \in SessionState : z = Leaving(y, a) /\ SessionInv(s, z, lock', approvals, writes)
    BY <1>1, <1>3, DoneKeeps
  <2>2. z.kind = "plan"
    BY <1>3, <2>1 DEF Leaving, SessionState
  <2>3. [z EXCEPT !.pc = "xread"] \in SessionState
    BY DEF SessionState
  <2>4. SessionInv(s, [z EXCEPT !.pc = "xread"], lock', approvals, writes)
    BY <2>1, <2>2 DEF SessionState, SessionInv, Signing, Handling, Approving, BulkSigning
  <2> QED BY <1>5, <2>1, <2>3, <2>4, RollbackStep
<1> QED BY <1>2, <1>4, <1>5

--------------------------------------------------------------------------------
(* The sweeper *)

LEMMA SweepHeldKeeps == ASSUME IInv, NEW s \in Sessions, SweepHeld(s) PROVE IInv'
<1>1. PICK y \in SessionState : y = ses[s] /\ SessionInv(s, y, lock, approvals, writes)
  BY TheSession
<1>2. y.kind = "sweep" /\ Signing(y) = {} /\ y.pc \in {"read", "queue"}
  BY <1>1 DEF SweepHeld, At, Signing
<1>3. CASE ses' = [ses EXCEPT ![s] = Idle]
  BY <1>1, <1>2, <1>3, IdleTyped, QuietStep DEF SweepHeld
<1>4. CASE ses' = [ses EXCEPT ![s] = [y EXCEPT !.pc = "commit"]]
  <2> DEFINE x == [y EXCEPT !.pc = "commit"]
  <2>1. x \in SessionState /\ Signing(x) = {}
    BY <1>2 DEF SessionState, Signing
  <2>2. SessionInv(s, x, lock, approvals, writes)
    BY <1>1, <1>2 DEF SessionState, SessionInv, Signing, Handling, Approving, BulkSigning
  <2> HIDE DEF x
  <2>3. ses' = [ses EXCEPT ![s] = x]
    BY <1>4 DEF x
  <2> QED BY <1>1, <1>2, <2>1, <2>2, <2>3, QuietStep DEF SweepHeld
<1> QED BY <1>1, <1>3, <1>4 DEF SweepHeld, Go

LEMMA SweepReadKeeps ==
    ASSUME IInv, NEW s \in Sessions, NEW held \in BOOLEAN, SweepRead(s, held) PROVE IInv'
<1>1. PICK y \in SessionState : y = ses[s] /\ SessionInv(s, y, lock, approvals, writes)
  BY TheSession
<1> DEFINE S == IF held THEN {}
                ELSE {a \in Actions : See(s, a).status \in Reviewable /\ See(s, a).exp = "past"}
           ent == [a \in Actions |-> IF a \in S THEN [See(s, a) EXCEPT !.status = "expired"]
                                               ELSE Prepared]
           x == Saving(y, S, ent, "queue")
<1>2. y.kind = "sweep" /\ Signing(y) = {} /\ y.pc = "read"
  BY <1>1 DEF SweepRead, At, Signing
<1>3. ses' = [ses EXCEPT ![s] = x]
  BY <1>1 DEF SweepRead, Go
<1>4. Savable(y, ent)
  <2>1. ASSUME NEW a \in Actions
        PROVE  ent[a] \in Row /\ ent[a].status \in {"expired", "pending"}
    <3>1. PICK e \in Row : e = See(s, a)
      BY SeenRow
    <3>2. [e EXCEPT !.status = "expired"] \in Row
      BY DEF Row, Status, Terminal
    <3> HIDE DEF S
    <3> QED BY <3>1, <3>2, PreparedTyped DEF Row
  <2>2. ent = [a \in Actions |-> ent[a]]
    OBVIOUS
  <2> HIDE DEF ent
  <2> QED BY <2>1, <2>2 DEF Savable
<1>5. S \in SUBSET Actions
  OBVIOUS
<1> HIDE DEF S, ent
<1>6. /\ x \in SessionState /\ Signing(x) = Signing(y)
      /\ SessionInv(s, x, lock, approvals, writes)
  BY <1>2, <1>4, <1>5, SavingKeeps
<1> HIDE DEF x
<1> QED BY <1>1, <1>2, <1>3, <1>6, QuietStep DEF SweepRead

LEMMA RequeuedTyped ==
    ASSUME NEW r \in Row
    PROVE  /\ Requeued(r) \in Row
           /\ \A a \in Actions : BatchOf(Requeued(r), a) \in SUBSET Actions
<1>1. Requeued(r) \in Row
  BY FailedTyped DEF Requeued
<1>2. \A e \in Row, a \in Actions : BatchOf(e, a) \in SUBSET Actions
  BY DEF BatchOf, Row, Metadata
<1> QED BY <1>1, <1>2

LEMMA SweepQueueKeeps ==
    ASSUME IInv, NEW s \in Sessions, NEW held \in BOOLEAN, NEW cool \in SUBSET Actions,
           SweepQueue(s, held, cool)
    PROVE  IInv'
<1>1. PICK y \in SessionState : y = ses[s] /\ SessionInv(s, y, lock, approvals, writes)
  BY TheSession
<1> DEFINE cand == {a \in Actions : See(s, a).status \in {"approved", "executing"}}
           new  == [a \in Actions |-> Requeued(See(s, a))]
           dead == {a \in cand : new[a].meta.att >= MaxAttempts}
           S    == dead \cup {a \in cand : See(s, a).status = "executing"}
           ent  == [a \in Actions |->
                        CASE a \in dead -> [new[a] EXCEPT !.status = "expired"]
                          [] a \in S \ dead -> new[a]
                          [] OTHER -> Prepared]
           B    == {BatchOf(new[a], a) : a \in {b \in cand \ (dead \cup cool) : new[b].meta.queued}}
           bs   == IF held THEN {} ELSE B
           z    == [y EXCEPT !.batches = bs]
           x    == Saving(z, S, ent, "filter")
<1>2. y.pc = "queue" /\ Signing(y) = {} /\ y.kind \notin {"approve", "bulk"}
  BY <1>1 DEF SweepQueue, At, SessionInv, Approving, Signing
<1>3. ses' = [ses EXCEPT ![s] = x]
  BY <1>1 DEF SweepQueue, Go
<1>4. S \in SUBSET Actions /\ dead \in SUBSET Actions
  OBVIOUS
<1>5. \A a \in Actions : See(s, a).status # "executing"
  BY <1>1, <1>2, SeenRow
<1>6. S = dead
  BY <1>5
<1>7. ASSUME NEW a \in Actions
      PROVE  new[a] \in Row /\ BatchOf(new[a], a) \in SUBSET Actions
  <2>1. PICK e \in Row : e = See(s, a)
    BY SeenRow
  <2> QED BY <2>1, RequeuedTyped
<1>8. bs \in SUBSET SUBSET Actions
  <2> HIDE DEF new, dead
  <2> QED BY <1>7
<1>9. ASSUME NEW a \in Actions
      PROVE  ent[a] \in Row /\ ent[a].status \in {"expired", "pending"}
  <2>1. PICK e \in Row : e = new[a]
    BY <1>7
  <2>2. [e EXCEPT !.status = "expired"] \in Row /\ [e EXCEPT !.status = "expired"].status = "expired"
    BY DEF Row, Status, Terminal
  <2> HIDE DEF S, dead, new
  <2> QED BY <1>6, <2>1, <2>2, PreparedTyped
<1>10. ent = [a \in Actions |-> ent[a]]
  OBVIOUS
<1> HIDE DEF S, ent, bs, dead, new
<1>11. z \in SessionState /\ Signing(z) = {} /\ z.kind = y.kind
  BY <1>2, <1>8 DEF SessionState, Signing
<1>12. Savable(z, ent)
  BY <1>9, <1>10 DEF Savable
<1> HIDE DEF z
<1>13. /\ x \in SessionState /\ Signing(x) = Signing(z)
       /\ SessionInv(s, x, lock, approvals, writes)
  BY <1>2, <1>4, <1>11, <1>12, SavingKeeps
<1> HIDE DEF x
<1> QED BY <1>1, <1>2, <1>3, <1>11, <1>13, QuietStep DEF SweepQueue

\* The sweep moves on, keeping its entities and signing nothing.
LEMMA SweepMovesKeeps ==
    ASSUME IInv, NEW s \in Sessions, SweepBatch(s) \/ \E cool \in SUBSET Actions : SweepFilter(s, cool)
    PROVE  IInv'
<1>1. PICK y \in SessionState : y = ses[s] /\ SessionInv(s, y, lock, approvals, writes)
  BY TheSession
<1>2. y.pc \in {"filter", "batch"} /\ Signing(y) = {} /\ y.kind \notin {"approve", "bulk"}
  BY <1>1 DEF SweepBatch, SweepFilter, At, SessionInv, Approving, Signing
<1>3. PICK bs \in SUBSET SUBSET Actions, run \in SUBSET Actions,
           pc \in {"commit", "batch", "plan"} :
        ses' = [ses EXCEPT ![s] = [y EXCEPT !.batches = bs, !.run = run, !.pc = pc]]
  <2>1. CASE SweepBatch(s)
    <3>1. PICK B \in y.batches :
            ses' = [ses EXCEPT ![s] = [y EXCEPT !.batches = y.batches \ {B}, !.run = B, !.pc = "plan"]]
      BY <1>1, <2>1 DEF SweepBatch, Go
    <3>2. y.batches \ {B} \in SUBSET SUBSET Actions /\ B \in SUBSET Actions
      BY <3>1 DEF SessionState
    <3> QED BY <3>1, <3>2
  <2>2. CASE \E cool \in SUBSET Actions : SweepFilter(s, cool)
    <3>1. PICK bs \in SUBSET y.batches :
            ses' = [ses EXCEPT ![s] = [y EXCEPT !.batches = bs, !.pc = BatchOrEnd(bs)]]
      BY <1>1, <2>2 DEF SweepFilter, Go
    <3>2. [y EXCEPT !.batches = bs, !.pc = BatchOrEnd(bs)]
            = [y EXCEPT !.batches = bs, !.run = y.run, !.pc = BatchOrEnd(bs)]
      BY DEF SessionState
    <3>3. bs \in SUBSET SUBSET Actions /\ y.run \in SUBSET Actions /\ BatchOrEnd(bs) \in {"commit", "batch"}
      BY DEF SessionState, BatchOrEnd
    <3> QED BY <3>1, <3>2, <3>3
  <2> QED BY <2>1, <2>2
<1> DEFINE x == [y EXCEPT !.batches = bs, !.run = run, !.pc = pc]
<1>4. x \in SessionState /\ Signing(x) = {}
  BY <1>2 DEF SessionState, Signing
<1>5. SessionInv(s, x, lock, approvals, writes)
  BY <1>1, <1>2 DEF SessionState, SessionInv, Signing, Handling, Approving, BulkSigning
<1>6. UNCHANGED <<db, world>>
  BY DEF SweepBatch, SweepFilter
<1> QED BY <1>1, <1>2, <1>3, <1>4, <1>5, <1>6, QuietStep

--------------------------------------------------------------------------------
(* The world, and the invariant *)

LEMMA LapseKeeps == ASSUME IInv, NEW a \in Actions, Lapse(a) PROVE IInv'
<1>1. ASSUME NEW e \in Row
      PROVE  [e EXCEPT !.exp = "past"] \in Row /\ [e EXCEPT !.exp = "past"].status = e.status
  BY DEF Row
<1>2. /\ row' = [row EXCEPT ![a] = [row[a] EXCEPT !.exp = "past"]]
      /\ draft' = [draft EXCEPT ![a] = [draft[a] EXCEPT !.exp = "past"]]
      /\ UNCHANGED <<lock, approvals, verdict, ses, ver, edited, unread, writes>>
  BY DEF Lapse, world, IInv, TypeOK
<1>3. PICK e \in Row, d \in Row : e = row[a] /\ d = draft[a]
  BY DEF IInv, TypeOK
<1>4. TypeOK'
  BY <1>1, <1>2, <1>3 DEF IInv, TypeOK
<1>5. ASSUME NEW b \in Actions PROVE RowInv(b)'
  <2>1. row'[b].status = row[b].status /\ draft'[b].status = draft[b].status
    BY <1>1, <1>2, <1>3 DEF IInv, TypeOK
  <2>2. lock[b] = NoSession => draft'[b] = row'[b]
    BY <1>2 DEF IInv, TypeOK, RowInv
  <2> QED BY <1>2, <2>1, <2>2 DEF IInv, RowInv
<1>6. ASSUME NEW t \in Sessions PROVE SessionInv(t, ses[t], lock, approvals, writes)'
  BY <1>2 DEF IInv, SessionInv
<1> QED BY <1>4, <1>5, <1>6 DEF IInv

LEMMA HumanEditKeeps == ASSUME IInv, HumanEdit PROVE IInv'
<1>1. TypeOK'
  BY SizeAssumption DEF HumanEdit, db, IInv, TypeOK
<1>2. ASSUME NEW b \in Actions PROVE RowInv(b)'
  BY DEF HumanEdit, db, IInv, RowInv
<1>3. ASSUME NEW t \in Sessions PROVE SessionInv(t, ses[t], lock, approvals, writes)'
  BY DEF HumanEdit, db, IInv, SessionInv
<1> QED BY <1>1, <1>2, <1>3 DEF IInv

\* Before any request, every row is as it was prepared.
LEMMA InitIInv == Init => IInv
<1> SUFFICES ASSUME Init PROVE IInv
  OBVIOUS
<1> DEFINE new(a) == [Prepared EXCEPT !.meta.base = IF a \in unread THEN 0 ELSE 1]
<1>1. /\ unread \in SUBSET Actions /\ row = [a \in Actions |-> new(a)] /\ draft = row
      /\ \A a \in Actions : new(a) \in Row /\ new(a).status = "pending"
  <2>1. ASSUME NEW b \in {0, 1}
        PROVE  LET e == [Prepared EXCEPT !.meta.base = b] IN e \in Row /\ e.status = "pending"
    <3>1. PICK e \in Row, m \in Metadata : e = Prepared /\ m = e.meta /\ e.status = "pending"
      BY PreparedTyped DEF Row
    <3>2. b \in 0 .. MaxVersion
      BY SizeAssumption
    <3>3. [m EXCEPT !.base = b] \in Metadata
      BY <3>2 DEF Metadata
    <3> QED BY <3>1, <3>3 DEF Row
  <2> QED BY <2>1 DEF Init
<1> HIDE DEF new
<1>2. TypeOK
  <2>1. row \in [Actions -> Row] /\ draft \in [Actions -> Row] /\ unread \subseteq Actions
    BY <1>1
  <2>2. ses \in [Sessions -> SessionState]
    BY IdleTyped DEF Init
  <2>3. lock \in [Actions -> Sessions \cup {NoSession}] /\ approvals \subseteq Actions
    BY DEF Init
  <2>4. verdict \in [Actions -> {"none", "approved", "rejected", "dismissed"}]
    BY DEF Init
  <2>5. ver \in 1 .. MaxVersion
    BY SizeAssumption DEF Init
  <2>6. edited \in BOOLEAN
    BY Zenon DEF Init
  <2>7. writes \in [Actions -> 0 .. 2]
    BY DEF Init
  <2> QED BY <2>1, <2>2, <2>3, <2>4, <2>5, <2>6, <2>7 DEF TypeOK
<1>3. ASSUME NEW a \in Actions PROVE RowInv(a)
  <2>1. row[a].status = "pending" /\ draft[a] = row[a]
    BY <1>1
  <2>2. lock[a] = NoSession /\ writes[a] = 0
    BY DEF Init
  <2> QED BY <2>1, <2>2 DEF RowInv
<1>4. ASSUME NEW s \in Sessions PROVE SessionInv(s, ses[s], lock, approvals, writes)
  BY IdleTyped DEF Init
<1> QED BY <1>2, <1>3, <1>4 DEF IInv

\* Every step of every request, job and execution keeps the invariant.
LEMMA NextIInv == IInv /\ [Next]_vars => IInv'
<1> SUFFICES ASSUME IInv, [Next]_vars PROVE IInv'
  OBVIOUS
<1>1. ASSUME NEW s \in Sessions, Review(s) \/ Cron(s) PROVE IInv'
  <2>1. ASSUME NEW k, NEW S \in SUBSET Actions, Begin(s, k, S) PROVE IInv'
    BY <2>1, BeginKeeps
  <2>2. ASSUME NEW k \in DOMAIN Outcome, NEW a \in Actions, Begin(s, k, {a}) PROVE IInv'
    <3>1. {a} \in SUBSET Actions
      OBVIOUS
    <3> QED BY <2>1, <2>2, <3>1
  <2>3. CASE Cron(s)
    <3>1. {} \in SUBSET Actions
      OBVIOUS
    <3> QED BY <2>1, <2>3, <3>1 DEF Cron
  <2> QED BY <1>1, <2>1, <2>2, <2>3 DEF Review
<1>2. ASSUME NEW s \in Sessions, Save(s) PROVE IInv'
  BY <1>2, SelectKeeps, UpdateKeeps DEF Save
<1>3. ASSUME NEW s \in Sessions, Execute(s) PROVE IInv'
  BY <1>3, ReadApprovedKeeps, ClaimWonKeeps, ClaimLostKeeps, GatePassesKeeps, StaleKeeps,
     WriteAnsweredKeeps, RecordBaselineKeeps, FinishKeeps DEF Execute
<1>4. ASSUME NEW s \in Sessions, ExecuteFails(s) PROVE IInv'
  BY <1>4, AttemptFailsKeeps, WriteUnansweredKeeps, BaselineUnreadKeeps, HandlerFailsKeeps,
     AbortOneKeeps DEF ExecuteFails
<1>5. ASSUME NEW s \in Sessions, Sweep(s) PROVE IInv'
  BY <1>5, SweepReadKeeps, SweepQueueKeeps, SweepMovesKeeps, SweepHeldKeeps DEF Sweep
<1>6. ASSUME NEW s \in Sessions, Step(s) \/ Crash(s) PROVE IInv'
  BY <1>2, <1>3, <1>4, <1>5, <1>6, DecideKeeps, BulkReadKeeps, BulkSignKeeps, PlanReadKeeps,
     CommitKeeps, CrashKeeps DEF Step
<1>7. ASSUME NEW a \in Actions, Lapse(a) PROVE IInv'
  BY <1>7, LapseKeeps
<1>8. CASE HumanEdit
  BY <1>8, HumanEditKeeps
<1>9. CASE UNCHANGED vars
  <2>1. TypeOK'
    BY <1>9 DEF vars, db, world, IInv, TypeOK
  <2>2. ASSUME NEW b \in Actions PROVE RowInv(b)'
    BY <1>9 DEF vars, db, world, IInv, RowInv
  <2>3. ASSUME NEW t \in Sessions PROVE SessionInv(t, ses[t], lock, approvals, writes)'
    BY <1>9 DEF vars, db, world, IInv, SessionInv
  <2> QED BY <2>1, <2>2, <2>3 DEF IInv
<1> QED BY <1>1, <1>6, <1>7, <1>8, <1>9 DEF Next

\* The rows and the sessions satisfy the inductive invariant in every state.
THEOREM Inductive == Spec => []IInv
<1>1. Init => IInv
  BY InitIInv
<1>2. IInv /\ [Next]_vars => IInv'
  BY NextIInv
<1> QED BY <1>1, <1>2, PTL DEF Spec

--------------------------------------------------------------------------------
(* What follows for the code *)

\* Every variable keeps its type: no counter, baseline or batch leaves its range.
THEOREM TypeCorrect == Spec => []TypeOK
<1>1. IInv => TypeOK
  BY DEF IInv
<1> QED BY <1>1, Inductive, PTL

\* No transaction commits a claim in progress: reviewers and the sweeper never meet
\* an action in status executing.
THEOREM ClaimsStayPrivate == Spec => []ExecutingIsPrivate
<1>1. IInv => ExecutingIsPrivate
  BY DEF IInv, RowInv, ExecutingIsPrivate
<1> QED BY <1>1, Inductive, PTL

\* An action reported executed has been applied by the provider.
THEOREM ExecutedMeansWritten == Spec => []ExecutedWasWritten
<1>1. IInv => ExecutedWasWritten
  BY DEF IInv, RowInv, ExecutedWasWritten
<1> QED BY <1>1, Inductive, PTL

\* An approved or executed action has a durable approval, whatever stale entities
\* concurrent requests save.
THEOREM ApprovalsBackStatus == Spec => []ApprovedIsBacked
<1>1. IInv => ApprovedIsBacked
  BY DEF IInv, RowInv, ApprovedIsBacked
<1> QED BY <1>1, Inductive, PTL

\* Nothing reaches the provider without a durable, committed approval.
WrittenWasApproved == \A a \in Actions : writes[a] > 0 => a \in approvals

\* The write of an action always follows the commit of its approval, whatever
\* sessions race, crash or save.
THEOREM ApprovedBeforeWritten == Spec => []WrittenWasApproved
<1>1. IInv => WrittenWasApproved
  BY DEF IInv, RowInv, WrittenWasApproved
<1> QED BY <1>1, Inductive, PTL

\* The atomic claim is exclusive: two sessions never execute the same action.
THEOREM ClaimsExclude == Spec => []ClaimIsExclusive
<1>1. IInv => ClaimIsExclusive
  <2> SUFFICES ASSUME IInv, NEW s \in Sessions, NEW t \in Sessions, s # t,
                      NEW a \in InHand(s), a \in InHand(t)
               PROVE  FALSE
    BY DEF ClaimIsExclusive
  <2>1. lock[a] = s
    BY DEF InHand, IInv, SessionInv, Handling
  <2>2. lock[a] = t
    BY DEF InHand, IInv, SessionInv, Handling
  <2> QED BY <2>1, <2>2
<1> QED BY <1>1, Inductive, PTL
================================================================================
