-------------------------- MODULE MutationPreviewsProofs --------------------------
(***************************************************************************)
(* What MutationPreviews promises of its previews, proved for plans of any *)
(* size and any number of requests: its types, that a decision stands,     *)
(* that an executed action request has an executed preview, and that an    *)
(* operation is written only after those its step depends on, whatever     *)
(* error undoes an operation; and, when no error after the operation finds *)
(* its data busy, that executed previews are those whose operation was     *)
(* written, once.                                                          *)
(*                                                                         *)
(* The properties speak of the committed rows.  A commit makes them what   *)
(* its request saw, so the invariant, SesInv, says of each request that    *)
(* what it sees is Sound: in the order of the plan, and, in the rows it    *)
(* holds, not contradicting a decision that another committed.  Two sound  *)
(* requests hold different rows, and SoundCommitted shows that one may     *)
(* commit under the other because a plan's order relates the rows of two   *)
(* steps only through decisions and operations, which stand.  A savepoint  *)
(* remembers what was sound, and its return leaves that.                   *)
(***************************************************************************)
EXTENDS MutationPreviews, SequenceTheorems, TLAPS

--------------------------------------------------------------------------------
(* Rows *)

\* The rows of a step, and the plan's.
LEMMA KeysAre ==
    /\ Plan \in Keys
    /\ \A p \in Steps : {Pv(p), Act(p), St(p), Op(p)} \subseteq Keys
    /\ \A k \in Keys : k = Plan \/ \E p \in Steps : k \in {Pv(p), Act(p), St(p), Op(p)}
BY DEF Keys, Plan, Pv, Act, St, Op

\* They are different rows.
LEMMA KeysDiffer ==
    \A p, q \in Steps :
        /\ Pv(p) # Act(q) /\ Pv(p) # St(q) /\ Pv(p) # Op(q) /\ Act(p) # St(q) /\ Act(p) # Op(q)
        /\ St(p) # Op(q) /\ Pv(p) # Plan /\ Act(p) # Plan /\ St(p) # Plan /\ Op(p) # Plan
        /\ Pv(p) = Pv(q) <=> p = q
        /\ Act(p) = Act(q) <=> p = q
        /\ St(p) = St(q) <=> p = q
        /\ Op(p) = Op(q) <=> p = q
BY DEF Plan, Pv, Act, St, Op

\* Their tables and steps.
LEMMA KeyParts ==
    /\ Plan[1] = "plan"
    /\ \A p \in Steps : /\ Pv(p)[1] = "preview" /\ Act(p)[1] = "action"
                        /\ St(p)[1] = "step" /\ Op(p)[1] = "written"
                        /\ Pv(p)[2] = p /\ Act(p)[2] = p /\ St(p)[2] = p /\ Op(p)[2] = p
BY DEF Plan, Pv, Act, St, Op

PreviewStatus == {"none", "pending", "executed", "failed", "rejected", "expired"}
ActionStatus == {"none", "pending", "approved", "executed", "failed", "rejected", "expired"}
StepStatus == {"waiting", "ready", "executed", "failed", "blocked"}

\* The statuses of the tables.
LEMMA StatusesAre ==
    /\ Statuses["preview"] = PreviewStatus
    /\ Statuses["action"] = ActionStatus
    /\ Statuses["step"] = StepStatus
    /\ Statuses["written"] = {"none", "once", "twice"}
    /\ Statuses["plan"] = {"active", "completed", "failed"}
BY DEF Statuses, PreviewStatus, ActionStatus, StepStatus

Value == PreviewStatus \cup ActionStatus \cup StepStatus \cup
         {"once", "twice", "active", "completed"}

\* Every row of table T has a status of its kind.
Fits(T) ==
    /\ T \in [Keys -> Value]
    /\ \A p \in Steps : /\ T[Pv(p)] \in PreviewStatus
                        /\ T[Act(p)] \in ActionStatus
                        /\ T[St(p)] \in StepStatus
                        /\ T[Op(p)] \in {"none", "once", "twice"}
    /\ T[Plan] \in {"active", "completed", "failed"}

\* Its statuses are those of TypeOK.
LEMMA FitsMeans == ASSUME NEW T, Fits(T) PROVE \A k \in Keys : T[k] \in Statuses[k[1]]
<1> TAKE k \in Keys
<1>1. CASE k = Plan
  BY <1>1, KeyParts, StatusesAre DEF Fits
<1>2. ASSUME NEW p \in Steps, k \in {Pv(p), Act(p), St(p), Op(p)} PROVE T[k] \in Statuses[k[1]]
  BY <1>2, KeyParts, StatusesAre DEF Fits
<1> QED BY <1>1, <1>2, KeysAre

\* Table T with the rows of K written as in f.
With(T, K, f) == [k \in Keys |-> IF k \in K THEN f[k] ELSE T[k]]

\* The rows that request x has locked, the rows as it sees them, and as its savepoint has them.
Held(x) == {k \in Keys : lock[k] = x}
View(x) == With(row, Held(x), draft)
Saved(x) == With(row, DOMAIN ses[x].back, ses[x].back)

\* What a request sees of a row.
LEMMA ViewIs == ASSUME NEW x, NEW k \in Keys PROVE Seen(x, k) = View(x)[k]
BY DEF Seen, Visible, View, With, Held

\* A table of statuses stays one when rows of it take statuses of another.
LEMMA WithFits ==
    ASSUME NEW T, Fits(T), NEW K, NEW f, Fits(f)
    PROVE  Fits(With(T, K, f))
BY KeysAre DEF Fits, With

--------------------------------------------------------------------------------
(* Types *)

PCs == {"idle", "sign", "lock", "take", "operate", "mark", "advance", "close", "commit"}

\* What a savepoint remembers.
Savings == UNION {[K -> Value] : K \in SUBSET Keys}

Request == [pc : PCs, kind : {"none", "approve", "reject"}, ids : Seq(Steps), at : 1 .. Width,
            stale : SUBSET Steps, back : Savings]

\* The types, with what keeps a request inside its batch and a savepoint inside its tables.
Types ==
    /\ Fits(row) /\ Fits(draft)
    /\ lock \in [Keys -> Sessions \cup {Nobody}]
    /\ old \in [Steps -> BOOLEAN]
    /\ ses \in [Sessions -> Request]
    /\ overlap \in BOOLEAN
    /\ \A x \in Sessions : /\ ~ At(x, "idle") => ses[x].at <= Len(ses[x].ids)
                           /\ Len(ses[x].ids) <= Width
                           /\ Fits(With(row, DOMAIN ses[x].back, ses[x].back))

\* The place of a request in its batch.
LEMMA CurIs ==
    ASSUME Types, NEW x \in Sessions, ~ At(x, "idle")
    PROVE  /\ Cur(x) \in Steps /\ ses[x].at \in 1 .. Len(ses[x].ids) /\ Len(ses[x].ids) \in Nat
           /\ Batch(x) = {ses[x].ids[i] : i \in 1 .. Len(ses[x].ids)}
<1>1. ses[x].ids \in Seq(Steps) /\ ses[x].at \in 1 .. Width /\ ses[x].at <= Len(ses[x].ids)
  BY DEF Types, Request
<1> QED BY <1>1, PreviewsAssumption DEF Cur, Batch

\* No request.
LEMMA NoRequestTyped ==
    /\ NoRequest \in Request /\ NoRequest.pc = "idle" /\ Len(NoRequest.ids) = 0
    /\ DOMAIN NoRequest.back = {}
<1>1. <<>> \in Seq(Steps) /\ Len(<<>>) = 0
  OBVIOUS
<1>2. <<>> \in [{} -> Value] /\ DOMAIN <<>> = {}
  OBVIOUS
<1>3. <<>> \in Savings
  BY <1>2 DEF Savings
<1>4. 1 \in 1 .. Width
  BY PreviewsAssumption
<1> QED BY <1>1, <1>2, <1>3, <1>4 DEF NoRequest, Request, PCs

\* One request goes on.
LEMMA RequestMoved ==
    ASSUME Types, NEW x \in Sessions, NEW n \in Request, ses' = [ses EXCEPT ![x] = n]
    PROVE  ses' \in [Sessions -> Request] /\ ses'[x] = n /\ \A y \in Sessions \ {x} : ses'[y] = ses[y]
BY DEF Types

\* A request goes to its next statement.
LEMMA ToDoes ==
    ASSUME Types, NEW x \in Sessions, NEW pc \in PCs, To(x, pc)
    PROVE  /\ ses' \in [Sessions -> Request] /\ \A y \in Sessions \ {x} : ses'[y] = ses[y]
           /\ ses'[x].pc = pc /\ ses'[x].kind = ses[x].kind /\ ses'[x].ids = ses[x].ids
           /\ ses'[x].at = ses[x].at /\ ses'[x].stale = ses[x].stale /\ ses'[x].back = ses[x].back
<1>1. PICK n \in Request : n = ses[x]
  BY DEF Types
<1> DEFINE m == [n EXCEPT !.pc = pc]
<1>2. /\ m \in Request /\ m.pc = pc /\ m.kind = n.kind /\ m.ids = n.ids /\ m.at = n.at
      /\ m.stale = n.stale /\ m.back = n.back
  BY DEF Request
<1>3. ses' = [ses EXCEPT ![x] = m]
  BY <1>1 DEF To
<1> HIDE DEF m
<1> QED BY <1>1, <1>2, <1>3, RequestMoved

\* A request goes to its next preview, or to its end.
LEMMA FollowingDoes ==
    ASSUME Types, NEW x \in Sessions, ~ At(x, "idle"), Following(x)
    PROVE  /\ ses' \in [Sessions -> Request] /\ \A y \in Sessions \ {x} : ses'[y] = ses[y]
           /\ ses'[x].kind = ses[x].kind /\ ses'[x].ids = ses[x].ids
           /\ ses'[x].stale = ses[x].stale /\ ses'[x].back = ses[x].back
           /\ \/ /\ ses[x].at < Len(ses[x].ids)
                 /\ ses'[x].pc = "take" /\ ses'[x].at = ses[x].at + 1
              \/ /\ ses[x].at = Len(ses[x].ids)
                 /\ ses'[x].pc = "commit" /\ ses'[x].at = ses[x].at
<1>1. PICK n \in Request : n = ses[x]
  BY DEF Types
<1>2. n.at \in 1 .. Len(n.ids) /\ Len(n.ids) \in Nat /\ Len(n.ids) <= Width
  BY <1>1, CurIs DEF Types
<1>3. CASE n.at < Len(n.ids)
  <2> DEFINE i == n.at + 1
             m == [n EXCEPT !.pc = "take", !.at = i]
  <2>1. i \in 1 .. Width
    BY <1>2, <1>3, PreviewsAssumption
  <2>2. ses' = [ses EXCEPT ![x] = m]
    BY <1>1, <1>3 DEF Following
  <2> HIDE DEF i
  <2>3. /\ m \in Request /\ m.pc = "take" /\ m.kind = n.kind /\ m.ids = n.ids /\ m.at = i
        /\ m.stale = n.stale /\ m.back = n.back
    BY <2>1 DEF Request, PCs
  <2> HIDE DEF m
  <2> QED BY <1>1, <1>3, <2>2, <2>3, RequestMoved DEF i
<1>4. CASE ~ n.at < Len(n.ids)
  <2> DEFINE m == [n EXCEPT !.pc = "commit"]
  <2>1. ses' = [ses EXCEPT ![x] = m]
    BY <1>1, <1>4 DEF Following
  <2>2. /\ m \in Request /\ m.pc = "commit" /\ m.kind = n.kind /\ m.ids = n.ids /\ m.at = n.at
        /\ m.stale = n.stale /\ m.back = n.back
    BY DEF Request, PCs
  <2> HIDE DEF m
  <2>3. n.at = Len(n.ids)
    BY <1>2, <1>4
  <2> QED BY <1>1, <2>1, <2>2, <2>3, RequestMoved
<1> QED BY <1>3, <1>4

\* A savepoint fits other committed rows as it fits these.
LEMMA SavingFits ==
    ASSUME NEW T, NEW R, NEW K, NEW f, Fits(With(T, K, f)), Fits(R)
    PROVE  Fits(With(R, K, f))
<1>1. With(R, K, f) = With(R, K, With(T, K, f))
  BY DEF With
<1> QED BY <1>1, WithFits

\* A write: the request locks the rows and sees them as it wrote them, the others see what
\* they saw.
LEMMA WriteDoes ==
    ASSUME Types, NEW x \in Sessions, NEW w, Write(x, w), UNCHANGED row,
           DOMAIN w \subseteq Keys, Fits(With(draft, DOMAIN w, w))
    PROVE  /\ Fits(draft') /\ lock' \in [Keys -> Sessions \cup {Nobody}]
           /\ Held(x)' = Held(x) \cup DOMAIN w
           /\ \A k \in Keys : View(x)'[k] = IF k \in DOMAIN w THEN w[k] ELSE View(x)[k]
           /\ \A y \in Sessions \ {x} : Held(y)' = Held(y) /\ View(y)' = View(y)
           /\ \A k \in DOMAIN w : lock[k] \in {Nobody, x}
<1>1. /\ draft' = With(draft, DOMAIN w, w)
      /\ lock' = [k \in Keys |-> IF k \in DOMAIN w THEN x ELSE lock[k]]
      /\ \A k \in DOMAIN w : lock[k] \in {Nobody, x}
  BY DEF Write, Free, Writable, With
<1>2. Held(x)' = Held(x) \cup DOMAIN w
  BY <1>1 DEF Held
<1>3. \A k \in Keys : View(x)'[k] = IF k \in DOMAIN w THEN w[k] ELSE View(x)[k]
  BY <1>1, <1>2 DEF View, With, Held
<1>4. ASSUME NEW y \in Sessions \ {x} PROVE Held(y)' = Held(y) /\ View(y)' = View(y)
  <2>1. Held(y)' = Held(y) /\ \A k \in Held(y) : k \notin DOMAIN w
    BY <1>1, PreviewsAssumption DEF Held
  <2> QED BY <1>1, <2>1 DEF View, With, Held
<1> QED BY <1>1, <1>2, <1>3, <1>4 DEF Types

\* One row fits.
LEMMA OneFits ==
    ASSUME NEW T, Fits(T), NEW k \in Keys, NEW v,
           \/ \E p \in Steps : \/ k = Pv(p) /\ v \in PreviewStatus
                               \/ k = Act(p) /\ v \in ActionStatus
                               \/ k = St(p) /\ v \in StepStatus
           \/ k = Plan /\ v \in {"active", "completed", "failed"}
    PROVE  /\ DOMAIN One(k, v) = {k} /\ One(k, v)[k] = v /\ {k} \subseteq Keys
           /\ Fits(With(T, DOMAIN One(k, v), One(k, v)))
<1>1. DOMAIN One(k, v) = {k} /\ One(k, v)[k] = v
  BY DEF One
<1>2. v \in Value
  BY DEF Value, PreviewStatus
<1>3. With(T, {k}, One(k, v)) \in [Keys -> Value]
  BY <1>1, <1>2 DEF With, Fits
<1> QED BY <1>1, <1>3, KeysAre, KeysDiffer DEF With, Fits

--------------------------------------------------------------------------------
(* The invariant *)

Undecided == {"none", "pending"}

\* The order of the plan in table T: a step that waits has no preview, one is executed once
\* its operation is written, a preview is made once those of the steps it depends on are,
\* and an operation is written once, with its preview, which is executed without it only
\* where a late error finds its data busy.
Order(T) ==
    \A p \in Steps :
        /\ T[St(p)] = "waiting" => T[Pv(p)] = "none"
        /\ T[St(p)] = "executed" => T[Op(p)] = "once"
        /\ T[Act(p)] = "executed" => T[Pv(p)] = "executed"
        /\ T[Pv(p)] # "none" => \A d \in Deps[p] : T[Op(d)] = "once"
        /\ T[Op(p)] # "none" => T[Op(p)] = "once" /\ T[Pv(p)] = "executed"
        /\ "busy" \notin LateErrors /\ T[Pv(p)] = "executed" => T[Op(p)] = "once"

\* The table T that a request sees, which differs from the committed rows in its own K: no
\* preview decided is decided otherwise and no operation written undone, no step waits
\* again, no action request is executed before the end, and an operation is written with
\* its preview.
Sound(K, T) ==
    /\ Order(T)
    /\ \A k \in Keys \ K : T[k] = row[k]
    /\ \A p \in Steps : /\ row[Pv(p)] \notin Undecided => T[Pv(p)] = row[Pv(p)]
                        /\ row[Op(p)] # "none" => T[Op(p)] = row[Op(p)]
                        /\ St(p) \in K => T[St(p)] # "waiting"
                        /\ Act(p) \in K => T[Act(p)] # "executed"
                        /\ Op(p) \in K => Pv(p) \in K

\* The previews that request x has taken.
Taken(x) == {ses[x].ids[i] : i \in 1 .. (IF At(x, "take") THEN ses[x].at - 1 ELSE ses[x].at)}

\* Request x has decided its current preview, and moves the plan.
Moving(x) == ses[x].pc \in {"mark", "advance", "close"}

\* A request sees what is sound and holds the previews it has taken; the savepoint of an
\* operation goes back to what was sound and holds them too.
SesInv(x) ==
    /\ Sound(Held(x), View(x))
    /\ Moving(x) \/ ses[x].pc \in {"take", "operate", "commit"} =>
           \A p \in Taken(x) : Pv(p) \in Held(x)
    /\ At(x, "lock") => ses[x].at = 1
    /\ At(x, "commit") => ses[x].at = Len(ses[x].ids)
    /\ At(x, "operate") => View(x)[Pv(Cur(x))] = "pending"
    /\ Moving(x) => View(x)[Pv(Cur(x))] \notin Undecided
    /\ Moving(x) /\ View(x)[Pv(Cur(x))] = "executed" =>
           /\ Op(Cur(x)) \in Held(x) /\ View(x)[Op(Cur(x))] = "once"
           /\ DOMAIN ses[x].back \subseteq Held(x)
           /\ Sound(DOMAIN ses[x].back, Saved(x))
           /\ \A p \in Taken(x) : Pv(p) \in DOMAIN ses[x].back
           /\ Saved(x)[Pv(Cur(x))] = "pending"

IInv ==
    /\ Types
    /\ Order(row)
    /\ \A x \in Sessions : SesInv(x)

\* The current preview is among those taken, once it is.
LEMMA CurTaken ==
    ASSUME Types, NEW x \in Sessions, Moving(x) \/ ses[x].pc \in {"operate", "commit"}
    PROVE  Cur(x) \in Taken(x) /\ Taken(x) \subseteq Batch(x)
<1>1. /\ ~ At(x, "idle") /\ ~ At(x, "take")
  BY DEF Moving, At
<1>2. /\ ses[x].at \in 1 .. Len(ses[x].ids) /\ Len(ses[x].ids) \in Nat
      /\ Batch(x) = {ses[x].ids[i] : i \in 1 .. Len(ses[x].ids)}
  BY <1>1, CurIs
<1> QED BY <1>1, <1>2 DEF Cur, Taken

\* A request goes on within its batch, and has taken what it had.
LEMMA TakenMoves ==
    ASSUME Types, NEW x \in Sessions, ~ At(x, "idle"), ses'[x].ids = ses[x].ids
    PROVE  /\ ses'[x].at = ses[x].at /\ (At(x, "take")' <=> At(x, "take")) => Taken(x)' = Taken(x)
           /\ ses'[x].at = ses[x].at /\ At(x, "take") /\ ~ At(x, "take")' =>
                  Taken(x)' = Taken(x) \cup {Cur(x)}
           /\ ses'[x].at = ses[x].at + 1 /\ At(x, "take") /\ At(x, "take")' =>
                  Taken(x)' = Taken(x) \cup {Cur(x)}
           /\ ses'[x].at = ses[x].at + 1 /\ ~ At(x, "take") /\ At(x, "take")' => Taken(x)' = Taken(x)
<1>1. ses[x].at \in 1 .. Len(ses[x].ids) /\ Len(ses[x].ids) \in Nat
  BY CurIs
<1>2. ses[x].at \in Int /\ (ses[x].at + 1) - 1 = ses[x].at
  BY <1>1
<1>3. 1 .. ses[x].at = 1 .. (ses[x].at - 1) \cup {ses[x].at}
  BY <1>1
<1> QED BY <1>2, <1>3 DEF Taken, Cur

\* What request x does to its own rows, short of the end, concerns nobody else.
LEMMA OthersKeep ==
    ASSUME IInv, NEW x \in Sessions, UNCHANGED row,
           NEW y \in Sessions \ {x}, ses'[y] = ses[y], Held(y)' = Held(y), View(y)' = View(y)
    PROVE  SesInv(y)'
<1>1. SesInv(y)
  BY DEF IInv
<1>2. /\ Saved(y)' = Saved(y) /\ Cur(y)' = Cur(y) /\ Taken(y)' = Taken(y)
      /\ Moving(y)' = Moving(y) /\ \A pc : At(y, pc)' = At(y, pc)
  BY DEF Saved, With, Cur, Taken, Moving, At
<1>3. \A K, T : Sound(K, T)' <=> Sound(K, T)
  BY DEF Sound
<1> QED BY <1>1, <1>2, <1>3 DEF SesInv

--------------------------------------------------------------------------------
(* Sound tables: what a request may write in its own *)

\* A request locks more previews and sees the same.
LEMMA SoundRelocked ==
    ASSUME NEW K, NEW T, Sound(K, T), NEW p \in Steps
    PROVE  Sound(K \cup {Pv(p)}, T)
BY KeysDiffer DEF Sound

\* An action request is signed.
LEMMA SoundSigned ==
    ASSUME NEW K, NEW T, Sound(K, T), NEW p \in Steps, NEW U,
           U[Act(p)] # "executed", \A k \in Keys : k # Act(p) => U[k] = T[k]
    PROVE  Sound(K \cup {Act(p)}, U)
BY KeysAre, KeysDiffer, PreviewsAssumption DEF Sound, Order

\* A pending preview is refused, or its operation fails.
LEMMA OrderRefused ==
    ASSUME NEW T, Order(T), NEW p \in Steps, NEW U, T[Pv(p)] = "pending",
           U[Pv(p)] \in {"failed", "rejected", "expired"}, \A k \in Keys : k # Pv(p) => U[k] = T[k]
    PROVE  Order(U)
<1>1. ASSUME NEW q \in Steps
      PROVE  /\ U[St(q)] = T[St(q)] /\ U[Act(q)] = T[Act(q)] /\ U[Op(q)] = T[Op(q)]
             /\ U[Pv(q)] = "none" <=> T[Pv(q)] = "none"
             /\ U[Pv(q)] = "executed" <=> T[Pv(q)] = "executed"
  BY KeysAre, KeysDiffer
<1> QED BY <1>1, PreviewsAssumption DEF Order

\* And what a request sees stays sound.
LEMMA SoundRefused ==
    ASSUME NEW K, NEW T, Sound(K, T), NEW p \in Steps, NEW U, T[Pv(p)] = "pending",
           U[Pv(p)] \in {"failed", "rejected", "expired"}, \A k \in Keys : k # Pv(p) => U[k] = T[k]
    PROVE  Sound(K \cup {Pv(p)}, U)
<1>1. Order(U)
  BY OrderRefused DEF Sound
<1>2. ASSUME NEW q \in Steps
      PROVE  /\ row[Pv(q)] \notin Undecided => U[Pv(q)] = row[Pv(q)]
             /\ row[Op(q)] # "none" => U[Op(q)] = row[Op(q)]
             /\ St(q) \in K \cup {Pv(p)} => U[St(q)] # "waiting"
             /\ Act(q) \in K \cup {Pv(p)} => U[Act(q)] # "executed"
             /\ Op(q) \in K \cup {Pv(p)} => Pv(q) \in K \cup {Pv(p)}
  BY KeysAre, KeysDiffer DEF Sound, Undecided
<1> QED BY <1>1, <1>2, KeysAre DEF Sound

\* An operation is written with its preview.
LEMMA SoundOperated ==
    ASSUME NEW K, NEW T, Sound(K, T), NEW p \in Steps, NEW U,
           T[Pv(p)] = "pending", U[Pv(p)] = "executed",
           U[Op(p)] = IF T[Op(p)] = "none" THEN "once" ELSE "twice",
           \A k \in Keys : k \notin {Pv(p), Op(p)} => U[k] = T[k]
    PROVE  Sound(K \cup {Pv(p), Op(p)}, U)
<1>1. T[Op(p)] = "none" /\ U[Op(p)] = "once"
  BY DEF Sound, Order
<1>2. ASSUME NEW q \in Steps
      PROVE  /\ U[St(q)] = T[St(q)] /\ U[Act(q)] = T[Act(q)]
             /\ U[Pv(q)] = IF q = p THEN "executed" ELSE T[Pv(q)]
             /\ q # p => U[Op(q)] = T[Op(q)]
  BY KeysAre, KeysDiffer
<1>3. Order(U)
  BY <1>1, <1>2, PreviewsAssumption DEF Sound, Order
<1>4. ASSUME NEW q \in Steps
      PROVE  /\ row[Pv(q)] \notin Undecided => U[Pv(q)] = row[Pv(q)]
             /\ row[Op(q)] # "none" => U[Op(q)] = row[Op(q)]
             /\ St(q) \in K \cup {Pv(p), Op(p)} => U[St(q)] # "waiting"
             /\ Act(q) \in K \cup {Pv(p), Op(p)} => U[Act(q)] # "executed"
             /\ Op(q) \in K \cup {Pv(p), Op(p)} => Pv(q) \in K \cup {Pv(p), Op(p)}
  BY <1>1, <1>2, KeysDiffer DEF Sound, Undecided
<1> QED BY <1>3, <1>4 DEF Sound

\* The preview of an operation is saved as executed although the operation was undone.
LEMMA SoundUndone ==
    ASSUME NEW K, NEW T, Sound(K, T), "busy" \in LateErrors, NEW p \in Steps, Pv(p) \in K, NEW U,
           T[Pv(p)] = "pending", U[Pv(p)] = "executed",
           \A k \in Keys : k # Pv(p) => U[k] = T[k]
    PROVE  Sound(K, U)
<1>1. ASSUME NEW q \in Steps
      PROVE  /\ U[St(q)] = T[St(q)] /\ U[Act(q)] = T[Act(q)] /\ U[Op(q)] = T[Op(q)]
             /\ U[Pv(q)] = IF q = p THEN "executed" ELSE T[Pv(q)]
  BY KeysAre, KeysDiffer
<1>2. Order(U)
  BY <1>1, PreviewsAssumption DEF Sound, Order
<1>3. ASSUME NEW q \in Steps
      PROVE  /\ row[Pv(q)] \notin Undecided => U[Pv(q)] = row[Pv(q)]
             /\ row[Op(q)] # "none" => U[Op(q)] = row[Op(q)]
  BY <1>1 DEF Sound, Undecided
<1> QED BY <1>1, <1>2, <1>3 DEF Sound

\* Steps are marked: those that wait are no longer to wait, and a step is executed with its
\* operation.
LEMMA SoundMarked ==
    ASSUME NEW K, NEW T, Sound(K, T), NEW S \in SUBSET Steps, NEW U,
           \A s \in S : /\ U[St(s)] # "waiting"
                        /\ U[St(s)] = "executed" => T[Op(s)] = "once",
           \A k \in Keys : k \notin {St(s) : s \in S} => U[k] = T[k]
    PROVE  Sound(K \cup {St(s) : s \in S}, U)
<1>1. ASSUME NEW q \in Steps
      PROVE  /\ U[Pv(q)] = T[Pv(q)] /\ U[Act(q)] = T[Act(q)] /\ U[Op(q)] = T[Op(q)]
             /\ q \notin S => U[St(q)] = T[St(q)]
             /\ Pv(q) \notin {St(s) : s \in S} /\ Act(q) \notin {St(s) : s \in S}
             /\ Op(q) \notin {St(s) : s \in S}
             /\ St(q) \in {St(s) : s \in S} => q \in S
  BY KeysAre, KeysDiffer
<1>2. Order(U)
  BY <1>1, PreviewsAssumption DEF Sound, Order
<1> QED BY <1>1, <1>2 DEF Sound

\* From table T to U the rows of J change: previews are made for the steps of S, whose
\* dependencies are executed, other steps that wait fail or are blocked, and pending
\* previews expire.
Advances(S, J, T, U) ==
    /\ \A s \in S : T[St(s)] = "waiting" /\ \A d \in Deps[s] : T[St(d)] = "executed"
    /\ \A p \in Steps :
          /\ St(p) \in J => T[St(p)] = "waiting" /\ U[St(p)] \in {"ready", "failed", "blocked"}
          /\ p \in S <=> Act(p) \in J
          /\ p \in S => St(p) \in J /\ U[Pv(p)] = "pending" /\ U[Act(p)] = "pending"
          /\ Pv(p) \in J /\ p \notin S => T[Pv(p)] = "pending" /\ U[Pv(p)] = "expired"
          /\ p \in S => Pv(p) \in J
          /\ Op(p) \notin J
    /\ \A k \in Keys \ J : U[k] = T[k]

\* The plan advances.
LEMMA SoundMade ==
    ASSUME NEW K, NEW T, Fits(T), Sound(K, T), NEW S \in SUBSET Steps, NEW J, J \subseteq Keys, NEW U,
           Advances(S, J, T, U)
    PROVE  Sound(K \cup J, U)
<1>1. ASSUME NEW q \in Steps
      PROVE  /\ U[Op(q)] = T[Op(q)]
             /\ U[St(q)] = T[St(q)] \/ (T[St(q)] = "waiting" /\ U[St(q)] \in {"ready", "failed", "blocked"})
             /\ St(q) \in J => U[St(q)] \in {"ready", "failed", "blocked"}
             /\ U[Pv(q)] = "executed" <=> T[Pv(q)] = "executed"
             /\ U[Pv(q)] = T[Pv(q)] \/ T[Pv(q)] \in Undecided
             /\ q \in S => T[Pv(q)] = "none" /\ U[St(q)] # "waiting" /\ U[Act(q)] = "pending"
             /\ q \notin S => U[Act(q)] = T[Act(q)] /\ (U[Pv(q)] = "none" <=> T[Pv(q)] = "none")
  BY KeysAre DEF Advances, Sound, Order, Undecided
<1>2. \A q \in Steps : U[Pv(q)] # "none" => \A d \in Deps[q] : U[Op(d)] = "once"
  BY <1>1, PreviewsAssumption DEF Advances, Sound, Order
<1>3. Order(U)
  BY <1>1, <1>2 DEF Sound, Order
<1>4. ASSUME NEW q \in Steps
      PROVE  /\ row[Pv(q)] \notin Undecided => U[Pv(q)] = row[Pv(q)]
             /\ row[Op(q)] # "none" => U[Op(q)] = row[Op(q)]
             /\ St(q) \in K \cup J => U[St(q)] # "waiting"
             /\ Act(q) \in K \cup J => U[Act(q)] # "executed"
             /\ Op(q) \in K \cup J => Pv(q) \in K \cup J
  BY <1>1 DEF Advances, Sound
<1> QED BY <1>3, <1>4 DEF Advances, Sound

--------------------------------------------------------------------------------
(* Sound tables: what others commit *)

\* Another request commits what it saw and held; an action request of it may be executed
\* with its preview.
LEMMA SoundCommitted ==
    ASSUME NEW K, NEW T, Sound(K, T), NEW J, NEW V, Sound(J, V), K \cap J = {},
           Order(row'),
           \A k \in Keys : k \notin {Act(p) : p \in Steps} => row'[k] = V[k],
           \A k \in Keys \ J : row'[k] = row[k],
           NEW U, \A k \in Keys : U[k] = IF k \in K THEN T[k] ELSE row'[k]
    PROVE  /\ Order(U)
           /\ \A k \in Keys \ K : U[k] = row'[k]
           /\ \A p \in Steps : /\ row'[Pv(p)] \notin Undecided => U[Pv(p)] = row'[Pv(p)]
                               /\ row'[Op(p)] # "none" => U[Op(p)] = row'[Op(p)]
                               /\ St(p) \in K => U[St(p)] # "waiting"
                               /\ Act(p) \in K => U[Act(p)] # "executed"
                               /\ Op(p) \in K => Pv(p) \in K
<1>1. ASSUME NEW p \in Steps
      PROVE  /\ U[Pv(p)] = IF Pv(p) \in K THEN T[Pv(p)] ELSE row'[Pv(p)]
             /\ U[St(p)] = IF St(p) \in K THEN T[St(p)] ELSE row'[St(p)]
             /\ U[Op(p)] = IF Op(p) \in K THEN T[Op(p)] ELSE row'[Op(p)]
             /\ U[Act(p)] = IF Act(p) \in K THEN T[Act(p)] ELSE row'[Act(p)]
             /\ row'[Pv(p)] = V[Pv(p)] /\ row'[St(p)] = V[St(p)] /\ row'[Op(p)] = V[Op(p)]
             /\ Pv(p) \notin K => T[Pv(p)] = row[Pv(p)]
             /\ Pv(p) \notin J => V[Pv(p)] = row[Pv(p)]
             /\ St(p) \notin K => T[St(p)] = row[St(p)]
             /\ St(p) \notin J => V[St(p)] = row[St(p)]
             /\ Op(p) \notin K => T[Op(p)] = row[Op(p)]
             /\ Op(p) \notin J => V[Op(p)] = row[Op(p)]
  BY KeysAre, KeysDiffer DEF Sound
<1>2. \A p \in Steps : row'[Pv(p)] \notin Undecided => U[Pv(p)] = row'[Pv(p)]
  BY <1>1 DEF Sound, Undecided
<1>3. \A p \in Steps : T[Pv(p)] = "executed" \/ row'[Pv(p)] = "executed" => U[Pv(p)] = "executed"
  BY <1>1, <1>2 DEF Sound, Undecided
<1>4. \A p \in Steps : row'[Op(p)] # "none" => U[Op(p)] = row'[Op(p)]
  BY <1>1 DEF Sound
<1>5. \A p \in Steps : T[Op(p)] = "once" \/ row'[Op(p)] = "once" => U[Op(p)] = "once"
  BY <1>1, <1>4 DEF Sound
<1>6. Order(U)
  <2> SUFFICES ASSUME NEW p \in Steps
               PROVE  /\ U[St(p)] = "waiting" => U[Pv(p)] = "none"
                      /\ U[St(p)] = "executed" => U[Op(p)] = "once"
                      /\ U[Act(p)] = "executed" => U[Pv(p)] = "executed"
                      /\ U[Pv(p)] # "none" => \A d \in Deps[p] : U[Op(d)] = "once"
                      /\ U[Op(p)] # "none" => U[Op(p)] = "once" /\ U[Pv(p)] = "executed"
                      /\ "busy" \notin LateErrors /\ U[Pv(p)] = "executed" => U[Op(p)] = "once"
    BY DEF Order
  <2>1. U[St(p)] = "waiting" => U[Pv(p)] = "none"
    BY <1>1 DEF Sound, Order
  <2>2. U[St(p)] = "executed" => U[Op(p)] = "once"
    BY <1>1, <1>5 DEF Sound, Order
  <2>3. U[Act(p)] = "executed" => U[Pv(p)] = "executed"
    BY <1>1, <1>3 DEF Sound, Order
  <2>4. U[Pv(p)] # "none" => \A d \in Deps[p] : U[Op(d)] = "once"
    BY <1>1, <1>5, PreviewsAssumption DEF Sound, Order
  <2>5. U[Op(p)] # "none" => U[Op(p)] = "once" /\ U[Pv(p)] = "executed"
    BY <1>1, <1>3 DEF Sound, Order
  <2>6. "busy" \notin LateErrors /\ U[Pv(p)] = "executed" => U[Op(p)] = "once"
    BY <1>1, <1>5 DEF Sound, Order
  <2> QED BY <2>1, <2>2, <2>3, <2>4, <2>5, <2>6
<1>7. \A p \in Steps : /\ St(p) \in K => U[St(p)] # "waiting"
                       /\ Act(p) \in K => U[Act(p)] # "executed"
                       /\ Op(p) \in K => Pv(p) \in K
  BY <1>1 DEF Sound
<1> QED BY <1>2, <1>4, <1>6, <1>7

\* A pending preview expires that the request does not hold.
LEMMA SoundExpired ==
    ASSUME NEW K, NEW T, Sound(K, T), NEW p \in Steps, Pv(p) \notin K, row[Pv(p)] = "pending",
           row'[Pv(p)] = "expired", \A k \in Keys : k # Pv(p) => row'[k] = row[k],
           NEW U, \A k \in Keys : U[k] = IF k \in K THEN T[k] ELSE row'[k]
    PROVE  /\ Order(U)
           /\ \A k \in Keys \ K : U[k] = row'[k]
           /\ \A q \in Steps : /\ row'[Pv(q)] \notin Undecided => U[Pv(q)] = row'[Pv(q)]
                               /\ row'[Op(q)] # "none" => U[Op(q)] = row'[Op(q)]
                               /\ St(q) \in K => U[St(q)] # "waiting"
                               /\ Act(q) \in K => U[Act(q)] # "executed"
                               /\ Op(q) \in K => Pv(q) \in K
<1>1. T[Pv(p)] = "pending" /\ U[Pv(p)] = "expired" /\ \A k \in Keys : k # Pv(p) => U[k] = T[k]
  BY KeysAre DEF Sound
<1>2. Order(U)
  BY <1>1, OrderRefused DEF Sound
<1> QED BY <1>1, <1>2, KeysAre, KeysDiffer DEF Sound

--------------------------------------------------------------------------------
(* Every statement of a request keeps the invariant *)

\* A statement that commits nothing: what is left to show is what the request itself sees.
LEMMA StatementKeeps ==
    ASSUME IInv, NEW x \in Sessions, UNCHANGED <<row, old>>, overlap' \in BOOLEAN,
           Fits(draft'), lock' \in [Keys -> Sessions \cup {Nobody}],
           \A y \in Sessions \ {x} : Held(y)' = Held(y) /\ View(y)' = View(y),
           ses' \in [Sessions -> Request], \A y \in Sessions \ {x} : ses'[y] = ses[y],
           Len(ses'[x].ids) <= Width, ses'[x].pc # "idle" => ses'[x].at <= Len(ses'[x].ids),
           Fits(With(row, DOMAIN ses'[x].back, ses'[x].back)),
           SesInv(x)'
    PROVE  IInv'
<1>1. \A y \in Sessions \ {x} : SesInv(y)'
  BY OthersKeep
<1>2. Types'
  BY DEF IInv, Types, At
<1>3. Order(row)'
  BY DEF IInv, Order
<1> QED BY <1>1, <1>2, <1>3 DEF IInv

\* What a request holds and sees is sound after a step that commits nothing.
LEMMA SoundNow ==
    ASSUME NEW x, UNCHANGED row, Sound(Held(x)', View(x)')
    PROVE  Sound(Held(x), View(x))'
BY DEF Sound, Order

\* The savepoint of a request does not change with its rows.
LEMMA SavedNow ==
    ASSUME NEW x, UNCHANGED row, ses'[x].back = ses[x].back
    PROVE  /\ Saved(x)' = Saved(x)
           /\ Sound(DOMAIN ses[x].back, Saved(x)) => Sound(DOMAIN ses[x].back, Saved(x))'
BY DEF Saved, With, Sound, Order

\* A write of request x that leaves what it sees sound, and takes it to pc.
LEMMA WriteKeeps ==
    ASSUME IInv, NEW x \in Sessions, NEW w, Write(x, w), UNCHANGED <<row, old, overlap>>,
           DOMAIN w \subseteq Keys, Fits(With(draft, DOMAIN w, w)),
           ses' \in [Sessions -> Request], \A y \in Sessions \ {x} : ses'[y] = ses[y],
           ses'[x].ids = ses[x].ids, ses'[x].back = ses[x].back,
           ses'[x].at <= Len(ses[x].ids), ~ At(x, "idle"),
           SesInv(x)'
    PROVE  IInv'
<1>1. Types
  BY DEF IInv
<1>2. /\ Fits(draft') /\ lock' \in [Keys -> Sessions \cup {Nobody}]
      /\ \A y \in Sessions \ {x} : Held(y)' = Held(y) /\ View(y)' = View(y)
  BY <1>1, WriteDoes
<1> QED BY <1>1, <1>2, StatementKeeps DEF Types

\* An action request is signed.
LEMMA SignKeeps == ASSUME IInv, NEW x \in Sessions, Sign(x) PROVE IInv'
<1> DEFINE p == Cur(x)
           v == IF ses[x].kind = "approve" THEN "approved" ELSE "rejected"
           w == One(Act(p), v)
<1>1. Types /\ SesInv(x) /\ At(x, "sign") /\ ~ At(x, "idle")
  BY DEF IInv, Sign, At
<1>2. p \in Steps /\ ses[x].at \in 1 .. Len(ses[x].ids) /\ Len(ses[x].ids) \in Nat
  BY <1>1, CurIs
<1>3. DOMAIN w = {Act(p)} /\ w[Act(p)] = v /\ {Act(p)} \subseteq Keys
      /\ Fits(With(draft, DOMAIN w, w)) /\ v # "executed"
  BY <1>1, <1>2, KeysAre, OneFits DEF Types, ActionStatus
<1>4. Write(x, w) /\ UNCHANGED <<row, old, overlap>>
  BY DEF Sign
<1> HIDE DEF w, v, p
<1>5. /\ Held(x)' = Held(x) \cup {Act(p)} /\ View(x)'[Act(p)] # "executed"
      /\ \A k \in Keys : k # Act(p) => View(x)'[k] = View(x)[k]
  BY <1>1, <1>3, <1>4, WriteDoes
<1>6. Sound(Held(x), View(x))'
  <2>1. Sound(Held(x), View(x))
    BY <1>1 DEF SesInv
  <2>2. Sound(Held(x)', View(x)')
    BY <1>2, <1>5, <2>1, SoundSigned
  <2> QED BY <1>4, <2>2, SoundNow
<1>7. PICK n \in Request : n = ses[x]
  BY <1>1 DEF Types
<1>8. /\ ses' \in [Sessions -> Request] /\ \A y \in Sessions \ {x} : ses'[y] = ses[y]
      /\ ses'[x].ids = ses[x].ids /\ ses'[x].back = ses[x].back
      /\ ses'[x].at <= Len(ses[x].ids) /\ ses'[x].pc \in {"sign", "lock"}
      /\ ses'[x].pc = "lock" => ses'[x].at = 1
  <2>1. CASE n.at < Len(n.ids)
    <3> DEFINE i == n.at + 1
               m == [n EXCEPT !.at = i]
    <3>1. i \in 1 .. Width /\ i <= Len(n.ids)
      BY <1>1, <1>2, <1>7, <2>1, PreviewsAssumption DEF Types
    <3>2. ses' = [ses EXCEPT ![x] = m]
      BY <1>7, <2>1 DEF Sign
    <3> HIDE DEF i
    <3>3. m \in Request /\ m.pc = n.pc /\ m.ids = n.ids /\ m.at = i /\ m.back = n.back
      BY <3>1 DEF Request
    <3> HIDE DEF m
    <3> QED BY <1>1, <1>7, <3>1, <3>2, <3>3, RequestMoved DEF At
  <2>2. CASE ~ n.at < Len(n.ids)
    <3> DEFINE m == [n EXCEPT !.at = 1, !.pc = "lock"]
    <3>1. ses' = [ses EXCEPT ![x] = m]
      BY <1>7, <2>2 DEF Sign
    <3>2. 1 \in 1 .. Width /\ 1 <= Len(n.ids)
      BY <1>2, <1>7, PreviewsAssumption
    <3>3. m \in Request /\ m.pc = "lock" /\ m.ids = n.ids /\ m.at = 1 /\ m.back = n.back
      BY <3>2 DEF Request, PCs
    <3> HIDE DEF m
    <3> QED BY <1>1, <1>7, <3>1, <3>2, <3>3, RequestMoved
  <2> QED BY <2>1, <2>2
<1>9. SesInv(x)'
  BY <1>6, <1>8 DEF SesInv, Moving, At
<1> QED BY <1>1, <1>3, <1>4, <1>8, <1>9, WriteKeeps

\* A preview is locked, of those still to lock.
LEMMA LockKeeps == ASSUME IInv, NEW x \in Sessions, Lock(x) PROVE IInv'
<1>1. Types /\ SesInv(x) /\ At(x, "lock") /\ ~ At(x, "idle") /\ UNCHANGED <<row, old, overlap>>
  BY DEF IInv, Lock, At
<1>2. ses[x].at \in 1 .. Len(ses[x].ids) /\ Len(ses[x].ids) \in Nat /\ Batch(x) \subseteq Steps
  BY <1>1, CurIs DEF Types, Request
<1>3. CASE To(x, "take") /\ UNCHANGED <<draft, lock>>
  <2>1. /\ ses' \in [Sessions -> Request] /\ \A y \in Sessions \ {x} : ses'[y] = ses[y]
        /\ ses'[x].ids = ses[x].ids /\ ses'[x].back = ses[x].back
        /\ ses'[x].at = ses[x].at /\ ses'[x].pc = "take"
    BY <1>1, <1>3, ToDoes DEF PCs
  <2>2. \A y : Held(y)' = Held(y) /\ View(y)' = View(y)
    BY <1>1, <1>3 DEF Held, View, With
  <2>3. Sound(Held(x), View(x))'
    BY <1>1, <2>2, SoundNow DEF SesInv
  <2>4. Taken(x)' = {}
    BY <1>1, <2>1 DEF SesInv, Taken, At
  <2>5. SesInv(x)'
    BY <2>1, <2>3, <2>4 DEF SesInv, Moving, At
  <2> QED BY <1>1, <1>2, <1>3, <2>1, <2>2, <2>5, StatementKeeps DEF Types, At
<1>4. CASE UNCHANGED ses /\ \E p \in Steps : Write(x, One(Pv(p), row[Pv(p)])) /\ lock[Pv(p)] # x
  <2>1. PICK p \in Steps : Write(x, One(Pv(p), row[Pv(p)])) /\ lock[Pv(p)] # x
    BY <1>4
  <2> DEFINE w == One(Pv(p), row[Pv(p)])
  <2>2. /\ DOMAIN w = {Pv(p)} /\ w[Pv(p)] = row[Pv(p)] /\ {Pv(p)} \subseteq Keys
        /\ Fits(With(draft, DOMAIN w, w))
    BY <1>1, KeysAre, OneFits DEF Types, Fits
  <2> HIDE DEF w
  <2>3. Write(x, w)
    BY <2>1 DEF w
  <2>4. View(x)[Pv(p)] = row[Pv(p)]
    BY <2>1, <2>2 DEF View, With, Held
  <2>5. Held(x)' = Held(x) \cup {Pv(p)} /\ \A k \in Keys : View(x)'[k] = View(x)[k]
    BY <1>1, <2>2, <2>3, <2>4, WriteDoes
  <2>6. View(x)' = View(x)
    BY <2>5 DEF View, With
  <2>7. Sound(Held(x), View(x))'
    <3>1. Sound(Held(x) \cup {Pv(p)}, View(x))
      BY <1>1, SoundRelocked DEF SesInv
    <3> QED BY <1>1, <2>5, <2>6, <3>1, SoundNow
  <2>8. SesInv(x)'
    BY <1>1, <1>4, <2>7 DEF SesInv, Moving, At
  <2> QED BY <1>1, <1>2, <1>4, <2>2, <2>3, <2>8, WriteKeeps DEF Types
<1> QED BY <1>2, <1>3, <1>4 DEF Lock

\* A statement on the preview of one row, and what the request sees then.
LEMMA PreviewWritten ==
    ASSUME Types, NEW x \in Sessions, NEW p \in Steps, NEW v \in PreviewStatus,
           Write(x, One(Pv(p), v)), UNCHANGED row
    PROVE  /\ Fits(draft') /\ lock' \in [Keys -> Sessions \cup {Nobody}]
           /\ \A y \in Sessions \ {x} : Held(y)' = Held(y) /\ View(y)' = View(y)
           /\ Held(x)' = Held(x) \cup {Pv(p)}
           /\ View(x)'[Pv(p)] = v /\ \A k \in Keys : k # Pv(p) => View(x)'[k] = View(x)[k]
<1> DEFINE w == One(Pv(p), v)
<1>1. DOMAIN w = {Pv(p)} /\ w[Pv(p)] = v /\ {Pv(p)} \subseteq Keys /\ Fits(With(draft, DOMAIN w, w))
  BY KeysAre, OneFits DEF Types
<1>2. Write(x, w)
  OBVIOUS
<1> HIDE DEF w
<1> QED BY <1>1, <1>2, WriteDoes

\* What a request that goes on needs beside what it sees.
LEMMA GoesOn ==
    ASSUME IInv, NEW x \in Sessions, ~ At(x, "idle"), UNCHANGED <<row, old, overlap>>,
           Fits(draft'), lock' \in [Keys -> Sessions \cup {Nobody}],
           \A y \in Sessions \ {x} : Held(y)' = Held(y) /\ View(y)' = View(y),
           Following(x) \/ \E pc \in PCs : To(x, pc),
           SesInv(x)'
    PROVE  IInv'
<1>1. /\ Types /\ overlap' \in BOOLEAN /\ Len(ses[x].ids) <= Width /\ ses[x].at <= Len(ses[x].ids)
      /\ Fits(With(row, DOMAIN ses[x].back, ses[x].back))
  BY DEF IInv, Types
<1>2. /\ ses' \in [Sessions -> Request] /\ \A y \in Sessions \ {x} : ses'[y] = ses[y]
      /\ ses'[x].ids = ses[x].ids /\ ses'[x].back = ses[x].back
      /\ ses'[x].at <= Len(ses[x].ids)
  <2>1. CASE Following(x)
    <3>1. ses[x].at \in 1 .. Len(ses[x].ids) /\ Len(ses[x].ids) \in Nat
      BY <1>1, CurIs
    <3> QED BY <1>1, <2>1, <3>1, FollowingDoes
  <2>2. CASE \E pc \in PCs : To(x, pc)
    BY <1>1, <2>2, ToDoes
  <2> QED BY <2>1, <2>2
<1> QED BY <1>1, <1>2, StatementKeeps

\* What a request that turns to its next preview needs: it holds those it has taken.
LEMMA FollowingSes ==
    ASSUME Types, NEW x \in Sessions, ~ At(x, "idle"), Following(x),
           Sound(Held(x), View(x))', Held(x) \subseteq Held(x)',
           \A p \in Taken(x) : Pv(p) \in Held(x), Pv(Cur(x)) \in Held(x)'
    PROVE  SesInv(x)'
<1>1. /\ ses'[x].ids = ses[x].ids
      /\ \/ /\ ses'[x].pc = "take" /\ ses'[x].at = ses[x].at + 1
         \/ /\ ses'[x].pc = "commit" /\ ses'[x].at = ses[x].at /\ ses[x].at = Len(ses[x].ids)
  BY FollowingDoes
<1>2. Taken(x)' \in {Taken(x), Taken(x) \cup {Cur(x)}}
  BY <1>1, TakenMoves DEF At
<1>3. \A p \in Taken(x)' : Pv(p) \in Held(x)'
  BY <1>2
<1> QED BY <1>1, <1>3 DEF SesInv, Moving, At

\* A preview is read under its lock, and decided.
LEMMA TakeKeeps == ASSUME IInv, NEW x \in Sessions, Take(x) PROVE IInv'
<1> DEFINE p == Cur(x)
           status == View(x)[Pv(p)]
           refused == IF old[p] THEN "expired" ELSE "rejected"
<1>1. Types /\ SesInv(x) /\ At(x, "take") /\ ~ At(x, "idle") /\ UNCHANGED <<row, old, overlap>>
  BY DEF IInv, Take, At
<1>2. p \in Steps /\ Pv(p) \in Keys
  BY <1>1, CurIs, KeysAre
<1>3. status = Seen(x, Pv(p)) /\ status \in PreviewStatus
  BY <1>1, <1>2, ViewIs DEF Types, Fits, View, With
<1>4. Sound(Held(x), View(x)) /\ \A q \in Taken(x) : Pv(q) \in Held(x)
  BY <1>1 DEF SesInv, At
<1>5. \/ Write(x, One(Pv(p), status)) /\ Following(x)
      \/ status = "pending" /\ Write(x, One(Pv(p), refused)) /\ To(x, "mark")
      \/ status = "pending" /\ Write(x, One(Pv(p), status)) /\ To(x, "operate")
  BY <1>3 DEF Take
<1> HIDE DEF p, status, refused
<1>6. ASSUME Write(x, One(Pv(p), status))
      PROVE  /\ Fits(draft') /\ lock' \in [Keys -> Sessions \cup {Nobody}]
             /\ \A y \in Sessions \ {x} : Held(y)' = Held(y) /\ View(y)' = View(y)
             /\ Held(x)' = Held(x) \cup {Pv(p)} /\ View(x)' = View(x)
             /\ Sound(Held(x), View(x))'
  <2>1. /\ Fits(draft') /\ lock' \in [Keys -> Sessions \cup {Nobody}]
        /\ \A y \in Sessions \ {x} : Held(y)' = Held(y) /\ View(y)' = View(y)
        /\ Held(x)' = Held(x) \cup {Pv(p)} /\ \A k \in Keys : View(x)'[k] = View(x)[k]
    BY <1>1, <1>2, <1>3, <1>6, PreviewWritten DEF status
  <2>2. View(x)' = View(x)
    BY <2>1 DEF View, With
  <2>3. Sound(Held(x)', View(x)')
    BY <1>2, <1>4, <2>1, <2>2, SoundRelocked
  <2> QED BY <1>1, <2>1, <2>2, <2>3, SoundNow
<1>7. CASE Write(x, One(Pv(p), status)) /\ Following(x)
  <2>1. SesInv(x)'
    BY <1>1, <1>4, <1>6, <1>7, FollowingSes DEF p
  <2> QED BY <1>1, <1>6, <1>7, <2>1, GoesOn
<1>8. ASSUME NEW pc \in {"mark", "operate"}, To(x, pc)
      PROVE  /\ Taken(x)' = Taken(x) \cup {p} /\ Cur(x)' = p
             /\ \A c : At(x, c)' <=> c = pc
             /\ Moving(x)' <=> pc = "mark"
  <2>1. ses'[x].pc = pc /\ ses'[x].ids = ses[x].ids /\ ses'[x].at = ses[x].at
    BY <1>1, <1>8, ToDoes DEF PCs
  <2>2. ~ At(x, "take")'
    BY <1>8, <2>1 DEF At
  <2>3. Taken(x)' = Taken(x) \cup {Cur(x)}
    BY <1>1, <2>1, <2>2, TakenMoves
  <2> QED BY <1>8, <2>1, <2>3 DEF p, Cur, At, Moving
<1>9. CASE status = "pending" /\ Write(x, One(Pv(p), status)) /\ To(x, "operate")
  <2>1. SesInv(x)'
    BY <1>4, <1>6, <1>8, <1>9 DEF SesInv, status, At
  <2> QED BY <1>1, <1>6, <1>9, <2>1, GoesOn DEF PCs
<1>10. CASE status = "pending" /\ Write(x, One(Pv(p), refused)) /\ To(x, "mark")
  <2>1. refused \in {"failed", "rejected", "expired"} /\ refused \in PreviewStatus
    BY DEF refused, PreviewStatus
  <2>2. /\ Fits(draft') /\ lock' \in [Keys -> Sessions \cup {Nobody}]
        /\ \A y \in Sessions \ {x} : Held(y)' = Held(y) /\ View(y)' = View(y)
        /\ Held(x)' = Held(x) \cup {Pv(p)}
        /\ View(x)'[Pv(p)] = refused /\ \A k \in Keys : k # Pv(p) => View(x)'[k] = View(x)[k]
    BY <1>1, <1>2, <1>10, <2>1, PreviewWritten
  <2>3. Sound(Held(x)', View(x)')
    BY <1>2, <1>4, <1>10, <2>1, <2>2, SoundRefused DEF status
  <2>4. Sound(Held(x), View(x))'
    BY <1>1, <2>3, SoundNow
  <2>5. SesInv(x)'
    BY <1>4, <1>8, <1>10, <2>1, <2>2, <2>4 DEF SesInv, Undecided, At
  <2> QED BY <1>1, <1>10, <2>2, <2>5, GoesOn DEF PCs
<1> QED BY <1>5, <1>7, <1>9, <1>10

\* A request that has taken its preview holds it, and knows what it sees of it.
LEMMA AtCur ==
    ASSUME IInv, NEW x \in Sessions, Moving(x) \/ At(x, "operate")
    PROVE  /\ Types /\ SesInv(x) /\ ~ At(x, "idle") /\ Cur(x) \in Steps /\ Pv(Cur(x)) \in Keys
           /\ Sound(Held(x), View(x))
           /\ Cur(x) \in Taken(x) /\ \A p \in Taken(x) : Pv(p) \in Held(x)
           /\ \A k \in Keys : Seen(x, k) = View(x)[k]
           /\ Fits(View(x))
<1>1. Types /\ SesInv(x) /\ ~ At(x, "idle")
  BY DEF IInv, Moving, At
<1>2. Cur(x) \in Steps /\ Pv(Cur(x)) \in Keys
  BY <1>1, CurIs, KeysAre
<1>3. Cur(x) \in Taken(x)
  BY <1>1, CurTaken DEF At
<1>4. Sound(Held(x), View(x)) /\ \A p \in Taken(x) : Pv(p) \in Held(x)
  BY <1>1 DEF SesInv, At
<1>5. Fits(View(x))
  BY <1>1, WithFits DEF View, Types
<1> QED BY <1>1, <1>2, <1>3, <1>4, <1>5, ViewIs

\* A request that goes on after its preview is taken has still taken the same.
LEMMA MovesOn ==
    ASSUME Types, NEW x \in Sessions, ~ At(x, "idle"), ~ At(x, "take"),
           NEW pc \in PCs \ {"take"}, To(x, pc)
    PROVE  /\ Taken(x)' = Taken(x) /\ Cur(x)' = Cur(x) /\ ses'[x].back = ses[x].back
           /\ \A c : At(x, c)' <=> c = pc
           /\ Moving(x)' <=> pc \in {"mark", "advance", "close"}
<1>1. /\ ses'[x].pc = pc /\ ses'[x].ids = ses[x].ids /\ ses'[x].at = ses[x].at
      /\ ses'[x].back = ses[x].back
  BY ToDoes
<1>2. ~ At(x, "take")'
  BY <1>1 DEF At
<1>3. Taken(x)' = Taken(x)
  BY <1>1, <1>2, TakenMoves
<1> QED BY <1>1, <1>3 DEF Cur, At, Moving

\* The operation fails.
LEMMA OperationFailsKeeps == ASSUME IInv, NEW x \in Sessions, OperationFails(x) PROVE IInv'
<1>1. /\ At(x, "operate") /\ ~ At(x, "take") /\ UNCHANGED <<row, old, overlap>>
      /\ Write(x, One(Pv(Cur(x)), "failed")) /\ To(x, "mark")
  BY DEF OperationFails, At
<1> DEFINE p == Cur(x)
<1>2. /\ Types /\ ~ At(x, "idle") /\ p \in Steps /\ Sound(Held(x), View(x))
      /\ p \in Taken(x) /\ \A q \in Taken(x) : Pv(q) \in Held(x)
      /\ View(x)[Pv(p)] = "pending"
  BY <1>1, AtCur DEF SesInv
<1> HIDE DEF p
<1>3. /\ Fits(draft') /\ lock' \in [Keys -> Sessions \cup {Nobody}]
      /\ \A y \in Sessions \ {x} : Held(y)' = Held(y) /\ View(y)' = View(y)
      /\ Held(x)' = Held(x) \cup {Pv(p)}
      /\ View(x)'[Pv(p)] = "failed" /\ \A k \in Keys : k # Pv(p) => View(x)'[k] = View(x)[k]
  BY <1>1, <1>2, PreviewWritten DEF PreviewStatus, p
<1>4. Sound(Held(x)', View(x)')
  BY <1>2, <1>3, SoundRefused
<1>5. Sound(Held(x), View(x))'
  BY <1>1, <1>4, SoundNow
<1>6. Taken(x)' = Taken(x) /\ Cur(x)' = p /\ Moving(x)' /\ \A c : At(x, c)' <=> c = "mark"
  BY <1>1, <1>2, MovesOn DEF PCs, p
<1>7. SesInv(x)'
  BY <1>2, <1>3, <1>5, <1>6 DEF SesInv, Undecided
<1> QED BY <1>1, <1>2, <1>3, <1>7, GoesOn DEF PCs

\* The data of the operation is busy.
LEMMA OperationBusyKeeps == ASSUME IInv, NEW x \in Sessions, OperationBusy(x) PROVE IInv'
<1>1. /\ At(x, "operate") /\ Following(x) /\ UNCHANGED <<row, draft, lock, old, overlap>>
  BY DEF OperationBusy
<1>2. /\ Types /\ ~ At(x, "idle") /\ Sound(Held(x), View(x))
      /\ Cur(x) \in Taken(x) /\ \A q \in Taken(x) : Pv(q) \in Held(x)
  BY <1>1, AtCur
<1>3. \A y : Held(y)' = Held(y) /\ View(y)' = View(y)
  BY <1>1 DEF Held, View, With
<1>4. Sound(Held(x), View(x))'
  BY <1>1, <1>2, <1>3, SoundNow
<1>5. SesInv(x)'
  BY <1>1, <1>2, <1>3, <1>4, FollowingSes
<1> QED BY <1>1, <1>2, <1>3, <1>5, GoesOn DEF Types

\* The operation writes its records and the preview, after a savepoint.
LEMMA OperateKeeps == ASSUME IInv, NEW x \in Sessions, Operate(x) PROVE IInv'
<1> DEFINE p == Cur(x)
           v == IF View(x)[Op(p)] = "none" THEN "once" ELSE "twice"
           w == [k \in {Pv(p), Op(p)} |-> IF k = Pv(p) THEN "executed" ELSE v]
           b == [k \in Held(x) |-> draft[k]]
<1>1. /\ At(x, "operate") /\ UNCHANGED <<row, old, overlap>>
  BY DEF Operate
<1>2. /\ Types /\ SesInv(x) /\ ~ At(x, "idle") /\ p \in Steps /\ Sound(Held(x), View(x))
      /\ p \in Taken(x) /\ \A q \in Taken(x) : Pv(q) \in Held(x)
      /\ View(x)[Pv(p)] = "pending" /\ Fits(View(x)) /\ Pv(p) \in Keys /\ Op(p) \in Keys
  BY <1>1, AtCur, KeysAre DEF SesInv
<1>3. w = [k \in {Pv(p), Op(p)} |->
               IF k = Pv(p) THEN "executed" ELSE IF Seen(x, k) = "none" THEN "once" ELSE "twice"]
  BY <1>2, ViewIs
<1>4. Write(x, w)
  BY <1>3 DEF Operate
<1>5. ses' = [ses EXCEPT ![x].pc = "mark", ![x].back = b]
  BY DEF Operate, Held
<1> HIDE DEF p
<1>6. /\ DOMAIN w = {Pv(p), Op(p)} /\ w[Pv(p)] = "executed" /\ w[Op(p)] = v
      /\ v \in {"once", "twice"} /\ {Pv(p), Op(p)} \subseteq Keys
  BY <1>2, KeysDiffer
<1> HIDE DEF w, v
<1>7. Fits(With(draft, DOMAIN w, w))
  <2>1. Fits(draft) /\ "executed" \in PreviewStatus
    BY <1>2 DEF Types, PreviewStatus
  <2>2. With(draft, DOMAIN w, w) \in [Keys -> Value]
    BY <1>6, <2>1 DEF Fits, With, Value
  <2> QED BY <1>2, <1>6, <2>1, <2>2, KeysAre, KeysDiffer DEF Fits, With
<1>8. /\ Fits(draft') /\ lock' \in [Keys -> Sessions \cup {Nobody}]
      /\ \A y \in Sessions \ {x} : Held(y)' = Held(y) /\ View(y)' = View(y)
      /\ Held(x)' = Held(x) \cup {Pv(p), Op(p)}
      /\ View(x)'[Pv(p)] = "executed" /\ View(x)'[Op(p)] = v
      /\ \A k \in Keys : k \notin {Pv(p), Op(p)} => View(x)'[k] = View(x)[k]
  BY <1>1, <1>2, <1>4, <1>6, <1>7, WriteDoes
<1>9. Sound(Held(x)', View(x)')
  BY <1>2, <1>8, SoundOperated DEF v
<1>10. Sound(Held(x), View(x))'
  BY <1>1, <1>9, SoundNow
<1>11. b \in Savings /\ DOMAIN b = Held(x) /\ With(row, DOMAIN b, b) = View(x)
  <2>1. Held(x) \in SUBSET Keys /\ b \in [Held(x) -> Value]
    BY <1>2 DEF Held, Types, Fits
  <2> QED BY <2>1 DEF Savings, With, View
<1> HIDE DEF b
<1>12. PICK n \in Request : n = ses[x]
  BY <1>2 DEF Types
<1> DEFINE m == [n EXCEPT !.pc = "mark", !.back = b]
<1>13. m \in Request /\ m.pc = "mark" /\ m.ids = n.ids /\ m.at = n.at /\ m.back = b
  BY <1>11 DEF Request, PCs
<1>14. ses' = [ses EXCEPT ![x] = m]
  BY <1>5, <1>12
<1> HIDE DEF m
<1>15. /\ ses' \in [Sessions -> Request] /\ \A y \in Sessions \ {x} : ses'[y] = ses[y]
       /\ ses'[x].pc = "mark" /\ ses'[x].ids = ses[x].ids /\ ses'[x].at = ses[x].at
       /\ ses'[x].back = b
  BY <1>2, <1>12, <1>13, <1>14, RequestMoved
<1>16. Taken(x)' = Taken(x) /\ Cur(x)' = p
  <2>1. ~ At(x, "take") /\ ~ At(x, "take")'
    BY <1>1, <1>15 DEF At
  <2> QED BY <1>2, <1>15, <2>1, TakenMoves DEF p, Cur
<1>17. Op(p) \in Held(x)' /\ View(x)'[Op(p)] = "once"
  <2>1. View(x)[Op(p)] = "none"
    BY <1>2 DEF Sound, Order
  <2> QED BY <1>8, <2>1 DEF v
<1>18. Sound(DOMAIN b, Saved(x)') /\ Saved(x)' = View(x)
  BY <1>1, <1>2, <1>11, <1>15 DEF Saved
<1>19. Sound(DOMAIN ses[x].back, Saved(x))'
  BY <1>1, <1>15, <1>18 DEF Sound, Order
<1>20. SesInv(x)'
  <2>1. Moving(x)' /\ \A c : At(x, c)' <=> c = "mark"
    BY <1>15 DEF Moving, At
  <2> QED BY <1>2, <1>8, <1>10, <1>11, <1>15, <1>16, <1>18, <1>19, <1>17, <2>1 DEF SesInv, Undecided
<1>21. /\ overlap' \in BOOLEAN /\ Len(ses'[x].ids) <= Width /\ ses'[x].at <= Len(ses'[x].ids)
       /\ Fits(With(row, DOMAIN ses'[x].back, ses'[x].back))
  BY <1>1, <1>2, <1>11, <1>15 DEF Types
<1> QED BY <1>1, <1>8, <1>15, <1>20, <1>21, StatementKeeps

\* A later statement of the plan keeps the place and the savepoint of the request.
LEMMA MovingSes ==
    ASSUME IInv, NEW x \in Sessions, Moving(x), NEW pc \in {"advance", "close"}, To(x, pc),
           UNCHANGED row, Sound(Held(x)', View(x)'), Held(x) \subseteq Held(x)',
           View(x)'[Pv(Cur(x))] = View(x)[Pv(Cur(x))], View(x)'[Op(Cur(x))] = View(x)[Op(Cur(x))]
    PROVE  SesInv(x)'
<1>1. /\ Types /\ SesInv(x) /\ ~ At(x, "idle") /\ ~ At(x, "take")
      /\ \A p \in Taken(x) : Pv(p) \in Held(x)
  BY AtCur DEF Moving, At
<1>2. /\ Taken(x)' = Taken(x) /\ Cur(x)' = Cur(x) /\ ses'[x].back = ses[x].back
      /\ Moving(x)' /\ \A c : At(x, c)' <=> c = pc
  BY <1>1, MovesOn DEF PCs
<1>3. Sound(Held(x), View(x))'
  BY SoundNow
<1>4. /\ Saved(x)' = Saved(x)
      /\ Sound(DOMAIN ses[x].back, Saved(x)) => Sound(DOMAIN ses[x].back, Saved(x))'
  BY <1>2, SavedNow
<1> QED BY <1>1, <1>2, <1>3, <1>4 DEF SesInv

\* A return to the savepoint: the request sees what it saw then, but for its preview.
LEMMA BackDoes ==
    ASSUME IInv, NEW x \in Sessions, InSavepoint(x), UNCHANGED row,
           NEW status \in PreviewStatus, BackTo(x, status)
    PROVE  /\ Fits(draft') /\ lock' \in [Keys -> Sessions \cup {Nobody}]
           /\ \A y \in Sessions \ {x} : Held(y)' = Held(y) /\ View(y)' = View(y)
           /\ Held(x)' = DOMAIN ses[x].back
           /\ View(x)'[Pv(Cur(x))] = status
           /\ \A k \in Keys : k # Pv(Cur(x)) => View(x)'[k] = Saved(x)[k]
           /\ Moving(x) /\ Sound(DOMAIN ses[x].back, Saved(x))
           /\ \A p \in Taken(x) : Pv(p) \in DOMAIN ses[x].back
           /\ Saved(x)[Pv(Cur(x))] = "pending"
<1> DEFINE B == DOMAIN ses[x].back
           p == Cur(x)
<1>1. Moving(x)
  BY DEF InSavepoint, Moving
<1>2. /\ Types /\ SesInv(x) /\ p \in Steps /\ Pv(p) \in Keys /\ p \in Taken(x)
      /\ View(x)[Pv(p)] = "executed"
  BY <1>1, AtCur DEF InSavepoint
<1>3. /\ B \subseteq Held(x) /\ Sound(B, Saved(x)) /\ \A q \in Taken(x) : Pv(q) \in B
      /\ Saved(x)[Pv(p)] = "pending"
  BY <1>1, <1>2 DEF SesInv
<1>4. /\ draft' = [k \in Keys |-> IF k = Pv(p) THEN status ELSE IF lock[k] # x THEN draft[k]
                                  ELSE Saved(x)[k]]
      /\ lock' = [k \in Keys |-> IF lock[k] = x /\ k \notin B THEN Nobody ELSE lock[k]]
  BY DEF BackTo, Saved, With
<1>5. /\ Fits(Saved(x)) /\ Fits(draft)
  BY <1>2 DEF Types, Saved
<1> HIDE DEF p, B
<1>6. Fits(draft')
  <2>1. status \in Value
    BY DEF Value
  <2>2. draft' \in [Keys -> Value]
    BY <1>4, <1>5, <2>1 DEF Fits
  <2> QED BY <1>2, <1>4, <1>5, <2>2, KeysAre, KeysDiffer DEF Fits
<1>7. Held(x)' = B
  BY <1>3, <1>4, PreviewsAssumption DEF Held
<1>8. lock' \in [Keys -> Sessions \cup {Nobody}]
  BY <1>2, <1>4 DEF Types
<1>9. ASSUME NEW y \in Sessions \ {x} PROVE Held(y)' = Held(y) /\ View(y)' = View(y)
  <2>1. Held(y)' = Held(y)
    BY <1>4, PreviewsAssumption DEF Held
  <2>2. \A k \in Held(y) : draft'[k] = draft[k]
    BY <1>2, <1>3, <1>4 DEF Held
  <2> QED BY <2>1, <2>2 DEF View, With
<1>10. ASSUME NEW k \in Keys
       PROVE  View(x)'[k] = IF k = Pv(p) THEN status ELSE Saved(x)[k]
  <2>1. View(x)'[k] = IF k \in B THEN draft'[k] ELSE row[k]
    BY <1>7 DEF View, With
  <2>2. Pv(p) \in B /\ (k \notin B => Saved(x)[k] = row[k])
    BY <1>2, <1>3 DEF Saved, With, B
  <2> QED BY <1>3, <1>4, <2>1, <2>2 DEF Held
<1> QED BY <1>1, <1>2, <1>3, <1>6, <1>7, <1>8, <1>9, <1>10 DEF B, p

\* A later statement of the operation's savepoint fails.
LEMMA FailsLateKeeps == ASSUME IInv, NEW x \in Sessions, FailsLate(x) PROVE IInv'
<1> DEFINE p == Cur(x)
<1>1. /\ InSavepoint(x) /\ UNCHANGED <<row, old, overlap>>
      /\ \/ "busy" \in LateErrors /\ BackTo(x, "executed") /\ Following(x)
         \/ BackTo(x, "failed") /\ To(x, "mark")
  BY DEF FailsLate
<1>2. /\ Types /\ SesInv(x) /\ ~ At(x, "idle") /\ ~ At(x, "take") /\ p \in Steps /\ p \in Taken(x)
      /\ Pv(p) \in Keys /\ \A q \in Taken(x) : Pv(q) \in Held(x)
  BY <1>1, AtCur DEF InSavepoint, Moving, At
<1>3. {"executed", "failed"} \subseteq PreviewStatus
  BY DEF PreviewStatus
<1>4. CASE "busy" \in LateErrors /\ BackTo(x, "executed") /\ Following(x)
  <2>1. /\ Fits(draft') /\ lock' \in [Keys -> Sessions \cup {Nobody}]
        /\ \A y \in Sessions \ {x} : Held(y)' = Held(y) /\ View(y)' = View(y)
        /\ Held(x)' = DOMAIN ses[x].back
        /\ View(x)'[Pv(p)] = "executed"
        /\ \A k \in Keys : k # Pv(p) => View(x)'[k] = Saved(x)[k]
        /\ Sound(DOMAIN ses[x].back, Saved(x))
        /\ \A q \in Taken(x) : Pv(q) \in DOMAIN ses[x].back
        /\ Saved(x)[Pv(p)] = "pending"
    BY <1>1, <1>3, <1>4, BackDoes
  <2> HIDE DEF p
  <2>2. Sound(Held(x)', View(x)')
    BY <1>2, <1>4, <2>1, SoundUndone
  <2>3. Sound(Held(x), View(x))'
    BY <1>1, <2>2, SoundNow
  <2>4. /\ ses'[x].ids = ses[x].ids
        /\ \/ /\ ses'[x].pc = "take" /\ ses'[x].at = ses[x].at + 1
           \/ /\ ses'[x].pc = "commit" /\ ses'[x].at = ses[x].at /\ ses[x].at = Len(ses[x].ids)
    BY <1>2, <1>4, FollowingDoes
  <2>5. Taken(x)' = Taken(x)
    BY <1>2, <2>4, TakenMoves DEF At
  <2>6. SesInv(x)'
    BY <2>1, <2>3, <2>4, <2>5 DEF SesInv, Moving, At
  <2> QED BY <1>1, <1>2, <1>4, <2>1, <2>6, GoesOn
<1>5. CASE BackTo(x, "failed") /\ To(x, "mark")
  <2>1. /\ Fits(draft') /\ lock' \in [Keys -> Sessions \cup {Nobody}]
        /\ \A y \in Sessions \ {x} : Held(y)' = Held(y) /\ View(y)' = View(y)
        /\ Held(x)' = DOMAIN ses[x].back
        /\ View(x)'[Pv(p)] = "failed"
        /\ \A k \in Keys : k # Pv(p) => View(x)'[k] = Saved(x)[k]
        /\ Sound(DOMAIN ses[x].back, Saved(x))
        /\ \A q \in Taken(x) : Pv(q) \in DOMAIN ses[x].back
        /\ Saved(x)[Pv(p)] = "pending"
    BY <1>1, <1>3, <1>5, BackDoes
  <2>2. Taken(x)' = Taken(x) /\ Cur(x)' = p /\ Moving(x)' /\ \A c : At(x, c)' <=> c = "mark"
    BY <1>2, <1>5, MovesOn DEF PCs
  <2> HIDE DEF p
  <2>3. Sound(DOMAIN ses[x].back \cup {Pv(p)}, View(x)')
    BY <1>2, <2>1, SoundRefused
  <2>4. DOMAIN ses[x].back \cup {Pv(p)} = Held(x)'
    BY <1>2, <2>1
  <2>5. Sound(Held(x), View(x))'
    BY <1>1, <2>3, <2>4, SoundNow
  <2>6. SesInv(x)'
    BY <2>1, <2>2, <2>5 DEF SesInv, Undecided
  <2> QED BY <1>1, <1>2, <1>5, <2>1, <2>6, GoesOn DEF PCs
<1> QED BY <1>1, <1>4, <1>5

\* The step of the preview is marked.
LEMMA MarkKeeps == ASSUME IInv, NEW x \in Sessions, Mark(x) PROVE IInv'
<1> DEFINE p == Cur(x)
           v == IF View(x)[Pv(p)] = "executed" THEN "executed" ELSE "failed"
           w == One(St(p), v)
<1>1. At(x, "mark") /\ Moving(x) /\ To(x, "advance") /\ UNCHANGED <<row, old, overlap>>
  BY DEF Mark, Moving, At
<1>2. /\ Types /\ ~ At(x, "idle") /\ p \in Steps /\ Pv(p) \in Keys /\ St(p) \in Keys
      /\ Sound(Held(x), View(x)) /\ Seen(x, Pv(p)) = View(x)[Pv(p)] /\ Op(p) \in Keys
      /\ View(x)[Pv(p)] = "executed" => View(x)[Op(p)] = "once"
  BY <1>1, AtCur, KeysAre DEF SesInv
<1>3. Write(x, w)
  BY <1>2 DEF Mark
<1> HIDE DEF p
<1>4. /\ DOMAIN w = {St(p)} /\ w[St(p)] = v /\ {St(p)} \subseteq Keys
      /\ Fits(With(draft, DOMAIN w, w))
  BY <1>2, OneFits DEF StepStatus, Types
<1> HIDE DEF w
<1>5. /\ Fits(draft') /\ lock' \in [Keys -> Sessions \cup {Nobody}]
      /\ \A y \in Sessions \ {x} : Held(y)' = Held(y) /\ View(y)' = View(y)
      /\ Held(x)' = Held(x) \cup {St(p)}
      /\ View(x)'[St(p)] = v /\ \A k \in Keys : k # St(p) => View(x)'[k] = View(x)[k]
  BY <1>1, <1>2, <1>3, <1>4, WriteDoes
<1>6. Sound(Held(x)', View(x)')
  <2> DEFINE S == {p}
  <2>1. {St(s) : s \in S} = {St(p)} /\ S \in SUBSET Steps
    BY <1>2
  <2>2. \A s \in S : /\ View(x)'[St(s)] # "waiting"
                     /\ View(x)'[St(s)] = "executed" => View(x)[Op(s)] = "once"
    BY <1>2, <1>5
  <2> HIDE DEF S
  <2>3. Sound(Held(x) \cup {St(s) : s \in S}, View(x)')
    BY <1>2, <1>5, <2>1, <2>2, SoundMarked
  <2> QED BY <1>5, <2>1, <2>3
<1>7. View(x)'[Pv(p)] = View(x)[Pv(p)] /\ View(x)'[Op(p)] = View(x)[Op(p)]
  BY <1>2, <1>5, KeysDiffer
<1>8. SesInv(x)'
  BY <1>1, <1>5, <1>6, <1>7, MovingSes DEF p
<1> QED BY <1>1, <1>2, <1>5, <1>8, GoesOn DEF PCs

\* The dependents of a step that did not execute are blocked.
LEMMA BlockKeeps == ASSUME IInv, NEW x \in Sessions, Block(x) PROVE IInv'
<1> DEFINE S == Blocked(x, {Cur(x)})
           w == [k \in {St(s) : s \in S} |-> "blocked"]
<1>1. /\ At(x, "advance") /\ Moving(x) /\ To(x, "close") /\ UNCHANGED <<row, old, overlap>>
      /\ Write(x, w)
  BY DEF Block, Moving, At
<1>2. /\ Types /\ ~ At(x, "idle") /\ Cur(x) \in Steps /\ Sound(Held(x), View(x))
  BY <1>1, AtCur
<1>3. S \in SUBSET Steps
  BY DEF Blocked, Is
<1> HIDE DEF S
<1>4. DOMAIN w = {St(s) : s \in S} /\ (\A s \in S : w[St(s)] = "blocked") /\ DOMAIN w \subseteq Keys
      /\ \A k \in DOMAIN w : w[k] = "blocked"
  BY <1>3, KeysAre
<1> HIDE DEF w
<1>5. Fits(With(draft, DOMAIN w, w))
  <2>1. Fits(draft) /\ "blocked" \in Value /\ "blocked" \in StepStatus
    BY <1>2 DEF Types, Value, StepStatus
  <2>2. \A p \in Steps : Pv(p) \notin DOMAIN w /\ Act(p) \notin DOMAIN w /\ Op(p) \notin DOMAIN w
    BY <1>3, <1>4, KeysDiffer
  <2>3. Plan \notin DOMAIN w
    BY <1>3, <1>4, KeysDiffer
  <2>4. With(draft, DOMAIN w, w) \in [Keys -> Value]
    BY <1>4, <2>1 DEF Fits, With
  <2> QED BY <1>4, <2>1, <2>2, <2>3, <2>4, KeysAre DEF Fits, With
<1>6. /\ Fits(draft') /\ lock' \in [Keys -> Sessions \cup {Nobody}]
      /\ \A y \in Sessions \ {x} : Held(y)' = Held(y) /\ View(y)' = View(y)
      /\ Held(x)' = Held(x) \cup {St(s) : s \in S}
      /\ \A k \in Keys : View(x)'[k] = IF k \in {St(s) : s \in S} THEN w[k] ELSE View(x)[k]
  BY <1>1, <1>2, <1>4, <1>5, WriteDoes
<1>7. \A s \in S : View(x)'[St(s)] = "blocked"
  BY <1>3, <1>4, <1>6, KeysAre
<1>8. Sound(Held(x)', View(x)')
  BY <1>2, <1>3, <1>6, <1>7, SoundMarked
<1>9. View(x)'[Pv(Cur(x))] = View(x)[Pv(Cur(x))] /\ View(x)'[Op(Cur(x))] = View(x)[Op(Cur(x))]
  BY <1>2, <1>3, <1>6, KeysAre, KeysDiffer
<1>10. SesInv(x)'
  BY <1>1, <1>6, <1>8, <1>9, MovingSes
<1> QED BY <1>1, <1>2, <1>6, <1>10, GoesOn DEF PCs

\* A table is sound whatever the plan's own row says.
LEMMA SoundClosed ==
    ASSUME NEW K, NEW T, Sound(K, T), NEW U, \A k \in Keys : k # Plan => U[k] = T[k]
    PROVE  Sound(K \cup {Plan}, U)
BY KeysAre, KeysDiffer, PreviewsAssumption DEF Sound, Order

\* The plan is closed, where no step is left, and the request turns to its next preview.
LEMMA CloseKeeps == ASSUME IInv, NEW x \in Sessions, Close(x) PROVE IInv'
<1>1. At(x, "close") /\ Moving(x) /\ Following(x) /\ UNCHANGED <<row, old, overlap>>
  BY DEF Close, Moving, At
<1>2. /\ Types /\ ~ At(x, "idle") /\ Cur(x) \in Taken(x) /\ Sound(Held(x), View(x))
      /\ \A q \in Taken(x) : Pv(q) \in Held(x)
  BY <1>1, AtCur
<1>3. /\ Fits(draft') /\ lock' \in [Keys -> Sessions \cup {Nobody}]
      /\ \A y \in Sessions \ {x} : Held(y)' = Held(y) /\ View(y)' = View(y)
      /\ Held(x) \subseteq Held(x)' /\ Sound(Held(x)', View(x)')
  <2>1. CASE UNCHANGED <<draft, lock>>
    <3>1. \A y : Held(y)' = Held(y) /\ View(y)' = View(y)
      BY <1>1, <2>1 DEF Held, View, With
    <3> QED BY <1>2, <2>1, <3>1 DEF Types
  <2>2. ASSUME NEW v \in {"failed", "completed"}, Write(x, One(Plan, v))
        PROVE  /\ Fits(draft') /\ lock' \in [Keys -> Sessions \cup {Nobody}]
               /\ \A y \in Sessions \ {x} : Held(y)' = Held(y) /\ View(y)' = View(y)
               /\ Held(x) \subseteq Held(x)' /\ Sound(Held(x)', View(x)')
    <3> DEFINE w == One(Plan, v)
    <3>1. /\ DOMAIN w = {Plan} /\ {Plan} \subseteq Keys /\ Fits(With(draft, DOMAIN w, w))
      BY <1>2, KeysAre, OneFits DEF Types
    <3>2. Write(x, w)
      BY <2>2
    <3> HIDE DEF w
    <3>3. /\ Fits(draft') /\ lock' \in [Keys -> Sessions \cup {Nobody}]
          /\ \A y \in Sessions \ {x} : Held(y)' = Held(y) /\ View(y)' = View(y)
          /\ Held(x)' = Held(x) \cup {Plan}
          /\ \A k \in Keys : k # Plan => View(x)'[k] = View(x)[k]
      BY <1>1, <1>2, <3>1, <3>2, WriteDoes
    <3> QED BY <1>2, <3>3, SoundClosed
  <2> QED BY <2>1, <2>2 DEF Close
<1>4. Sound(Held(x), View(x))'
  BY <1>1, <1>3, SoundNow
<1>5. SesInv(x)'
  BY <1>1, <1>2, <1>3, <1>4, FollowingSes
<1> QED BY <1>1, <1>2, <1>3, <1>5, GoesOn

\* The plan advances: previews are made for the steps that are ready.
LEMMA AdvanceKeeps == ASSUME IInv, NEW x \in Sessions, Advance(x) PROVE IInv'
<1>1. PICK F \in SUBSET Ready(x) :
        Write(x, [k \in {St(s) : s \in Ready(x) \cup Blocked(x, F \cup Is(x, {"failed", "blocked"}))}
                        \cup {Pv(s) : s \in (Ready(x) \ F) \cup
                                 (IF Ready(x) = {} THEN {}
                                  ELSE {p \in ses[x].stale : Seen(x, Pv(p)) = "pending"})}
                        \cup {Act(s) : s \in Ready(x) \ F} |->
                    IF k[1] = "step" THEN IF k[2] \in Ready(x) \ F THEN "ready"
                                          ELSE IF k[2] \in F THEN "failed" ELSE "blocked"
                    ELSE IF k[2] \in Ready(x) \ F THEN "pending" ELSE "expired"])
  BY DEF Advance
<1> DEFINE R == Ready(x)
           made == R \ F
           B == Blocked(x, F \cup Is(x, {"failed", "blocked"}))
           stale == IF R = {} THEN {} ELSE {p \in ses[x].stale : Seen(x, Pv(p)) = "pending"}
           J == {St(s) : s \in R \cup B} \cup {Pv(s) : s \in made \cup stale} \cup {Act(s) : s \in made}
           w == [k \in J |->
                    IF k[1] = "step" THEN IF k[2] \in made THEN "ready"
                                          ELSE IF k[2] \in F THEN "failed" ELSE "blocked"
                    ELSE IF k[2] \in made THEN "pending" ELSE "expired"]
<1>2. /\ Write(x, w) /\ At(x, "advance") /\ Moving(x) /\ To(x, "close")
      /\ UNCHANGED <<row, old, overlap>>
  BY <1>1 DEF Advance, Moving, At
<1>3. /\ Types /\ SesInv(x) /\ ~ At(x, "idle") /\ Cur(x) \in Steps /\ Pv(Cur(x)) \in Keys
      /\ Sound(Held(x), View(x)) /\ Fits(View(x)) /\ \A k \in Keys : Seen(x, k) = View(x)[k]
  BY <1>2, AtCur
<1>4. /\ R \subseteq Steps /\ B \subseteq Steps /\ made \subseteq R
      /\ \A s \in R \cup B : View(x)[St(s)] = "waiting"
      /\ \A s \in made : \A d \in Deps[s] : View(x)[St(d)] = "executed"
  BY <1>3, KeysAre DEF Ready, Blocked, Is
<1>5. stale \subseteq Steps /\ \A p \in stale : View(x)[Pv(p)] = "pending"
  BY <1>3, KeysAre DEF Types, Request
<1> HIDE DEF R, B, stale
<1>6. \A p \in Steps : /\ St(p) \in J <=> p \in R \cup B
                       /\ Pv(p) \in J <=> p \in made \cup stale
                       /\ Act(p) \in J <=> p \in made
                       /\ Op(p) \notin J
  BY <1>4, <1>5, KeysDiffer
<1>7. Plan \notin J /\ J \subseteq Keys
  BY <1>4, <1>5, KeysAre, KeysDiffer
<1> HIDE DEF made
<1>8. \A p \in Steps : /\ p \in R \cup B => w[St(p)] \in {"ready", "failed", "blocked"}
                       /\ p \in made \cup stale => w[Pv(p)] = IF p \in made THEN "pending" ELSE "expired"
                       /\ p \in made => w[Act(p)] = "pending"
  BY <1>6, KeyParts
<1>9. DOMAIN w = J /\ \A k \in J : w[k] \in {"ready", "failed", "blocked", "pending", "expired"}
  OBVIOUS
<1> HIDE DEF J, w
<1>10. Fits(With(draft, J, w))
  <2>1. Fits(draft)
    BY <1>3 DEF Types
  <2>2. With(draft, J, w) \in [Keys -> Value]
    BY <1>9, <2>1 DEF Fits, With, Value, PreviewStatus, StepStatus
  <2>3. ASSUME NEW p \in Steps
        PROVE  /\ St(p) \in J => w[St(p)] \in StepStatus
               /\ Pv(p) \in J => w[Pv(p)] \in PreviewStatus
               /\ Act(p) \in J => w[Act(p)] \in ActionStatus
    BY <1>6, <1>8 DEF StepStatus, PreviewStatus, ActionStatus
  <2> QED BY <1>6, <1>7, <2>1, <2>2, <2>3, KeysAre DEF Fits, With
<1>11. /\ Fits(draft') /\ lock' \in [Keys -> Sessions \cup {Nobody}]
       /\ \A y \in Sessions \ {x} : Held(y)' = Held(y) /\ View(y)' = View(y)
       /\ Held(x)' = Held(x) \cup J
       /\ \A k \in Keys : View(x)'[k] = IF k \in J THEN w[k] ELSE View(x)[k]
  BY <1>2, <1>3, <1>7, <1>9, <1>10, WriteDoes
<1>12. Sound(Held(x)', View(x)')
  <2>1. made \in SUBSET Steps /\ \A s \in made : /\ View(x)[St(s)] = "waiting"
                                                 /\ \A d \in Deps[s] : View(x)[St(d)] = "executed"
    BY <1>4
  <2>2. ASSUME NEW p \in Steps
        PROVE  /\ St(p) \in J => /\ View(x)[St(p)] = "waiting"
                                 /\ View(x)'[St(p)] \in {"ready", "failed", "blocked"}
               /\ p \in made <=> Act(p) \in J
               /\ p \in made => /\ St(p) \in J /\ View(x)'[Pv(p)] = "pending"
                                /\ View(x)'[Act(p)] = "pending"
               /\ Pv(p) \in J /\ p \notin made => /\ View(x)[Pv(p)] = "pending"
                                                  /\ View(x)'[Pv(p)] = "expired"
               /\ p \in made => Pv(p) \in J
               /\ Op(p) \notin J
    BY <1>4, <1>5, <1>6, <1>8, <1>11, KeysAre
  <2>3. Sound(Held(x) \cup J, View(x)')
    <3>1. \A k \in Keys \ J : View(x)'[k] = View(x)[k]
      BY <1>11
    <3>2. Advances(made, J, View(x), View(x)')
      BY <2>1, <2>2, <3>1 DEF Advances
    <3> QED BY <1>3, <1>7, <2>1, <3>2, SoundMade
  <2> QED BY <1>11, <2>3
<1>13. View(x)'[Pv(Cur(x))] = View(x)[Pv(Cur(x))] /\ View(x)'[Op(Cur(x))] = View(x)[Op(Cur(x))]
  <2>1. View(x)[Pv(Cur(x))] \notin Undecided
    BY <1>2, <1>3 DEF SesInv
  <2>2. Cur(x) \notin made
    BY <1>3, <1>4, <2>1 DEF Sound, Order, Undecided
  <2>3. Cur(x) \notin stale
    BY <1>5, <2>1 DEF Undecided
  <2> QED BY <1>3, <1>6, <1>11, <2>2, <2>3, KeysAre
<1>14. SesInv(x)'
  BY <1>2, <1>11, <1>12, <1>13, MovingSes
<1> QED BY <1>2, <1>3, <1>11, <1>14, GoesOn DEF PCs

\* A request begins with a batch of previews that are made.
LEMMA BeginKeeps == ASSUME IInv, NEW x \in Sessions, Begin(x) PROVE IInv'
<1>1. Types /\ SesInv(x) /\ UNCHANGED <<row, draft, lock, old>> /\ overlap' \in BOOLEAN
  BY DEF IInv, Types, Begin
<1>2. PICK kind \in {"approve", "reject"}, n \in 1 .. Width :
        \E ids \in [1 .. n -> {p \in Steps : row[Pv(p)] # "none"}] :
          ses' = [ses EXCEPT ![x] = [NoRequest EXCEPT !.pc = "sign", !.kind = kind, !.ids = ids,
                                            !.stale = {p \in Steps : old[p]}]]
  BY DEF Begin
<1>3. PICK ids \in [1 .. n -> {p \in Steps : row[Pv(p)] # "none"}] :
        ses' = [ses EXCEPT ![x] = [NoRequest EXCEPT !.pc = "sign", !.kind = kind, !.ids = ids,
                                          !.stale = {p \in Steps : old[p]}]]
  BY <1>2
<1> DEFINE stale == {p \in Steps : old[p]}
           m == [NoRequest EXCEPT !.pc = "sign", !.kind = kind, !.ids = ids, !.stale = stale]
<1>4. n \in Nat /\ ids \in [1 .. n -> Steps]
  BY <1>3, PreviewsAssumption
<1>5. ids \in Seq(Steps) /\ Len(ids) = n /\ n <= Width /\ 1 <= n
  BY <1>2, <1>4, SeqDef, LenProperties, PreviewsAssumption
<1>6. stale \in SUBSET Steps /\ NoRequest.back \in Savings /\ 1 \in 1 .. Width
  BY NoRequestTyped, PreviewsAssumption DEF Request
<1> HIDE DEF stale
<1>7. /\ m \in Request /\ m.pc = "sign" /\ m.ids = ids /\ m.at = 1 /\ m.back = NoRequest.back
  BY <1>5, <1>6 DEF NoRequest, Request, PCs
<1>8. ses' = [ses EXCEPT ![x] = m]
  BY <1>3 DEF stale
<1> HIDE DEF m
<1>9. /\ ses' \in [Sessions -> Request] /\ \A y \in Sessions \ {x} : ses'[y] = ses[y]
      /\ ses'[x] = m
  BY <1>1, <1>7, <1>8, RequestMoved
<1>10. \A y : Held(y)' = Held(y) /\ View(y)' = View(y)
  BY <1>1 DEF Held, View, With
<1>11. SesInv(x)'
  <2>1. ~ Moving(x)' /\ \A c : At(x, c)' <=> c = "sign"
    BY <1>7, <1>9 DEF Moving, At
  <2>2. Sound(Held(x), View(x))'
    BY <1>1, <1>10, SoundNow DEF SesInv
  <2>3. ses'[x].pc = "sign"
    BY <1>7, <1>9
  <2> QED BY <2>1, <2>2, <2>3 DEF SesInv
<1>12. Fits(With(row, DOMAIN m.back, m.back))
  <2>1. DOMAIN m.back = {} /\ Fits(row)
    BY <1>1, <1>7, NoRequestTyped DEF Types
  <2>2. With(row, {}, m.back) = row
    BY <2>1 DEF With, Fits
  <2> QED BY <2>1, <2>2
<1> QED BY <1>1, <1>5, <1>7, <1>9, <1>10, <1>11, <1>12, StatementKeeps DEF Types

\* The other requests go on with what they see, whatever was committed elsewhere.
LEMMA OthersSee ==
    ASSUME IInv, NEW y \in Sessions, ses'[y] = ses[y], Held(y)' = Held(y),
           \A k \in Held(y) : View(y)'[k] = View(y)[k],
           Sound(Held(y), View(y))',
           DOMAIN ses[y].back \subseteq Held(y) /\ Sound(DOMAIN ses[y].back, Saved(y)) =>
               Sound(DOMAIN ses[y].back, Saved(y))'
    PROVE  SesInv(y)'
<1>1. SesInv(y) /\ Types
  BY DEF IInv
<1>2. /\ Cur(y)' = Cur(y) /\ Taken(y)' = Taken(y)
      /\ Moving(y)' = Moving(y) /\ \A pc : At(y, pc)' = At(y, pc)
  BY DEF Cur, Taken, Moving, At
<1>3. /\ (DOMAIN ses[y].back)' = DOMAIN ses[y].back
      /\ \A k \in DOMAIN ses[y].back : k \in Keys => Saved(y)'[k] = Saved(y)[k]
  BY DEF Saved, With
<1>4. ASSUME Moving(y) \/ ses[y].pc = "operate" PROVE Pv(Cur(y)) \in Held(y) /\ Pv(Cur(y)) \in Keys
  BY <1>4, AtCur DEF At
<1>5. ASSUME Moving(y), View(y)[Pv(Cur(y))] = "executed"
      PROVE  /\ (Op(Cur(y)) \in Held(y) /\ View(y)[Op(Cur(y))] = "once")'
             /\ (DOMAIN ses[y].back \subseteq Held(y))'
             /\ Sound(DOMAIN ses[y].back, Saved(y))'
             /\ (\A p \in Taken(y) : Pv(p) \in DOMAIN ses[y].back)'
             /\ (Saved(y)[Pv(Cur(y))] = "pending")'
  <2>1. /\ DOMAIN ses[y].back \subseteq Held(y) /\ Sound(DOMAIN ses[y].back, Saved(y))
        /\ \A p \in Taken(y) : Pv(p) \in DOMAIN ses[y].back
        /\ Saved(y)[Pv(Cur(y))] = "pending"
        /\ Op(Cur(y)) \in Held(y) /\ View(y)[Op(Cur(y))] = "once"
    BY <1>1, <1>5 DEF SesInv
  <2>2. Pv(Cur(y)) \in DOMAIN ses[y].back /\ Pv(Cur(y)) \in Keys
    BY <1>4, <1>5, <2>1, AtCur
  <2> QED BY <1>2, <1>3, <2>1, <2>2
<1>6. Moving(y) \/ ses[y].pc = "operate" => View(y)'[Pv(Cur(y))] = View(y)[Pv(Cur(y))]
  BY <1>4
<1> QED BY <1>1, <1>2, <1>5, <1>6 DEF SesInv, At

\* What a commit does: the rows of the request are committed as it saw them, but for the
\* action requests of its batch, which are executed only with their previews.
LEMMA CommitDoes ==
    ASSUME IInv, NEW x \in Sessions, Commit(x)
    PROVE  /\ Fits(row') /\ Fits(draft') /\ lock' \in [Keys -> Sessions \cup {Nobody}]
           /\ Held(x)' = {} /\ ses' \in [Sessions -> Request] /\ ses'[x] = NoRequest
           /\ \A y \in Sessions \ {x} : /\ ses'[y] = ses[y] /\ Held(y)' = Held(y)
                                        /\ Held(y) \cap Held(x) = {}
                                        /\ \A k \in Held(y) : draft'[k] = draft[k]
           /\ Order(row')
           /\ \A k \in Keys : k \notin {Act(p) : p \in Steps} => row'[k] = View(x)[k]
           /\ \A k \in Keys \ Held(x) : row'[k] = row[k]
<1> DEFINE result(p) == IF ses[x].kind = "approve" /\ draft[Pv(p)] # "pending"
                        THEN draft[Pv(p)] ELSE draft[Act(p)]
           last == [k \in Keys |-> IF k[1] = "action" /\ k[2] \in Batch(x) THEN result(k[2]) ELSE draft[k]]
<1>1. /\ At(x, "commit") /\ ~ At(x, "idle") /\ ~ At(x, "take")
      /\ Types /\ SesInv(x) /\ Fits(row) /\ Fits(draft)
  BY DEF Commit, At, IInv, Types
<1>2. Batch(x) \subseteq Steps /\ \A p \in Batch(x) : Pv(p) \in Held(x)
  <2>1. /\ ses[x].at = Len(ses[x].ids) /\ Len(ses[x].ids) \in Nat
        /\ Batch(x) = {ses[x].ids[i] : i \in 1 .. Len(ses[x].ids)}
    BY <1>1, CurIs DEF SesInv
  <2>2. Batch(x) = Taken(x)
    BY <1>1, <2>1 DEF Taken
  <2>3. Batch(x) \subseteq Steps
    BY <1>1, <2>1 DEF Types, Request
  <2> QED BY <1>1, <2>2, <2>3 DEF SesInv, At
<1>3. \A p \in Steps : /\ last[Pv(p)] = draft[Pv(p)] /\ last[St(p)] = draft[St(p)]
                       /\ last[Op(p)] = draft[Op(p)]
                       /\ last[Act(p)] = IF p \in Batch(x) THEN result(p) ELSE draft[Act(p)]
  BY KeysAre, KeyParts
<1>4. last[Plan] = draft[Plan]
  BY KeysAre, KeyParts
<1>5. last \in [Keys -> Value] /\ \A p \in Steps : result(p) \in ActionStatus
  <2>1. \A p \in Steps : result(p) \in ActionStatus
    BY <1>1 DEF Fits, PreviewStatus, ActionStatus
  <2>2. \A k \in Keys : last[k] \in Value
    <3>1. ASSUME NEW p \in Steps, NEW k \in {Pv(p), Act(p), St(p), Op(p)} PROVE last[k] \in Value
      <4>1. {Pv(p), Act(p), St(p), Op(p)} \subseteq Keys
        BY KeysAre
      <4>2. last[k] \in {draft[k]} \cup ActionStatus
        BY <1>3, <2>1, <3>1
      <4>3. draft[k] \in Value /\ ActionStatus \subseteq Value
        BY <1>1, <3>1, <4>1 DEF Fits, Value
      <4> QED BY <4>2, <4>3
    <3>2. last[Plan] \in Value
      BY <1>1, <1>4, KeysAre DEF Fits
    <3> QED BY <3>1, <3>2, KeysAre
  <2> QED BY <2>1, <2>2
<1>6. Fits(last)
  BY <1>1, <1>3, <1>4, <1>5 DEF Fits
<1>7. /\ row' = [k \in Keys |-> IF lock[k] = x THEN last[k] ELSE row[k]]
      /\ draft' = [k \in Keys |-> IF lock[k] = x THEN last[k] ELSE draft[k]]
      /\ lock' = [k \in Keys |-> IF lock[k] = x THEN Nobody ELSE lock[k]]
  <2>1. DOMAIN row = Keys /\ DOMAIN draft = Keys /\ DOMAIN lock = Keys
    BY <1>1 DEF Types, Fits
  <2> QED BY <2>1 DEF Commit, Committed, Released
<1>8. \A p \in Steps : last[Act(p)] = "executed" /\ lock[Act(p)] = x => row'[Pv(p)] = "executed"
  <2> SUFFICES ASSUME NEW p \in Steps, last[Act(p)] = "executed", lock[Act(p)] = x
               PROVE  row'[Pv(p)] = "executed"
    OBVIOUS
  <2>1. draft[Act(p)] # "executed"
    BY <1>1, KeysAre DEF SesInv, Sound, View, With, Held
  <2>2. p \in Batch(x) /\ draft[Pv(p)] = "executed"
    BY <1>3, <2>1
  <2> QED BY <1>2, <1>3, <1>7, <2>2 DEF Held
<1> HIDE DEF last, result
<1>9. Fits(row') /\ Fits(draft')
  <2>1. row' = With(row, Held(x), last) /\ draft' = With(draft, Held(x), last)
    BY <1>7 DEF With, Held
  <2> QED BY <1>1, <1>6, <2>1, WithFits
<1>10. lock' \in [Keys -> Sessions \cup {Nobody}] /\ Held(x)' = {}
  BY <1>1, <1>7, PreviewsAssumption DEF Types, Held
<1>11. ASSUME NEW y \in Sessions \ {x}
       PROVE  Held(y)' = Held(y) /\ Held(y) \cap Held(x) = {} /\ \A k \in Held(y) : draft'[k] = draft[k]
  BY <1>7, PreviewsAssumption DEF Held
<1>12. ASSUME NEW k \in Keys, k \notin {Act(p) : p \in Steps} PROVE row'[k] = View(x)[k]
  <2>1. last[k] = draft[k]
    BY <1>3, <1>4, <1>12, KeysAre
  <2> QED BY <1>7, <2>1 DEF View, With, Held
<1>13. \A k \in Keys \ Held(x) : row'[k] = row[k]
  BY <1>7 DEF Held
<1>14. Order(row')
  <2>1. Order(View(x)) /\ Order(row)
    BY <1>1 DEF SesInv, Sound, IInv
  <2>2. \A p \in Steps : /\ row'[Pv(p)] = View(x)[Pv(p)] /\ row'[St(p)] = View(x)[St(p)]
                         /\ row'[Op(p)] = View(x)[Op(p)]
    BY <1>12, KeysAre, KeysDiffer
  <2>3. ASSUME NEW p \in Steps, row'[Act(p)] = "executed" PROVE row'[Pv(p)] = "executed"
    <3>1. CASE lock[Act(p)] = x
      BY <1>7, <1>8, <2>3, <3>1, KeysAre
    <3>2. CASE lock[Act(p)] # x
      <4>1. row[Act(p)] = "executed"
        BY <1>7, <2>3, <3>2, KeysAre
      <4>2. row[Pv(p)] = "executed"
        BY <2>1, <4>1 DEF Order
      <4> QED BY <1>1, <2>2, <4>2 DEF SesInv, Sound, Undecided
    <3> QED BY <3>1, <3>2
  <2> QED BY <2>1, <2>2, <2>3, PreviewsAssumption DEF Order
<1>15. ses' \in [Sessions -> Request] /\ ses'[x] = NoRequest /\ \A y \in Sessions \ {x} : ses'[y] = ses[y]
  BY <1>1, NoRequestTyped, RequestMoved DEF Commit
<1> QED BY <1>9, <1>10, <1>11, <1>12, <1>13, <1>14, <1>15

\* No request holds nothing and sees the committed rows.
LEMMA NothingHeld ==
    ASSUME NEW x, Held(x)' = {}, Fits(row)', Order(row)', ses'[x] = NoRequest
    PROVE  SesInv(x)'
<1>1. View(x)' = row'
  BY DEF View, With, Fits
<1>2. ses'[x].pc = "idle" /\ ~ Moving(x)' /\ \A c : At(x, c)' <=> c = "idle"
  BY NoRequestTyped DEF Moving, At
<1>3. Sound(Held(x), View(x))'
  BY <1>1 DEF Sound
<1> QED BY <1>2, <1>3 DEF SesInv

\* A request commits.
LEMMA CommitKeeps == ASSUME IInv, NEW x \in Sessions, Commit(x) PROVE IInv'
<1>1. /\ Fits(row') /\ Fits(draft') /\ lock' \in [Keys -> Sessions \cup {Nobody}]
      /\ Held(x)' = {} /\ ses' \in [Sessions -> Request] /\ ses'[x] = NoRequest
      /\ \A y \in Sessions \ {x} : /\ ses'[y] = ses[y] /\ Held(y)' = Held(y)
                                   /\ Held(y) \cap Held(x) = {}
                                   /\ \A k \in Held(y) : draft'[k] = draft[k]
      /\ Order(row')
      /\ \A k \in Keys : k \notin {Act(p) : p \in Steps} => row'[k] = View(x)[k]
      /\ \A k \in Keys \ Held(x) : row'[k] = row[k]
  BY CommitDoes
<1>2. Types /\ Sound(Held(x), View(x)) /\ UNCHANGED <<old, overlap>>
  BY DEF IInv, SesInv, Commit
<1>3. Order(row)'
  BY <1>1 DEF Order
<1>4. SesInv(x)'
  BY <1>1, <1>3, NothingHeld DEF Fits
<1>5. ASSUME NEW y \in Sessions \ {x} PROVE SesInv(y)'
  <2>1. /\ ses'[y] = ses[y] /\ Held(y)' = Held(y) /\ Held(y) \cap Held(x) = {}
        /\ Sound(Held(y), View(y))
    BY <1>1 DEF IInv, SesInv
  <2>2. \A k \in Keys : View(y)'[k] = IF k \in Held(y) THEN View(y)[k] ELSE row'[k]
    BY <1>1, <2>1 DEF View, With
  <2>3. Sound(Held(y), View(y))'
    <3>1. /\ Order(View(y)')
          /\ \A k \in Keys \ Held(y) : View(y)'[k] = row'[k]
          /\ \A p \in Steps : /\ row'[Pv(p)] \notin Undecided => View(y)'[Pv(p)] = row'[Pv(p)]
                              /\ row'[Op(p)] # "none" => View(y)'[Op(p)] = row'[Op(p)]
                              /\ St(p) \in Held(y) => View(y)'[St(p)] # "waiting"
                              /\ Act(p) \in Held(y) => View(y)'[Act(p)] # "executed"
                              /\ Op(p) \in Held(y) => Pv(p) \in Held(y)
      BY <1>1, <1>2, <2>1, <2>2, SoundCommitted
    <3> QED BY <2>1, <3>1 DEF Sound, Order
  <2>4. ASSUME DOMAIN ses[y].back \subseteq Held(y), Sound(DOMAIN ses[y].back, Saved(y))
        PROVE  Sound(DOMAIN ses[y].back, Saved(y))'
    <3>1. \A k \in Keys : Saved(y)'[k] = IF k \in DOMAIN ses[y].back THEN Saved(y)[k] ELSE row'[k]
      BY <2>1 DEF Saved, With
    <3>2. DOMAIN ses[y].back \cap Held(x) = {} /\ (DOMAIN ses[y].back)' = DOMAIN ses[y].back
      BY <2>1, <2>4
    <3>3. /\ Order(Saved(y)')
          /\ \A k \in Keys \ DOMAIN ses[y].back : Saved(y)'[k] = row'[k]
          /\ \A p \in Steps :
                /\ row'[Pv(p)] \notin Undecided => Saved(y)'[Pv(p)] = row'[Pv(p)]
                /\ row'[Op(p)] # "none" => Saved(y)'[Op(p)] = row'[Op(p)]
                /\ St(p) \in DOMAIN ses[y].back => Saved(y)'[St(p)] # "waiting"
                /\ Act(p) \in DOMAIN ses[y].back => Saved(y)'[Act(p)] # "executed"
                /\ Op(p) \in DOMAIN ses[y].back => Pv(p) \in DOMAIN ses[y].back
      BY <1>1, <1>2, <2>4, <3>1, <3>2, SoundCommitted
    <3> QED BY <3>2, <3>3 DEF Sound, Order
  <2>5. \A k \in Held(y) : View(y)'[k] = View(y)[k]
    BY <2>2 DEF Held
  <2> QED BY <2>1, <2>3, <2>4, <2>5, OthersSee
<1>6. Types'
  <2>1. ASSUME NEW y \in Sessions
        PROVE  /\ (~ At(y, "idle") => ses[y].at <= Len(ses[y].ids))' /\ (Len(ses[y].ids) <= Width)'
               /\ Fits(With(row, DOMAIN ses[y].back, ses[y].back))'
    <3>1. CASE y = x
      <4>1. Len(NoRequest.ids) = 0 /\ 0 <= Width /\ NoRequest.pc = "idle" /\ DOMAIN NoRequest.back = {}
        BY NoRequestTyped, PreviewsAssumption
      <4>2. With(row', {}, NoRequest.back) = row'
        BY <1>1 DEF With, Fits
      <4> QED BY <1>1, <3>1, <4>1, <4>2 DEF At, Fits
    <3>2. CASE y # x
      <4>1. ses'[y] = ses[y] /\ Fits(With(row, DOMAIN ses[y].back, ses[y].back))
        BY <1>1, <1>2, <3>2 DEF Types
      <4>2. Fits(With(row', DOMAIN ses[y].back, ses[y].back))
        BY <1>1, <4>1, SavingFits
      <4> QED BY <1>2, <4>1, <4>2 DEF Types, At, Fits, With
    <3> QED BY <3>1, <3>2
  <2> QED BY <1>1, <1>2, <2>1 DEF Types, Fits
<1> QED BY <1>3, <1>4, <1>5, <1>6 DEF IInv

\* A request is rolled back.
LEMMA AbortKeeps == ASSUME IInv, NEW x \in Sessions, Abort(x) PROVE IInv'
<1>1. /\ Types /\ Fits(row) /\ Fits(draft) /\ UNCHANGED <<row, old, overlap>>
      /\ DOMAIN row = Keys /\ DOMAIN lock = Keys /\ overlap' \in BOOLEAN
  BY DEF IInv, Types, Fits, Abort
<1>2. /\ draft' = With(draft, Held(x), row)
      /\ lock' = [k \in Keys |-> IF lock[k] = x THEN Nobody ELSE lock[k]]
  <2>1. /\ draft' = [k \in Keys |-> IF lock[k] = x THEN row[k] ELSE draft[k]]
        /\ lock' = [k \in Keys |-> IF lock[k] = x THEN Nobody ELSE lock[k]]
    BY <1>1 DEF Abort, RolledBack, Released
  <2> QED BY <2>1 DEF With, Held
<1>3. Fits(draft')
  BY <1>1, <1>2, WithFits
<1>4. lock' \in [Keys -> Sessions \cup {Nobody}] /\ Held(x)' = {}
  BY <1>1, <1>2, PreviewsAssumption DEF Types, Held
<1>5. ASSUME NEW y \in Sessions \ {x} PROVE Held(y)' = Held(y) /\ View(y)' = View(y)
  <2>1. Held(y)' = Held(y) /\ \A k \in Held(y) : draft'[k] = draft[k]
    BY <1>2, PreviewsAssumption DEF Held, With
  <2> QED BY <1>1, <2>1 DEF View, With
<1>6. ses' \in [Sessions -> Request] /\ ses'[x] = NoRequest /\ \A y \in Sessions \ {x} : ses'[y] = ses[y]
  BY <1>1, NoRequestTyped, RequestMoved DEF Abort
<1>7. /\ Len(NoRequest.ids) <= Width /\ NoRequest.pc = "idle"
      /\ Fits(With(row, DOMAIN NoRequest.back, NoRequest.back))
  <2>1. Len(NoRequest.ids) = 0 /\ NoRequest.pc = "idle" /\ DOMAIN NoRequest.back = {}
    BY NoRequestTyped
  <2>2. With(row, {}, NoRequest.back) = row
    BY <1>1 DEF With, Fits
  <2> QED BY <1>1, <2>1, <2>2, PreviewsAssumption
<1>8. SesInv(x)'
  BY <1>1, <1>4, <1>6, NothingHeld DEF IInv, Fits, Order
<1> QED BY <1>1, <1>3, <1>4, <1>5, <1>6, <1>7, <1>8, StatementKeeps

\* What an expiry does.
LEMMA ExpireStaleDoes ==
    ASSUME IInv, NEW p \in Steps, ExpireStale(p)
    PROVE  /\ Fits(row') /\ Fits(draft') /\ Order(row')
           /\ row[Pv(p)] = "pending" /\ row'[Pv(p)] = "expired"
           /\ \A k \in Keys : k # Pv(p) => row'[k] = row[k] /\ draft'[k] = draft[k]
           /\ \A y \in Sessions : Held(y)' = Held(y) /\ Pv(p) \notin Held(y)
<1>1. Fits(row) /\ Fits(draft) /\ Order(row) /\ Pv(p) \in Keys
  BY KeysAre DEF IInv, Types
<1>2. /\ row[Pv(p)] = "pending" /\ lock[Pv(p)] = Nobody /\ lock' = lock
      /\ row' = [row EXCEPT ![Pv(p)] = "expired"] /\ draft' = [draft EXCEPT ![Pv(p)] = "expired"]
  BY DEF ExpireStale
<1>3. row'[Pv(p)] = "expired" /\ \A k \in Keys : k # Pv(p) => row'[k] = row[k] /\ draft'[k] = draft[k]
  BY <1>1, <1>2 DEF Fits
<1>4. Fits(row') /\ Fits(draft')
  <2>1. "expired" \in Value /\ "expired" \in PreviewStatus
    BY DEF Value, PreviewStatus
  <2> QED BY <1>1, <1>2, <2>1, KeysAre, KeysDiffer DEF Fits
<1>5. Order(row')
  BY <1>1, <1>2, <1>3, OrderRefused
<1>6. \A y \in Sessions : Held(y)' = Held(y) /\ Pv(p) \notin Held(y)
  BY <1>2, PreviewsAssumption DEF Held
<1> QED BY <1>2, <1>3, <1>4, <1>5, <1>6

\* A stale preview expires.
LEMMA ExpireStaleKeeps == ASSUME IInv, NEW p \in Steps, ExpireStale(p) PROVE IInv'
<1>1. /\ Fits(row') /\ Fits(draft') /\ Order(row')
      /\ row[Pv(p)] = "pending" /\ row'[Pv(p)] = "expired"
      /\ \A k \in Keys : k # Pv(p) => row'[k] = row[k] /\ draft'[k] = draft[k]
      /\ \A y \in Sessions : Held(y)' = Held(y) /\ Pv(p) \notin Held(y)
  BY ExpireStaleDoes
<1>2. Types /\ UNCHANGED <<lock, old, ses, overlap>>
  BY DEF IInv, ExpireStale
<1>3. Order(row)'
  BY <1>1 DEF Order
<1>4. ASSUME NEW y \in Sessions PROVE SesInv(y)'
  <2>1. ses'[y] = ses[y] /\ Held(y)' = Held(y) /\ Pv(p) \notin Held(y) /\ Sound(Held(y), View(y))
    BY <1>1, <1>2 DEF IInv, SesInv
  <2>2. \A k \in Keys : View(y)'[k] = IF k \in Held(y) THEN View(y)[k] ELSE row'[k]
    BY <1>1, <2>1 DEF View, With
  <2>3. Sound(Held(y), View(y))'
    <3>1. /\ Order(View(y)')
          /\ \A k \in Keys \ Held(y) : View(y)'[k] = row'[k]
          /\ \A q \in Steps : /\ row'[Pv(q)] \notin Undecided => View(y)'[Pv(q)] = row'[Pv(q)]
                              /\ row'[Op(q)] # "none" => View(y)'[Op(q)] = row'[Op(q)]
                              /\ St(q) \in Held(y) => View(y)'[St(q)] # "waiting"
                              /\ Act(q) \in Held(y) => View(y)'[Act(q)] # "executed"
                              /\ Op(q) \in Held(y) => Pv(q) \in Held(y)
      BY <1>1, <2>1, <2>2, SoundExpired
    <3> QED BY <2>1, <3>1 DEF Sound, Order
  <2>4. ASSUME DOMAIN ses[y].back \subseteq Held(y), Sound(DOMAIN ses[y].back, Saved(y))
        PROVE  Sound(DOMAIN ses[y].back, Saved(y))'
    <3>1. \A k \in Keys : Saved(y)'[k] = IF k \in DOMAIN ses[y].back THEN Saved(y)[k] ELSE row'[k]
      BY <2>1 DEF Saved, With
    <3>2. Pv(p) \notin DOMAIN ses[y].back /\ (DOMAIN ses[y].back)' = DOMAIN ses[y].back
      BY <2>1, <2>4
    <3>3. /\ Order(Saved(y)')
          /\ \A k \in Keys \ DOMAIN ses[y].back : Saved(y)'[k] = row'[k]
          /\ \A q \in Steps :
                /\ row'[Pv(q)] \notin Undecided => Saved(y)'[Pv(q)] = row'[Pv(q)]
                /\ row'[Op(q)] # "none" => Saved(y)'[Op(q)] = row'[Op(q)]
                /\ St(q) \in DOMAIN ses[y].back => Saved(y)'[St(q)] # "waiting"
                /\ Act(q) \in DOMAIN ses[y].back => Saved(y)'[Act(q)] # "executed"
                /\ Op(q) \in DOMAIN ses[y].back => Pv(q) \in DOMAIN ses[y].back
      BY <1>1, <2>4, <3>1, <3>2, SoundExpired
    <3> QED BY <3>2, <3>3 DEF Sound, Order
  <2>5. \A k \in Held(y) : View(y)'[k] = View(y)[k]
    BY <2>2 DEF Held
  <2> QED BY <2>1, <2>3, <2>4, <2>5, OthersSee
<1>5. Types'
  <2>1. ASSUME NEW y \in Sessions PROVE Fits(With(row, DOMAIN ses[y].back, ses[y].back))'
    <3>1. Fits(With(row', DOMAIN ses[y].back, ses[y].back))
      BY <1>1, <1>2, SavingFits DEF Types
    <3> QED BY <1>2, <3>1 DEF Fits, With
  <2> QED BY <1>1, <1>2, <2>1 DEF Types, Fits, At
<1> QED BY <1>3, <1>4, <1>5 DEF IInv

\* Time, and a step of nobody.
LEMMA IdleKeeps == ASSUME IInv, UNCHANGED <<row, draft, lock, ses, overlap>>,
                          old' \in [Steps -> BOOLEAN]
                   PROVE  IInv'
<1>1. Types' /\ Order(row)'
  BY DEF IInv, Types, Fits, With, Order, At
<1>2. ASSUME NEW y \in Sessions PROVE SesInv(y)'
  <2>1. Held(y)' = Held(y) /\ View(y)' = View(y) /\ Saved(y)' = Saved(y)
    BY DEF Held, View, Saved, With
  <2>2. Cur(y)' = Cur(y) /\ Taken(y)' = Taken(y) /\ Moving(y)' = Moving(y)
    BY DEF Cur, Taken, Moving, At
  <2>3. \A K, T : Sound(K, T)' <=> Sound(K, T)
    BY DEF Sound
  <2> QED BY <2>1, <2>2, <2>3 DEF IInv, SesInv, At
<1> QED BY <1>1, <1>2 DEF IInv

--------------------------------------------------------------------------------
(* Theorems *)

\* The plan as it is created.
LEMMA InitInv == Init => IInv
<1> SUFFICES ASSUME Init PROVE IInv
  OBVIOUS
<1>1. row = Created /\ draft = Created
  BY DEF Init
<1>2. \A p \in Steps : /\ Created[St(p)] = IF Deps[p] = {} THEN "ready" ELSE "waiting"
                       /\ Created[Pv(p)] = IF Deps[p] = {} THEN "pending" ELSE "none"
                       /\ Created[Act(p)] = IF Deps[p] = {} THEN "pending" ELSE "none"
                       /\ Created[Op(p)] = "none"
  <2> SUFFICES ASSUME NEW p \in Steps
               PROVE  /\ Created[St(p)] = IF Deps[p] = {} THEN "ready" ELSE "waiting"
                      /\ Created[Pv(p)] = IF Deps[p] = {} THEN "pending" ELSE "none"
                      /\ Created[Act(p)] = IF Deps[p] = {} THEN "pending" ELSE "none"
                      /\ Created[Op(p)] = "none"
    OBVIOUS
  <2>1. {Pv(p), Act(p), St(p), Op(p)} \subseteq Keys
    BY KeysAre
  <2>2. Pv(p) # Plan /\ Act(p) # Plan /\ St(p) # Plan /\ Op(p) # Plan
    BY KeysDiffer
  <2>3. /\ Pv(p)[1] = "preview" /\ Act(p)[1] = "action" /\ St(p)[1] = "step" /\ Op(p)[1] = "written"
        /\ Pv(p)[2] = p /\ Act(p)[2] = p /\ St(p)[2] = p /\ Op(p)[2] = p
    BY KeyParts
  <2> QED BY <2>1, <2>2, <2>3 DEF Created
<1>3. Created[Plan] = "active"
  BY KeysAre, KeyParts DEF Created
<1>4. Fits(Created)
  <2>1. \A k \in Keys : Created[k] \in Value
    <3>1. {"ready", "waiting", "pending", "none", "active"} \subseteq Value
      BY DEF Value, PreviewStatus, StepStatus
    <3>2. \A k \in Keys : Created[k] \in {"ready", "waiting", "pending", "none", "active"}
      BY <1>2, <1>3, KeysAre
    <3> QED BY <3>1, <3>2
  <2>2. Created = [k \in Keys |-> Created[k]]
    BY DEF Created
  <2>3. Created \in [Keys -> Value]
    BY <2>1, <2>2
  <2> QED BY <1>2, <1>3, <2>3 DEF Fits, PreviewStatus, ActionStatus, StepStatus
<1>5. Order(row)
  BY <1>1, <1>2 DEF Order
<1>6. \A x \in Sessions : ses[x] = NoRequest /\ Held(x) = {} /\ View(x) = row
  BY <1>1, <1>4, PreviewsAssumption DEF Init, Held, View, With, Fits
<1>7. ASSUME NEW x \in Sessions PROVE SesInv(x)
  <2>1. ses[x].pc = "idle" /\ ~ Moving(x) /\ \A c : At(x, c) <=> c = "idle"
    BY <1>6, NoRequestTyped DEF Moving, At
  <2>2. Sound(Held(x), View(x))
    BY <1>5, <1>6 DEF Sound
  <2> QED BY <2>1, <2>2 DEF SesInv
<1>8. Types
  <2>1. Len(NoRequest.ids) = 0 /\ NoRequest.pc = "idle" /\ DOMAIN NoRequest.back = {} /\ NoRequest \in Request
    BY NoRequestTyped
  <2>2. With(row, {}, NoRequest.back) = row
    BY <1>1, <1>4 DEF With, Fits
  <2>3. lock \in [Keys -> Sessions \cup {Nobody}] /\ old \in [Steps -> BOOLEAN] /\ overlap \in BOOLEAN
    BY DEF Init
  <2>4. ses \in [Sessions -> Request]
    BY <2>1 DEF Init
  <2>5. ASSUME NEW x \in Sessions
        PROVE  /\ ~ At(x, "idle") => ses[x].at <= Len(ses[x].ids)
               /\ Len(ses[x].ids) <= Width /\ Fits(With(row, DOMAIN ses[x].back, ses[x].back))
    <3>1. ses[x] = NoRequest
      BY <1>6
    <3>2. Fits(With(row, DOMAIN NoRequest.back, NoRequest.back))
      BY <1>1, <1>4, <2>1, <2>2
    <3>3. 0 <= Width
      BY PreviewsAssumption
    <3>4. At(x, "idle") /\ Len(ses[x].ids) <= Width
      BY <2>1, <3>1, <3>3 DEF At
    <3> QED BY <3>1, <3>2, <3>4
  <2> QED BY <1>1, <1>4, <2>3, <2>4, <2>5 DEF Types
<1> QED BY <1>5, <1>7, <1>8 DEF IInv

\* Every step of the program keeps the invariant.
LEMMA InvNext == IInv /\ [Next]_vars => IInv'
<1> SUFFICES ASSUME IInv, [Next]_vars PROVE IInv'
  OBVIOUS
<1>1. ASSUME NEW x \in Sessions, Begin(x) PROVE IInv'
  BY <1>1, BeginKeeps
<1>2. ASSUME NEW x \in Sessions, Step(x) PROVE IInv'
  BY <1>2, SignKeeps, LockKeeps, TakeKeeps, OperateKeeps, OperationFailsKeeps, OperationBusyKeeps,
     FailsLateKeeps, MarkKeeps, AdvanceKeeps, BlockKeeps, CloseKeeps, CommitKeeps DEF Step
<1>3. ASSUME NEW x \in Sessions, Abort(x) PROVE IInv'
  BY <1>3, AbortKeeps
<1>4. ASSUME NEW p \in Steps, ExpireStale(p) PROVE IInv'
  BY <1>4, ExpireStaleKeeps
<1>5. ASSUME NEW p \in Steps, Age(p) PROVE IInv'
  BY <1>5, IdleKeeps DEF Age, IInv, Types
<1>6. CASE UNCHANGED vars
  BY <1>6, IdleKeeps DEF vars, IInv, Types
<1> QED BY <1>1, <1>2, <1>3, <1>4, <1>5, <1>6 DEF Next

\* So it holds in every state.
LEMMA InvHolds == Spec => []IInv
BY InitInv, InvNext, PTL DEF Spec

\* TypeOK holds in every state.
THEOREM TypeCorrect == Spec => []TypeOK
<1>1. IInv => TypeOK
  <2> SUFFICES ASSUME IInv PROVE TypeOK
    OBVIOUS
  <2>1. Types
    BY DEF IInv
  <2>2. \A k \in Keys : row[k] \in Statuses[k[1]] /\ draft[k] \in Statuses[k[1]]
    BY <2>1, FitsMeans DEF Types
  <2>3. ASSUME NEW x \in Sessions
        PROVE  /\ ses[x].pc \in PCs /\ ses[x].at \in 1 .. Width /\ Batch(x) \subseteq Steps
               /\ ses[x].stale \subseteq Steps /\ DOMAIN ses[x].back \subseteq Keys
    <3>1. /\ ses[x].pc \in PCs /\ ses[x].at \in 1 .. Width /\ ses[x].stale \subseteq Steps
          /\ ses[x].ids \in Seq(Steps) /\ ses[x].back \in Savings
      BY <2>1 DEF Types, Request
    <3>2. Batch(x) \subseteq Steps
      BY <3>1 DEF Batch
    <3>3. DOMAIN ses[x].back \subseteq Keys
      BY <3>1 DEF Savings
    <3> QED BY <3>1, <3>2, <3>3
  <2> QED BY <2>1, <2>2, <2>3 DEF TypeOK, Types, PCs
<1> QED BY <1>1, InvHolds, PTL

\* An action request is recorded executed only with its preview.
THEOREM ExecutedRecorded == Spec => []ExecutedIsRecorded
<1>1. IInv => ExecutedIsRecorded
  BY DEF IInv, Order, ExecutedIsRecorded
<1> QED BY <1>1, InvHolds, PTL

\* No step takes back the decision of a preview, or its expiry.
LEMMA StandsNext ==
    ASSUME IInv, [Next]_vars, NEW p \in Steps, row[Pv(p)] \notin {"none", "pending"}
    PROVE  row'[Pv(p)] = row[Pv(p)]
<1>1. ASSUME NEW x \in Sessions, Commit(x) PROVE row'[Pv(p)] = row[Pv(p)]
  <2>1. row'[Pv(p)] = View(x)[Pv(p)]
    BY <1>1, CommitDoes, KeysAre, KeysDiffer
  <2>2. Sound(Held(x), View(x))
    BY DEF IInv, SesInv
  <2> QED BY <2>1, <2>2 DEF Sound, Undecided
<1>2. ASSUME NEW q \in Steps, ExpireStale(q) PROVE row'[Pv(p)] = row[Pv(p)]
  BY <1>2, ExpireStaleDoes, KeysAre, KeysDiffer
<1>3. CASE UNCHANGED row
  BY <1>3
<1>4. ASSUME NEW x \in Sessions, Begin(x) \/ Abort(x) \/ (Step(x) /\ ~ Commit(x)) PROVE UNCHANGED row
  BY <1>4 DEF Begin, Abort, Step, Sign, Lock, Take, Operate, OperationFails, OperationBusy, FailsLate,
              Mark, Advance, Block, Close
<1>5. ASSUME NEW q \in Steps, Age(q) PROVE UNCHANGED row
  BY <1>5 DEF Age
<1> QED BY <1>1, <1>2, <1>3, <1>4, <1>5 DEF Next, vars

\* A decision is never taken again, nor an expiry undone, whatever requests overlap and
\* wherever they fail.
THEOREM DecisionsStand == Spec => DecisionStands
<1>1. IInv /\ [Next]_vars =>
          [\A p \in Steps : row[Pv(p)] \notin {"none", "pending"} => row'[Pv(p)] = row[Pv(p)]]_vars
  BY StandsNext
<1> QED BY <1>1, InvHolds, PTL DEF Spec, DecisionStands

\* An operation is written only after those its step depends on, whatever errors undo one:
\* the step of a preview saved executed without its operation is never marked
\* (executePreviewBatch, advanceMutationPlanFromExecutedStep).
THEOREM AfterDeps == Spec => []AfterDependencies
<1>1. IInv => AfterDependencies
  <2> SUFFICES ASSUME IInv, NEW p \in Steps, row[Op(p)] # "none", NEW d \in Deps[p]
               PROVE  row[Op(d)] = "once"
    BY DEF AfterDependencies
  <2>1. Order(row)
    BY DEF IInv
  <2>2. row[Pv(p)] = "executed"
    BY <2>1 DEF Order
  <2> QED BY <2>1, <2>2 DEF Order
<1> QED BY <1>1, InvHolds, PTL

\* Without an error that finds its data busy after the operation, a preview is executed
\* exactly when its operation was written, and it was written once.
THEOREM ExecutedApplied ==
    ASSUME "busy" \notin LateErrors PROVE Spec => []ExecutedWasApplied
<1>1. IInv => ExecutedWasApplied
  BY DEF IInv, Order, ExecutedWasApplied
<1> QED BY <1>1, InvHolds, PTL
================================================================================
