--------------------------- MODULE MutationPlanProofs ---------------------------
(***************************************************************************)
(* PlanFollows of MutationPreviews, proved: as long as requests come one   *)
(* at a time, the plan is closed when, and only when, none of its steps    *)
(* can go on.                                                              *)
(*                                                                         *)
(* Within a request the rows are out of step for a while: from the mark of *)
(* a step to the end of the advance a waiting step may depend on nothing   *)
(* but the current one, and until the close an active plan may have no     *)
(* step left.  The invariant, Alone, says for every statement of a request *)
(* which of the facts its rows have, and that a savepoint remembers rows   *)
(* that have them all.  It says nothing once two requests have overlapped. *)
(***************************************************************************)
EXTENDS MutationPreviewsProofs

\* The steps of table T that have not ended.
Active(T) == {s \in Steps : T[St(s)] \in {"waiting", "ready"}}

\* A preview is offered for a step that is ready.
Offered(T) == \A s \in Steps : T[Pv(s)] = "pending" => T[St(s)] = "ready"

\* A waiting step waits for one that has not ended, or for one of C.
Waits(T, C) == \A s \in Steps : T[St(s)] = "waiting" => Deps[s] \cap (Active(T) \cup C) # {}

\* The plan of table T between two requests.
Good(T) == Offered(T) /\ Waits(T, {}) /\ (T[Plan] = "active" <=> Active(T) # {})

\* What request x sees of the plan at each of its statements.
Follows(x) ==
    /\ ses[x].pc \in {"sign", "lock", "take", "operate", "commit"} => Good(View(x))
    /\ At(x, "mark") => Good(View(x)) /\ View(x)[St(Cur(x))] = "ready"
    /\ At(x, "advance") => /\ Offered(View(x)) /\ View(x)[Plan] = "active"
                           /\ Waits(View(x), {Cur(x)})
    /\ At(x, "close") => Offered(View(x)) /\ View(x)[Plan] = "active" /\ Waits(View(x), {})
    /\ Moving(x) /\ View(x)[Pv(Cur(x))] = "executed" =>
           Good(Saved(x)) /\ Saved(x)[St(Cur(x))] = "ready"

Alone ==
    /\ \A x \in Sessions : At(x, "idle") => Held(x) = {}
    /\ ~ overlap => /\ \A x, y \in Sessions : x # y => At(x, "idle") \/ At(y, "idle")
                    /\ Good(row)
                    /\ \A x \in Sessions : ~ At(x, "idle") => Follows(x)

--------------------------------------------------------------------------------
(* Tables *)

\* Table U has the steps and the plan of T, and no preview is pending in U that is not in T.
Alike(T, U) ==
    /\ \A s \in Steps : U[St(s)] = T[St(s)] /\ (U[Pv(s)] = "pending" => T[Pv(s)] = "pending")
    /\ U[Plan] = T[Plan]

\* Then the facts carry over.
LEMMA AlikeFacts ==
    ASSUME NEW T, NEW U, Alike(T, U)
    PROVE  /\ Active(U) = Active(T)
           /\ Offered(T) => Offered(U)
           /\ \A C : Waits(T, C) => Waits(U, C)
           /\ Good(T) => Good(U)
<1>1. Active(U) = Active(T)
  BY DEF Alike, Active
<1>2. Offered(T) => Offered(U)
  BY DEF Alike, Offered
<1>3. \A C : Waits(T, C) => Waits(U, C)
  BY <1>1 DEF Alike, Waits
<1> QED BY <1>1, <1>2, <1>3 DEF Alike, Good

\* A table where only previews, action requests and written operations changed.
LEMMA AlikeBy ==
    ASSUME NEW T, NEW U, NEW J, \A p \in Steps : St(p) \notin J, Plan \notin J,
           \A k \in Keys : k \notin J => U[k] = T[k],
           \A p \in Steps : Pv(p) \in J => U[Pv(p)] # "pending"
    PROVE  Alike(T, U)
BY KeysAre DEF Alike

\* One preview, action request or operation changed.
LEMMA AlikeOne ==
    ASSUME NEW T, NEW U, NEW p \in Steps, NEW j \in {Pv(p), Act(p), Op(p)},
           \A k \in Keys : k # j => U[k] = T[k],
           U[Pv(p)] = "pending" => T[Pv(p)] = "pending"
    PROVE  Alike(T, U)
BY KeysAre, KeysDiffer DEF Alike

\* What a write does to what the request sees, and to the rows of the others.
LEMMA WriteShows ==
    ASSUME NEW x \in Sessions, NEW w, Write(x, w), UNCHANGED row
    PROVE  /\ \A k \in Keys : View(x)'[k] = IF k \in DOMAIN w THEN w[k] ELSE View(x)[k]
           /\ \A y \in Sessions \ {x} : Held(y)' = Held(y)
<1>1. /\ draft' = [k \in Keys |-> IF k \in DOMAIN w THEN w[k] ELSE draft[k]]
      /\ lock' = [k \in Keys |-> IF k \in DOMAIN w THEN x ELSE lock[k]]
      /\ \A k \in DOMAIN w : lock[k] \in {Nobody, x}
  BY DEF Write, Free, Writable
<1>2. \A y \in Sessions \ {x} : Held(y)' = Held(y)
  BY <1>1, PreviewsAssumption DEF Held
<1>3. \A k \in Keys : View(x)'[k] = IF k \in DOMAIN w THEN w[k] ELSE View(x)[k]
  BY <1>1 DEF View, With, Held
<1> QED BY <1>2, <1>3

\* The same of one row.
LEMMA OneShows ==
    ASSUME NEW x \in Sessions, NEW j \in Keys, NEW v, Write(x, One(j, v)), UNCHANGED row
    PROVE  /\ View(x)'[j] = v /\ \A k \in Keys : k # j => View(x)'[k] = View(x)[k]
           /\ \A y \in Sessions \ {x} : Held(y)' = Held(y)
<1>1. DOMAIN One(j, v) = {j} /\ One(j, v)[j] = v
  BY DEF One
<1> QED BY <1>1, WriteShows

--------------------------------------------------------------------------------
(* Requests *)

\* What a request sees at its next statement.
LEMMA GoodNow ==
    ASSUME NEW x, ses'[x].pc \in {"sign", "lock", "take", "operate", "commit"}, Good(View(x)')
    PROVE  Follows(x)'
<1>1. ~ Moving(x)' /\ \A c \in {"mark", "advance", "close"} : ~ At(x, c)'
  BY DEF Moving, At
<1>2. Good(View(x))'
  BY DEF Good, Offered, Waits, Active
<1> QED BY <1>1, <1>2 DEF Follows

\* What it sees once its preview is decided.
LEMMA MarkNow ==
    ASSUME NEW x, ses'[x].pc = "mark", Good(View(x)'), View(x)'[St(Cur(x)')] = "ready",
           View(x)'[Pv(Cur(x)')] = "executed" => Good(Saved(x)') /\ Saved(x)'[St(Cur(x)')] = "ready"
    PROVE  Follows(x)'
<1>1. ~ At(x, "advance")' /\ ~ At(x, "close")' /\ (St(Cur(x)))' = St(Cur(x)') /\ (Pv(Cur(x)))' = Pv(Cur(x)')
  BY DEF At, St, Pv
<1>2. Good(View(x))' /\ (View(x)'[Pv(Cur(x)')] = "executed" => Good(Saved(x))')
  BY DEF Good, Offered, Waits, Active
<1> QED BY <1>1, <1>2 DEF Follows

\* A request that moves the plan keeps its place and its savepoint.
LEMMA MovingNow ==
    ASSUME IInv, NEW x \in Sessions, Follows(x), Moving(x), NEW pc \in {"advance", "close"}, To(x, pc),
           UNCHANGED row, View(x)'[Pv(Cur(x))] = View(x)[Pv(Cur(x))],
           Offered(View(x)'), View(x)'[Plan] = "active",
           Waits(View(x)', IF pc = "advance" THEN {Cur(x)} ELSE {})
    PROVE  Follows(x)'
<1>1. Types /\ ~ At(x, "idle") /\ ~ At(x, "take")
  BY DEF IInv, Moving, At
<1>2. Cur(x)' = Cur(x) /\ ses'[x].back = ses[x].back /\ \A c : At(x, c)' <=> c = pc
  BY <1>1, MovesOn DEF PCs
<1>3. Saved(x)' = Saved(x)
  BY <1>2 DEF Saved, With
<1>4. ses'[x].pc = pc
  BY <1>2 DEF At
<1>5. Offered(View(x))' /\ Waits(View(x), IF pc = "advance" THEN {Cur(x)} ELSE {})'
  BY <1>2 DEF Offered, Waits, Active
<1>6. Good(Saved(x))' <=> Good(Saved(x))
  BY <1>3 DEF Good, Offered, Waits, Active
<1>7. CASE pc = "advance"
  BY <1>2, <1>3, <1>4, <1>5, <1>6, <1>7 DEF Follows, Moving
<1>8. CASE pc = "close"
  BY <1>2, <1>3, <1>4, <1>5, <1>6, <1>8 DEF Follows, Moving
<1> QED BY <1>7, <1>8

\* A statement of request x, which the others have no part in.
LEMMA AloneBy ==
    ASSUME Alone, NEW x \in Sessions, ~ At(x, "idle"), UNCHANGED <<row, overlap>>,
           \A y \in Sessions \ {x} : ses'[y] = ses[y] /\ Held(y)' = Held(y),
           ses'[x].pc # "idle", ~ overlap => Follows(x)'
    PROVE  Alone'
<1>1. \A y \in Sessions : At(y, "idle")' => y # x /\ At(y, "idle")
  BY DEF At
<1>2. \A y \in Sessions : At(y, "idle")' => Held(y)' = {}
  BY <1>1 DEF Alone
<1>3. ASSUME ~ overlap PROVE \A y \in Sessions \ {x} : At(y, "idle") /\ At(y, "idle")'
  BY <1>3 DEF Alone, At
<1>4. ~ overlap => Good(row)'
  BY DEF Alone, Good, Offered, Waits, Active
<1> QED BY <1>2, <1>3, <1>4 DEF Alone

\* The next of its previews, or its end.
LEMMA FollowingAlone ==
    ASSUME IInv, Alone, NEW x \in Sessions, ~ At(x, "idle"), Following(x), UNCHANGED <<row, overlap>>,
           \A y \in Sessions \ {x} : Held(y)' = Held(y), ~ overlap => Good(View(x)')
    PROVE  Alone'
<1>1. (\A y \in Sessions \ {x} : ses'[y] = ses[y]) /\ ses'[x].pc \in {"take", "commit"}
  BY FollowingDoes DEF IInv
<1>2. ~ overlap => Follows(x)'
  BY <1>1, GoodNow
<1> QED BY <1>1, <1>2, AloneBy

\* The next of its statements.
LEMMA ToAlone ==
    ASSUME IInv, Alone, NEW x \in Sessions, ~ At(x, "idle"), NEW pc \in PCs \ {"idle"}, To(x, pc),
           UNCHANGED <<row, overlap>>,
           \A y \in Sessions \ {x} : Held(y)' = Held(y), ~ overlap => Follows(x)'
    PROVE  Alone'
<1>1. (\A y \in Sessions \ {x} : ses'[y] = ses[y]) /\ ses'[x].pc = pc
  BY ToDoes DEF IInv
<1> QED BY <1>1, AloneBy

--------------------------------------------------------------------------------
(* Every statement of a request keeps it *)

\* An action request is signed.
LEMMA SignAlone == ASSUME IInv, Alone, NEW x \in Sessions, Sign(x) PROVE Alone'
<1>1. /\ At(x, "sign") /\ ~ At(x, "idle") /\ Types /\ UNCHANGED <<row, overlap>>
      /\ \E v : Write(x, One(Act(Cur(x)), v))
  BY DEF IInv, Sign, At
<1>2. Cur(x) \in Steps /\ Act(Cur(x)) \in Keys
  BY <1>1, CurIs, KeysAre
<1>3. /\ \A k \in Keys : k # Act(Cur(x)) => View(x)'[k] = View(x)[k]
      /\ \A y \in Sessions \ {x} : Held(y)' = Held(y)
  BY <1>1, <1>2, OneShows
<1>4. Alike(View(x), View(x)')
  BY <1>2, <1>3, AlikeOne, KeysAre, KeysDiffer
<1>5. (\A y \in Sessions \ {x} : ses'[y] = ses[y]) /\ ses'[x].pc \in {"sign", "lock"}
  <2>1. PICK n \in Request : n = ses[x]
    BY <1>1 DEF Types
  <2>2. n.pc = "sign"
    BY <1>1, <2>1 DEF At
  <2>3. \/ ses' = [ses EXCEPT ![x].at = @ + 1]
        \/ ses' = [ses EXCEPT ![x].at = 1, ![x].pc = "lock"]
    BY DEF Sign
  <2>4. CASE ses' = [ses EXCEPT ![x].at = @ + 1]
    <3> DEFINE m == [n EXCEPT !.at = n.at + 1]
    <3>1. m.pc = "sign"
      BY <2>2 DEF Request
    <3>2. ses' = [ses EXCEPT ![x] = m]
      BY <2>1, <2>4
    <3> HIDE DEF m
    <3> QED BY <1>1, <3>1, <3>2 DEF Types
  <2>5. CASE ses' = [ses EXCEPT ![x].at = 1, ![x].pc = "lock"]
    <3> DEFINE m == [n EXCEPT !.at = 1, !.pc = "lock"]
    <3>1. m.pc = "lock"
      BY DEF Request
    <3>2. ses' = [ses EXCEPT ![x] = m]
      BY <2>1, <2>5
    <3> HIDE DEF m
    <3> QED BY <1>1, <3>1, <3>2 DEF Types
  <2> QED BY <2>3, <2>4, <2>5
<1>6. ASSUME ~ overlap PROVE Follows(x)'
  <2>1. Good(View(x))
    BY <1>1, <1>6 DEF Alone, Follows, At
  <2> QED BY <1>4, <1>5, <2>1, AlikeFacts, GoodNow
<1> QED BY <1>1, <1>3, <1>5, <1>6, AloneBy

\* A preview is locked.
LEMMA LockAlone == ASSUME IInv, Alone, NEW x \in Sessions, Lock(x) PROVE Alone'
<1>1. At(x, "lock") /\ ~ At(x, "idle") /\ Types /\ UNCHANGED <<row, overlap>>
  BY DEF IInv, Lock, At
<1>2. Batch(x) \subseteq Steps
  BY <1>1, CurIs DEF Types, Request
<1>3. ~ overlap => Good(View(x))
  BY <1>1 DEF Alone, Follows, At
<1>4. CASE To(x, "take") /\ UNCHANGED <<draft, lock>>
  <2>1. View(x)' = View(x) /\ \A y : Held(y)' = Held(y)
    BY <1>1, <1>4 DEF View, With, Held
  <2>2. ses'[x].pc = "take"
    BY <1>1, <1>4, ToDoes DEF PCs
  <2> QED BY <1>1, <1>3, <1>4, <2>1, <2>2, GoodNow, ToAlone DEF PCs
<1>5. CASE UNCHANGED ses /\ \E p \in Steps : Write(x, One(Pv(p), row[Pv(p)])) /\ lock[Pv(p)] # x
  <2>1. PICK p \in Steps : Write(x, One(Pv(p), row[Pv(p)])) /\ lock[Pv(p)] # x
    BY <1>5
  <2>2. Pv(p) \in Keys /\ View(x)[Pv(p)] = row[Pv(p)]
    BY <2>1, KeysAre DEF View, With, Held
  <2>3. /\ \A k \in Keys : View(x)'[k] = View(x)[k]
        /\ \A y \in Sessions \ {x} : Held(y)' = Held(y)
    BY <1>1, <2>1, <2>2, OneShows
  <2>4. View(x)' = View(x)
    BY <2>3 DEF View, With
  <2>5. ses'[x].pc = "lock" /\ \A y \in Sessions : ses'[y] = ses[y]
    BY <1>1, <1>5 DEF At
  <2>6. ~ overlap => Follows(x)'
    BY <1>3, <2>4, <2>5, GoodNow
  <2> QED BY <1>1, <2>3, <2>5, <2>6, AloneBy
<1> QED BY <1>2, <1>4, <1>5 DEF Lock

\* A preview is read and decided: its step is ready as long as it is pending.
LEMMA TakeAlone == ASSUME IInv, Alone, NEW x \in Sessions, Take(x) PROVE Alone'
<1> DEFINE p == Cur(x)
           status == View(x)[Pv(p)]
           refused == IF old[p] THEN "expired" ELSE "rejected"
<1>1. At(x, "take") /\ ~ At(x, "idle") /\ Types /\ UNCHANGED <<row, overlap>>
  BY DEF IInv, Take, At
<1>2. p \in Steps /\ Pv(p) \in Keys
  BY <1>1, CurIs, KeysAre
<1>3. ~ overlap => Good(View(x))
  BY <1>1 DEF Alone, Follows, At
<1>4. status = Seen(x, Pv(p))
  BY <1>2, ViewIs
<1>5. \/ Write(x, One(Pv(p), status)) /\ Following(x)
      \/ status = "pending" /\ Write(x, One(Pv(p), refused)) /\ To(x, "mark")
      \/ status = "pending" /\ Write(x, One(Pv(p), status)) /\ To(x, "operate")
  BY <1>4 DEF Take
<1>6. refused # "pending" /\ refused # "executed"
  OBVIOUS
<1> HIDE DEF refused
<1>7. ASSUME Write(x, One(Pv(p), status))
      PROVE  View(x)' = View(x) /\ \A y \in Sessions \ {x} : Held(y)' = Held(y)
  <2>1. /\ \A k \in Keys : View(x)'[k] = View(x)[k]
        /\ \A y \in Sessions \ {x} : Held(y)' = Held(y)
    BY <1>1, <1>2, <1>7, OneShows
  <2> QED BY <2>1 DEF View, With
<1>8. CASE Write(x, One(Pv(p), status)) /\ Following(x)
  BY <1>1, <1>3, <1>7, <1>8, FollowingAlone
<1>9. CASE status = "pending" /\ Write(x, One(Pv(p), status)) /\ To(x, "operate")
  <2>1. ses'[x].pc = "operate"
    BY <1>1, <1>9, ToDoes DEF PCs
  <2> QED BY <1>1, <1>3, <1>7, <1>9, <2>1, GoodNow, ToAlone DEF PCs
<1>10. CASE status = "pending" /\ Write(x, One(Pv(p), refused)) /\ To(x, "mark")
  <2>1. /\ View(x)'[Pv(p)] = refused /\ \A k \in Keys : k # Pv(p) => View(x)'[k] = View(x)[k]
        /\ \A y \in Sessions \ {x} : Held(y)' = Held(y)
    BY <1>1, <1>2, <1>10, OneShows
  <2>2. ses'[x].pc = "mark" /\ Cur(x)' = p
    BY <1>1, <1>10, ToDoes DEF PCs, Cur
  <2>3. Alike(View(x), View(x)')
    BY <1>2, <1>6, <2>1, AlikeOne
  <2>4. ASSUME ~ overlap PROVE Follows(x)'
    <3>1. Good(View(x)') /\ View(x)'[St(p)] = "ready"
      BY <1>2, <1>3, <1>10, <2>3, <2>4, AlikeFacts DEF Good, Offered, Alike
    <3> QED BY <1>6, <2>1, <2>2, <3>1, MarkNow
  <2> QED BY <1>1, <1>10, <2>1, <2>4, ToAlone DEF PCs
<1> QED BY <1>5, <1>8, <1>9, <1>10

\* What a request sees of its preview before the operation.
LEMMA AtOperate ==
    ASSUME IInv, Alone, NEW x \in Sessions, At(x, "operate")
    PROVE  /\ Types /\ ~ At(x, "idle") /\ ~ At(x, "take") /\ Cur(x) \in Steps
           /\ Pv(Cur(x)) \in Keys /\ Op(Cur(x)) \in Keys
           /\ View(x)[Pv(Cur(x))] = "pending"
           /\ ~ overlap => Good(View(x)) /\ View(x)[St(Cur(x))] = "ready"
<1>1. /\ Types /\ ~ At(x, "idle") /\ ~ At(x, "take") /\ Cur(x) \in Steps
      /\ Pv(Cur(x)) \in Keys /\ Op(Cur(x)) \in Keys /\ View(x)[Pv(Cur(x))] = "pending"
  BY AtCur, KeysAre DEF SesInv, At
<1>2. ~ overlap => Good(View(x))
  BY DEF Alone, Follows, At
<1> QED BY <1>1, <1>2 DEF Good, Offered

\* The operation is written: the savepoint remembers the rows before it.
LEMMA OperateAlone == ASSUME IInv, Alone, NEW x \in Sessions, Operate(x) PROVE Alone'
<1> DEFINE p == Cur(x)
           w == [k \in {Pv(p), Op(p)} |->
                    IF k = Pv(p) THEN "executed" ELSE IF Seen(x, k) = "none" THEN "once" ELSE "twice"]
           b == [k \in Held(x) |-> draft[k]]
<1>1. /\ At(x, "operate") /\ Write(x, w) /\ UNCHANGED <<row, overlap>>
      /\ ses' = [ses EXCEPT ![x].pc = "mark", ![x].back = b]
  BY DEF Operate, Held
<1>2. /\ Types /\ ~ At(x, "idle") /\ p \in Steps /\ Pv(p) \in Keys /\ Op(p) \in Keys
      /\ View(x)[Pv(p)] = "pending" /\ (~ overlap => Good(View(x)) /\ View(x)[St(p)] = "ready")
  BY <1>1, AtOperate
<1>3. DOMAIN w = {Pv(p), Op(p)} /\ w[Pv(p)] = "executed"
  OBVIOUS
<1> HIDE DEF w
<1>4. /\ View(x)'[Pv(p)] = "executed"
      /\ \A k \in Keys : k \notin {Pv(p), Op(p)} => View(x)'[k] = View(x)[k]
      /\ \A y \in Sessions \ {x} : Held(y)' = Held(y)
  BY <1>1, <1>2, <1>3, WriteShows
<1>5. Alike(View(x), View(x)')
  <2>1. \A q \in Steps : St(q) \notin {Pv(p), Op(p)} /\ (Pv(q) \in {Pv(p), Op(p)} => q = p)
    BY <1>2, KeysDiffer
  <2>2. Plan \notin {Pv(p), Op(p)}
    BY <1>2, KeysDiffer
  <2> QED BY <1>4, <2>1, <2>2, AlikeBy
<1>6. With(row, DOMAIN b, b) = View(x)
  BY DEF With, View
<1> HIDE DEF b
<1>7. PICK n \in Request : n = ses[x]
  BY <1>2 DEF Types
<1> DEFINE m == [n EXCEPT !.pc = "mark", !.back = b]
<1>8. m.pc = "mark" /\ m.ids = n.ids /\ m.at = n.at /\ m.back = b
  BY DEF Request
<1>9. ses' = [ses EXCEPT ![x] = m]
  BY <1>1, <1>7
<1> HIDE DEF m
<1>10. ses'[x] = m /\ \A y \in Sessions \ {x} : ses'[y] = ses[y]
  BY <1>2, <1>9 DEF Types
<1>11. Cur(x)' = p /\ Saved(x)' = View(x) /\ ses'[x].pc = "mark"
  BY <1>1, <1>6, <1>7, <1>8, <1>10 DEF Cur, Saved
<1>12. ASSUME ~ overlap PROVE Follows(x)'
  <2>1. /\ Good(View(x)') /\ View(x)'[St(p)] = "ready"
        /\ Good(Saved(x)') /\ Saved(x)'[St(p)] = "ready"
    BY <1>2, <1>5, <1>11, <1>12, AlikeFacts DEF Alike
  <2> QED BY <1>11, <2>1, MarkNow
<1> QED BY <1>1, <1>2, <1>4, <1>10, <1>11, <1>12, AloneBy

\* The operation fails.
LEMMA OperationFailsAlone == ASSUME IInv, Alone, NEW x \in Sessions, OperationFails(x) PROVE Alone'
<1> DEFINE p == Cur(x)
<1>1. /\ At(x, "operate") /\ Write(x, One(Pv(p), "failed")) /\ To(x, "mark")
      /\ UNCHANGED <<row, overlap>>
  BY DEF OperationFails
<1>2. /\ Types /\ ~ At(x, "idle") /\ ~ At(x, "take") /\ p \in Steps /\ Pv(p) \in Keys
      /\ ~ overlap => Good(View(x)) /\ View(x)[St(p)] = "ready"
  BY <1>1, AtOperate
<1>3. /\ View(x)'[Pv(p)] = "failed" /\ \A k \in Keys : k # Pv(p) => View(x)'[k] = View(x)[k]
      /\ \A y \in Sessions \ {x} : Held(y)' = Held(y)
  BY <1>1, <1>2, OneShows
<1>4. Alike(View(x), View(x)')
  BY <1>2, <1>3, AlikeOne
<1>5. ses'[x].pc = "mark" /\ Cur(x)' = p
  BY <1>1, <1>2, ToDoes DEF PCs, Cur
<1>6. ASSUME ~ overlap PROVE Follows(x)'
  <2>1. Good(View(x)') /\ View(x)'[St(p)] = "ready"
    BY <1>2, <1>4, <1>6, AlikeFacts DEF Alike
  <2> QED BY <1>3, <1>5, <2>1, MarkNow
<1> QED BY <1>1, <1>2, <1>3, <1>6, ToAlone DEF PCs

\* Its data is busy.
LEMMA OperationBusyAlone == ASSUME IInv, Alone, NEW x \in Sessions, OperationBusy(x) PROVE Alone'
<1>1. At(x, "operate") /\ Following(x) /\ UNCHANGED <<row, draft, lock, overlap>>
  BY DEF OperationBusy
<1>2. View(x)' = View(x) /\ \A y : Held(y)' = Held(y)
  BY <1>1 DEF View, With, Held
<1> QED BY <1>1, <1>2, AtOperate, FollowingAlone

\* A later statement fails: the request sees the rows of the savepoint again.
LEMMA FailsLateAlone == ASSUME IInv, Alone, NEW x \in Sessions, FailsLate(x) PROVE Alone'
<1> DEFINE p == Cur(x)
<1>1. /\ InSavepoint(x) /\ UNCHANGED <<row, overlap>>
      /\ \/ BackTo(x, "executed") /\ Following(x)
         \/ BackTo(x, "failed") /\ To(x, "mark")
  BY DEF FailsLate
<1>2. /\ Types /\ ~ At(x, "idle") /\ ~ At(x, "take") /\ p \in Steps /\ Pv(p) \in Keys
      /\ Moving(x) /\ View(x)[Pv(p)] = "executed"
  BY <1>1, AtCur DEF InSavepoint, Moving, At
<1>3. ~ overlap => Good(Saved(x)) /\ Saved(x)[St(p)] = "ready"
  BY <1>2 DEF Alone, Follows
<1>4. PICK v \in {"executed", "failed"} :
          BackTo(x, v) /\ IF v = "executed" THEN Following(x) ELSE To(x, "mark")
  BY <1>1
<1>5. /\ View(x)'[Pv(p)] = v /\ \A k \in Keys : k # Pv(p) => View(x)'[k] = Saved(x)[k]
      /\ \A y \in Sessions \ {x} : Held(y)' = Held(y)
  BY <1>1, <1>4, BackDoes DEF PreviewStatus
<1>6. Alike(Saved(x), View(x)')
  BY <1>2, <1>4, <1>5, AlikeOne
<1>7. ~ overlap => Good(View(x)') /\ View(x)'[St(p)] = "ready"
  BY <1>2, <1>3, <1>6, AlikeFacts DEF Alike
<1>8. CASE v = "executed"
  BY <1>1, <1>2, <1>4, <1>5, <1>7, <1>8, FollowingAlone
<1>9. CASE v = "failed"
  <2>1. To(x, "mark") /\ ses'[x].pc = "mark" /\ Cur(x)' = p
    BY <1>2, <1>4, <1>9, ToDoes DEF PCs, Cur
  <2>2. ~ overlap => Follows(x)'
    BY <1>5, <1>7, <1>9, <2>1, MarkNow
  <2> QED BY <1>1, <1>2, <1>5, <2>1, <2>2, ToAlone DEF PCs
<1> QED BY <1>4, <1>8, <1>9

\* What a request sees while it moves the plan.
LEMMA AtMoving ==
    ASSUME IInv, Alone, NEW x \in Sessions, Moving(x)
    PROVE  /\ Types /\ ~ At(x, "idle") /\ Cur(x) \in Steps /\ Pv(Cur(x)) \in Keys /\ St(Cur(x)) \in Keys
           /\ Sound(Held(x), View(x)) /\ Fits(View(x)) /\ \A k \in Keys : Seen(x, k) = View(x)[k]
           /\ View(x)[Pv(Cur(x))] \notin Undecided
           /\ ~ overlap => Follows(x)
BY AtCur, KeysAre DEF SesInv, Alone

\* The step of the preview is marked: it was ready, so the plan is active.
LEMMA MarkAlone == ASSUME IInv, Alone, NEW x \in Sessions, Mark(x) PROVE Alone'
<1> DEFINE c == Cur(x)
<1>1. At(x, "mark") /\ Moving(x) /\ To(x, "advance") /\ UNCHANGED <<row, overlap>>
  BY DEF Mark, Moving, At
<1>2. /\ Types /\ ~ At(x, "idle") /\ c \in Steps /\ Pv(c) \in Keys /\ St(c) \in Keys
      /\ View(x)[Pv(c)] \notin Undecided
      /\ ~ overlap => Follows(x)
  BY <1>1, AtMoving
<1>3. PICK v \in {"executed", "failed"} : Write(x, One(St(c), v))
  BY DEF Mark
<1>4. /\ View(x)'[St(c)] = v /\ \A k \in Keys : k # St(c) => View(x)'[k] = View(x)[k]
      /\ \A y \in Sessions \ {x} : Held(y)' = Held(y)
  BY <1>1, <1>2, <1>3, OneShows
<1>5. /\ \A s \in Steps : View(x)'[Pv(s)] = View(x)[Pv(s)] /\ (s # c => View(x)'[St(s)] = View(x)[St(s)])
      /\ View(x)'[Plan] = View(x)[Plan]
  BY <1>2, <1>4, KeysAre, KeysDiffer
<1>6. ASSUME ~ overlap PROVE Follows(x)'
  <2>1. Good(View(x)) /\ View(x)[St(c)] = "ready"
    BY <1>1, <1>2, <1>6 DEF Follows
  <2>2. Offered(View(x)')
    BY <1>2, <1>5, <2>1 DEF Good, Offered, Undecided
  <2>3. View(x)'[Plan] = "active"
    BY <1>2, <1>5, <2>1 DEF Good, Active
  <2>4. Active(View(x)) \subseteq Active(View(x)') \cup {c}
    BY <1>5 DEF Active
  <2>5. Waits(View(x)', {c})
    <3> SUFFICES ASSUME NEW s \in Steps, View(x)'[St(s)] = "waiting"
                 PROVE  Deps[s] \cap (Active(View(x)') \cup {c}) # {}
      BY DEF Waits
    <3>1. View(x)[St(s)] = "waiting"
      BY <1>4, <1>5
    <3>2. Deps[s] \cap Active(View(x)) # {}
      BY <2>1, <3>1 DEF Good, Waits
    <3> QED BY <2>4, <3>2
  <2> QED BY <1>1, <1>2, <1>5, <1>6, <2>2, <2>3, <2>5, MovingNow
<1> QED BY <1>1, <1>2, <1>4, <1>6, ToAlone DEF PCs

\* The steps that are blocked: those that wait and depend on one of F, or on one of them.
LEMMA BlockedIs ==
    ASSUME NEW x, NEW F, \A k \in Keys : Seen(x, k) = View(x)[k]
    PROVE  /\ Blocked(x, F) \subseteq Steps
           /\ \A s \in Blocked(x, F) : View(x)[St(s)] = "waiting"
           /\ \A s \in Steps : View(x)[St(s)] = "waiting" /\ Deps[s] \cap (F \cup Blocked(x, F)) # {}
                               => s \in Blocked(x, F)
<1> DEFINE W == Is(x, {"waiting"})
           C == {B \in SUBSET W : \A s \in W : Deps[s] \cap (F \cup B) # {} => s \in B}
<1>1. W = {s \in Steps : View(x)[St(s)] = "waiting"}
  BY KeysAre DEF Is
<1>2. Blocked(x, F) = {s \in W : \A B \in C : s \in B}
  BY DEF Blocked
<1> HIDE DEF W
<1>3. ASSUME NEW s \in W, Deps[s] \cap (F \cup Blocked(x, F)) # {} PROVE s \in Blocked(x, F)
  <2> SUFFICES ASSUME NEW B \in C PROVE s \in B
    BY <1>2
  <2>1. Blocked(x, F) \subseteq B
    BY <1>2
  <2> QED BY <1>3, <2>1
<1> QED BY <1>1, <1>2, <1>3

\* When steps that wait end as blocked, and all that depend on them, no other step is left
\* to wait for them.
LEMMA WaitsAfter ==
    ASSUME NEW T, NEW U, NEW B, NEW C,
           \A s \in Steps : \/ U[St(s)] = T[St(s)]
                            \/ T[St(s)] = "waiting" /\ (U[St(s)] = "ready" \/ s \in B),
           \A s \in Steps : U[St(s)] = "waiting" => /\ Deps[s] \cap (B \cup C) = {}
                                                    /\ Deps[s] \cap (Active(T) \cup C) # {}
    PROVE  Waits(U, {})
<1> SUFFICES ASSUME NEW s \in Steps, U[St(s)] = "waiting" PROVE Deps[s] \cap Active(U) # {}
  BY DEF Waits
<1>1. T[St(s)] = "waiting" /\ Deps[s] \cap (B \cup C) = {} /\ Deps[s] \subseteq Steps
  BY PreviewsAssumption
<1>2. PICK d \in Deps[s] : d \in Active(T)
  BY <1>1
<1>3. d \in Active(U)
  BY <1>1, <1>2 DEF Active
<1> QED BY <1>3

\* The plan advances: what waits afterwards depends on a step that has not ended.
LEMMA AdvanceAlone == ASSUME IInv, Alone, NEW x \in Sessions, Advance(x) PROVE Alone'
<1>1. PICK F \in SUBSET Ready(x) :
        Write(x, [k \in {St(s) : s \in Ready(x) \cup Blocked(x, F \cup Is(x, {"failed", "blocked"}))}
                        \cup {Pv(s) : s \in (Ready(x) \ F) \cup
                                 (IF Ready(x) = {} THEN {}
                                  ELSE {p \in ses[x].stale : Seen(x, Pv(p)) = "pending"})}
                        \cup {Act(s) : s \in Ready(x) \ F} |->
                    IF k[1] = "step" THEN IF k[2] \in Ready(x) \ F THEN "ready"
                                          ELSE IF k[2] \in F THEN "failed" ELSE "blocked"
                    ELSE IF k[2] \in Ready(x) \ F THEN "pending" ELSE "expired"])
  BY DEF Advance
<1> DEFINE R == Ready(x)
           made == R \ F
           E == Is(x, {"failed", "blocked"})
           B == Blocked(x, F \cup E)
           stale == IF R = {} THEN {} ELSE {p \in ses[x].stale : Seen(x, Pv(p)) = "pending"}
           J == {St(s) : s \in R \cup B} \cup {Pv(s) : s \in made \cup stale} \cup {Act(s) : s \in made}
           w == [k \in J |->
                    IF k[1] = "step" THEN IF k[2] \in made THEN "ready"
                                          ELSE IF k[2] \in F THEN "failed" ELSE "blocked"
                    ELSE IF k[2] \in made THEN "pending" ELSE "expired"]
           c == Cur(x)
<1>2. /\ Write(x, w) /\ At(x, "advance") /\ Moving(x) /\ To(x, "close") /\ UNCHANGED <<row, overlap>>
  BY <1>1 DEF Advance, Moving, At
<1>3. /\ Types /\ ~ At(x, "idle") /\ c \in Steps /\ Pv(c) \in Keys
      /\ Sound(Held(x), View(x)) /\ Fits(View(x)) /\ \A k \in Keys : Seen(x, k) = View(x)[k]
      /\ View(x)[Pv(c)] \notin Undecided
      /\ ~ overlap => Follows(x)
  BY <1>2, AtMoving
<1>4. /\ R = {s \in Steps : View(x)[St(s)] = "waiting" /\ \A d \in Deps[s] : View(x)[St(d)] = "executed"}
      /\ E = {s \in Steps : View(x)[St(s)] \in {"failed", "blocked"}}
  <2>1. \A S : Is(x, S) = {s \in Steps : View(x)[St(s)] \in S}
    BY <1>3, KeysAre DEF Is
  <2> QED BY <2>1, PreviewsAssumption DEF Ready
<1>5. /\ B \subseteq Steps /\ \A s \in B : View(x)[St(s)] = "waiting"
      /\ \A s \in Steps : View(x)[St(s)] = "waiting" /\ Deps[s] \cap ((F \cup E) \cup B) # {} => s \in B
  BY <1>3, BlockedIs
<1>6. stale \subseteq Steps /\ \A p \in stale : View(x)[Pv(p)] = "pending"
  BY <1>3, KeysAre DEF Types, Request
<1> HIDE DEF R, B, E, stale, c
<1>7. \A p \in Steps : /\ St(p) \in J <=> p \in R \cup B
                       /\ Pv(p) \in J <=> p \in made \cup stale
  BY <1>4, <1>5, <1>6, KeysDiffer
<1>8. Plan \notin J /\ Plan \in Keys
  BY <1>4, <1>5, <1>6, KeysAre, KeysDiffer
<1>9. F \subseteq R /\ made \subseteq R /\ F \cap made = {} /\ R \subseteq F \cup made
  BY <1>1 DEF R
<1> HIDE DEF made
<1>10. \A p \in Steps : /\ p \in R \cup B => w[St(p)] = IF p \in made THEN "ready"
                                                       ELSE IF p \in F THEN "failed" ELSE "blocked"
                        /\ p \in made \cup stale => w[Pv(p)] = IF p \in made THEN "pending" ELSE "expired"
  BY <1>7, KeyParts
<1>11. DOMAIN w = J
  OBVIOUS
<1> HIDE DEF J, w
<1>12. /\ \A k \in Keys : View(x)'[k] = IF k \in J THEN w[k] ELSE View(x)[k]
       /\ \A y \in Sessions \ {x} : Held(y)' = Held(y)
  BY <1>2, <1>11, WriteShows
<1>13. /\ \A s \in Steps :
            /\ View(x)'[St(s)] = IF s \in made THEN "ready" ELSE IF s \in F THEN "failed"
                                 ELSE IF s \in B THEN "blocked" ELSE View(x)[St(s)]
            /\ View(x)'[Pv(s)] = IF s \in made THEN "pending" ELSE IF s \in stale THEN "expired"
                                 ELSE View(x)[Pv(s)]
       /\ View(x)'[Plan] = View(x)[Plan]
  BY <1>7, <1>8, <1>9, <1>10, <1>12, KeysAre
<1>14. View(x)'[Pv(c)] = View(x)[Pv(c)]
  <2>1. c \notin made
    BY <1>3, <1>4, <1>9 DEF Sound, Order, Undecided
  <2>2. c \notin stale
    BY <1>3, <1>6 DEF Undecided
  <2> QED BY <1>3, <1>13, <2>1, <2>2
<1>15. ASSUME ~ overlap PROVE Follows(x)'
  <2>1. Follows(x) /\ Offered(View(x)) /\ View(x)[Plan] = "active"
    BY <1>2, <1>3, <1>15 DEF Follows
  <2>2. Offered(View(x)')
    BY <1>4, <1>5, <1>9, <1>13, <2>1 DEF Offered
  <2>3. Waits(View(x)', {})
    <3>1. \A s \in Steps : \/ View(x)'[St(s)] = View(x)[St(s)]
                           \/ /\ View(x)[St(s)] = "waiting"
                              /\ View(x)'[St(s)] = "ready" \/ s \in F \cup B
      BY <1>4, <1>5, <1>9, <1>13
    <3>2. ASSUME NEW s \in Steps, View(x)'[St(s)] = "waiting"
          PROVE  /\ Deps[s] \cap ((F \cup B) \cup E) = {}
                 /\ Deps[s] \cap (Active(View(x)) \cup E) # {}
      <4>1. View(x)[St(s)] = "waiting" /\ s \notin R /\ s \notin B
        BY <1>9, <1>13, <3>2
      <4>2. PICK d \in Deps[s] : View(x)[St(d)] # "executed"
        BY <1>4, <4>1
      <4>3. d \in Steps /\ View(x)[St(d)] \in StepStatus
        BY <1>3, PreviewsAssumption DEF Fits
      <4>4. d \in Active(View(x)) \cup E
        BY <1>4, <4>2, <4>3 DEF Active, StepStatus
      <4> QED BY <1>5, <4>1, <4>4
    <3> QED BY <3>1, <3>2, WaitsAfter
  <2> QED BY <1>2, <1>3, <1>13, <1>14, <1>15, <2>1, <2>2, <2>3, MovingNow DEF c
<1> QED BY <1>2, <1>3, <1>12, <1>15, ToAlone DEF PCs

\* The dependents of a failed step are blocked.
LEMMA BlockAlone == ASSUME IInv, Alone, NEW x \in Sessions, Block(x) PROVE Alone'
<1> DEFINE c == Cur(x)
           S == Blocked(x, {c})
           w == [k \in {St(s) : s \in S} |-> "blocked"]
<1>1. /\ At(x, "advance") /\ Moving(x) /\ To(x, "close") /\ Write(x, w)
      /\ UNCHANGED <<row, overlap>>
  BY DEF Block, Moving, At
<1>2. /\ Types /\ ~ At(x, "idle") /\ c \in Steps /\ Pv(c) \in Keys
      /\ \A k \in Keys : Seen(x, k) = View(x)[k]
      /\ ~ overlap => Follows(x)
  BY <1>1, AtMoving
<1> HIDE DEF c
<1>3. /\ S \subseteq Steps
      /\ \A s \in Steps : View(x)[St(s)] = "waiting" /\ Deps[s] \cap ({c} \cup S) # {} => s \in S
      /\ \A s \in S : View(x)[St(s)] = "waiting"
  BY <1>2, BlockedIs
<1> HIDE DEF S
<1>4. DOMAIN w = {St(s) : s \in S} /\ \A k \in DOMAIN w : w[k] = "blocked"
  OBVIOUS
<1> HIDE DEF w
<1>5. /\ \A k \in Keys : View(x)'[k] = IF k \in {St(s) : s \in S} THEN w[k] ELSE View(x)[k]
      /\ \A y \in Sessions \ {x} : Held(y)' = Held(y)
  BY <1>1, <1>4, WriteShows
<1>6. /\ \A s \in Steps : /\ View(x)'[Pv(s)] = View(x)[Pv(s)]
                          /\ View(x)'[St(s)] = IF s \in S THEN "blocked" ELSE View(x)[St(s)]
      /\ View(x)'[Plan] = View(x)[Plan]
  <2>1. \A s \in Steps : /\ Pv(s) \notin {St(q) : q \in S} /\ Pv(s) \in Keys /\ St(s) \in Keys
                         /\ St(s) \in {St(q) : q \in S} <=> s \in S
    BY <1>3, KeysAre, KeysDiffer
  <2>2. Plan \notin {St(q) : q \in S} /\ Plan \in Keys
    BY <1>3, KeysAre, KeysDiffer
  <2> QED BY <1>4, <1>5, <2>1, <2>2
<1>7. ASSUME ~ overlap PROVE Follows(x)'
  <2>1. Offered(View(x)) /\ View(x)[Plan] = "active" /\ Waits(View(x), {c})
    BY <1>1, <1>2, <1>7 DEF Follows, c
  <2>2. Offered(View(x)')
    BY <1>3, <1>6, <2>1 DEF Offered
  <2>3. Waits(View(x)', {})
    <3>1. \A s \in Steps : \/ View(x)'[St(s)] = View(x)[St(s)]
                           \/ /\ View(x)[St(s)] = "waiting"
                              /\ View(x)'[St(s)] = "ready" \/ s \in S
      BY <1>3, <1>6
    <3>2. \A s \in Steps : View(x)'[St(s)] = "waiting" =>
              /\ Deps[s] \cap (S \cup {c}) = {}
              /\ Deps[s] \cap (Active(View(x)) \cup {c}) # {}
      BY <1>3, <1>6, <2>1 DEF Waits
    <3> QED BY <3>1, <3>2, WaitsAfter
  <2> QED BY <1>1, <1>2, <1>6, <1>7, <2>1, <2>2, <2>3, MovingNow DEF c
<1> QED BY <1>1, <1>2, <1>5, <1>7, ToAlone DEF PCs

\* The plan is closed when nothing is left of it.
LEMMA CloseAlone == ASSUME IInv, Alone, NEW x \in Sessions, Close(x) PROVE Alone'
<1>1. At(x, "close") /\ Moving(x) /\ Following(x) /\ UNCHANGED <<row, overlap>>
  BY DEF Close, Moving, At
<1>2. /\ Types /\ ~ At(x, "idle") /\ \A k \in Keys : Seen(x, k) = View(x)[k]
      /\ ~ overlap => Follows(x)
  BY <1>1, AtMoving
<1>3. ~ overlap => Offered(View(x)) /\ View(x)[Plan] = "active" /\ Waits(View(x), {})
  BY <1>1, <1>2 DEF Follows
<1>4. Is(x, {"waiting", "ready"}) = Active(View(x))
  BY <1>2, KeysAre DEF Is, Active
<1>5. CASE Active(View(x)) # {} /\ UNCHANGED <<draft, lock>>
  <2>1. View(x)' = View(x) /\ \A y : Held(y)' = Held(y)
    BY <1>1, <1>5 DEF View, With, Held
  <2>2. ~ overlap => Good(View(x)')
    BY <1>3, <1>5, <2>1 DEF Good
  <2> QED BY <1>1, <1>2, <2>1, <2>2, FollowingAlone
<1>6. CASE Active(View(x)) = {} /\ \E v \in {"failed", "completed"} : Write(x, One(Plan, v))
  <2>1. PICK v \in {"failed", "completed"} : Write(x, One(Plan, v))
    BY <1>6
  <2>2. /\ View(x)'[Plan] = v /\ \A k \in Keys : k # Plan => View(x)'[k] = View(x)[k]
        /\ \A y \in Sessions \ {x} : Held(y)' = Held(y)
    BY <1>1, <2>1, OneShows, KeysAre
  <2>3. \A s \in Steps : View(x)'[St(s)] = View(x)[St(s)] /\ View(x)'[Pv(s)] = View(x)[Pv(s)]
    BY <2>2, KeysAre, KeysDiffer
  <2>4. Active(View(x)') = Active(View(x))
    BY <2>3 DEF Active
  <2>5. ~ overlap => Good(View(x)')
    BY <1>3, <1>6, <2>2, <2>3, <2>4 DEF Good, Offered, Waits
  <2> QED BY <1>1, <1>2, <2>2, <2>5, FollowingAlone
<1> QED BY <1>4, <1>5, <1>6 DEF Close

--------------------------------------------------------------------------------
(* The ends of a request, and time *)

\* A request that has ended holds nothing; the committed rows are good, as it saw them.
LEMMA EndAlone ==
    ASSUME Alone, NEW x \in Sessions, ~ At(x, "idle"), Held(x)' = {}, ses'[x].pc = "idle",
           overlap' = overlap, \A y \in Sessions \ {x} : ses'[y] = ses[y] /\ Held(y)' = Held(y),
           ~ overlap => Good(row')
    PROVE  Alone'
<1>1. ASSUME NEW y \in Sessions, At(y, "idle")' PROVE Held(y)' = {}
  BY <1>1 DEF Alone, At
<1>2. ASSUME ~ overlap PROVE \A y \in Sessions : At(y, "idle")'
  BY <1>2 DEF Alone, At
<1>3. ~ overlap => Good(row)'
  BY DEF Good, Offered, Waits, Active
<1> QED BY <1>1, <1>2, <1>3 DEF Alone

\* A request commits.
LEMMA CommitAlone == ASSUME IInv, Alone, NEW x \in Sessions, Commit(x) PROVE Alone'
<1>1. At(x, "commit") /\ ~ At(x, "idle") /\ overlap' = overlap
  BY DEF Commit, At
<1>2. /\ Held(x)' = {} /\ ses'[x] = NoRequest
      /\ \A y \in Sessions \ {x} : ses'[y] = ses[y] /\ Held(y)' = Held(y)
      /\ \A k \in Keys : k \notin {Act(p) : p \in Steps} => row'[k] = View(x)[k]
  BY CommitDoes
<1>3. Alike(View(x), row')
  <2>1. \A p \in Steps : St(p) \notin {Act(q) : q \in Steps} /\ Pv(p) \notin {Act(q) : q \in Steps}
    BY KeysDiffer
  <2>2. Plan \notin {Act(q) : q \in Steps}
    BY KeysDiffer
  <2> QED BY <1>2, <2>1, <2>2, AlikeBy
<1>4. ~ overlap => Good(row')
  BY <1>1, <1>3, AlikeFacts DEF Alone, Follows, At
<1> QED BY <1>1, <1>2, <1>4, NoRequestTyped, EndAlone

\* A request is rolled back.
LEMMA AbortAlone == ASSUME IInv, Alone, NEW x \in Sessions, Abort(x) PROVE Alone'
<1>1. ~ At(x, "idle") /\ UNCHANGED <<row, overlap>> /\ Types
  BY DEF IInv, Abort
<1>2. lock' = [k \in Keys |-> IF lock[k] = x THEN Nobody ELSE lock[k]]
  <2>1. DOMAIN lock = Keys
    BY <1>1 DEF Types
  <2> QED BY <2>1 DEF Abort, Released
<1>3. Held(x)' = {} /\ \A y \in Sessions \ {x} : Held(y)' = Held(y)
  BY <1>2, PreviewsAssumption DEF Held
<1>4. ses'[x] = NoRequest /\ \A y \in Sessions \ {x} : ses'[y] = ses[y]
  BY <1>1 DEF Types, Abort
<1>5. ~ overlap => Good(row')
  BY <1>1 DEF Alone
<1> QED BY <1>1, <1>3, <1>4, <1>5, NoRequestTyped, EndAlone

\* A request begins: alone, or two have overlapped.
LEMMA BeginAlone == ASSUME IInv, Alone, NEW x \in Sessions, Begin(x) PROVE Alone'
<1>1. /\ At(x, "idle") /\ Types /\ UNCHANGED <<row, draft, lock>>
      /\ overlap' = (overlap \/ \E y \in Sessions \ {x} : ~ At(y, "idle"))
  BY DEF IInv, Begin
<1>2. ses'[x].pc = "sign" /\ \A y \in Sessions \ {x} : ses'[y] = ses[y]
  BY <1>1 DEF Begin, Types, NoRequest
<1>3. View(x)' = View(x) /\ \A y : Held(y)' = Held(y)
  BY <1>1 DEF View, With, Held
<1>4. ASSUME NEW y \in Sessions, At(y, "idle")' PROVE Held(y)' = {}
  BY <1>2, <1>3, <1>4 DEF Alone, At
<1>5. ASSUME ~ overlap'
      PROVE  /\ Follows(x)' /\ Good(row)' /\ \A y \in Sessions \ {x} : At(y, "idle")'
  <2>1. ~ overlap /\ \A y \in Sessions \ {x} : At(y, "idle")
    BY <1>1, <1>5
  <2>2. Good(row) /\ View(x) = row
    BY <1>1, <2>1 DEF Alone, View, With, Types, Fits
  <2>3. Good(row)'
    BY <1>1, <2>2 DEF Good, Offered, Waits, Active
  <2>4. Follows(x)'
    BY <1>2, <1>3, <2>2, GoodNow
  <2> QED BY <1>2, <2>1, <2>3, <2>4 DEF At
<1> QED BY <1>4, <1>5 DEF Alone

\* A stale preview expires: its step stays ready, in what every request sees.
LEMMA ExpireStaleAlone == ASSUME IInv, Alone, NEW p \in Steps, ExpireStale(p) PROVE Alone'
<1>1. /\ row'[Pv(p)] = "expired"
      /\ \A k \in Keys : k # Pv(p) => row'[k] = row[k] /\ draft'[k] = draft[k]
      /\ \A y \in Sessions : Held(y)' = Held(y) /\ Pv(p) \notin Held(y)
  BY ExpireStaleDoes
<1>2. UNCHANGED <<ses, overlap>> /\ \A y, c : At(y, c)' <=> At(y, c)
  BY DEF ExpireStale, At
<1>3. Alike(row, row')
  BY <1>1, AlikeOne
<1>4. ASSUME NEW x \in Sessions, Follows(x), ~ At(x, "idle") PROVE Follows(x)'
  <2>1. \A k \in Keys : /\ k # Pv(p) => View(x)'[k] = View(x)[k] /\ Saved(x)'[k] = Saved(x)[k]
                        /\ View(x)'[Pv(p)] = "expired"
    BY <1>1, <1>2, KeysAre DEF View, Saved, With
  <2>2. Saved(x)'[Pv(p)] \in {Saved(x)[Pv(p)], "expired"}
    BY <1>1, <1>2, KeysAre DEF Saved, With
  <2>3. Alike(View(x), View(x)') /\ Alike(Saved(x), Saved(x)')
    <3>1. Alike(View(x), View(x)')
      BY <2>1, AlikeOne, KeysAre
    <3>2. Alike(Saved(x), Saved(x)')
      <4>1. \A k \in Keys : k # Pv(p) => Saved(x)'[k] = Saved(x)[k]
        BY <2>1
      <4>2. Saved(x)'[Pv(p)] = "pending" => Saved(x)[Pv(p)] = "pending"
        BY <2>2
      <4> QED BY <4>1, <4>2, AlikeOne
    <3> QED BY <3>1, <3>2
  <2>4. /\ Cur(x)' = Cur(x) /\ Cur(x) \in Steps /\ Pv(Cur(x)) \in Keys /\ (Moving(x)' <=> Moving(x))
    BY <1>2, <1>4, CurIs, KeysAre DEF IInv, Cur, Moving
  <2>5. View(x)'[Pv(Cur(x))] = "executed" => View(x)[Pv(Cur(x))] = "executed"
    BY <2>1, <2>4
  <2>6. /\ View(x)'[St(Cur(x))] = View(x)[St(Cur(x))] /\ View(x)'[Plan] = View(x)[Plan]
        /\ Saved(x)'[St(Cur(x))] = Saved(x)[St(Cur(x))]
    BY <2>3, <2>4 DEF Alike
  <2>7. /\ Good(View(x)) => Good(View(x))'
        /\ Offered(View(x)) => Offered(View(x))'
        /\ Waits(View(x), {}) => Waits(View(x), {})'
        /\ Waits(View(x), {Cur(x)}) => Waits(View(x), {Cur(x)})'
        /\ Good(Saved(x)) => Good(Saved(x))'
    <3>1. /\ Good(View(x)) => Good(View(x)')
          /\ Offered(View(x)) => Offered(View(x)')
          /\ \A C : Waits(View(x), C) => Waits(View(x)', C)
          /\ Good(Saved(x)) => Good(Saved(x)')
      BY <2>3, AlikeFacts
    <3> QED BY <2>4, <3>1 DEF Good, Offered, Waits, Active
  <2> QED BY <1>2, <1>4, <2>4, <2>5, <2>6, <2>7 DEF Follows
<1>5. ~ overlap => Good(row)'
  <2>1. ~ overlap => Good(row')
    BY <1>3, AlikeFacts DEF Alone
  <2> QED BY <2>1 DEF Good, Offered, Waits, Active
<1> QED BY <1>1, <1>2, <1>4, <1>5 DEF Alone

\* Time, and a step of nobody.
LEMMA IdleAlone == ASSUME Alone, UNCHANGED <<row, draft, lock, ses, overlap>> PROVE Alone'
<1>1. \A y : /\ Held(y)' = Held(y) /\ View(y)' = View(y) /\ Saved(y)' = Saved(y)
             /\ Cur(y)' = Cur(y) /\ (Moving(y)' <=> Moving(y)) /\ \A c : At(y, c)' <=> At(y, c)
  BY DEF Held, View, Saved, With, Cur, Moving, At
<1>2. \A y : Follows(y)' <=> Follows(y)
  BY <1>1 DEF Follows, Good, Offered, Waits, Active
<1>3. Good(row)' <=> Good(row)
  BY DEF Good, Offered, Waits, Active
<1> QED BY <1>1, <1>2, <1>3 DEF Alone

--------------------------------------------------------------------------------
(* The theorem *)

\* The plan as it is created: it has a step, and each is ready or waits for another.
LEMMA InitAlone == Init => Alone
<1> SUFFICES ASSUME Init PROVE Alone
  OBVIOUS
<1>1. \A p \in Steps : /\ row[St(p)] = IF Deps[p] = {} THEN "ready" ELSE "waiting"
                       /\ row[Pv(p)] = IF Deps[p] = {} THEN "pending" ELSE "none"
  BY KeysAre, KeysDiffer, KeyParts DEF Init, Created
<1>2. row[Plan] = "active"
  BY KeysAre, KeyParts DEF Init, Created
<1>3. Active(row) = Steps /\ Steps # {}
  <2>1. 1 \in Steps
    BY PreviewsAssumption DEF Steps
  <2> QED BY <1>1, <2>1 DEF Active
<1>4. Good(row)
  BY <1>1, <1>2, <1>3, PreviewsAssumption DEF Good, Offered, Waits
<1>5. \A x \in Sessions : At(x, "idle") /\ Held(x) = {}
  BY PreviewsAssumption, NoRequestTyped DEF Init, At, Held
<1> QED BY <1>4, <1>5 DEF Alone

\* Every step of the program keeps it.
LEMMA AloneNext == IInv /\ Alone /\ [Next]_vars => Alone'
<1> SUFFICES ASSUME IInv, Alone, [Next]_vars PROVE Alone'
  OBVIOUS
<1>1. ASSUME NEW x \in Sessions, Begin(x) PROVE Alone'
  BY <1>1, BeginAlone
<1>2. ASSUME NEW x \in Sessions, Step(x) PROVE Alone'
  BY <1>2, SignAlone, LockAlone, TakeAlone, OperateAlone, OperationFailsAlone, OperationBusyAlone,
     FailsLateAlone, MarkAlone, AdvanceAlone, BlockAlone, CloseAlone, CommitAlone DEF Step
<1>3. ASSUME NEW x \in Sessions, Abort(x) PROVE Alone'
  BY <1>3, AbortAlone
<1>4. ASSUME NEW p \in Steps, ExpireStale(p) PROVE Alone'
  BY <1>4, ExpireStaleAlone
<1>5. ASSUME NEW p \in Steps, Age(p) PROVE Alone'
  BY <1>5, IdleAlone DEF Age
<1>6. CASE UNCHANGED vars
  BY <1>6, IdleAlone DEF vars
<1> QED BY <1>1, <1>2, <1>3, <1>4, <1>5, <1>6 DEF Next

\* Requests one at a time leave a waiting step only behind one that has not ended, and
\* close the plan exactly when none is left; whatever error undoes an operation.
THEOREM PlanFollowed == Spec => []PlanFollows
<1>1. Alone => PlanFollows
  BY DEF Alone, Good, Waits, Active, PlanFollows
<1>2. Init => IInv /\ Alone
  BY InitInv, InitAlone
<1>3. IInv /\ Alone /\ [Next]_vars => IInv' /\ Alone'
  BY InvNext, AloneNext
<1> QED BY <1>1, <1>2, <1>3, PTL DEF Spec
================================================================================
