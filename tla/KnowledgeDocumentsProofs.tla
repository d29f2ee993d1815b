------------------------- MODULE KnowledgeDocumentsProofs -------------------------
(***************************************************************************)
(* For any number of users, participants, edits and reviews: no saved edit *)
(* of a document is lost as long as no request of a review meets a save or *)
(* another such request, and a review is approved by everybody or by       *)
(* nobody, whatever meets what.                                            *)
(*                                                                         *)
(* A save compares the revision it read with the one its editor got, not   *)
(* with the row it will write over: the first argument is that the row has *)
(* not moved in between, because its user held the lock all the time.      *)
(* Decisions are counted in one step and the review is ended in another,   *)
(* on what was read before: the second is that a decision once given stays *)
(* given, whatever becomes of the review.                                  *)
(***************************************************************************)
EXTENDS KnowledgeDocuments, FiniteSetTheorems, TLAPS

\* The types, without the bounds on revisions.
AnyDocument == [status : {"draft", "in_review", "published"}, rev : Nat, text : SUBSET Edits]

AnyCopy == [rev : Nat, text : SUBSET Edits]

AnyRequest == [kind : Kinds \cup {"none"}, pc : {"idle", "read", "checked", "keep", "last"},
               entity : AnyDocument, edit : 0 .. MaxEdits,
               flow : {0} \cup Reviews, stage : {"none", "reviewer", "approver"}]

Types ==
    /\ doc \in AnyDocument
    /\ lock \in [user : Users \cup {NoUser}, live : BOOLEAN]
    /\ flow \in [Reviews -> Flow]
    /\ seen \in [Users -> AnyCopy]
    /\ req \in [Users -> AnyRequest]
    /\ made \in 0 .. MaxEdits
    /\ overlap \in BOOLEAN
    /\ \A u \in Users : req[u].pc = "idle" <=> req[u].kind = "none"
    /\ \A u \in Users : req[u].kind = "save" => req[u].edit \in Edits /\ req[u].pc \in {"read", "checked"}

\* A request of a review runs alone, but for locks and heartbeats.
ReviewsApart == \A u, v \in Users :
    u # v /\ req[u].kind \in ReviewKinds => req[v].kind \notin ReviewKinds \cup {"save"}

\* A request of a review has the text and the revision of the row.  A save has them if
\* its user holds the lock, and once it is checked its user does, with an editor of that
\* revision.
Current(u) ==
    /\ req[u].kind \in ReviewKinds => req[u].entity.rev = doc.rev /\ req[u].entity.text = doc.text
    /\ req[u].kind = "save" /\ req[u].pc = "read" /\ Holds(u) => req[u].entity.rev = doc.rev
    /\ req[u].kind = "save" /\ req[u].pc = "checked" =>
          Holds(u) /\ req[u].entity.rev = doc.rev /\ seen[u].rev = doc.rev

\* An editor that has the revision of the row has its text.
Knows(u) ==
    /\ seen[u].rev <= doc.rev
    /\ seen[u].rev = doc.rev => seen[u].text = doc.text

\* What holds as long as no two of them have met.
Calm == Types /\ ReviewsApart /\ \A u \in Users : Current(u) /\ Knows(u)

\* The inductive invariant.
IInv == Types /\ (~ overlap => Calm)

--------------------------------------------------------------------------------
(* Types *)

\* The initial values have their types.
LEMMA StartTyped == Start \in AnyDocument /\ NoRequest \in AnyRequest /\ Editor(Start) \in AnyCopy
BY DocumentAssumption DEF Start, AnyDocument, NoRequest, AnyRequest, Editor, AnyCopy

\* What an editor gets is a copy.
LEMMA EditorTyped == ASSUME NEW d \in AnyDocument PROVE Editor(d) \in AnyCopy
BY DEF Editor, AnyDocument, AnyCopy

\* A document without a lock has a row of the type of locks.
LEMMA UnlockedTyped == Unlocked \in [user : Users \cup {NoUser}, live : BOOLEAN]
BY DEF Unlocked

\* The document that a save writes.
LEMMA SavedTyped ==
    ASSUME Types, NEW u \in Users, req[u].kind = "save", NEW s \in {req[u].entity.status, "published"}
    PROVE  [status |-> s, rev |-> req[u].entity.rev + 1, text |-> seen[u].text \cup {req[u].edit}]
                \in AnyDocument
<1>1. req[u].entity \in AnyDocument /\ seen[u] \in AnyCopy /\ req[u].edit \in Edits
  BY DEF Types, AnyRequest
<1> QED BY <1>1 DEF AnyDocument, AnyCopy

\* A request that ends leaves the requests typed.
LEMMA DoneTyped ==
    ASSUME Types, NEW u \in Users, Done(u)
    PROVE  /\ req' \in [Users -> AnyRequest]
           /\ req'[u] = NoRequest
           /\ \A v \in Users \ {u} : req'[v] = req[v]
           /\ \A v \in Users : req'[v].pc = "idle" <=> req'[v].kind = "none"
           /\ \A v \in Users : req'[v].kind = "save" =>
                req'[v].edit \in Edits /\ req'[v].pc \in {"read", "checked"}
BY StartTyped DEF Types, Done, NoRequest

\* A request that goes on does, too.
LEMMA GoingTyped ==
    ASSUME Types, NEW u \in Users, NEW r \in AnyRequest, req' = [req EXCEPT ![u] = r],
           r.pc = "idle" <=> r.kind = "none",
           r.kind = "save" => r.edit \in Edits /\ r.pc \in {"read", "checked"}
    PROVE  /\ req' \in [Users -> AnyRequest]
           /\ req'[u] = r
           /\ \A v \in Users \ {u} : req'[v] = req[v]
           /\ \A v \in Users : req'[v].pc = "idle" <=> req'[v].kind = "none"
           /\ \A v \in Users : req'[v].kind = "save" =>
                req'[v].edit \in Edits /\ req'[v].pc \in {"read", "checked"}
BY DEF Types

\* A decision is written into its review.
LEMMA DecidedTyped ==
    ASSUME Types, NEW u \in Users, NEW d \in {"approved", "changes"}, req[u].flow \in Reviews
    PROVE  LET f == Decided(u, d) IN
           /\ f \in Flow
           /\ f.status = flow[req[u].flow].status
           /\ Seat(u) \in Seats => f.decision[Seat(u)] = d
           /\ \A p \in Seats \ {Seat(u)} : f.decision[p] = flow[req[u].flow].decision[p]
BY DEF Types, Decided, Flow

\* What a review becomes when one of its requests ends.
LEMMA FlowTyped ==
    ASSUME Types, NEW i, NEW f, i \in Reviews => f \in Flow
    PROVE  [flow EXCEPT ![i] = f] \in [Reviews -> Flow]
BY DEF Types

\* Before the first request.
LEMMA InitTypes == Init => Types
<1>1. NoFlow \in Flow
  BY DEF NoFlow, Flow
<1>2. NoRequest \in AnyRequest /\ NoRequest.pc = "idle" /\ NoRequest.kind = "none"
  BY StartTyped DEF NoRequest
<1>3. Start \in AnyDocument /\ 0 \in 0 .. MaxEdits
  BY StartTyped, DocumentAssumption
<1> SUFFICES ASSUME Init PROVE Types
  OBVIOUS
<1>4. req \in [Users -> AnyRequest] /\ seen \in [Users -> AnyCopy] /\ flow \in [Reviews -> Flow]
  BY <1>1, <1>2, StartTyped DEF Init
<1>5. \A u \in Users : req[u].pc = "idle" /\ req[u].kind = "none"
  BY <1>2 DEF Init
<1> QED BY <1>3, <1>4, <1>5, UnlockedTyped DEF Init, Types

\* A request begins.
LEMMA BeginTyped ==
    ASSUME Types, NEW u \in Users, NEW k \in Kinds, Begin(u, k)
    PROVE  Types'
<1> DEFINE r == [NoRequest EXCEPT !.kind = k, !.pc = "read",
                                  !.entity = IF k \in {"acquire", "beat"} THEN @ ELSE doc,
                                  !.edit = IF k = "save" THEN made + 1 ELSE 0]
<1>1. r \in AnyRequest /\ r.kind = k /\ r.pc = "read" /\ (k = "save" => r.edit \in Edits)
  <2>1. k = "save" => made + 1 \in Edits /\ made + 1 \in 0 .. MaxEdits
    BY DocumentAssumption DEF Begin, Offered, Types, Edits
  <2>2. doc \in AnyDocument /\ NoRequest \in AnyRequest /\ 0 \in 0 .. MaxEdits
    BY StartTyped, DocumentAssumption DEF Types
  <2> QED BY <2>1, <2>2 DEF AnyRequest, NoRequest
<1>2. req' = [req EXCEPT ![u] = r] /\ k # "none"
  BY DEF Begin, Kinds, ReviewKinds
<1>3. made' \in 0 .. MaxEdits /\ overlap' \in BOOLEAN
  BY DocumentAssumption DEF Begin, Offered, Types
<1> HIDE DEF r
<1> QED BY <1>1, <1>2, <1>3, GoingTyped DEF Begin, Types

\* A check.
LEMMA CheckTyped ==
    ASSUME Types, NEW u \in Users, Check(u)
    PROVE  Types'
<1>1. CASE Done(u)
  BY <1>1, DoneTyped DEF Check, Types
<1>2. ASSUME NEW i \in Active, req[u].kind \in ReviewKinds,
             req' = [req EXCEPT ![u].pc = "checked", ![u].flow = i, ![u].stage = flow[i].status]
      PROVE  Types'
  <2> DEFINE r == [req[u] EXCEPT !.pc = "checked", !.flow = i, !.stage = flow[i].status]
  <2>1. r \in AnyRequest /\ r.kind = req[u].kind /\ r.pc = "checked"
    BY DEF Types, AnyRequest, Active
  <2>2. req' = [req EXCEPT ![u] = r]
    BY <1>2 DEF Types
  <2>3. r.kind # "save" /\ r.kind # "none"
    BY <1>2, <2>1 DEF ReviewKinds
  <2> HIDE DEF r
  <2> QED BY <2>1, <2>2, <2>3, GoingTyped DEF Check, Types
<1>3. ASSUME req' = [req EXCEPT ![u].pc = "checked"], req[u].pc = "read"
      PROVE  Types'
  <2> DEFINE r == [req[u] EXCEPT !.pc = "checked"]
  <2>1. r \in AnyRequest /\ r.kind = req[u].kind /\ r.pc = "checked" /\ r.edit = req[u].edit
    BY DEF Types, AnyRequest
  <2>2. req' = [req EXCEPT ![u] = r]
    BY <1>3 DEF Types
  <2>3. r.kind # "none" /\ (r.kind = "save" => r.edit \in Edits)
    BY <1>3, <2>1 DEF Types
  <2> HIDE DEF r
  <2> QED BY <2>1, <2>2, <2>3, GoingTyped DEF Check, Types
<1> QED BY <1>1, <1>2, <1>3 DEF Check

\* Locks are taken, kept, released and expire; an editor gets the document.
LEMMA LocksTyped ==
    ASSUME Types, Expire \/ \E u \in Users : Acquire(u) \/ Beat(u) \/ Release(u) \/ Load(u)
    PROVE  Types'
<1>1. CASE Expire
  BY <1>1 DEF Expire, Types
<1>2. ASSUME NEW u \in Users, Acquire(u) \/ Beat(u) \/ Release(u) PROVE Types'
  <2>1. lock' \in {lock, Unlocked, [user |-> u, live |-> TRUE]}
    BY <1>2 DEF Acquire, Beat, Release
  <2>2. [user |-> u, live |-> TRUE] \in [user : Users \cup {NoUser}, live : BOOLEAN]
    OBVIOUS
  <2>3. lock' \in [user : Users \cup {NoUser}, live : BOOLEAN]
    BY <2>1, <2>2, UnlockedTyped DEF Types
  <2>4. UNCHANGED <<doc, flow, seen, made, overlap>> /\ (Done(u) \/ req' = req)
    BY <1>2 DEF Acquire, Beat, Release
  <2> QED BY <2>3, <2>4, DoneTyped DEF Types
<1>3. ASSUME NEW u \in Users, Load(u) PROVE Types'
  BY <1>3, EditorTyped DEF Load, Types
<1> QED BY <1>1, <1>2, <1>3

\* A save.
LEMMA SaveWritesTyped ==
    ASSUME Types, NEW u \in Users, Save(u)
    PROVE  Types'
<1>1. req[u].kind = "save" /\ Done(u) /\ seen' = [seen EXCEPT ![u] = Editor(doc')]
  BY DEF Save, At
<1>2. doc' \in AnyDocument
  BY <1>1, SavedTyped DEF Save
<1>3. seen' \in [Users -> AnyCopy]
  BY <1>1, <1>2, EditorTyped DEF Types
<1> QED BY <1>1, <1>2, <1>3, DoneTyped DEF Save, Types

\* An approval has been counted.
LEMMA DecideTyped ==
    ASSUME Types, NEW u \in Users, Decide(u)
    PROVE  Types'
<1>1. PICK pc \in {"keep", "last"} : req' = [req EXCEPT ![u].pc = pc]
  BY DEF Decide
<1> DEFINE r == [req[u] EXCEPT !.pc = pc]
<1>2. r \in AnyRequest /\ r.kind = "approve" /\ r.pc = pc
  BY DEF Decide, At, Types, AnyRequest
<1>3. req' = [req EXCEPT ![u] = r]
  BY <1>1 DEF Types
<1> HIDE DEF r
<1> QED BY <1>2, <1>3, GoingTyped DEF Decide, Types

\* A request of a review ends.
LEMMA EndingsTyped ==
    ASSUME Types, NEW u \in Users,
           RequestReview(u) \/ Keep(u) \/ EndStage(u) \/ RequestChanges(u) \/ CancelReview(u)
    PROVE  Types'
<1> DEFINE i == req[u].flow
<1>1. UNCHANGED <<seen, made, overlap>> /\ Done(u) /\ (lock' = lock \/ lock' = Unlocked)
  BY DEF RequestReview, Keep, EndStage, RequestChanges, CancelReview
<1>2. doc' \in AnyDocument
  <2>1. req[u].entity \in AnyDocument /\ doc \in AnyDocument
    BY DEF Types, AnyRequest
  <2>2. doc' = doc \/ \E s \in {"draft", "in_review", "published"} :
                          doc' = [req[u].entity EXCEPT !.status = s]
    BY DEF RequestReview, Keep, EndStage, RequestChanges, CancelReview, Published
  <2> QED BY <2>1, <2>2 DEF AnyDocument
<1>3. flow' \in [Reviews -> Flow]
  <2>1. CASE RequestReview(u)
    <3>1. \A s \in {"reviewer", "approver"} : [NoFlow EXCEPT !.status = s] \in Flow
      BY DEF NoFlow, Flow
    <3> QED BY <2>1, <3>1, FlowTyped DEF RequestReview, Types
  <2>2. CASE UNCHANGED flow
    BY <2>2 DEF Types
  <2>3. \A d \in {"approved", "changes"}, s \in {"approved", "approver", "changes"} :
            i \in Reviews => /\ Decided(u, d) \in Flow
                             /\ [Decided(u, d) EXCEPT !.status = s] \in Flow
    <3>1. \A f \in Flow, s \in {"approved", "approver", "changes"} : [f EXCEPT !.status = s] \in Flow
      BY DEF Flow
    <3> QED BY <3>1, DecidedTyped
  <2>4. CASE Keep(u)
    BY <2>3, <2>4, FlowTyped DEF Keep
  <2>5. CASE EndStage(u) /\ ~ UNCHANGED flow
    BY <2>3, <2>5, FlowTyped DEF EndStage
  <2>6. CASE RequestChanges(u)
    BY <2>3, <2>6, FlowTyped DEF RequestChanges
  <2>7. CASE CancelReview(u)
    <3>1. i \in Reviews => [flow[i] EXCEPT !.status = "cancelled"] \in Flow
      BY DEF Types, Flow
    <3>2. flow' = [flow EXCEPT ![i] = [flow[i] EXCEPT !.status = "cancelled"]]
      BY <2>7 DEF CancelReview
    <3> QED BY <3>1, <3>2, FlowTyped
  <2> QED BY <2>1, <2>2, <2>4, <2>5, <2>6, <2>7
<1> QED BY <1>1, <1>2, <1>3, DoneTyped, UnlockedTyped DEF Types

\* Every step keeps the types.
LEMMA NextTypes == ASSUME Types, [Next]_vars PROVE Types'
<1>1. CASE UNCHANGED vars
  BY <1>1 DEF vars, Types
<1> QED BY <1>1, BeginTyped, CheckTyped, LocksTyped, SaveWritesTyped, DecideTyped, EndingsTyped
        DEF Next, Step

--------------------------------------------------------------------------------
(* Steps while no two requests have met *)

\* A step of user u that writes no new text: the others keep what they have read, and
\* their locks as far as they are saving.
LEMMA Quiet ==
    ASSUME Calm, Types', NEW u \in Users,
           doc'.rev = doc.rev, doc'.text = doc.text, seen' = seen,
           \A v \in Users \ {u} : req'[v] = req[v],
           \A v \in Users \ {u} : req[v].kind = "save" => (Holds(v)' <=> Holds(v)),
           req'[u].kind \in {"none", req[u].kind},
           Current(u)'
    PROVE  Calm'
<1>1. \A v \in Users : Knows(v)'
  BY DEF Calm, Knows
<1>2. ReviewsApart'
  BY DEF Calm, ReviewsApart, ReviewKinds
<1>3. \A v \in Users \ {u} : Current(v)'
  BY DEF Calm, Current
<1> QED BY <1>1, <1>2, <1>3 DEF Calm

\* A request that has ended has nothing to be current about.
LEMMA EndedIsCurrent == ASSUME NEW u \in Users, req'[u] = NoRequest PROVE Current(u)'
BY DEF Current, NoRequest, ReviewKinds

\* Which requests belong to a review.
LEMMA KindsApart ==
    /\ "save" \notin ReviewKinds /\ "none" \notin ReviewKinds /\ "acquire" \notin ReviewKinds
    /\ "beat" \notin ReviewKinds /\ {"request", "approve", "changes", "cancel"} \subseteq ReviewKinds
BY DEF ReviewKinds

\* The first state: nobody has sent a request.
LEMMA InitCalm == Init => Calm
<1> SUFFICES ASSUME Init PROVE Calm
  OBVIOUS
<1>1. ReviewsApart
  BY KindsApart DEF Init, ReviewsApart, NoRequest
<1>2. \A u \in Users : Current(u) /\ Knows(u)
  BY KindsApart, DocumentAssumption DEF Init, Current, Knows, NoRequest, Editor, Start
<1> QED BY <1>1, <1>2, InitTypes DEF Calm

\* A request begins that meets no other: it has read the row as it is.
LEMMA BeginStep ==
    ASSUME Calm, Types', NEW u \in Users, NEW k \in Kinds, Begin(u, k), ~ Meets(k)
    PROVE  Calm'
<1> DEFINE r == [NoRequest EXCEPT !.kind = k, !.pc = "read",
                                  !.entity = IF k \in {"acquire", "beat"} THEN @ ELSE doc,
                                  !.edit = IF k = "save" THEN made + 1 ELSE 0]
<1>1. r.kind = k /\ r.pc = "read" /\ (k \notin {"acquire", "beat"} => r.entity = doc)
  BY DEF NoRequest
<1>2. req' = [req EXCEPT ![u] = r]
  BY DEF Begin
<1> HIDE DEF r
<1>3. req'[u] = r /\ \A v \in Users \ {u} : req'[v] = req[v]
  BY <1>2 DEF Calm, Types
<1>4. ReviewsApart'
  BY <1>1, <1>3, KindsApart DEF Calm, ReviewsApart, Meets
<1>5. \A v \in Users : Knows(v)'
  BY DEF Calm, Knows, Begin
<1>6. \A v \in Users \ {u} : Current(v)'
  BY <1>3 DEF Calm, Current, Holds, Begin
<1>7. Current(u)'
  BY <1>1, <1>3, KindsApart DEF Current, Begin
<1> QED BY <1>4, <1>5, <1>6, <1>7 DEF Calm

\* A check: a save that passes finds the revision of its editor in the row it holds.
LEMMA CheckStep ==
    ASSUME Calm, Types', NEW u \in Users, Check(u)
    PROVE  Calm'
<1>1. CASE Done(u)
  <2>1. req'[u] = NoRequest /\ \A v \in Users \ {u} : req'[v] = req[v]
    BY <1>1, DoneTyped DEF Calm
  <2>2. Current(u)'
    BY <2>1, EndedIsCurrent
  <2>3. doc' = doc /\ lock' = lock /\ seen' = seen
    BY DEF Check
  <2>4. req'[u].kind = "none" /\ \A v \in Users : Holds(v)' <=> Holds(v)
    BY <2>1, <2>3 DEF NoRequest, Holds
  <2> QED BY <2>1, <2>2, <2>3, <2>4, Quiet
<1>2. ASSUME NEW i \in Active, req[u].kind \in ReviewKinds,
             req' = [req EXCEPT ![u].pc = "checked", ![u].flow = i, ![u].stage = flow[i].status]
      PROVE  Calm'
  <2>1. /\ req'[u].kind = req[u].kind /\ req'[u].entity = req[u].entity
        /\ \A v \in Users \ {u} : req'[v] = req[v]
    BY <1>2 DEF Calm, Types, AnyRequest
  <2>2. Current(u)'
    BY <1>2, <2>1, KindsApart DEF Check, Calm, Current
  <2> QED BY <2>1, <2>2, Quiet DEF Check, Holds
<1>3. ASSUME Passes(u), req' = [req EXCEPT ![u].pc = "checked"], req[u].pc = "read"
      PROVE  Calm'
  <2>1. /\ req'[u].kind = req[u].kind /\ req'[u].entity = req[u].entity /\ req'[u].pc = "checked"
        /\ \A v \in Users \ {u} : req'[v] = req[v]
    BY <1>3 DEF Calm, Types, AnyRequest
  <2>2. req[u].kind = "save" => Holds(u) /\ seen[u].rev = req[u].entity.rev
    BY <1>3 DEF Passes
  <2>3. Current(u)'
    BY <1>3, <2>1, <2>2 DEF Check, Calm, Current, Holds
  <2> QED BY <2>1, <2>3, Quiet DEF Check, Holds
<1> QED BY <1>1, <1>2, <1>3 DEF Check

\* Locks move between users who are not saving.
LEMMA LockStep ==
    ASSUME Calm, Types', NEW u \in Users, Acquire(u) \/ Beat(u)
    PROVE  Calm'
<1>1. Done(u) /\ doc' = doc /\ seen' = seen
  BY DEF Acquire, Beat
<1>2. req'[u] = NoRequest /\ \A v \in Users \ {u} : req'[v] = req[v]
  BY <1>1, DoneTyped DEF Calm
<1>3. \A v \in Users \ {u} : req[v].kind = "save" => (Holds(v)' <=> Holds(v))
  <2>1. CASE Acquire(u)
    BY <2>1 DEF Acquire, Holds, Calm, Types
  <2>2. CASE Beat(u)
    BY <2>2, DocumentAssumption DEF Beat, Holds, Calm, Types
  <2> QED BY <2>1, <2>2
<1>4. req'[u].kind = "none" /\ Current(u)'
  BY <1>2, EndedIsCurrent DEF NoRequest
<1> QED BY <1>1, <1>2, <1>3, <1>4, Quiet

\* A lock is released or expires while its user has no request.
LEMMA UnlockStep ==
    ASSUME Calm, Types', (\E u \in Users : Release(u)) \/ Expire
    PROVE  Calm'
<1>1. doc' = doc /\ seen' = seen /\ req' = req
  BY DEF Release, Expire
<1>2. \A v \in Users : req[v].pc # "idle" => (Holds(v)' <=> Holds(v))
  <2>1. CASE \E u \in Users : Release(u)
    BY <2>1, DocumentAssumption DEF Release, Holds, Unlocked
  <2>2. CASE Expire
    BY <2>2 DEF Expire, Holds, Calm, Types
  <2> QED BY <2>1, <2>2
<1>3. ReviewsApart' /\ \A v \in Users : Knows(v)'
  BY <1>1 DEF Calm, ReviewsApart, Knows
<1>4. \A v \in Users : Current(v)'
  BY <1>1, <1>2 DEF Calm, Current, Types
<1> QED BY <1>3, <1>4 DEF Calm

\* An editor gets the document while its user has no request.
LEMMA LoadStep ==
    ASSUME Calm, Types', NEW u \in Users, Load(u)
    PROVE  Calm'
<1>1. doc' = doc /\ lock' = lock /\ req' = req /\ req[u].pc = "idle"
  BY DEF Load
<1>2. seen'[u] = Editor(doc) /\ \A v \in Users \ {u} : seen'[v] = seen[v]
  BY DEF Load, Calm, Types
<1>3. ReviewsApart'
  BY <1>1 DEF Calm, ReviewsApart
<1>4. \A v \in Users : Knows(v)'
  BY <1>1, <1>2 DEF Calm, Knows, Editor, Types, AnyDocument
<1>5. \A v \in Users : Current(v)'
  BY <1>1, <1>2 DEF Calm, Current, Holds
<1> QED BY <1>3, <1>4, <1>5 DEF Calm

\* A save writes over the row its editor knows; no other request that is checked, and no
\* review, has read that row.
LEMMA SaveStep ==
    ASSUME Calm, Types', NEW u \in Users, Save(u)
    PROVE  Calm' /\ doc.text \subseteq doc'.text
<1>1. req[u].kind = "save" /\ req[u].pc = "checked" /\ Done(u) /\ lock' = lock
  BY DEF Save, At
<1>2. PICK s \in {req[u].entity.status, "published"} :
        doc' = [status |-> s, rev |-> req[u].entity.rev + 1, text |-> seen[u].text \cup {req[u].edit}]
  BY DEF Save
<1>3. Holds(u) /\ req[u].entity.rev = doc.rev /\ seen[u].text = doc.text /\ doc.rev \in Nat
  BY <1>1 DEF Calm, Current, Knows, Types, AnyDocument
<1>4. doc'.rev = doc.rev + 1 /\ doc.text \subseteq doc'.text
  BY <1>2, <1>3
<1>5. req'[u] = NoRequest /\ \A v \in Users \ {u} : req'[v] = req[v]
  BY <1>1, DoneTyped DEF Calm
<1>6. seen'[u] = Editor(doc') /\ \A v \in Users \ {u} : seen'[v] = seen[v]
  BY DEF Save, Calm, Types
<1>7. ReviewsApart'
  BY <1>5, KindsApart DEF Calm, ReviewsApart, NoRequest
<1>8. \A v \in Users : Knows(v)'
  <2>1. Knows(u)'
    BY <1>4, <1>6, <1>3 DEF Knows, Editor
  <2>2. ASSUME NEW v \in Users \ {u} PROVE Knows(v)'
    <3>1. seen[v].rev \in Nat /\ seen[v].rev <= doc.rev
      BY DEF Calm, Knows, Types, AnyCopy
    <3> QED BY <1>3, <1>4, <1>6, <3>1 DEF Knows
  <2> QED BY <2>1, <2>2
<1>9. \A v \in Users : Current(v)'
  <2>1. Current(u)'
    BY <1>5, EndedIsCurrent
  <2>2. ASSUME NEW v \in Users \ {u} PROVE Current(v)'
    <3>1. ~ Holds(v) /\ ~ Holds(v)'
      BY <1>1, <1>3 DEF Holds
    <3>2. req[v].kind \notin ReviewKinds
      BY <1>1, KindsApart DEF Calm, ReviewsApart
    <3>3. ~ (req[v].kind = "save" /\ req[v].pc = "checked")
      BY <3>1 DEF Calm, Current
    <3> QED BY <1>5, <3>1, <3>2, <3>3 DEF Current
  <2> QED BY <2>1, <2>2
<1> QED BY <1>4, <1>7, <1>8, <1>9 DEF Calm

\* An approval has been counted.
LEMMA DecideStep ==
    ASSUME Calm, Types', NEW u \in Users, Decide(u)
    PROVE  Calm'
<1>1. req[u].kind = "approve" /\ doc' = doc /\ lock' = lock /\ seen' = seen
  BY DEF Decide, At
<1>2. /\ req'[u].kind = "approve" /\ req'[u].entity = req[u].entity
      /\ \A v \in Users \ {u} : req'[v] = req[v]
  <2>1. PICK pc : req' = [req EXCEPT ![u].pc = pc]
    BY DEF Decide
  <2> QED BY <1>1, <2>1 DEF Calm, Types, AnyRequest
<1>3. Current(u)'
  BY <1>1, <1>2 DEF Calm, Current
<1> QED BY <1>1, <1>2, <1>3, Quiet DEF Holds

\* A request of a review ends: nobody is saving, and the row keeps its text.
LEMMA EndingsStep ==
    ASSUME Calm, Types', NEW u \in Users,
           RequestReview(u) \/ Keep(u) \/ EndStage(u) \/ RequestChanges(u) \/ CancelReview(u)
    PROVE  Calm' /\ doc.text \subseteq doc'.text
<1>1. req[u].kind \in ReviewKinds /\ Done(u) /\ seen' = seen
  BY KindsApart DEF RequestReview, Keep, EndStage, RequestChanges, CancelReview, At
<1>2. req[u].entity \in AnyDocument /\ req[u].entity.rev = doc.rev /\ req[u].entity.text = doc.text
  BY <1>1 DEF Calm, Types, AnyRequest, Current
<1>3. doc'.rev = doc.rev /\ doc'.text = doc.text
  <2>1. doc' = doc \/ \E s \in {"draft", "in_review", "published"} :
                          doc' = [req[u].entity EXCEPT !.status = s]
    BY DEF RequestReview, Keep, EndStage, RequestChanges, CancelReview, Published
  <2> QED BY <1>2, <2>1 DEF AnyDocument
<1>4. req'[u] = NoRequest /\ \A v \in Users \ {u} : req'[v] = req[v]
  BY <1>1, DoneTyped DEF Calm
<1>5. \A v \in Users \ {u} : req[v].kind # "save"
  BY <1>1 DEF Calm, ReviewsApart
<1>6. req'[u].kind = "none" /\ Current(u)'
  BY <1>4, EndedIsCurrent DEF NoRequest
<1> QED BY <1>1, <1>3, <1>4, <1>5, <1>6, Quiet

\* A step keeps all that, and the text that is there.
LEMMA NextCalm ==
    ASSUME Calm, [Next]_vars, ~ overlap'
    PROVE  Calm' /\ doc.text \subseteq doc'.text
<1>1. Types'
  BY NextTypes DEF Calm
<1>2. CASE UNCHANGED vars
  <2>1. ReviewsApart'
    BY <1>2 DEF vars, Calm, ReviewsApart
  <2>2. \A u \in Users : Current(u)' /\ Knows(u)'
    BY <1>2 DEF vars, Calm, Current, Knows, Holds
  <2> QED BY <1>1, <1>2, <2>1, <2>2 DEF vars, Calm
<1>3. ASSUME NEW u \in Users, Step(u) PROVE Calm' /\ doc.text \subseteq doc'.text
  <2>1. CASE Check(u)
    BY <1>1, <2>1, CheckStep DEF Check
  <2>2. CASE Acquire(u) \/ Beat(u)
    BY <1>1, <2>2, LockStep DEF Acquire, Beat
  <2>3. CASE Save(u)
    BY <1>1, <2>3, SaveStep
  <2>4. CASE Decide(u)
    BY <1>1, <2>4, DecideStep DEF Decide
  <2>5. CASE RequestReview(u) \/ Keep(u) \/ EndStage(u) \/ RequestChanges(u) \/ CancelReview(u)
    BY <1>1, <2>5, EndingsStep
  <2> QED BY <1>3, <2>1, <2>2, <2>3, <2>4, <2>5 DEF Step
<1>4. ASSUME NEW u \in Users, Load(u) PROVE Calm' /\ doc.text \subseteq doc'.text
  BY <1>1, <1>4, LoadStep DEF Load
<1>5. ASSUME NEW u \in Users, NEW k \in Kinds, Begin(u, k) PROVE Calm' /\ doc.text \subseteq doc'.text
  <2>1. ~ Meets(k) /\ doc' = doc
    BY <1>5 DEF Begin
  <2> QED BY <1>1, <1>5, <2>1, BeginStep
<1>6. CASE (\E u \in Users : Release(u)) \/ Expire
  <2>1. doc' = doc
    BY <1>6 DEF Release, Expire
  <2> QED BY <1>1, <1>6, <2>1, UnlockStep
<1> QED BY <1>2, <1>3, <1>4, <1>5, <1>6 DEF Next

\* Requests that have met have met.
LEMMA OverlapStays == ASSUME [Next]_vars, ~ overlap' PROVE ~ overlap
BY DEF Next, Step, vars, Begin, Check, Acquire, Beat, Save, RequestReview, Decide, Keep, EndStage,
       RequestChanges, CancelReview, Load, Release, Expire

--------------------------------------------------------------------------------
(* No saved edit is lost *)

\* The invariant is inductive.
LEMMA NextInv == ASSUME IInv, [Next]_vars PROVE IInv'
BY NextTypes, NextCalm, OverlapStays DEF IInv

\* No save overwrites an edit that its user has not seen, as long as no request of a review
\* has run next to a save or to another: the edit lock and the comparison of revisions
\* are enough, though the comparison is with a row read before.
THEOREM EditsSurvive == Spec => NoLostEdit
<1>1. Init => IInv
  BY InitTypes, InitCalm DEF IInv
<1>2. IInv /\ [Next]_vars => IInv'
  BY NextInv
<1>3. IInv /\ [Next]_vars => [~ overlap' => doc.text \subseteq doc'.text]_vars
  BY NextCalm, OverlapStays DEF IInv
<1> QED BY <1>1, <1>2, <1>3, PTL DEF Spec, NoLostEdit

--------------------------------------------------------------------------------
(* Everyone decides *)

\* No seat of a stage of review i is still to decide.
Settled(i, stage) == \A p \in Seats : p[2] = stage => flow[i].decision[p] # "pending"

\* The stages of review i that are over.
Staged(i) ==
    /\ flow[i].status = "approver" => Settled(i, "reviewer")
    /\ flow[i].status = "approved" => Settled(i, "reviewer") /\ Settled(i, "approver")

\* A checked decision is about a review that was requested, and given from a seat of its
\* stage, which follows the stages before it.  The last of a stage follows the others.
Deciding(u) ==
    req[u].kind \in {"approve", "changes", "cancel"} /\ req[u].pc # "read" =>
        /\ req[u].flow \in Reviews /\ flow[req[u].flow].status # "none"
        /\ req[u].stage \in {"reviewer", "approver"}
        /\ req[u].stage = "approver" => Settled(req[u].flow, "reviewer")
        /\ req[u].kind \in {"approve", "changes"} => Seat(u) \in Seats
        /\ req[u].pc = "last" =>
              \A p \in Seats \ {Seat(u)} :
                  p[2] = req[u].stage => flow[req[u].flow].decision[p] # "pending"

\* The second invariant.
RInv ==
    /\ Types
    /\ \A i, j \in Active : i = j
    /\ \A i \in Reviews : Staged(i)
    /\ \A u \in Users : Deciding(u)

\* A seat belongs to one of two stages.
LEMMA SeatsStaged == \A p \in Seats :
    /\ p[2] \in {"reviewer", "approver"}
    /\ p[2] = "reviewer" => Reviewers # {}
    /\ p[2] = "approver" => Approvers # {}
BY DEF Seats

\* The first state: no review has been requested.
LEMMA InitReviews == Init => RInv
<1> SUFFICES ASSUME Init PROVE RInv
  OBVIOUS
<1>1. \A i \in Reviews : flow[i].status = "none"
  BY DEF Init, NoFlow
<1>2. Active = {} /\ \A i \in Reviews : Staged(i)
  BY <1>1 DEF Active, Staged
<1>3. \A u \in Users : Deciding(u)
  BY DEF Init, Deciding, NoRequest
<1> QED BY <1>2, <1>3, InitTypes DEF RInv

\* A step of user u that changes no review.
LEMMA SameReviews ==
    ASSUME RInv, Types', NEW u \in Users, flow' = flow,
           \A v \in Users \ {u} : req'[v] = req[v],
           Deciding(u)'
    PROVE  RInv'
<1>1. Active' = Active /\ \A i \in Reviews : Staged(i)'
  BY DEF Active, RInv, Staged, Settled
<1>2. \A v \in Users \ {u} : Deciding(v)'
  BY DEF RInv, Deciding, Seat, Settled
<1> QED BY <1>1, <1>2 DEF RInv

\* A request that has ended decides nothing.
LEMMA EndedDecides == ASSUME NEW u \in Users, req'[u] = NoRequest PROVE Deciding(u)'
BY DEF Deciding, NoRequest

\* A request of a review ends and writes review i, which it does not take back: what was
\* decided stays decided.
LEMMA OneReview ==
    ASSUME RInv, Types', NEW u \in Users, Done(u),
           NEW i \in Reviews, NEW f \in Flow, flow' = [flow EXCEPT ![i] = f],
           f.status # "none",
           f.status \in {"reviewer", "approver"} => Active \subseteq {i},
           flow[i].status # "none" =>
               \A p \in Seats : flow[i].decision[p] # "pending" => f.decision[p] # "pending",
           Staged(i)'
    PROVE  RInv'
<1>1. flow'[i] = f /\ \A j \in Reviews \ {i} : flow'[j] = flow[j]
  BY DEF RInv, Types
<1>2. \A j, k \in Active' : j = k
  <2>1. CASE f.status \in {"reviewer", "approver"}
    BY <1>1, <2>1 DEF Active
  <2>2. CASE f.status \notin {"reviewer", "approver"}
    <3>1. Active' \subseteq Active
      BY <1>1, <2>2 DEF Active
    <3> QED BY <3>1 DEF RInv
  <2> QED BY <2>1, <2>2
<1>3. \A j \in Reviews : Staged(j)'
  BY <1>1 DEF RInv, Staged, Settled
<1>4. req'[u] = NoRequest /\ \A v \in Users \ {u} : req'[v] = req[v]
  BY DoneTyped DEF RInv
<1>5. ASSUME NEW v \in Users \ {u} PROVE Deciding(v)'
  <2> SUFFICES ASSUME req[v].kind \in {"approve", "changes", "cancel"}, req[v].pc # "read"
               PROVE  Deciding(v)'
    BY <1>4 DEF Deciding
  <2> DEFINE j == req[v].flow
  <2>1. Deciding(v) /\ j \in Reviews /\ flow[j].status # "none"
    BY DEF RInv, Deciding
  <2>2. flow'[j].status # "none"
    BY <1>1, <2>1
  <2>3. \A p \in Seats : flow[j].decision[p] # "pending" => flow'[j].decision[p] # "pending"
    BY <1>1, <2>1
  <2>4. Settled(j, "reviewer") => \A p \in Seats : p[2] = "reviewer" => flow'[j].decision[p] # "pending"
    BY <2>3 DEF Settled
  <2>5. req'[v] = req[v] /\ Seat(v)' = Seat(v)
    BY <1>4 DEF Seat
  <2> HIDE DEF j
  <2> QED BY <2>1, <2>2, <2>3, <2>4, <2>5 DEF Deciding, Settled, j
<1> QED BY <1>2, <1>3, <1>4, <1>5, EndedDecides DEF RInv

\* A request begins.
LEMMA BeginDecides ==
    ASSUME RInv, Types', NEW u \in Users, NEW k \in Kinds, Begin(u, k)
    PROVE  RInv'
<1>1. req'[u].pc = "read" /\ \A v \in Users \ {u} : req'[v] = req[v]
  BY DEF Begin, NoRequest, RInv, Types
<1>2. Deciding(u)'
  BY <1>1 DEF Deciding
<1> QED BY <1>1, <1>2, SameReviews DEF Begin

\* A check of an action of a review finds it active, and the seat of its user.
LEMMA CheckDecides ==
    ASSUME RInv, Types', NEW u \in Users, Check(u)
    PROVE  RInv'
<1>1. flow' = flow
  BY DEF Check
<1>2. \A v \in Users \ {u} : req'[v] = req[v]
  BY DoneTyped DEF Check, RInv, Types
<1>3. Deciding(u)'
  <2>1. CASE Done(u)
    BY <2>1, DoneTyped, EndedDecides DEF RInv
  <2>2. ASSUME NEW i \in Active, MayAct(u, i), req[u].kind \in ReviewKinds \ {"request"},
               req' = [req EXCEPT ![u].pc = "checked", ![u].flow = i, ![u].stage = flow[i].status]
        PROVE  Deciding(u)'
    <3>1. /\ req'[u].kind = req[u].kind /\ req'[u].pc = "checked"
          /\ req'[u].flow = i /\ req'[u].stage = flow[i].status
      BY <2>2 DEF RInv, Types, AnyRequest
    <3>2. req[u].kind = "cancel" \/ <<u, flow[i].status>> \in Seats
      BY <2>2 DEF MayAct
    <3>3. Seat(u)' = <<u, flow[i].status>>
      BY <3>1 DEF Seat
    <3>4. i \in Reviews /\ flow[i].status \in {"reviewer", "approver"} /\ Staged(i)
      BY DEF Active, RInv
    <3>5. flow[i].status = "approver" => Settled(i, "reviewer")'
      BY <1>1, <3>4 DEF Staged, Settled
    <3> QED BY <1>1, <2>2, <3>1, <3>2, <3>3, <3>4, <3>5 DEF Deciding
  <2>3. ASSUME req[u].kind \notin ReviewKinds \ {"request"}, req' = [req EXCEPT ![u].pc = "checked"]
        PROVE  Deciding(u)'
    <3>1. req'[u].kind = req[u].kind
      BY <2>3 DEF RInv, Types, AnyRequest
    <3> QED BY <2>3, <3>1 DEF Deciding, ReviewKinds
  <2> QED BY <2>1, <2>2, <2>3 DEF Check
<1> QED BY <1>1, <1>2, <1>3, SameReviews

\* An approval counts the decisions still pending.
LEMMA DecideCounts ==
    ASSUME RInv, Types', NEW u \in Users, Decide(u)
    PROVE  RInv'
<1> DEFINE others == {p \in Seats \ {Seat(u)} : p[2] = req[u].stage}
<1>1. PICK pc \in {"keep", "last"} :
        /\ req' = [req EXCEPT ![u].pc = pc]
        /\ pc = "last" => ~ \E p \in others : flow[req[u].flow].decision[p] = "pending"
  BY DEF Decide
<1>2. req[u].kind = "approve" /\ req[u].pc = "checked" /\ flow' = flow
  BY DEF Decide, At
<1>3. /\ req'[u].kind = "approve" /\ req'[u].flow = req[u].flow /\ req'[u].stage = req[u].stage
      /\ req'[u].pc = pc
      /\ \A v \in Users \ {u} : req'[v] = req[v]
  BY <1>1, <1>2 DEF RInv, Types, AnyRequest
<1>4. Seat(u)' = Seat(u) /\ \A i : Settled(i, "reviewer")' <=> Settled(i, "reviewer")
  BY <1>2, <1>3 DEF Seat, Settled
<1>5. Deciding(u)'
  BY <1>1, <1>2, <1>3, <1>4 DEF RInv, Deciding
<1> QED BY <1>2, <1>3, <1>5, SameReviews

\* A review opens when none is active.
LEMMA RequestOpens ==
    ASSUME RInv, Types', NEW u \in Users, RequestReview(u)
    PROVE  RInv'
<1> DEFINE first == IF Reviewers # {} THEN "reviewer" ELSE "approver"
<1>1. Done(u)
  BY DEF RequestReview
<1>2. CASE flow' = flow
  BY <1>1, <1>2, DoneTyped, EndedDecides, SameReviews DEF RInv
<1>3. ASSUME Active = {}, NEW i \in Free, flow' = [flow EXCEPT ![i] = [NoFlow EXCEPT !.status = first]]
      PROVE  RInv'
  <2>1. PICK f : f = [NoFlow EXCEPT !.status = first]
    OBVIOUS
  <2>2. f \in Flow /\ f.status = first
    BY <2>1 DEF NoFlow, Flow
  <2>3. first \in {"reviewer", "approver"} /\ (first = "approver" => Reviewers = {})
    OBVIOUS
  <2>4. i \in Reviews /\ flow[i].status = "none"
    BY DEF Free
  <2> HIDE DEF first
  <2>5. flow'[i] = f
    BY <1>3, <2>1, <2>4 DEF RInv, Types
  <2>6. Staged(i)'
    BY <2>2, <2>3, <2>5, SeatsStaged DEF Staged, Settled
  <2> QED BY <1>1, <1>3, <2>1, <2>2, <2>3, <2>4, <2>6, OneReview
<1> QED BY <1>2, <1>3 DEF RequestReview

\* An approval that is not the last of its stage.
LEMMA KeepDecides ==
    ASSUME RInv, Types', NEW u \in Users, Keep(u)
    PROVE  RInv'
<1>1. /\ req[u].kind = "approve" /\ req[u].pc = "keep" /\ Done(u)
      /\ flow' = [flow EXCEPT ![req[u].flow] = Decided(u, "approved")]
  BY DEF Keep, At
<1>2. PICK i \in Reviews : i = req[u].flow /\ flow[i].status # "none" /\ Seat(u) \in Seats
  BY <1>1 DEF RInv, Deciding
<1>3. PICK f : f = Decided(u, "approved")
  OBVIOUS
<1>4. /\ f \in Flow /\ f.status = flow[i].status /\ f.decision[Seat(u)] = "approved"
      /\ \A p \in Seats \ {Seat(u)} : f.decision[p] = flow[i].decision[p]
  BY <1>2, <1>3, DecidedTyped DEF RInv
<1>5. flow' = [flow EXCEPT ![i] = f] /\ flow'[i] = f
  BY <1>1, <1>2, <1>3 DEF RInv, Types
<1>6. \A p \in Seats : flow[i].decision[p] # "pending" => f.decision[p] # "pending"
  BY <1>4
<1>7. Staged(i)'
  BY <1>4, <1>5, <1>6 DEF RInv, Staged, Settled
<1>8. f.status \in {"reviewer", "approver"} => Active \subseteq {i}
  BY <1>4 DEF RInv, Active
<1> QED BY <1>1, <1>2, <1>4, <1>5, <1>6, <1>7, <1>8, OneReview

\* The last approval of a stage opens the next, or ends the review.
LEMMA EndStageDecides ==
    ASSUME RInv, Types', NEW u \in Users, EndStage(u)
    PROVE  RInv'
<1>1. req[u].kind = "approve" /\ req[u].pc = "last" /\ Done(u)
  BY DEF EndStage, At
<1>2. PICK i \in Reviews : i = req[u].flow /\ flow[i].status # "none" /\ Seat(u) \in Seats
  BY <1>1 DEF RInv, Deciding
<1>3. PICK g : g = Decided(u, "approved")
  OBVIOUS
<1>4. /\ g \in Flow /\ g.decision[Seat(u)] = "approved"
      /\ \A p \in Seats \ {Seat(u)} : g.decision[p] = flow[i].decision[p]
  BY <1>2, <1>3, DecidedTyped DEF RInv
<1>5. /\ req[u].stage \in {"reviewer", "approver"}
      /\ \A p \in Seats : p[2] = req[u].stage => g.decision[p] # "pending"
  BY <1>1, <1>2, <1>4 DEF RInv, Deciding
<1>6. req[u].stage = "approver" => \A p \in Seats : p[2] = "reviewer" => g.decision[p] # "pending"
  BY <1>1, <1>2, <1>4 DEF RInv, Deciding, Settled
<1>7. CASE UNCHANGED flow
  BY <1>1, <1>7, DoneTyped, EndedDecides, SameReviews DEF RInv
<1>8. ASSUME NEW s, flow' = [flow EXCEPT ![i] = [g EXCEPT !.status = s]],
             \/ s = "approver" /\ req[u].stage = "reviewer" /\ Active \subseteq {i}
             \/ s = "approved" /\ ~ (req[u].stage = "reviewer" /\ Approvers # {})
      PROVE  RInv'
  <2>1. PICK f : f = [g EXCEPT !.status = s]
    OBVIOUS
  <2>2. f \in Flow /\ f.status = s /\ f.decision = g.decision
    BY <1>4, <1>8, <2>1 DEF Flow
  <2>3. flow'[i] = f
    BY <1>8, <2>1 DEF RInv, Types
  <2>4. \A p \in Seats : flow[i].decision[p] # "pending" => f.decision[p] # "pending"
    BY <1>4, <2>2
  <2>5. Staged(i)'
    BY <1>5, <1>6, <1>8, <2>2, <2>3, SeatsStaged DEF Staged, Settled
  <2> QED BY <1>1, <1>8, <2>1, <2>2, <2>4, <2>5, OneReview
<1> QED BY <1>2, <1>3, <1>7, <1>8 DEF EndStage

\* A review ends without approval.
LEMMA RefusalDecides ==
    ASSUME RInv, Types', NEW u \in Users, RequestChanges(u) \/ CancelReview(u)
    PROVE  RInv'
<1>1. req[u].kind \in {"changes", "cancel"} /\ req[u].pc = "checked" /\ Done(u)
  BY DEF RequestChanges, CancelReview, At
<1>2. PICK i \in Reviews : /\ i = req[u].flow /\ flow[i].status # "none"
                           /\ req[u].kind = "changes" => Seat(u) \in Seats
  BY <1>1 DEF RInv, Deciding
<1>3. PICK f \in Flow :
        /\ f.status \in {"changes", "cancelled"} /\ flow' = [flow EXCEPT ![i] = f]
        /\ \A p \in Seats : flow[i].decision[p] # "pending" => f.decision[p] # "pending"
  <2>1. CASE RequestChanges(u)
    <3>1. PICK g : g = Decided(u, "changes")
      OBVIOUS
    <3>2. /\ g \in Flow /\ g.decision[Seat(u)] = "changes"
          /\ \A p \in Seats \ {Seat(u)} : g.decision[p] = flow[i].decision[p]
      BY <1>2, <2>1, <3>1, DecidedTyped DEF RequestChanges, At, RInv
    <3>3. PICK f : f = [g EXCEPT !.status = "changes"]
      OBVIOUS
    <3>4. f \in Flow /\ f.status = "changes" /\ f.decision = g.decision
      BY <3>2, <3>3 DEF Flow
    <3>5. flow' = [flow EXCEPT ![i] = f]
      BY <1>2, <2>1, <3>1, <3>3 DEF RequestChanges
    <3> QED BY <3>2, <3>4, <3>5
  <2>2. CASE CancelReview(u)
    <3>1. PICK f : f = [flow[i] EXCEPT !.status = "cancelled"]
      OBVIOUS
    <3>2. f \in Flow /\ f.status = "cancelled" /\ f.decision = flow[i].decision
      BY <3>1 DEF RInv, Types, Flow
    <3>3. flow' = [flow EXCEPT ![i] = f]
      BY <1>2, <2>2, <3>1 DEF CancelReview, RInv, Types
    <3> QED BY <3>2, <3>3
  <2> QED BY <2>1, <2>2
<1>4. flow'[i] = f /\ Staged(i)'
  BY <1>3 DEF RInv, Types, Staged
<1> QED BY <1>1, <1>2, <1>3, <1>4, OneReview

\* Every step keeps the second invariant.
LEMMA NextReviews == ASSUME RInv, [Next]_vars PROVE RInv'
<1>1. Types'
  BY NextTypes DEF RInv
<1>2. CASE UNCHANGED <<flow, req>>
  <2>1. Active' = Active /\ \A i \in Reviews : Staged(i)'
    BY <1>2 DEF Active, RInv, Staged, Settled
  <2>2. \A u \in Users : Deciding(u)'
    BY <1>2 DEF RInv, Deciding, Seat, Settled
  <2> QED BY <1>1, <2>1, <2>2 DEF RInv
<1>3. ASSUME NEW u \in Users, Step(u) PROVE RInv'
  <2>1. CASE Acquire(u) \/ Beat(u) \/ Save(u)
    <3>1. flow' = flow /\ Done(u)
      BY <2>1 DEF Acquire, Beat, Save
    <3> QED BY <1>1, <3>1, DoneTyped, EndedDecides, SameReviews DEF RInv
  <2> QED BY <1>1, <1>3, <2>1, CheckDecides, DecideCounts, RequestOpens, KeepDecides,
             EndStageDecides, RefusalDecides DEF Step
<1>4. ASSUME NEW u \in Users, NEW k \in Kinds, Begin(u, k) PROVE RInv'
  BY <1>1, <1>4, BeginDecides
<1>5. CASE Expire \/ \E u \in Users : Release(u) \/ Load(u)
  BY <1>2, <1>5 DEF Expire, Release, Load
<1> QED BY <1>2, <1>3, <1>4, <1>5 DEF Next, vars

\* A review ends approved only once every reviewer and every approver has decided: an
\* approval counts the decisions of a stage in one step and ends the stage in another, but
\* none is ever taken back, whichever requests save the review over one another.
THEOREM EveryoneHasDecided == Spec => []EveryoneDecides
<1>1. RInv => EveryoneDecides
  BY SeatsStaged DEF RInv, EveryoneDecides, Staged, Settled
<1>2. RInv /\ [Next]_vars => RInv'
  BY NextReviews
<1> QED BY InitReviews, <1>1, <1>2, PTL DEF Spec

--------------------------------------------------------------------------------
(* Revisions are counted by the edits made *)

\* No revision is ahead of the edits made, a save still under way has one of them to
\* itself, and a lock without a user is not live.
Counted ==
    /\ doc.rev <= made
    /\ \A u \in Users : req[u].entity.rev <= made /\ seen[u].rev <= made
    /\ \A u \in Users : req[u].kind = "save" => req[u].entity.rev < req[u].edit /\ req[u].edit <= made
    /\ lock.user = NoUser => ~ lock.live

\* Before the first request no edit is made and no revision counted.
LEMMA CInit == Init => Counted
BY DocumentAssumption DEF Init, Counted, Start, NoRequest, Unlocked, Editor

\* A step that makes no edit, and whose document is the row or what a request has read
\* of it: the requests go on with what they have or end.
LEMMA CountedStep ==
    ASSUME Types, Types', Counted, NEW u \in Users, made' = made,
           doc'.rev <= made,
           lock'.user = NoUser => ~ lock'.live,
           \A v \in Users : seen'[v] = seen[v] \/ seen'[v].rev = doc'.rev,
           \A v \in Users \ {u} : req'[v] = req[v],
           \/ req'[u] = NoRequest
           \/ /\ req'[u].kind = req[u].kind /\ req'[u].entity = req[u].entity
              /\ req'[u].edit = req[u].edit
    PROVE  Counted'
<1>1. made \in Nat
  BY DocumentAssumption DEF Types
<1>2. req'[u].entity.rev <= made
  BY <1>1 DEF Counted, NoRequest, Start
<1>3. req'[u].kind = "save" => req'[u].entity.rev < req'[u].edit /\ req'[u].edit <= made
  BY DEF Counted, NoRequest
<1>4. \A v \in Users : seen'[v].rev <= made
  BY DEF Counted
<1> QED BY <1>2, <1>3, <1>4 DEF Counted

\* A save begins with an edit of its own, later than the revision it reads.
LEMMA BeginCounted ==
    ASSUME Types, Counted, NEW u \in Users, NEW k \in Kinds, Begin(u, k) PROVE Counted'
<1>1. PICK n, e, d :
        /\ n = made' /\ n = (IF k = "save" THEN made + 1 ELSE made)
        /\ d = (IF k = "save" THEN made + 1 ELSE 0)
        /\ e = (IF k \in {"acquire", "beat"} THEN Start ELSE doc)
        /\ req' = [req EXCEPT ![u] = [NoRequest EXCEPT !.kind = k, !.pc = "read",
                                       !.entity = e, !.edit = d]]
  BY DEF Begin, NoRequest
<1>2. /\ req'[u].kind = k /\ req'[u].entity = e /\ req'[u].edit = d
      /\ \A v \in Users \ {u} : req'[v] = req[v]
  BY <1>1 DEF Types, NoRequest
<1>3. made \in Nat /\ doc.rev \in Nat /\ Start.rev = 0
  BY DocumentAssumption DEF Types, AnyDocument, Start
<1>4. e.rev \in Nat /\ e.rev <= made /\ made <= n
  BY <1>1, <1>3 DEF Counted
<1>5. \A v \in Users : req'[v].entity.rev <= n
  <2>1. \A v \in Users : req[v].entity.rev \in Nat
    BY DEF Types, AnyRequest, AnyDocument
  <2> QED BY <1>1, <1>2, <1>3, <1>4, <2>1 DEF Counted
<1>6. \A v \in Users : req'[v].kind = "save" =>
          req'[v].entity.rev < req'[v].edit /\ req'[v].edit <= n
  <2>1. \A v \in Users : req[v].edit \in Nat
    BY DocumentAssumption DEF Types, AnyRequest
  <2> QED BY <1>1, <1>2, <1>3, <1>4, <2>1 DEF Counted
<1>7. UNCHANGED <<doc, lock, seen>>
  BY DEF Begin
<1>8. doc.rev <= n /\ \A v \in Users : seen[v].rev <= n
  <2>1. \A v \in Users : seen[v].rev \in Nat
    BY DEF Types, AnyCopy
  <2> QED BY <1>1, <1>3, <2>1 DEF Counted
<1> QED BY <1>1, <1>5, <1>6, <1>7, <1>8 DEF Counted

\* A check changes neither the document nor what the request has read.
LEMMA CheckCounted ==
    ASSUME Types, Types', Counted, NEW u \in Users, Check(u) PROVE Counted'
<1>1. /\ \A v \in Users \ {u} : req'[v] = req[v]
      /\ \/ req'[u] = NoRequest
         \/ /\ req'[u].kind = req[u].kind /\ req'[u].entity = req[u].entity
            /\ req'[u].edit = req[u].edit
  <2>1. CASE Done(u)
    BY <2>1, DoneTyped
  <2>2. ASSUME NEW i, NEW st,
               req' = [req EXCEPT ![u].pc = "checked", ![u].flow = i, ![u].stage = st]
        PROVE  /\ \A v \in Users \ {u} : req'[v] = req[v]
               /\ req'[u].kind = req[u].kind /\ req'[u].entity = req[u].entity
               /\ req'[u].edit = req[u].edit
    <3> DEFINE r == [req[u] EXCEPT !.pc = "checked", !.flow = i, !.stage = st]
    <3>1. r.kind = req[u].kind /\ r.entity = req[u].entity /\ r.edit = req[u].edit
      BY DEF Types, AnyRequest
    <3>2. req' = [req EXCEPT ![u] = r]
      BY <2>2 DEF Types
    <3> HIDE DEF r
    <3> QED BY <3>1, <3>2 DEF Types
  <2>3. CASE req' = [req EXCEPT ![u].pc = "checked"]
    BY <2>3 DEF Types, AnyRequest
  <2> QED BY <2>1, <2>2, <2>3 DEF Check
<1> QED BY <1>1, CountedStep DEF Check, Counted

\* A request that ends with the document it has read, its lock released or not.
LEMMA DoneCounted ==
    ASSUME Types, Types', Counted, NEW u \in Users, Done(u), made' = made,
           doc'.rev \in {doc.rev, req[u].entity.rev},
           \A v \in Users : seen'[v] = seen[v] \/ seen'[v].rev = doc'.rev,
           lock'.user = NoUser => ~ lock'.live
    PROVE  Counted'
<1>1. req'[u] = NoRequest /\ \A v \in Users \ {u} : req'[v] = req[v]
  BY DoneTyped
<1>2. doc'.rev <= made
  BY DEF Counted
<1> QED BY <1>1, <1>2, CountedStep

\* A save counts its own edit.
LEMMA SaveCounted ==
    ASSUME Types, Types', Counted, NEW u \in Users, Save(u) PROVE Counted'
<1>1. /\ req[u].kind = "save" /\ doc'.rev = req[u].entity.rev + 1
      /\ made' = made /\ lock' = lock /\ Done(u)
      /\ \A v \in Users : seen'[v] = seen[v] \/ seen'[v].rev = doc'.rev
  BY DEF Save, At, Types, Editor
<1>2. req'[u] = NoRequest /\ \A v \in Users \ {u} : req'[v] = req[v]
  BY <1>1, DoneTyped
<1>3. req[u].entity.rev \in Nat /\ req[u].edit \in Nat /\ made \in Nat
  BY DocumentAssumption DEF Types, AnyRequest, AnyDocument
<1>4. doc'.rev <= made
  BY <1>1, <1>3 DEF Counted
<1> QED BY <1>1, <1>2, <1>4, CountedStep DEF Counted

\* The requests of a review write the document with the revision they have read.
LEMMA ReviewCounted ==
    ASSUME Types, Types', Counted, NEW u \in Users,
           RequestReview(u) \/ Keep(u) \/ EndStage(u) \/ RequestChanges(u) \/ CancelReview(u)
    PROVE  Counted'
<1>1. Done(u) /\ made' = made /\ seen' = seen
  BY DEF RequestReview, Keep, EndStage, RequestChanges, CancelReview
<1>2. \/ doc' = doc
      \/ \E st : doc' = [req[u].entity EXCEPT !.status = st]
  BY DEF RequestReview, Keep, EndStage, RequestChanges, CancelReview, Published
<1>3. doc'.rev \in {doc.rev, req[u].entity.rev}
  <2>1. req[u].entity \in AnyDocument
    BY DEF Types, AnyRequest
  <2> QED BY <1>2, <2>1 DEF AnyDocument
<1>4. lock' = lock \/ lock' = Unlocked
  BY DEF RequestReview, Keep, EndStage, RequestChanges, CancelReview
<1>5. lock'.user = NoUser => ~ lock'.live
  BY <1>4 DEF Unlocked, Counted
<1> QED BY <1>1, <1>3, <1>5, DoneCounted

\* Only a user's lock is live.
LEMMA LocksCounted ==
    ASSUME Types, Types', Counted, NEW u \in Users, Acquire(u) \/ Beat(u) \/ Release(u) \/ Load(u)
    PROVE  Counted'
<1>1. /\ doc' = doc /\ made' = made
      /\ \A v \in Users : seen'[v] = seen[v] \/ seen'[v].rev = doc'.rev
  BY DEF Acquire, Beat, Release, Load, Types, Editor
<1>2. lock' \in {lock, Unlocked, [user |-> u, live |-> TRUE]}
  BY DEF Acquire, Beat, Release, Load
<1>3. lock'.user = NoUser => ~ lock'.live
  BY <1>2, DocumentAssumption DEF Unlocked, Counted
<1>4. CASE Done(u)
  BY <1>1, <1>3, <1>4, DoneCounted
<1>5. CASE req' = req
  BY <1>1, <1>3, <1>5 DEF Counted
<1> QED BY <1>4, <1>5 DEF Acquire, Beat, Release, Load

\* Every step keeps the count.
LEMMA NextCounted == ASSUME Types, Types', Counted, [Next]_vars PROVE Counted'
<1>1. ASSUME NEW u \in Users, Decide(u) PROVE Counted'
  <2>1. /\ doc' = doc /\ lock' = lock /\ made' = made /\ seen' = seen
        /\ \A v \in Users \ {u} : req'[v] = req[v]
        /\ req'[u].kind = req[u].kind /\ req'[u].entity = req[u].entity
        /\ req'[u].edit = req[u].edit
    <3>1. PICK pc : req' = [req EXCEPT ![u].pc = pc]
      BY <1>1 DEF Decide
    <3>2. doc' = doc /\ lock' = lock /\ made' = made /\ seen' = seen
      BY <1>1 DEF Decide
    <3> DEFINE r == [req[u] EXCEPT !.pc = pc]
    <3>3. r.kind = req[u].kind /\ r.entity = req[u].entity /\ r.edit = req[u].edit
      BY DEF Types, AnyRequest
    <3>4. req' = [req EXCEPT ![u] = r]
      BY <3>1 DEF Types
    <3> HIDE DEF r
    <3> QED BY <3>2, <3>3, <3>4 DEF Types
  <2> QED BY <2>1, CountedStep DEF Counted
<1>2. ASSUME NEW u \in Users, Step(u) PROVE Counted'
  BY <1>1, <1>2, CheckCounted, SaveCounted, ReviewCounted, LocksCounted DEF Step
<1>3. CASE Expire
  <2>1. lock' = [lock EXCEPT !.live = FALSE] /\ UNCHANGED <<doc, req, made, seen>>
    BY <1>3 DEF Expire
  <2>2. ~ lock'.live
    BY <2>1 DEF Types
  <2> QED BY <2>1, <2>2 DEF Counted
<1>4. CASE UNCHANGED vars
  BY <1>4 DEF vars, Counted
<1> QED BY <1>2, <1>3, <1>4, BeginCounted, LocksCounted DEF Next

\* Every variable has its type, and one review is active at most: no revision counts more
\* than the edits made, whatever save wrote over what, and no request of a review opens
\* or reopens one next to another.
THEOREM TypeCorrect == Spec => []TypeOK
<1>1. RInv /\ Counted => TypeOK
  <2> SUFFICES ASSUME RInv, Counted PROVE TypeOK
    OBVIOUS
  <2>1. ASSUME NEW d \in AnyDocument, d.rev <= made PROVE d \in Document
    BY <2>1, DocumentAssumption DEF RInv, Types, AnyDocument, Document
  <2>2. doc \in Document
    BY <2>1 DEF RInv, Types, Counted
  <2>3. ASSUME NEW u \in Users PROVE req[u] \in Request
    <3>1. req[u] \in AnyRequest /\ req[u].entity \in Document
      BY <2>1 DEF RInv, Types, Counted, AnyRequest
    <3> QED BY <3>1 DEF AnyRequest, Request
  <2>4. ASSUME NEW u \in Users PROVE seen[u] \in Copy
    <3>1. seen[u] \in AnyCopy /\ seen[u].rev <= made /\ made \in 0 .. MaxEdits
      BY DEF RInv, Types, Counted
    <3>2. seen[u].rev \in 0 .. MaxEdits
      BY <3>1, DocumentAssumption DEF AnyCopy, Document
    <3> QED BY <3>1, <3>2 DEF AnyCopy, Copy
  <2>5. req \in [Users -> Request] /\ seen \in [Users -> Copy]
    BY <2>3, <2>4 DEF RInv, Types
  <2>6. Cardinality(Active) <= 1
    <3>1. CASE Active = {}
      BY <3>1, FS_EmptySet
    <3>2. ASSUME NEW i \in Active PROVE Cardinality(Active) <= 1
      <4>1. Active = {i}
        BY DEF RInv
      <4>2. Cardinality({i}) = 1
        BY FS_Singleton
      <4> QED BY <4>1, <4>2
    <3> QED BY <3>1, <3>2
  <2> QED BY <2>2, <2>5, <2>6 DEF TypeOK, RInv, Types, Counted
<1>2. Init => RInv /\ Counted
  BY InitReviews, CInit
<1>3. RInv /\ Counted /\ [Next]_vars => RInv' /\ Counted'
  <2> SUFFICES ASSUME RInv, Counted, [Next]_vars PROVE RInv' /\ Counted'
    OBVIOUS
  <2>1. RInv'
    BY NextReviews
  <2>2. Types /\ Types'
    BY <2>1 DEF RInv
  <2> QED BY <2>1, <2>2, NextCounted
<1> QED BY <1>1, <1>2, <1>3, PTL DEF Spec
=================================================================================
