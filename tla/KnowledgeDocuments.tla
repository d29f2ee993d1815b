--------------------------- MODULE KnowledgeDocuments ---------------------------
(***************************************************************************)
(* One document of the knowledge base: its edit lock, the saves of its     *)
(* editors and its review workflow.                                        *)
(*                                                                         *)
(* A request is one transaction under READ COMMITTED: it reads the         *)
(* document, checks the workflow and the lock, and writes.  Nothing holds  *)
(* a row lock before the write.  save(entity) writes the document as the   *)
(* request read it, with the request's own changes, over what others have  *)
(* committed since; its re-read and its update are one step here.          *)
(*                                                                         *)
(* A text is the set of the edits it contains.  Each user sends one        *)
(* request at a time.  A lock lasts five minutes and a request seconds:    *)
(* no lock expires while a request of its holder runs.                     *)
(***************************************************************************)
EXTENDS Naturals, FiniteSets

CONSTANTS
    Users,
    Reviewers, Approvers,   \* the document's contributors of these roles
    NoUser,                 \* no lock
    MaxEdits,               \* bound: edits of the text
    MaxReviews              \* bound: reviews requested

ASSUME DocumentAssumption ==
    /\ Reviewers \subseteq Users
    /\ Approvers \subseteq Users
    /\ NoUser \notin Users
    /\ MaxEdits \in Nat
    /\ MaxReviews \in Nat

VARIABLES
    doc,     \* the row of the document
    lock,    \* its row of document_edit_locks
    flow,    \* its rows of document_workflows, with their participants
    req,     \* the request each user has sent
    seen,    \* the revision and the text each user's editor last got
    made,    \* edits made so far
    overlap  \* a request of a review has run next to a save or to another such request

vars == <<doc, lock, flow, req, seen, made, overlap>>

Edits == 1 .. MaxEdits
Reviews == 1 .. MaxReviews

Document == [status : {"draft", "in_review", "published"}, rev : 0 .. MaxEdits, text : SUBSET Edits]

Seats == Reviewers \X {"reviewer"} \cup Approvers \X {"approver"}

Flow == [status : {"none", "reviewer", "approver", "approved", "changes", "cancelled"},
         decision : [Seats -> {"pending", "approved", "changes"}]]

NoFlow == [status |-> "none", decision |-> [p \in Seats |-> "pending"]]

\* getActiveWorkflow: pending_review and pending_approval, by their stage.
Active == {i \in Reviews : flow[i].status \in {"reviewer", "approver"}}

\* Reviews not requested yet.
Free == {i \in Reviews : flow[i].status = "none"}

ReviewKinds == {"request", "approve", "changes", "cancel"}
Kinds == ReviewKinds \cup {"acquire", "beat", "save"}

\* What a request has read, the edit a save brings, the review and the stage it acts on.
Request == [kind : Kinds \cup {"none"}, pc : {"idle", "read", "checked", "keep", "last"},
            entity : Document, edit : 0 .. MaxEdits,
            flow : {0} \cup Reviews, stage : {"none", "reviewer", "approver"}]

Copy == [rev : 0 .. MaxEdits, text : SUBSET Edits]

Editor(d) == [rev |-> d.rev, text |-> d.text]

Start == [status |-> "draft", rev |-> 0, text |-> {}]

NoRequest == [kind |-> "none", pc |-> "idle", entity |-> Start, edit |-> 0,
              flow |-> 0, stage |-> "none"]

At(u, k, pc) == req[u].kind = k /\ req[u].pc = pc

Done(u) == req' = [req EXCEPT ![u] = NoRequest]

\* The lock is live and u holds it.
Holds(u) == lock.user = u /\ lock.live

\* A request k meets one that runs, and one of the two is a review's.
Meets(k) == \E v \in Users :
    \/ k \in ReviewKinds /\ req[v].kind \in ReviewKinds \cup {"save"}
    \/ k = "save" /\ req[v].kind \in ReviewKinds

--------------------------------------------------------------------------------
(* Requests *)

\* The stage of an active review waits for user u.
Awaited(u) == \E i \in Active : LET seat == <<u, flow[i].status>> IN
    seat \in Seats /\ flow[i].decision[seat] = "pending"

\* What the user's page offers at the moment.
Offered(u, k) ==
    /\ k = "save" => made < MaxEdits
    /\ k = "request" => Active = {} /\ Free # {}
    /\ k \in {"approve", "changes"} => Awaited(u)
    /\ k = "cancel" => Active # {}
    /\ k = "acquire" => ~ Holds(u)
    /\ k = "beat" => Holds(u)

\* Request k reads the document.  A save brings a new edit of the text.
Begin(u, k) ==
    /\ req[u].pc = "idle" /\ Offered(u, k)
    /\ overlap' = (overlap \/ Meets(k))
    /\ made' = IF k = "save" THEN made + 1 ELSE made
    /\ req' = [req EXCEPT ![u] = [NoRequest EXCEPT !.kind = k, !.pc = "read",
                                  !.entity = IF k \in {"acquire", "beat"} THEN @ ELSE doc,
                                  !.edit = IF k = "save" THEN made + 1 ELSE 0]]
    /\ UNCHANGED <<doc, lock, flow, seen>>

\* Mutant: the revision is not compared.
PassesAnyRevision(u) ==
    CASE req[u].kind = "acquire" -> Active = {}
      [] req[u].kind = "beat"    -> Holds(u)
      [] req[u].kind = "save"    -> Active = {} /\ Holds(u)
      [] req[u].kind = "request" -> /\ Active = {} /\ Seats # {}
                                    /\ lock.live => lock.user \in {u, NoUser}
      [] OTHER -> TRUE

\* The checks of the requests that name no review: assertWorkflowAllowsEditing,
\* ensureValidLock, the revision, assertDocumentUnlockedForUser.
Passes(u) ==
    CASE req[u].kind = "acquire" -> Active = {}
      [] req[u].kind = "beat"    -> Holds(u)
      [] req[u].kind = "save"    -> Active = {} /\ Holds(u) /\ seen[u].rev = req[u].entity.rev
      [] req[u].kind = "request" -> /\ seen[u].rev = req[u].entity.rev
                                    /\ Active = {} /\ Seats # {}
                                    /\ lock.live => lock.user \in {u, NoUser}
      [] OTHER -> TRUE

\* getPendingWorkflowParticipantOrThrow, or who may cancel: anyone here.
MayAct(u, i) ==
    \/ req[u].kind = "cancel"
    \/ LET seat == <<u, flow[i].status>> IN seat \in Seats /\ flow[i].decision[seat] = "pending"

\* The checks fail, and the transaction is rolled back; or the request goes on.
Check(u) ==
    /\ req[u].pc = "read"
    /\ IF req[u].kind \in ReviewKinds \ {"request"}
       THEN \/ \E i \in Active :
                /\ MayAct(u, i)
                /\ req' = [req EXCEPT ![u].pc = "checked", ![u].flow = i, ![u].stage = flow[i].status]
            \/ (\A i \in Active : ~ MayAct(u, i)) /\ Done(u)
       ELSE IF Passes(u) THEN req' = [req EXCEPT ![u].pc = "checked"] ELSE Done(u)
    /\ UNCHANGED <<doc, lock, flow, seen, made, overlap>>

--------------------------------------------------------------------------------
(* The edit lock *)

\* acquireLock: INSERT, or UPDATE of a lock that is one's own or expired.
Acquire(u) ==
    /\ At(u, "acquire", "checked")
    /\ lock' = IF lock.live /\ lock.user # u THEN lock ELSE [user |-> u, live |-> TRUE]
    /\ Done(u)
    /\ UNCHANGED <<doc, flow, seen, made, overlap>>

\* heartbeatLock: save inserts the row again if it is gone.
Beat(u) ==
    /\ At(u, "beat", "checked")
    /\ lock' = IF lock.user \in {u, NoUser} THEN [user |-> u, live |-> TRUE] ELSE lock
    /\ Done(u)
    /\ UNCHANGED <<doc, flow, seen, made, overlap>>

Unlocked == [user |-> NoUser, live |-> FALSE]

\* releaseLock by its holder, forceReleaseLock by an administrator.
Release(u) ==
    /\ lock.user = u /\ req[u].pc = "idle"
    /\ lock' = Unlocked
    /\ UNCHANGED <<doc, flow, req, seen, made, overlap>>

Expire ==
    /\ lock.live /\ req[lock.user].pc = "idle"
    /\ lock' = [lock EXCEPT !.live = FALSE]
    /\ UNCHANGED <<doc, flow, req, seen, made, overlap>>

--------------------------------------------------------------------------------
(* The text *)

\* The user's editor gets the document.
Load(u) ==
    /\ req[u].pc = "idle"
    /\ seen' = [seen EXCEPT ![u] = Editor(doc)]
    /\ UNCHANGED <<doc, lock, flow, req, made, overlap>>

\* update: the editor's text, and with it the document published or not.
Save(u) ==
    LET e == req[u].entity IN
    /\ At(u, "save", "checked")
    /\ \E s \in {e.status, "published"} :
        doc' = [status |-> s, rev |-> e.rev + 1, text |-> seen[u].text \cup {req[u].edit}]
    /\ seen' = [seen EXCEPT ![u] = Editor(doc')]
    /\ Done(u)
    /\ UNCHANGED <<lock, flow, made, overlap>>

--------------------------------------------------------------------------------
(* The review *)

\* Mutant: the status of the workflow is stored as the document's.
RequestNamed(u) ==
    LET first == IF Reviewers # {} THEN "reviewer" ELSE "approver"
        e == req[u].entity
    IN
    /\ At(u, "request", "checked")
    /\ \E i \in Free : flow' = [flow EXCEPT ![i] = [NoFlow EXCEPT !.status = first]]
    /\ doc' = [e EXCEPT !.status = first]
    /\ lock' = Unlocked
    /\ Done(u)
    /\ UNCHANGED <<seen, made, overlap>>

\* requestWorkflowReview; the unique index of active workflows may refuse the new row.
RequestReview(u) ==
    LET first == IF Reviewers # {} THEN "reviewer" ELSE "approver"
        e == req[u].entity
    IN
    /\ At(u, "request", "checked")
    /\ IF Active # {} \/ Free = {} THEN UNCHANGED <<doc, lock, flow>>
       ELSE /\ \E i \in Free :
                /\ \A j \in Free : i <= j
                /\ flow' = [flow EXCEPT ![i] = [NoFlow EXCEPT !.status = first]]
            /\ doc' = [e EXCEPT !.status = "in_review"]
            /\ lock' = Unlocked
    /\ Done(u)
    /\ UNCHANGED <<seen, made, overlap>>

\* finalizeWorkflowApproved, on the document as the request read it.
Published(u) == [req[u].entity EXCEPT !.status = "published"]

\* The seat from which user u decides.
Seat(u) == <<u, req[u].stage>>

\* The decision of user u in its review.
Decided(u, decision) == [flow[req[u].flow] EXCEPT !.decision[Seat(u)] = decision]

\* Mutant: one approval of a stage is enough.
DecideAlone(u) ==
    /\ At(u, "approve", "checked")
    /\ req' = [req EXCEPT ![u].pc = "last"]
    /\ UNCHANGED <<doc, lock, flow, seen, made, overlap>>

\* approveWorkflow saves the decision, and counts those still pending at its stage ...
Decide(u) ==
    LET others == {p \in Seats \ {Seat(u)} : p[2] = req[u].stage} IN
    /\ At(u, "approve", "checked")
    /\ req' = [req EXCEPT ![u].pc =
                   IF \E p \in others : flow[req[u].flow].decision[p] = "pending" THEN "keep" ELSE "last"]
    /\ UNCHANGED <<doc, lock, flow, seen, made, overlap>>

\* ... which goes on, ...
Keep(u) ==
    /\ At(u, "approve", "keep")
    /\ flow' = [flow EXCEPT ![req[u].flow] = Decided(u, "approved")]
    /\ Done(u)
    /\ UNCHANGED <<doc, lock, seen, made, overlap>>

\* ... or passes to the approvers, or ends.  Passed on after it had ended, the review is
\* active again, unless the unique index refuses it next to a new one.
EndStage(u) ==
    LET i == req[u].flow
        passes == req[u].stage = "reviewer" /\ Approvers # {}
        ended(s) == flow' = [flow EXCEPT ![i] = [Decided(u, "approved") EXCEPT !.status = s]]
    IN
    /\ At(u, "approve", "last")
    /\ \/ ~ passes /\ ended("approved") /\ doc' = Published(u)
       \/ passes /\ Active \subseteq {i} /\ ended("approver") /\ UNCHANGED doc
       \/ passes /\ ~ Active \subseteq {i} /\ UNCHANGED <<flow, doc>>
    /\ Done(u)
    /\ UNCHANGED <<lock, seen, made, overlap>>

\* requestWorkflowChanges.
RequestChanges(u) ==
    /\ At(u, "changes", "checked")
    /\ flow' = [flow EXCEPT ![req[u].flow] = [Decided(u, "changes") EXCEPT !.status = "changes"]]
    /\ doc' = [req[u].entity EXCEPT !.status = "draft"]
    /\ lock' = Unlocked
    /\ Done(u)
    /\ UNCHANGED <<seen, made, overlap>>

\* cancelWorkflowReview.
CancelReview(u) ==
    /\ At(u, "cancel", "checked")
    /\ flow' = [flow EXCEPT ![req[u].flow].status = "cancelled"]
    /\ doc' = [req[u].entity EXCEPT !.status = "draft"]
    /\ lock' = Unlocked
    /\ Done(u)
    /\ UNCHANGED <<seen, made, overlap>>

--------------------------------------------------------------------------------
(* The specification *)

Init ==
    /\ doc = Start
    /\ lock = Unlocked
    /\ flow = [i \in Reviews |-> NoFlow]
    /\ req = [u \in Users |-> NoRequest]
    /\ seen = [u \in Users |-> Editor(Start)]
    /\ made = 0
    /\ overlap = FALSE

\* A request goes on.
Step(u) ==
    \/ Check(u) \/ Acquire(u) \/ Beat(u) \/ Save(u)
    \/ RequestReview(u) \/ Decide(u) \/ Keep(u) \/ EndStage(u) \/ RequestChanges(u) \/ CancelReview(u)

Next ==
    \/ \E u \in Users : Step(u) \/ Load(u) \/ Release(u) \/ \E k \in Kinds : Begin(u, k)
    \/ Expire

Spec == Init /\ [][Next]_vars

\* Statements are answered, and participants decide in the end.
Fairness == \A u \in Users : WF_vars(Step(u)) /\ SF_vars(Begin(u, "approve"))

FairSpec == Spec /\ Fairness

--------------------------------------------------------------------------------
(* Properties *)

\* Every variable has its type, and one review is active at most.
TypeOK ==
    /\ doc \in Document
    /\ lock \in [user : Users \cup {NoUser}, live : BOOLEAN]
    /\ lock.user = NoUser => ~ lock.live
    /\ flow \in [Reviews -> Flow]
    /\ req \in [Users -> Request]
    /\ seen \in [Users -> Copy]
    /\ made \in 0 .. MaxEdits
    /\ overlap \in BOOLEAN
    /\ Cardinality(Active) <= 1

\* The lock and the revision keep concurrent editors apart: no edit that was saved is
\* silently overwritten by the save of somebody who has not seen it, as long as no
\* request of a review has run next to a save or to another: those write the text back
\* as they read it.
NoLostEdit == [][~ overlap' => doc.text \subseteq doc'.text]_vars

\* A review ends approved only once every reviewer and every approver has decided,
\* however the decisions, the requests for changes, the saves and the cancellations of the
\* review and of the next one overlap.
EveryoneDecides == \A i \in Reviews :
    flow[i].status = "approved" => \A p \in Seats : flow[i].decision[p] # "pending"

\* A document in review cannot be edited: until the review ends it keeps its status and
\* the text its reviewers were asked about.  It fails: a save that passed its checks
\* before the review was requested writes over the document.
ReviewIsFrozen == [][Active # {} /\ Active' # {} => doc' = doc]_vars

\* A document that a participant sent back for revision is not published by that review.
\* It fails: an approval that read the review before writes over it.
ChangesStand == \A i \in Reviews :
    flow[i].status = "approved" => \A p \in Seats : flow[i].decision[p] # "changes"

\* When its participants decide, every review comes to an end.  It fails: two last
\* approvers each count the other one as pending.
ReviewEnds == \A i \in Reviews : i \in Active ~> i \notin Active
================================================================================
