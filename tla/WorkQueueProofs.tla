----------------------------- MODULE WorkQueueProofs -----------------------------
(***************************************************************************)
(* Until a write rests on what is no longer so, no two agents propose on   *)
(* one target, and what they propose is held for them; no diagnosis is     *)
(* given up too soon.  For any number of agents, items, proposals, people, *)
(* runs, sweeps and decisions that overlap.                                *)
(***************************************************************************)
EXTENDS WorkQueue, TLAPS

--------------------------------------------------------------------------------
(* Agents, items and targets *)

\* Agents a and b watch one target.
OneTarget(a, b) == a \in Monitors <=> b \in Monitors

\* The rivals of an agent are the others on its target.
LEMMA RivalsAre ==
    ASSUME NEW a \in Agents, NEW b \in Agents
    PROVE  b \in Rivals(a) <=> b # a /\ OneTarget(a, b)
BY DEF Rivals, OneTarget

\* An item belongs to an agent, a proposal to an item.
LEMMA ItemsAre ==
    /\ \A i \in Items : AgentOf(i) \in Agents
    /\ \A p \in Proposals : ItemOf(p) \in Items
<1>1. \A i \in Items : AgentOf(i) \in Agents
  BY QueueAssumption DEF Items, AgentOf
<1>2. \A p \in Proposals : ItemOf(p) \in Items
  <2> TAKE p \in Proposals
  <2>1. PICK i \in Items : p \in {i} \X (1 .. Width[i[1]])
    BY DEF Proposals
  <2> QED BY <2>1 DEF ItemOf
<1> QED BY <1>1, <1>2

\* The items of monitors are the alerts.
LEMMA AlertsAre == Alerts \subseteq Items /\ \A i \in Items : i \in Alerts <=> AgentOf(i) \in Monitors
BY QueueAssumption DEF Items, Alerts, AgentOf

--------------------------------------------------------------------------------
(* Types *)

Started(r) == run[r].pc # "idle"

\* What a run has read: an item that has an attempt left, and claims of rivals to take.
RunRead(r) ==
    Started(r) => /\ run[r].item \in Items
                  /\ run[r].tries < MaxAttempts
                  /\ run[r].release \subseteq Rivals(AgentOf(run[r].item))

\* The types, with what keeps the attempts in their range.
Types ==
    /\ TypeOK
    /\ \A i \in Items : item[i].status \in {"none", "queued", "failed"} => item[i].tries < MaxAttempts
    /\ \A r \in Runners : RunRead(r)

\* Items completed keep the rest.
LEMMA CompletedDoes ==
    ASSUME TypeOK, NEW I
    PROVE  /\ Completed(I) \in [Items -> Item]
           /\ \A i \in Items : /\ Completed(I)[i].status = IF i \in I THEN "completed" ELSE item[i].status
                               /\ Completed(I)[i].tries = item[i].tries
                               /\ Completed(I)[i].acts = item[i].acts
<1> SUFFICES ASSUME NEW i \in Items
             PROVE  /\ Completed(I)[i] \in Item
                    /\ Completed(I)[i].status = IF i \in I THEN "completed" ELSE item[i].status
                    /\ Completed(I)[i].tries = item[i].tries
                    /\ Completed(I)[i].acts = item[i].acts
  BY DEF Completed
<1>1. Completed(I)[i] = IF i \in I THEN [item[i] EXCEPT !.status = "completed"] ELSE item[i]
  BY DEF Completed
<1>2. PICK n \in Item : n = item[i]
  BY DEF TypeOK
<1> DEFINE m == [n EXCEPT !.status = "completed"]
<1>3. m \in Item /\ m.status = "completed" /\ m.tries = n.tries /\ m.acts = n.acts
  BY DEF Item
<1> HIDE DEF m
<1> QED BY <1>1, <1>2, <1>3 DEF m

\* The claims that are left when those of A are released.
LEMMA WithoutDoes ==
    ASSUME TypeOK, NEW A
    PROVE  /\ Without(A) \in [Agents -> Claim]
           /\ \A a \in Agents : /\ Without(A)[a] = IF a \in A THEN Unclaimed ELSE claim[a]
                                /\ Without(A)[a].held <=> a \notin A /\ claim[a].held
<1>1. Unclaimed \in Claim /\ ~ Unclaimed.held
  BY DEF Unclaimed, Claim
<1> QED BY <1>1 DEF Without, TypeOK

\* A claim held for an item.
LEMMA HoldDoes ==
    ASSUME NEW i \in Items, NEW acts \in SUBSET Proposals
    PROVE  /\ Hold(i, acts) \in Claim
           /\ Hold(i, acts).held /\ ~ Hold(i, acts).lapsed
           /\ Hold(i, acts).owner = i /\ Hold(i, acts).acts = acts
BY DEF Hold, Claim

\* An attempt that ends well is one of those left.
LEMMA OutcomeDoes ==
    ASSUME Types, NEW r \in Runners, Started(r), NEW acts \in SUBSET Proposals,
           NEW status \in {"waiting", "completed"}
    PROVE  /\ Outcome(r, status, acts) \in Item
           /\ Outcome(r, status, acts).status = status
           /\ Outcome(r, status, acts).acts = acts
<1>1. run[r].tries + 1 \in 0 .. MaxAttempts
  BY QueueAssumption DEF Types, TypeOK, RunRead, Run
<1> QED BY <1>1 DEF Outcome, Item

\* A failed attempt is counted.
LEMMA FailedDoes ==
    ASSUME Types, NEW i \in Items, item[i].status \in {"queued", "failed"}
    PROVE  /\ Failed(i) \in Item
           /\ Failed(i).tries = item[i].tries + 1
           /\ Failed(i).acts = item[i].acts
           /\ Failed(i).status = IF item[i].tries + 1 >= MaxAttempts THEN "dead" ELSE "failed"
<1>1. PICK n \in Item : n = item[i]
  BY DEF Types, TypeOK
<1>2. n.tries + 1 \in 0 .. MaxAttempts
  BY <1>1, QueueAssumption DEF Types, Item
<1> DEFINE k == n.tries + 1
           s == IF k >= MaxAttempts THEN "dead" ELSE "failed"
           c == k < MaxAttempts
           m == [n EXCEPT !.tries = k, !.status = s, !.cool = c]
<1>3. Failed(i) = m
  BY <1>1 DEF Failed
<1>4. s \in {"failed", "dead"} /\ c \in BOOLEAN
  OBVIOUS
<1> HIDE DEF k, s, c
<1>5. m \in Item /\ m.tries = k /\ m.status = s /\ m.acts = n.acts
  BY <1>2, <1>4 DEF Item, k
<1> QED BY <1>1, <1>3, <1>5 DEF k, s

\* No run, and one that begins or goes on.
LEMMA NoRunTyped == NoRun \in Run /\ NoRun.pc = "idle"
BY QueueAssumption DEF NoRun, Run

\* One run changes.
LEMMA RunMoved ==
    ASSUME Types, NEW r \in Runners, NEW n \in Run, run' = [run EXCEPT ![r] = n]
    PROVE  run' \in [Runners -> Run] /\ run'[r] = n /\ \A q \in Runners \ {r} : run'[q] = run[q]
BY DEF Types, TypeOK

\* A run ends.
LEMMA RunEnds ==
    ASSUME Types, NEW r \in Runners, run' = [run EXCEPT ![r] = NoRun]
    PROVE  /\ run' \in [Runners -> Run] /\ run'[r].pc = "idle"
           /\ \A q \in Runners \ {r} : run'[q] = run[q]
BY NoRunTyped, RunMoved

\* A run that has looked takes the target, or its transaction is aborted.
LEMMA SeizeDoes ==
    ASSUME Types, NEW r \in Runners, Seize(r)
    PROVE  LET b == AgentOf(run[r].item)
           IN
           /\ run[r].pc = "looked" /\ b \notin Locked
           /\ run' \in [Runners -> Run] /\ \A q \in Runners \ {r} : run'[q] = run[q]
           /\ \/ run'[r].pc = "idle"
              \/ /\ \A c \in Rivals(b) : claim[c].held => c \in run[r].release
                 /\ ~ stale' => ~ Outdated(r)
                 /\ run'[r].pc = "working" /\ run'[r].item = run[r].item
                 /\ run'[r].tries = run[r].tries /\ run'[r].release = run[r].release
                 /\ run'[r].expire = run[r].expire
<1>1. PICK n \in Run : n = run[r]
  BY DEF Types, TypeOK
<1> DEFINE m == [n EXCEPT !.pc = "working"]
<1>2. m \in Run /\ m.pc = "working" /\ m.item = n.item /\ m.tries = n.tries
      /\ m.release = n.release /\ m.expire = n.expire
  BY DEF Run
<1>3. CASE run' = [run EXCEPT ![r] = NoRun]
  BY <1>3, RunEnds DEF Seize
<1>4. CASE run' # [run EXCEPT ![r] = NoRun]
  <2>1. /\ run' = [run EXCEPT ![r].pc = "working"]
        /\ \A c \in Rivals(AgentOf(run[r].item)) : claim[c].held => c \in run[r].release
        /\ ~ stale' => ~ Outdated(r)
    BY <1>4 DEF Seize
  <2>2. run' = [run EXCEPT ![r] = m]
    BY <1>1, <2>1
  <2> HIDE DEF m
  <2> QED BY <1>1, <1>2, <2>1, <2>2, RunMoved DEF Seize
<1> QED BY <1>3, <1>4

\* A run that looks reads what there is.
LEMMA LookDoes ==
    ASSUME Types, NEW r \in Runners, NEW i \in Items, Look(r, i)
    PROVE  /\ run' \in [Runners -> Run] /\ \A q \in Runners \ {r} : run'[q] = run[q]
           /\ run'[r].pc = "looked" /\ run'[r].item = i /\ run'[r].tries = item[i].tries
           /\ run'[r].release = Taken(AgentOf(i)) /\ run'[r].expire = Expired(AgentOf(i))
           /\ Taken(AgentOf(i)) \subseteq Rivals(AgentOf(i))
<1> DEFINE a == AgentOf(i)
           m == [pc |-> "looked", item |-> i, tries |-> item[i].tries,
                 release |-> Taken(a), expire |-> Expired(a)]
<1>1. Taken(a) \subseteq Rivals(a) /\ Rivals(a) \subseteq Agents
  BY DEF Taken, Foreign, Rivals
<1>2. Expired(a) \subseteq Proposals
  <2>1. \A b \in Agents : claim[b].acts \subseteq Proposals
    BY DEF Types, TypeOK, Claim
  <2> QED BY <1>1, <2>1 DEF Expired, Foreign
<1>3. item[i].tries \in 0 .. MaxAttempts
  BY DEF Types, TypeOK, Item
<1>4. m \in Run
  BY <1>1, <1>2, <1>3 DEF Run
<1>5. run' = [run EXCEPT ![r] = m]
  BY DEF Look
<1>6. m.pc = "looked" /\ m.item = i /\ m.tries = item[i].tries
      /\ m.release = Taken(a) /\ m.expire = Expired(a)
  OBVIOUS
<1> HIDE DEF m
<1> QED BY <1>1, <1>4, <1>5, <1>6, RunMoved

\* What a lease does to the claims and the proposals.
LEMMA LeaseDoes ==
    ASSUME Types, NEW i \in Items, Lease(i)
    PROVE  LET a == AgentOf(i)
           IN
           /\ prop' \in [Proposals -> Status]
           /\ \A p \in Proposals : prop'[p] = IF p \in Expired(a) THEN "settled" ELSE prop[p]
           /\ claim' \in [Agents -> Claim]
           /\ claim'[a] = Hold(i, OwnActs(a))
           /\ \A b \in Agents \ {a} : claim'[b] = IF b \in Taken(a) THEN Unclaimed ELSE claim[b]
<1>0. AgentOf(i) \in Agents /\ OwnActs(AgentOf(i)) \in SUBSET Proposals
  BY ItemsAre DEF OwnActs, Types, TypeOK, Claim
<1>1. Hold(i, OwnActs(AgentOf(i))) \in Claim
  BY <1>0, HoldDoes
<1>2. prop' = [p \in Proposals |-> IF p \in Expired(AgentOf(i)) THEN "settled" ELSE prop[p]]
      /\ claim' = [Without(Taken(AgentOf(i))) EXCEPT ![AgentOf(i)] = Hold(i, OwnActs(AgentOf(i)))]
  BY DEF Lease
<1>3. /\ Without(Taken(AgentOf(i))) \in [Agents -> Claim]
      /\ \A b \in Agents : Without(Taken(AgentOf(i)))[b] =
             IF b \in Taken(AgentOf(i)) THEN Unclaimed ELSE claim[b]
  BY WithoutDoes DEF Types
<1> QED BY <1>0, <1>1, <1>2, <1>3 DEF Types, TypeOK, Status

\* The item that is queued, and the resolved items in its way.
LEMMA EnqueueDoes ==
    ASSUME Types, NEW i \in Items, Enqueue(i)
    PROVE  LET done(j) == AgentOf(j) = AgentOf(i) /\ item[j].status \in {"queued", "failed", "waiting"}
           IN
           /\ item[i].status = "none" /\ item'[i].status = "queued"
           /\ item' \in [Items -> Item]
           /\ \A j \in Items : /\ item'[j].tries = item[j].tries
                               /\ item'[j].acts = item[j].acts
                               /\ done(j) => Resolved(j)
                               /\ j # i => item'[j].status = IF done(j) THEN "completed" ELSE item[j].status
<1> DEFINE inTheWay == {j \in Items : /\ AgentOf(j) = AgentOf(i)
                                      /\ item[j].status \in {"queued", "failed", "waiting"}}
           C == Completed(inTheWay)
<1>1. /\ item[i].status = "none" /\ item' = [C EXCEPT ![i].status = "queued"]
      /\ \A j \in inTheWay : Resolved(j)
  BY DEF Enqueue
<1>2. /\ C \in [Items -> Item]
      /\ \A j \in Items : /\ C[j].status = IF j \in inTheWay THEN "completed" ELSE item[j].status
                          /\ C[j].tries = item[j].tries /\ C[j].acts = item[j].acts
  BY CompletedDoes DEF Types
<1> HIDE DEF C
<1>3. PICK n \in Item : n = C[i]
  BY <1>2
<1> DEFINE m == [n EXCEPT !.status = "queued"]
<1>4. m \in Item /\ m.status = "queued" /\ m.tries = n.tries /\ m.acts = n.acts
  BY DEF Item
<1>5. item' = [C EXCEPT ![i] = m]
  BY <1>1, <1>3
<1> HIDE DEF m
<1> QED BY <1>1, <1>2, <1>3, <1>4, <1>5

\* A run that made proposals ends.
LEMMA ProposeDoes ==
    ASSUME Types, NEW r \in Runners, Propose(r)
    PROVE  LET i == run[r].item
               a == AgentOf(run[r].item)
           IN
           /\ run[r].pc = "working" /\ a \in Agents \ Monitors
           /\ run' \in [Runners -> Run] /\ run'[r].pc = "idle"
           /\ \A q \in Runners \ {r} : run'[q] = run[q]
           /\ \E ps \in SUBSET Proposals :
                /\ \A p \in ps : ItemOf(p) = i
                /\ prop' \in [Proposals -> Status]
                /\ \A p \in Proposals : prop'[p] = IF p \in ps THEN "pending"
                                                   ELSE IF p \in run[r].expire THEN "settled"
                                                   ELSE prop[p]
                /\ item' \in [Items -> Item]
                /\ item'[i].status = "waiting" /\ item'[i].acts = ps
                /\ \A j \in Items \ {i} : item'[j] = item[j]
                /\ claim' \in [Agents -> Claim] /\ claim'[a] = Hold(i, ps)
                /\ \A b \in Agents \ {a} : claim'[b] = IF b \in run[r].release THEN Unclaimed
                                                       ELSE claim[b]
<1> DEFINE i == run[r].item
           a == AgentOf(run[r].item)
<1>1. run[r].pc = "working" /\ a \notin Monitors /\ run' = [run EXCEPT ![r] = NoRun]
  BY DEF Propose
<1>2. i \in Items /\ a \in Agents
  BY <1>1, ItemsAre DEF Types, RunRead, Started
<1>3. PICK n \in 1 .. Width[a] :
         LET ps == {p \in Proposals : ItemOf(p) = i /\ p[2] <= n /\ prop[p] = "none"} IN
         /\ prop' = [p \in Proposals |-> IF p \in ps THEN "pending" ELSE ExpiredBy(r)[p]]
         /\ item' = [item EXCEPT ![i] = Outcome(r, "waiting", ps)]
         /\ claim' = [Without(run[r].release) EXCEPT ![a] = Hold(i, ps)]
  BY DEF Propose
<1> DEFINE ps == {p \in Proposals : ItemOf(p) = i /\ p[2] <= n /\ prop[p] = "none"}
<1>4. ps \in SUBSET Proposals /\ \A p \in ps : ItemOf(p) = i
  OBVIOUS
<1>5. /\ prop' = [p \in Proposals |-> IF p \in ps THEN "pending" ELSE ExpiredBy(r)[p]]
      /\ item' = [item EXCEPT ![i] = Outcome(r, "waiting", ps)]
      /\ claim' = [Without(run[r].release) EXCEPT ![a] = Hold(i, ps)]
  BY <1>3
<1> HIDE DEF ps
<1>6. Outcome(r, "waiting", ps) \in Item /\ Outcome(r, "waiting", ps).status = "waiting"
      /\ Outcome(r, "waiting", ps).acts = ps
  BY <1>1, <1>4, OutcomeDoes DEF Started
<1>7. /\ prop' \in [Proposals -> Status]
      /\ \A p \in Proposals : prop'[p] = IF p \in ps THEN "pending"
                                         ELSE IF p \in run[r].expire THEN "settled" ELSE prop[p]
  BY <1>5 DEF ExpiredBy, Types, TypeOK, Status
<1>8. /\ item' \in [Items -> Item]
      /\ item'[i].status = "waiting" /\ item'[i].acts = ps
      /\ \A j \in Items \ {i} : item'[j] = item[j]
  BY <1>2, <1>5, <1>6 DEF Types, TypeOK
<1>9. Hold(i, ps) \in Claim
  BY <1>2, <1>4, HoldDoes
<1>10. /\ claim' \in [Agents -> Claim] /\ claim'[a] = Hold(i, ps)
       /\ \A b \in Agents \ {a} : claim'[b] = IF b \in run[r].release THEN Unclaimed ELSE claim[b]
  <2>1. /\ Without(run[r].release) \in [Agents -> Claim]
        /\ \A b \in Agents : Without(run[r].release)[b] =
               IF b \in run[r].release THEN Unclaimed ELSE claim[b]
    BY WithoutDoes DEF Types
  <2> QED BY <1>2, <1>5, <1>9, <2>1
<1>11. run' \in [Runners -> Run] /\ run'[r].pc = "idle" /\ \A q \in Runners \ {r} : run'[q] = run[q]
  BY <1>1, RunEnds
<1> QED BY <1>1, <1>2, <1>4, <1>7, <1>8, <1>10, <1>11

\* A run that made no proposals ends; where its agent has none to wait for, the item is
\* completed and the claim released.
LEMMA ConcludeDoes ==
    ASSUME Types, NEW r \in Runners, Conclude(r)
    PROVE  LET i == run[r].item
               a == AgentOf(run[r].item)
           IN
           /\ run[r].pc = "working" /\ a \in Agents
           /\ run' \in [Runners -> Run] /\ run'[r].pc = "idle"
           /\ \A q \in Runners \ {r} : run'[q] = run[q]
           /\ prop' \in [Proposals -> Status]
           /\ \A p \in Proposals : prop'[p] = IF p \in run[r].expire THEN "settled" ELSE prop[p]
           /\ item' \in [Items -> Item]
           /\ item'[i].status \in {"completed", "waiting"}
           /\ \A j \in Items \ {i} : item'[j] = item[j]
           /\ claim' \in [Agents -> Claim]
           /\ \A b \in Agents \ {a} : claim'[b] = IF b \in run[r].release THEN Unclaimed
                                                  ELSE claim[b]
<1> DEFINE i == run[r].item
           a == AgentOf(run[r].item)
           prior == {p \in Proposals : AgentOf(ItemOf(p)) = a /\ Live(p)}
           older == {j \in Items : /\ AgentOf(j) = a /\ j # i /\ item[j].status = "waiting"
                                   /\ item[j].acts \cap prior # {}}
           n == IF prior = {} \/ older # {} THEN Outcome(r, "completed", {})
                ELSE Outcome(r, "waiting", prior)
           c == IF prior = {} THEN Unclaimed
                ELSE IF older # {} THEN Hold(CHOOSE j \in older : TRUE, prior)
                ELSE Hold(i, prior)
<1>1. /\ run[r].pc = "working" /\ prop' = ExpiredBy(r) /\ run' = [run EXCEPT ![r] = NoRun]
      /\ item' = [item EXCEPT ![i] = n] /\ claim' = [Without(run[r].release) EXCEPT ![a] = c]
  BY DEF Conclude
<1>2. i \in Items /\ a \in Agents
  BY <1>1, ItemsAre DEF Types, RunRead, Started
<1>3. prior \in SUBSET Proposals /\ older \subseteq Items
      /\ ((\A p \in Proposals : AgentOf(ItemOf(p)) = a => ~ Live(p)) => prior = {})
  OBVIOUS
<1>4. older # {} => (CHOOSE j \in older : TRUE) \in Items
  BY <1>3
<1> HIDE DEF prior, older
<1>5. n \in Item /\ n.status \in {"completed", "waiting"} /\ (prior = {} => n.status = "completed")
  BY <1>1, <1>3, OutcomeDoes DEF Started
<1>6. c \in Claim /\ (prior = {} => c = Unclaimed)
  <2>1. Unclaimed \in Claim
    BY DEF Unclaimed, Claim
  <2> QED BY <1>2, <1>3, <1>4, <2>1, HoldDoes
<1> HIDE DEF n, c
<1>7. /\ item' \in [Items -> Item] /\ item'[i] = n /\ \A j \in Items \ {i} : item'[j] = item[j]
  BY <1>1, <1>2, <1>5 DEF Types, TypeOK
<1>8. /\ claim' \in [Agents -> Claim] /\ claim'[a] = c
      /\ \A b \in Agents \ {a} : claim'[b] = IF b \in run[r].release THEN Unclaimed ELSE claim[b]
  <2>1. /\ Without(run[r].release) \in [Agents -> Claim]
        /\ \A b \in Agents : Without(run[r].release)[b] =
               IF b \in run[r].release THEN Unclaimed ELSE claim[b]
    BY WithoutDoes DEF Types
  <2> QED BY <1>1, <1>2, <1>6, <2>1
<1>9. /\ prop' \in [Proposals -> Status]
      /\ \A p \in Proposals : prop'[p] = IF p \in run[r].expire THEN "settled" ELSE prop[p]
  BY <1>1 DEF ExpiredBy, Types, TypeOK, Status
<1>10. run' \in [Runners -> Run] /\ run'[r].pc = "idle" /\ \A q \in Runners \ {r} : run'[q] = run[q]
  BY <1>1, RunEnds
<1> QED BY <1>1, <1>2, <1>3, <1>5, <1>6, <1>7, <1>8, <1>9, <1>10

\* A run that fails ends; an alert's is paid for.
LEMMA FailsDoes ==
    ASSUME Types, NEW r \in Runners, Fails(r)
    PROVE  LET i == run[r].item
           IN
           /\ run[r].pc = "working" /\ i \in Items
           /\ run' \in [Runners -> Run] /\ run'[r].pc = "idle"
           /\ \A q \in Runners \ {r} : run'[q] = run[q]
           /\ spent' \in [Items -> 0 .. MaxAttempts]
           /\ \A j \in Items \ {i} : spent'[j] = spent[j]
           /\ spent'[i] = IF i \in Alerts /\ spent[i] < MaxAttempts THEN spent[i] + 1 ELSE spent[i]
           /\ UNCHANGED <<claim, prop, paused, sweep, request, stale>>
<1> DEFINE i == run[r].item
           n == IF i \in Alerts /\ spent[i] < MaxAttempts THEN spent[i] + 1 ELSE spent[i]
<1>1. run[r].pc = "working" /\ i \in Items
  BY DEF Fails, Types, RunRead, Started
<1>2. n \in 0 .. MaxAttempts
  BY <1>1, QueueAssumption DEF Types, TypeOK
<1>3. spent' = [spent EXCEPT ![i] = n]
  BY DEF Fails
<1> HIDE DEF n
<1>4. /\ spent' \in [Items -> 0 .. MaxAttempts] /\ spent'[i] = n
      /\ \A j \in Items \ {i} : spent'[j] = spent[j]
  BY <1>1, <1>2, <1>3 DEF Types, TypeOK
<1>5. run' \in [Runners -> Run] /\ run'[r].pc = "idle" /\ \A q \in Runners \ {r} : run'[q] = run[q]
  BY RunEnds DEF Fails
<1> QED BY <1>1, <1>4, <1>5 DEF Fails, n

\* The item of a run that fails is the same, or one attempt is counted.
LEMMA FailDoes ==
    ASSUME Types, NEW r \in Runners, FailCounted(r) \/ FailLost(r)
    PROVE  LET i == run[r].item
           IN
           /\ Fails(r) /\ i \in Items
           /\ item' \in [Items -> Item]
           /\ \A j \in Items \ {i} : item'[j] = item[j]
           /\ \/ item'[i] = item[i]
              \/ item[i].status \in {"queued", "failed"} /\ item'[i] = Failed(i)
<1> DEFINE i == run[r].item
<1>1. Fails(r) /\ i \in Items
  BY FailsDoes DEF FailCounted, FailLost
<1>2. item[i].status \in {"queued", "failed"} => Failed(i) \in Item
  BY <1>1, FailedDoes
<1> QED BY <1>1, <1>2 DEF FailCounted, FailLost, Types, TypeOK

\* The request of a person has a proposal, once it has begun.
LEMMA Requested ==
    ASSUME Types, NEW d \in Deciders
    PROVE  /\ request[d].pc \in {"idle", "read", "resolving"}
           /\ request[d].pc \in {"read", "resolving"} => request[d].prop \in Proposals
<1>1. PICK q \in Request : q = request[d]
  BY DEF Types, TypeOK
<1> QED BY <1>1 DEF Request, NoRequest

\* A person reads a proposal.
LEMMA ReadDoes ==
    ASSUME Types, NEW d \in Deciders, NEW p \in Proposals, Read(d, p)
    PROVE  /\ request' \in [Deciders -> Request] /\ request'[d].pc = "read"
           /\ \A e \in Deciders \ {d} : request'[e] = request[e]
<1>1. [pc |-> "read", prop |-> p] \in Request
  BY DEF Request
<1> QED BY <1>1 DEF Read, Types, TypeOK

\* A decision is written.
LEMMA DecidedDoes ==
    ASSUME Types, NEW d \in Deciders, request[d].pc \in {"read", "resolving"},
           NEW status \in Status, Decided(d, status)
    PROVE  /\ request[d].prop \in Proposals
           /\ prop' \in [Proposals -> Status] /\ prop'[request[d].prop] = status
           /\ \A p \in Proposals \ {request[d].prop} : prop'[p] = prop[p]
           /\ request' \in [Deciders -> Request] /\ request'[d].pc = "idle"
           /\ \A e \in Deciders \ {d} : request'[e] = request[e]
<1>1. NoRequest \in Request /\ NoRequest.pc = "idle"
  BY DEF Request, NoRequest
<1>2. request[d].prop \in Proposals
  BY Requested
<1> QED BY <1>1, <1>2 DEF Decided, Types, TypeOK

\* A person gives up.
LEMMA CloseDoes ==
    ASSUME Types, NEW d \in Deciders, Close(d)
    PROVE  /\ request' \in [Deciders -> Request] /\ request'[d].pc = "idle"
           /\ \A e \in Deciders \ {d} : request'[e] = request[e]
<1>1. NoRequest \in Request /\ NoRequest.pc = "idle"
  BY DEF Request, NoRequest
<1> QED BY <1>1 DEF Close, Types, TypeOK

\* A proposal is settled, or its item found resolved and the claim the item's.
LEMMA SettleDoes ==
    ASSUME Types, NEW d \in Deciders, Settle(d)
    PROVE  LET p == request[d].prop
               i == ItemOf(request[d].prop)
           IN
           /\ request[d].pc = "read" /\ p \in Proposals
           /\ request' \in [Deciders -> Request] /\ \A e \in Deciders \ {d} : request'[e] = request[e]
           /\ \/ /\ request'[d].pc = "resolving" /\ request'[d].prop = p /\ LastOf(p)
                 /\ UNCHANGED <<item, prop>>
              \/ /\ request'[d].pc = "idle"
                 /\ prop' \in [Proposals -> Status] /\ prop'[p] = "settled"
                 /\ \A q \in Proposals \ {p} : prop'[q] = prop[q]
                 /\ item' \in [Items -> Item]
                 /\ \A j \in Items :
                      /\ item'[j].status = IF LastOf(p) /\ j = i THEN "completed" ELSE item[j].status
                      /\ item'[j].tries = item[j].tries /\ item'[j].acts = item[j].acts
<1> DEFINE p == request[d].prop
           i == ItemOf(request[d].prop)
           done == IF LastOf(p) THEN {i} ELSE {}
<1>1. request[d].pc = "read" /\ p \in Proposals
  BY Requested DEF Settle
<1>2. CASE LastOf(p) /\ AgentOf(i) \in Freed({i})
  <2>1. request' = [request EXCEPT ![d].pc = "resolving"] /\ UNCHANGED <<item, prop>>
    BY <1>2 DEF Settle
  <2>2. PICK q \in [pc : {"read", "resolving"}, prop : Proposals] : q = request[d]
    BY <1>1 DEF Types, TypeOK, Request, NoRequest
  <2> DEFINE m == [q EXCEPT !.pc = "resolving"]
  <2>3. m \in Request /\ m.pc = "resolving" /\ m.prop = q.prop
    BY DEF Request
  <2>4. request' = [request EXCEPT ![d] = m]
    BY <2>1, <2>2
  <2> HIDE DEF m
  <2> QED BY <1>1, <1>2, <2>1, <2>2, <2>3, <2>4 DEF Types, TypeOK
<1>3. CASE ~ (LastOf(p) /\ AgentOf(i) \in Freed({i}))
  <2>1. Decided(d, "settled") /\ item' = Completed(done)
    BY <1>3 DEF Settle
  <2>2. \A j : j \in done <=> LastOf(p) /\ j = i
    OBVIOUS
  <2> HIDE DEF done
  <2>3. /\ item' \in [Items -> Item]
        /\ \A j \in Items : /\ item'[j].status = IF LastOf(p) /\ j = i THEN "completed" ELSE item[j].status
                            /\ item'[j].tries = item[j].tries /\ item'[j].acts = item[j].acts
    BY <2>1, <2>2, CompletedDoes DEF Types
  <2>4. "settled" \in Status
    BY DEF Status
  <2> QED BY <1>1, <2>1, <2>3, <2>4, DecidedDoes
<1> QED BY <1>2, <1>3

\* The item whose last proposal is settled is completed, and its claim released.
LEMMA ResolveDoes ==
    ASSUME Types, NEW d \in Deciders, Resolve(d)
    PROVE  LET p == request[d].prop
               i == ItemOf(request[d].prop)
               a == AgentOf(ItemOf(request[d].prop))
           IN
           /\ request[d].pc = "resolving" /\ p \in Proposals /\ a \notin Locked
           /\ prop' \in [Proposals -> Status] /\ prop'[p] = "settled"
           /\ \A q \in Proposals \ {p} : prop'[q] = prop[q]
           /\ request' \in [Deciders -> Request] /\ request'[d].pc = "idle"
           /\ \A e \in Deciders \ {d} : request'[e] = request[e]
           /\ item' \in [Items -> Item]
           /\ \A j \in Items : /\ item'[j].status = IF j = i THEN "completed" ELSE item[j].status
                               /\ item'[j].tries = item[j].tries /\ item'[j].acts = item[j].acts
           /\ claim' \in [Agents -> Claim]
           /\ \A b \in Agents : claim'[b] = IF b = a THEN Unclaimed ELSE claim[b]
<1> DEFINE i == ItemOf(request[d].prop)
           a == AgentOf(ItemOf(request[d].prop))
<1>1. /\ request[d].pc = "resolving" /\ a \notin Locked /\ Decided(d, "settled")
      /\ item' = Completed({i}) /\ claim' = Without({a}) /\ "settled" \in Status
  BY DEF Resolve, Status
<1>2. /\ item' \in [Items -> Item]
      /\ \A j \in Items : /\ item'[j].status = IF j = i THEN "completed" ELSE item[j].status
                          /\ item'[j].tries = item[j].tries /\ item'[j].acts = item[j].acts
  BY <1>1, CompletedDoes DEF Types
<1>3. /\ claim' \in [Agents -> Claim]
      /\ \A b \in Agents : claim'[b] = IF b = a THEN Unclaimed ELSE claim[b]
  BY <1>1, WithoutDoes DEF Types
<1> QED BY <1>1, <1>2, <1>3, DecidedDoes

\* What the end of a sweep does.
LEMMA SweepDoes ==
    ASSUME Types, SweepWrites
    PROVE  /\ sweep.pc = "writing"
           /\ prop' \in [Proposals -> Status]
           /\ \A p \in Proposals : prop'[p] \in {prop[p], "settled"}
           /\ item' \in [Items -> Item] /\ claim' \in [Agents -> Claim]
           /\ \A i \in Items : /\ item'[i].status = IF Resolved(i) THEN "completed" ELSE item[i].status
                               /\ item'[i].tries = item[i].tries /\ item'[i].acts = item[i].acts
           /\ \A a \in Agents : claim'[a] =
                  IF \/ a \in sweep.release
                     \/ claim[a].held /\ claim[a].owner \in Items /\ Resolved(claim[a].owner)
                  THEN Unclaimed ELSE claim[a]
           /\ \A a \in Agents : claim'[a] # claim[a] => a \notin Locked
           /\ sweep' \in Sweep
<1> DEFINE done == {i \in Items : Resolved(i)}
           out == sweep.release \cup Freed(done)
<1>1. /\ sweep.pc = "writing" /\ sweep' \in Sweep /\ out \cap Locked = {}
      /\ item' = Completed(done) /\ claim' = Without(out)
      /\ prop' = [p \in Proposals |-> IF p \in sweep.expire THEN "settled" ELSE prop[p]]
  BY DEF SweepWrites, NoSweep, Sweep
<1>2. \A a \in Agents : a \in out <=>
          \/ a \in sweep.release
          \/ claim[a].held /\ claim[a].owner \in Items /\ Resolved(claim[a].owner)
  BY DEF Freed
<1>3. \A i \in Items : i \in done <=> Resolved(i)
  OBVIOUS
<1> HIDE DEF done, out
<1>4. /\ item' \in [Items -> Item]
      /\ \A i \in Items : /\ item'[i].status = IF Resolved(i) THEN "completed" ELSE item[i].status
                          /\ item'[i].tries = item[i].tries /\ item'[i].acts = item[i].acts
  BY <1>1, <1>3, CompletedDoes DEF Types
<1>5. /\ claim' \in [Agents -> Claim]
      /\ \A a \in Agents : claim'[a] = IF a \in out THEN Unclaimed ELSE claim[a]
  BY <1>1, WithoutDoes DEF Types
<1>6. /\ prop' \in [Proposals -> Status]
      /\ \A p \in Proposals : prop'[p] \in {prop[p], "settled"}
  BY <1>1 DEF Types, TypeOK, Status
<1> QED BY <1>1, <1>2, <1>4, <1>5, <1>6

\* What the end of an approval window does.
LEMMA LapseDoes ==
    ASSUME Types, NEW i \in Items, Lapse(i)
    PROVE  /\ prop' \in [Proposals -> Status]
           /\ \A p \in Proposals : /\ prop'[p] \in {prop[p], "lapsed"}
                                   /\ ItemOf(p) = i /\ prop[p] = "pending" => prop'[p] = "lapsed"
           /\ claim' \in [Agents -> Claim]
           /\ \A a \in Agents : /\ claim'[a].held = claim[a].held
                                /\ claim[a].owner # i => claim'[a] = claim[a]
<1>1. AgentOf(i) \in Agents
  BY ItemsAre
<1>2. PICK c \in Claim : c = claim[AgentOf(i)]
  BY <1>1 DEF Types, TypeOK
<1> DEFINE d == [c EXCEPT !.lapsed = TRUE]
<1>3. d \in Claim /\ d.held = c.held
  BY DEF Claim
<1>4. claim' = IF claim[AgentOf(i)].owner = i THEN [claim EXCEPT ![AgentOf(i)] = d] ELSE claim
  BY <1>2 DEF Lapse
<1> HIDE DEF d
<1>5. claim' \in [Agents -> Claim]
      /\ \A a \in Agents : claim'[a].held = claim[a].held /\ (claim[a].owner # i => claim'[a] = claim[a])
  BY <1>1, <1>2, <1>3, <1>4 DEF Types, TypeOK
<1>6. PICK ps \in SUBSET Proposals :
         /\ \A p \in Proposals : ItemOf(p) = i /\ prop[p] = "pending" => p \in ps
         /\ prop' = [p \in Proposals |-> IF p \in ps THEN "lapsed" ELSE prop[p]]
  <2>1. PICK later \in SUBSET {p \in Proposals : ItemOf(p) = i /\ prop[p] = "approved"} :
           LET ps == {p \in Proposals : ItemOf(p) = i /\ Live(p)} \ later IN
           /\ ps # {}
           /\ prop' = [p \in Proposals |-> IF p \in ps THEN "lapsed" ELSE prop[p]]
    BY DEF Lapse
  <2>2. \A p \in Proposals : prop[p] = "pending" => Live(p) /\ p \notin later
    BY DEF Live
  <2> WITNESS {p \in Proposals : ItemOf(p) = i /\ Live(p)} \ later \in SUBSET Proposals
  <2> QED BY <2>1, <2>2
<1>7. /\ prop' \in [Proposals -> Status]
      /\ \A p \in Proposals : /\ prop'[p] \in {prop[p], "lapsed"}
                              /\ ItemOf(p) = i /\ prop[p] = "pending" => prop'[p] = "lapsed"
  BY <1>6 DEF Types, TypeOK, Status
<1> QED BY <1>5, <1>7

\* What the end of a lease does.
LEMMA ClaimEndsDoes ==
    ASSUME Types, NEW a \in Agents, ClaimEnds(a)
    PROVE  /\ \A p \in claim[a].acts : prop[p] # "pending"
           /\ claim' \in [Agents -> Claim] /\ claim'[a].held = claim[a].held
           /\ \A b \in Agents \ {a} : claim'[b] = claim[b]
<1>1. PICK c \in Claim : c = claim[a]
  BY DEF Types, TypeOK
<1> DEFINE d == [c EXCEPT !.lapsed = TRUE]
<1>2. d \in Claim /\ d.held = c.held
  BY DEF Claim
<1>3. claim' = [claim EXCEPT ![a] = d]
  BY <1>1 DEF ClaimEnds
<1> HIDE DEF d
<1> QED BY <1>1, <1>2, <1>3 DEF ClaimEnds, Types, TypeOK

\* What the end of a pause between attempts does.
LEMMA CoolsDownDoes ==
    ASSUME Types, NEW i \in Items, CoolsDown(i)
    PROVE  /\ item' \in [Items -> Item]
           /\ \A j \in Items : /\ item'[j].status = item[j].status
                               /\ item'[j].tries = item[j].tries /\ item'[j].acts = item[j].acts
<1>1. PICK n \in Item : n = item[i]
  BY DEF Types, TypeOK
<1> DEFINE m == [n EXCEPT !.cool = FALSE]
<1>2. m \in Item /\ m.status = n.status /\ m.tries = n.tries /\ m.acts = n.acts
  BY DEF Item
<1>3. item' = [item EXCEPT ![i] = m]
  BY <1>1 DEF CoolsDown
<1> HIDE DEF m
<1> QED BY <1>1, <1>2, <1>3 DEF Types, TypeOK

\* One step of the queue: each disjunct of Next, and a stutter.
LEMMA Steps ==
    ASSUME [Next]_vars
    PROVE  \/ \E i \in Items : \/ Enqueue(i) \/ Renew(i) \/ Lapse(i) \/ CoolsDown(i) \/ Purge(i)
                               \/ \E r \in Runners : Look(r, i)
           \/ \E d \in Deciders : \/ \E p \in Proposals : Read(d, p)
                                  \/ Approve(d) \/ Settle(d) \/ Resolve(d) \/ Close(d)
           \/ \E r \in Runners : Seize(r) \/ Propose(r) \/ Conclude(r) \/ FailCounted(r) \/ FailLost(r)
           \/ SweepReads \/ SweepWrites
           \/ \E a \in Agents : ClaimEnds(a)
           \/ \E a \in Pausing : Pause(a)
           \/ UNCHANGED vars
BY DEF Next, Ends, Decides

\* The types hold at the start.
LEMMA TypesInit == Init => Types
<1> SUFFICES ASSUME Init PROVE Types
  OBVIOUS
<1>1. NotQueued \in Item /\ NotQueued.status = "none" /\ NotQueued.tries = 0 /\ Unclaimed \in Claim
  BY QueueAssumption DEF NotQueued, Item, Unclaimed, Claim
<1>2. Past \in Item /\ Past.status = "completed"
  BY <1>1 DEF Past, NotQueued, Item
<1>3. NoSweep \in Sweep /\ NoRequest \in Request
  BY DEF NoSweep, Sweep, Request
<1>4. \A i \in Items : item[i] \in Item /\ (item[i].status \in {"none", "queued", "failed"} => item[i].tries = 0)
  BY <1>1, <1>2 DEF Init
<1>5. item \in [Items -> Item]
  BY <1>4 DEF Init
<1>6. /\ prop \in [Proposals -> Status] /\ claim \in [Agents -> Claim] /\ paused \in SUBSET Agents
      /\ run \in [Runners -> Run] /\ sweep \in Sweep /\ request \in [Deciders -> Request]
      /\ spent \in [Items -> 0 .. MaxAttempts] /\ stale \in BOOLEAN
  <2>1. 0 \in 0 .. MaxAttempts /\ "none" \in Status
    BY QueueAssumption DEF Status
  <2> QED BY <1>1, <1>3, <2>1, NoRunTyped DEF Init
<1>7. \A r \in Runners : RunRead(r)
  BY NoRunTyped DEF Init, RunRead, Started
<1>8. 0 < MaxAttempts
  BY QueueAssumption
<1> QED BY <1>4, <1>5, <1>6, <1>7, <1>8 DEF Types, TypeOK

\* Every step keeps the types.
LEMMA TypesNext == Types /\ [Next]_vars => Types'
<1> SUFFICES ASSUME Types, [Next]_vars PROVE Types'
  OBVIOUS
<1>1. ASSUME NEW i \in Items, Enqueue(i) PROVE Types'
  <2>1. Lease(i) /\ UNCHANGED <<paused, run, sweep, request, spent, stale>>
    BY <1>1 DEF Enqueue
  <2> QED BY <1>1, <2>1, EnqueueDoes, LeaseDoes DEF Types, TypeOK, RunRead, Started
<1>2. ASSUME NEW i \in Items, Renew(i) PROVE Types'
  BY <1>2, LeaseDoes DEF Renew, Types, TypeOK, RunRead, Started
<1>3. ASSUME NEW i \in Items, Lapse(i) PROVE Types'
  BY <1>3, LapseDoes DEF Lapse, Types, TypeOK, RunRead, Started
<1>4. ASSUME NEW i \in Items, CoolsDown(i) PROVE Types'
  BY <1>4, CoolsDownDoes DEF CoolsDown, Types, TypeOK, RunRead, Started
<1>5. ASSUME NEW i \in Items, Purge(i) PROVE Types'
  BY <1>5 DEF Purge, Types, TypeOK, RunRead, Started, Status
<1>6. ASSUME NEW i \in Items, NEW r \in Runners, Look(r, i) PROVE Types'
  <2>1. item[i].tries < MaxAttempts
    BY <1>6 DEF Look, Types
  <2>2. \A q \in Runners : RunRead(q)'
    BY <1>6, <2>1, LookDoes DEF Types, RunRead, Started
  <2> QED BY <1>6, <2>2, LookDoes DEF Look, Types, TypeOK
<1>7. ASSUME NEW d \in Deciders, NEW p \in Proposals, Read(d, p) PROVE Types'
  BY <1>7, ReadDoes DEF Read, Types, TypeOK, RunRead, Started
<1>17. ASSUME NEW d \in Deciders, Approve(d) PROVE Types'
  <2>1. "approved" \in Status /\ Decided(d, "approved") /\ request[d].pc = "read"
    BY <1>17 DEF Approve, Status
  <2> QED BY <1>17, <2>1, DecidedDoes DEF Approve, Types, TypeOK, RunRead, Started
<1>18. ASSUME NEW d \in Deciders, Settle(d) PROVE Types'
  <2>1. UNCHANGED <<claim, paused, run, sweep, spent, stale>>
    BY <1>18 DEF Settle
  <2>2. /\ prop' \in [Proposals -> Status] /\ item' \in [Items -> Item]
        /\ request' \in [Deciders -> Request]
        /\ \A j \in Items : /\ item'[j].tries = item[j].tries
                            /\ item'[j].status \in {item[j].status, "completed"}
    BY <1>18, SettleDoes DEF Types, TypeOK
  <2> QED BY <2>1, <2>2 DEF Types, TypeOK, RunRead, Started
<1>19. ASSUME NEW d \in Deciders, Resolve(d) PROVE Types'
  <2>1. UNCHANGED <<paused, run, sweep, spent>> /\ stale' \in BOOLEAN
    BY <1>19 DEF Resolve, Types, TypeOK
  <2>2. /\ prop' \in [Proposals -> Status] /\ item' \in [Items -> Item]
        /\ request' \in [Deciders -> Request] /\ claim' \in [Agents -> Claim]
        /\ \A j \in Items : /\ item'[j].tries = item[j].tries
                            /\ item'[j].status \in {item[j].status, "completed"}
    BY <1>19, ResolveDoes
  <2> QED BY <2>1, <2>2 DEF Types, TypeOK, RunRead, Started
<1>20. ASSUME NEW d \in Deciders, Close(d) PROVE Types'
  BY <1>20, CloseDoes DEF Close, Types, TypeOK, RunRead, Started
<1>8. ASSUME NEW r \in Runners, Seize(r) PROVE Types'
  <2>1. \A q \in Runners : RunRead(q)'
    BY <1>8, SeizeDoes DEF Types, RunRead, Started
  <2> QED BY <1>8, <2>1, SeizeDoes DEF Seize, Types, TypeOK
<1>9. ASSUME NEW r \in Runners, Propose(r) PROVE Types'
  <2>1. \A q \in Runners : RunRead(q)'
    BY <1>9, ProposeDoes DEF Types, RunRead, Started
  <2>2. item' \in [Items -> Item] /\ claim' \in [Agents -> Claim]
        /\ prop' \in [Proposals -> Status]
        /\ run' \in [Runners -> Run]
    BY <1>9, ProposeDoes
  <2>3. \A j \in Items : item'[j].status \in {"none", "queued", "failed"} => item'[j].tries < MaxAttempts
    BY <1>9, ProposeDoes DEF Types
  <2> QED BY <1>9, <2>1, <2>2, <2>3 DEF Propose, Types, TypeOK
<1>10. ASSUME NEW r \in Runners, Conclude(r) PROVE Types'
  <2>1. \A q \in Runners : RunRead(q)'
    BY <1>10, ConcludeDoes DEF Types, RunRead, Started
  <2>2. \A j \in Items : item'[j].status \in {"none", "queued", "failed"} => item'[j].tries < MaxAttempts
    BY <1>10, ConcludeDoes DEF Types
  <2> QED BY <1>10, <2>1, <2>2, ConcludeDoes DEF Conclude, Types, TypeOK
<1>11. ASSUME NEW r \in Runners, FailCounted(r) \/ FailLost(r) PROVE Types'
  <2>0. Fails(r)
    BY <1>11, FailDoes
  <2>1. \A q \in Runners : RunRead(q)'
    BY <2>0, FailsDoes DEF Types, RunRead, Started
  <2>2. \A j \in Items : item'[j].status \in {"none", "queued", "failed"} => item'[j].tries < MaxAttempts
    <3> TAKE j \in Items
    <3>1. item[j].tries \in Nat /\ MaxAttempts \in Nat
      BY QueueAssumption DEF Types, TypeOK, Item
    <3>2. item[j].status \in {"queued", "failed"} /\ Failed(j).status \in {"none", "queued", "failed"} =>
              Failed(j).tries < MaxAttempts
      BY <3>1, FailedDoes
    <3> QED BY <1>11, <3>2, FailDoes DEF Types
  <2> QED BY <1>11, <2>0, <2>1, <2>2, FailDoes, FailsDoes DEF Types, TypeOK
<1>12. CASE SweepReads
  BY <1>12 DEF SweepReads, Types, TypeOK, RunRead, Started, Sweep
<1>13. CASE SweepWrites
  BY <1>13, SweepDoes DEF SweepWrites, Types, TypeOK, RunRead, Started
<1>14. ASSUME NEW a \in Agents, ClaimEnds(a) PROVE Types'
  BY <1>14, ClaimEndsDoes DEF ClaimEnds, Types, TypeOK, RunRead, Started
<1>15. ASSUME NEW a \in Pausing, Pause(a) PROVE Types'
  BY <1>15, QueueAssumption DEF Pause, Types, TypeOK, RunRead, Started
<1>16. CASE UNCHANGED vars
  BY <1>16 DEF vars, Types, TypeOK, RunRead, Started
<1> QED BY Steps, <1>1, <1>2, <1>3, <1>4, <1>5, <1>6, <1>7, <1>8, <1>9, <1>10, <1>11, <1>12,
           <1>13, <1>14, <1>15, <1>16, <1>17, <1>18, <1>19, <1>20

\* The types hold in every state.
LEMMA TypesHold == Spec => []Types
BY TypesInit, TypesNext, PTL DEF Spec

\* Every variable has its type, whatever overlaps: no item has more attempts than
\* max_attempts (acquireWorkItem, failWorkItem).
THEOREM TypeCorrect == Spec => []TypeOK
<1>1. Types => TypeOK
  BY DEF Types
<1> QED BY <1>1, TypesHold, PTL

--------------------------------------------------------------------------------
(* Attempts *)

\* What a diagnosis has cost: it is given up with the last attempt.
Paid(i) ==
    /\ item[i].status \in {"none", "queued", "failed", "dead"} => item[i].tries <= spent[i]
    /\ item[i].status = "dead" => item[i].tries = MaxAttempts

\* Only a failure counts attempts: what leaves an item, queues it or ends it well does not.
LEMMA PaidUntouched ==
    ASSUME \A i \in Alerts : Paid(i), UNCHANGED spent,
           \A i \in Alerts :
               \/ item'[i].status \in {"waiting", "completed"}
               \/ /\ item'[i].tries = item[i].tries
                  /\ \/ item'[i].status = item[i].status
                     \/ item[i].status = "none" /\ item'[i].status = "queued"
    PROVE  \A i \in Alerts : Paid(i)'
BY DEF Paid

\* A failure is paid for before it is counted.
LEMMA FailPays ==
    ASSUME Types, \A i \in Alerts : Paid(i), NEW r \in Runners, FailCounted(r) \/ FailLost(r)
    PROVE  \A i \in Alerts : Paid(i)'
<1>0. PICK i \in Items : i = run[r].item
  BY FailDoes
<1>1. Fails(r) /\ \A j \in Items \ {i} : item'[j] = item[j] /\ spent'[j] = spent[j]
  BY <1>0, FailDoes, FailsDoes
<1>2. ASSUME i \in Alerts PROVE Paid(i)'
  <2>1. /\ item[i].tries \in Nat /\ spent[i] \in 0 .. MaxAttempts /\ MaxAttempts \in Nat
        /\ item[i].status \in {"queued", "failed"} => item[i].tries < MaxAttempts
    BY <1>1, QueueAssumption DEF Types, TypeOK, Item
  <2>2. spent'[i] = IF spent[i] < MaxAttempts THEN spent[i] + 1 ELSE spent[i]
    BY <1>0, <1>1, <1>2, FailsDoes
  <2>3. CASE item'[i] = item[i]
    BY <1>2, <2>1, <2>2, <2>3 DEF Paid
  <2>4. CASE item[i].status \in {"queued", "failed"} /\ item'[i] = Failed(i)
    <3>1. /\ item'[i].tries = item[i].tries + 1
          /\ item'[i].status = IF item[i].tries + 1 >= MaxAttempts THEN "dead" ELSE "failed"
      BY <1>1, <2>4, FailedDoes
    <3> QED BY <1>2, <2>1, <2>2, <2>4, <3>1 DEF Paid
  <2> QED BY <1>0, <2>3, <2>4, FailDoes
<1> QED BY <1>1, <1>2, AlertsAre DEF Paid

\* Every step keeps the attempts paid for.
LEMMA PaidNext ==
    ASSUME Types, \A i \in Alerts : Paid(i), [Next]_vars
    PROVE  \A i \in Alerts : Paid(i)'
<1> DEFINE Goal == \A i \in Alerts : Paid(i)'
<1>0. Alerts \subseteq Items
  BY AlertsAre
<1>1. ASSUME NEW i \in Items, Enqueue(i) PROVE Goal
  <2>1. UNCHANGED spent
    BY <1>1 DEF Enqueue
  <2> QED BY <1>0, <1>1, <2>1, EnqueueDoes, PaidUntouched
<1>2. ASSUME NEW i \in Items, CoolsDown(i) PROVE Goal
  BY <1>0, <1>2, CoolsDownDoes, PaidUntouched DEF CoolsDown
<1>3. ASSUME NEW d \in Deciders, Settle(d) PROVE Goal
  <2>1. UNCHANGED spent
    BY <1>3 DEF Settle
  <2> QED BY <1>0, <1>3, <2>1, SettleDoes, PaidUntouched
<1>4. ASSUME NEW d \in Deciders, Resolve(d) PROVE Goal
  <2>1. UNCHANGED spent
    BY <1>4 DEF Resolve
  <2> QED BY <1>0, <1>4, <2>1, ResolveDoes, PaidUntouched
<1>5. ASSUME NEW r \in Runners, Propose(r) PROVE Goal
  <2>1. UNCHANGED spent
    BY <1>5 DEF Propose
  <2> QED BY <1>0, <1>5, <2>1, ProposeDoes, PaidUntouched
<1>6. ASSUME NEW r \in Runners, Conclude(r) PROVE Goal
  <2>1. UNCHANGED spent
    BY <1>6 DEF Conclude
  <2> QED BY <1>0, <1>6, <2>1, ConcludeDoes, PaidUntouched
<1>7. CASE SweepWrites
  <2>1. UNCHANGED spent
    BY <1>7 DEF SweepWrites
  <2> QED BY <1>0, <1>7, <2>1, SweepDoes, PaidUntouched
<1>8. ASSUME UNCHANGED <<item, spent>> PROVE Goal
  BY <1>8, PaidUntouched
<1>9. ASSUME NEW i \in Items, Renew(i) \/ Lapse(i) \/ Purge(i) PROVE Goal
  BY <1>8, <1>9 DEF Renew, Lapse, Purge
<1>10. ASSUME NEW i \in Items, NEW r \in Runners, Look(r, i) PROVE Goal
  BY <1>8, <1>10 DEF Look
<1>11. ASSUME NEW d \in Deciders, NEW p \in Proposals, Read(d, p) PROVE Goal
  BY <1>8, <1>11 DEF Read
<1>12. ASSUME NEW d \in Deciders, Approve(d) \/ Close(d) PROVE Goal
  BY <1>8, <1>12 DEF Approve, Close
<1>13. ASSUME NEW r \in Runners, Seize(r) PROVE Goal
  BY <1>8, <1>13 DEF Seize
<1>14. ASSUME NEW a, ClaimEnds(a) \/ Pause(a) PROVE Goal
  BY <1>8, <1>14 DEF ClaimEnds, Pause
<1>15. CASE SweepReads \/ UNCHANGED vars
  BY <1>8, <1>15 DEF SweepReads, vars
<1> QED BY Steps, FailPays, <1>1, <1>2, <1>3, <1>4, <1>5, <1>6, <1>7, <1>9, <1>10, <1>11, <1>12,
           <1>13, <1>14, <1>15

\* A diagnosis is given up no sooner than after max_attempts failures, whatever overlaps
\* (acquireWorkItem, failWorkItem, reapplyWorkItemFailureAfterRollback).
THEOREM AttemptsStayPaid == Spec => []AttemptsPaid
<1> DEFINE I == Types /\ \A i \in Alerts : Paid(i)
<1>1. Init => I
  <2> SUFFICES ASSUME Init PROVE I
    OBVIOUS
  <2>1. ASSUME NEW i \in Alerts PROVE Paid(i)
    <3>1. i \in Items /\ item[i] \in {NotQueued, Past} /\ spent[i] = 0
      BY AlertsAre DEF Init
    <3> QED BY <3>1 DEF Paid, NotQueued, Past
  <2> QED BY <2>1, TypesInit
<1>2. I /\ [Next]_vars => I'
  BY TypesNext, PaidNext
<1>3. I => AttemptsPaid
  <2> SUFFICES ASSUME I, NEW i \in Alerts
               PROVE  /\ item[i].status \in {"failed", "dead"} => item[i].tries <= spent[i]
                      /\ item[i].status = "dead" => spent[i] = MaxAttempts
    BY DEF AttemptsPaid
  <2>1. Paid(i) /\ spent[i] \in 0 .. MaxAttempts /\ MaxAttempts \in Nat
    BY AlertsAre, QueueAssumption DEF Types, TypeOK
  <2> QED BY <2>1 DEF Paid
<1> HIDE DEF I
<1> QED BY <1>1, <1>2, <1>3, PTL DEF Spec

--------------------------------------------------------------------------------
(* Proposals to decide *)

Pending(p) == prop[p] = "pending"

Working(r) == run[r].pc = "working"

Active(i) == item[i].status \in {"queued", "failed", "waiting"}

InQueue(i) == item[i].status \in {"queued", "failed"}

\* The item never comes back to the queue.
PastQueue(i) == item[i].status \in {"waiting", "completed", "dead"}

\* What PendingIsHeld says of one proposal.
Kept(p) ==
    Pending(p) => LET i == ItemOf(p)
                      c == claim[AgentOf(i)]
                  IN /\ item[i].status = "waiting" /\ p \in item[i].acts
                     /\ c.held /\ ~ c.lapsed /\ c.owner = i /\ p \in c.acts

\* A run that has its target works there alone, at an item still in the queue, and is to
\* expire every proposal on it and to release every claim of a rival.
Cleared(r) ==
    Working(r) =>
        LET a == AgentOf(run[r].item) IN
        /\ InQueue(run[r].item)
        /\ \A q \in Runners \ {r} : Working(q) => ~ OneTarget(a, AgentOf(run[q].item))
        /\ \A p \in Proposals : Pending(p) /\ OneTarget(a, AgentOf(ItemOf(p))) => p \in run[r].expire
        /\ \A b \in Rivals(a) : claim[b].held => b \in run[r].release

\* A decision that is to resolve its item is about the last proposal of it.
Closing(d) ==
    request[d].pc = "resolving" =>
        /\ PastQueue(ItemOf(request[d].prop))
        /\ \A p \in Proposals \ {request[d].prop} : ItemOf(p) = ItemOf(request[d].prop) => ~ Pending(p)

\* An agent has one item to work at, and a target one claim.
Board ==
    /\ \A i, j \in Items : Active(i) /\ Active(j) /\ AgentOf(i) = AgentOf(j) => i = j
    /\ \A a, b \in Agents : claim[a].held /\ claim[b].held /\ OneTarget(a, b) => a = b
    /\ \A p \in Proposals : Kept(p)
    /\ \A r \in Runners : Cleared(r)
    /\ \A d \in Deciders : Closing(d)

\* The claim held for a proposal to decide is not one to release.
LEMMA PendingNotOver ==
    ASSUME Board, NEW p \in Proposals, Pending(p)
    PROVE  LET a == AgentOf(ItemOf(p))
           IN  /\ a \in Agents /\ claim[a].held /\ ~ claim[a].lapsed /\ claim[a].owner = ItemOf(p)
               /\ p \in claim[a].acts /\ Live(p) /\ ~ Ended(a) /\ ~ Over(a)
<1>1. Kept(p) /\ Live(p)
  BY DEF Board, Pending, Live
<1> QED BY <1>1, ItemsAre DEF Kept, Over, Ended

\* What other agents proposed on a target is expired with their claims.
LEMMA RivalsExpired ==
    ASSUME Board, NEW a \in Agents, NEW p \in Proposals, Pending(p), AgentOf(ItemOf(p)) # a,
           OneTarget(a, AgentOf(ItemOf(p)))
    PROVE  p \in Expired(a)
BY PendingNotOver, RivalsAre DEF Expired, Foreign

\* While an agent's item is in the queue, nothing it proposed is to decide.
LEMMA NonePending ==
    ASSUME Board, NEW i \in Items, InQueue(i), NEW p \in Proposals, AgentOf(ItemOf(p)) = AgentOf(i)
    PROVE  ~ Pending(p)
<1> SUFFICES ASSUME Pending(p) PROVE FALSE
  OBVIOUS
<1>1. Kept(p) /\ ItemOf(p) \in Items
  BY ItemsAre DEF Board
<1> QED BY <1>1 DEF Board, Kept, Active, InQueue

\* The claim rows a working run locks are those of its target.
LEMMA LockedIs ==
    ASSUME Types, NEW a \in Agents, a \notin Locked, NEW r \in Runners, Working(r)
    PROVE  AgentOf(run[r].item) \in Agents /\ ~ OneTarget(AgentOf(run[r].item), a)
<1>1. AgentOf(run[r].item) \in Agents
  BY ItemsAre DEF Types, RunRead, Started, Working
<1>2. a \notin Rivals(AgentOf(run[r].item)) /\ a # AgentOf(run[r].item)
  BY DEF Locked, Working
<1> QED BY <1>1, <1>2, RivalsAre DEF OneTarget

\* A step that keeps an agent to one item and a target to one claim, and what is held for
\* the proposals; that disturbs no run that works on, nor brings an item back.
LEMMA BoardMoves ==
    ASSUME Types, Board,
           \A i, j \in Items : Active(i)' /\ Active(j)' /\ AgentOf(i) = AgentOf(j) => i = j,
           \A a, b \in Agents : claim'[a].held /\ claim'[b].held /\ OneTarget(a, b) => a = b,
           \A p \in Proposals : Kept(p)' /\ (Pending(p)' => Pending(p) \/ InQueue(ItemOf(p))),
           \A i \in Items : PastQueue(i) => PastQueue(i)',
           \A r \in Runners : run'[r].pc = "working" =>
               /\ Working(r) /\ run'[r] = run[r]
               /\ item'[run[r].item].status \in {"queued", "failed"}
               /\ \A p \in Proposals : prop'[p] = "pending" /\ OneTarget(AgentOf(run[r].item), AgentOf(ItemOf(p)))
                                       => Pending(p)
               /\ \A b \in Rivals(AgentOf(run[r].item)) : claim'[b].held => claim[b].held,
           \A d \in Deciders : request'[d].pc = "resolving" => request'[d] = request[d] \/ Closing(d)'
    PROVE  Board'
<1>1. ASSUME NEW r \in Runners PROVE Cleared(r)'
  <2> SUFFICES ASSUME Working(r)' PROVE Cleared(r)'
    BY DEF Cleared
  <2>1. Working(r) /\ run'[r] = run[r] /\ Cleared(r)
    BY DEF Working, Board
  <2>2. \A q \in Runners \ {r} : Working(q)' => Working(q) /\ run'[q] = run[q]
    BY DEF Working
  <2> QED BY <2>1, <2>2 DEF Cleared, InQueue, Pending, Working
<1>2. ASSUME NEW d \in Deciders PROVE Closing(d)'
  <2> SUFFICES ASSUME request'[d].pc = "resolving", request'[d] = request[d] PROVE Closing(d)'
    BY DEF Closing
  <2>1. PICK p \in Proposals : p = request[d].prop
    BY Requested
  <2>2. /\ ItemOf(p) \in Items /\ PastQueue(ItemOf(p))
        /\ \A q \in Proposals \ {p} : ItemOf(q) = ItemOf(p) => ~ Pending(q)
    BY <2>1, ItemsAre DEF Board, Closing
  <2>3. PastQueue(ItemOf(p))' /\ ~ InQueue(ItemOf(p))
    BY <2>2 DEF PastQueue, InQueue
  <2> QED BY <2>1, <2>2, <2>3 DEF Closing, PastQueue, Pending
<1> QED BY <1>1, <1>2 DEF Board, Pending, Active

\* A step that ends proposals, claims, items and runs and makes none, and leaves alone what
\* is held for the proposals that stay to decide.
LEMMA BoardShrinks ==
    ASSUME Types, Board,
           \A p \in Proposals : prop'[p] = "pending" =>
               LET i == ItemOf(p)
               IN  /\ Pending(p) /\ item'[i].status = item[i].status /\ item'[i].acts = item[i].acts
                   /\ claim'[AgentOf(i)] = claim[AgentOf(i)],
           \A a \in Agents : claim'[a].held => claim[a].held,
           \A i \in Items : (Active(i)' => Active(i)) /\ (PastQueue(i) => PastQueue(i)'),
           \A r \in Runners : run'[r].pc = "working" =>
               Working(r) /\ run'[r] = run[r] /\ item'[run[r].item].status \in {"queued", "failed"},
           \A d \in Deciders : request'[d].pc = "resolving" => request'[d] = request[d] \/ Closing(d)'
    PROVE  Board'
<1>1. \A p \in Proposals : Kept(p)' /\ (Pending(p)' => Pending(p))
  BY DEF Board, Kept, Pending
<1>2. \A i, j \in Items : Active(i)' /\ Active(j)' /\ AgentOf(i) = AgentOf(j) => i = j
  BY DEF Board
<1>3. \A a, b \in Agents : claim'[a].held /\ claim'[b].held /\ OneTarget(a, b) => a = b
  BY DEF Board
<1>4. \A a \in Agents : Rivals(a) \subseteq Agents
  BY DEF Rivals
<1>5. \A r \in Runners : Working(r) => AgentOf(run[r].item) \in Agents
  BY ItemsAre DEF Types, RunRead, Started, Working
<1> QED BY <1>1, <1>2, <1>3, <1>4, <1>5, BoardMoves

\* A step of one agent that leaves no other claim and no other proposal on its target, and
\* what is not on it alone.
LEMMA TargetMoves ==
    ASSUME Types, Board, NEW a \in Agents,
           \A b \in Agents \ {a} : /\ claim'[b].held => claim[b].held /\ ~ OneTarget(a, b)
                                   /\ ~ OneTarget(a, b) => claim'[b] = claim[b],
           \A p \in Proposals : prop'[p] = "pending" =>
               \/ Pending(p) /\ ~ OneTarget(a, AgentOf(ItemOf(p)))
               \/ Kept(p)' /\ AgentOf(ItemOf(p)) = a /\ InQueue(ItemOf(p)),
           \A j \in Items : AgentOf(j) # a =>
               item'[j].status = item[j].status /\ item'[j].acts = item[j].acts,
           \A j, k \in Items : Active(j)' /\ Active(k)' /\ AgentOf(j) = a /\ AgentOf(k) = a => j = k,
           \A j \in Items : PastQueue(j) => PastQueue(j)',
           \A r \in Runners : run'[r].pc = "working" =>
               Working(r) /\ run'[r] = run[r] /\ ~ OneTarget(AgentOf(run[r].item), a),
           UNCHANGED request
    PROVE  Board'
<1>1. ASSUME NEW j \in Items, NEW k \in Items, Active(j)', Active(k)', AgentOf(j) = AgentOf(k)
      PROVE  j = k
  <2>1. CASE AgentOf(j) = a
    BY <1>1, <2>1
  <2>2. CASE AgentOf(j) # a
    <3>1. Active(j) /\ Active(k)
      BY <1>1, <2>2 DEF Active
    <3> QED BY <1>1, <3>1 DEF Board
  <2> QED BY <2>1, <2>2
<1>2. \A b, c \in Agents : claim'[b].held /\ claim'[c].held /\ OneTarget(b, c) => b = c
  BY DEF Board, OneTarget
<1>3. ASSUME NEW p \in Proposals PROVE Kept(p)' /\ (Pending(p)' => Pending(p) \/ InQueue(ItemOf(p)))
  <2>1. ItemOf(p) \in Items /\ AgentOf(ItemOf(p)) \in Agents /\ Kept(p)
    BY ItemsAre DEF Board
  <2>2. CASE Pending(p) /\ ~ OneTarget(a, AgentOf(ItemOf(p)))
    <3>1. AgentOf(ItemOf(p)) # a
      BY <2>2 DEF OneTarget
    <3> QED BY <2>1, <2>2, <3>1 DEF Kept
  <2>3. CASE prop'[p] # "pending"
    BY <2>3 DEF Kept, Pending
  <2> QED BY <2>2, <2>3 DEF Pending
<1>4. ASSUME NEW r \in Runners, run'[r].pc = "working"
      PROVE  /\ Working(r) /\ run'[r] = run[r]
             /\ item'[run[r].item].status \in {"queued", "failed"}
             /\ \A p \in Proposals : prop'[p] = "pending" /\ OneTarget(AgentOf(run[r].item), AgentOf(ItemOf(p)))
                                     => Pending(p)
             /\ \A b \in Rivals(AgentOf(run[r].item)) : claim'[b].held => claim[b].held
  <2>1. Working(r) /\ run'[r] = run[r] /\ ~ OneTarget(AgentOf(run[r].item), a) /\ InQueue(run[r].item)
        /\ run[r].item \in Items /\ AgentOf(run[r].item) \in Agents
    BY <1>4, ItemsAre DEF Board, Cleared, Types, RunRead, Started, Working
  <2>2. AgentOf(run[r].item) # a
    BY <2>1 DEF OneTarget
  <2>3. \A b \in Rivals(AgentOf(run[r].item)) : b \in Agents /\ b # a
    BY <2>1, RivalsAre DEF Rivals
  <2> QED BY <2>1, <2>2, <2>3 DEF InQueue
<1> QED BY <1>1, <1>2, <1>3, <1>4, BoardMoves

\* The lease of an agent that has nothing to decide keeps the board, where at most its own
\* items change and at most one of them is active afterwards.
LEMMA LeaseKeeps ==
    ASSUME Types, Board, NEW i \in Items, Lease(i), UNCHANGED <<run, request>>,
           \A p \in Proposals : AgentOf(ItemOf(p)) = AgentOf(i) => ~ Pending(p),
           \A j \in Items : AgentOf(j) # AgentOf(i) =>
               item'[j].status = item[j].status /\ item'[j].acts = item[j].acts,
           \A j \in Items : AgentOf(j) = AgentOf(i) /\ Active(j)' => j = i,
           \A j \in Items : PastQueue(j) => PastQueue(j)'
    PROVE  Board'
<1> DEFINE a == AgentOf(i)
<1>1. a \in Agents /\ a \notin Locked
  BY ItemsAre DEF Lease
<1>2. \A r \in Runners : Working(r) => ~ OneTarget(AgentOf(run[r].item), a)
  BY <1>1, LockedIs
<1>3. ASSUME NEW p \in Proposals, prop'[p] = "pending"
      PROVE  Pending(p) /\ ~ OneTarget(a, AgentOf(ItemOf(p)))
  <2>1. Pending(p) /\ p \notin Expired(a)
    BY <1>3, LeaseDoes DEF Pending
  <2> QED BY <1>1, <2>1, RivalsExpired
<1>4. \A b \in Rivals(a) \ Taken(a) : ~ claim[b].held
  BY DEF Lease
<1>5. ASSUME NEW b \in Agents \ {a}
      PROVE  /\ claim'[b].held => claim[b].held /\ ~ OneTarget(a, b)
             /\ ~ OneTarget(a, b) => claim'[b] = claim[b]
  <2>1. b \in Rivals(a) <=> OneTarget(a, b)
    BY <1>1, RivalsAre
  <2>2. claim'[b] = IF b \in Taken(a) THEN Unclaimed ELSE claim[b]
    BY LeaseDoes
  <2>3. ~ Unclaimed.held /\ Taken(a) \subseteq Rivals(a)
    BY DEF Unclaimed, Taken, Foreign
  <2> QED BY <1>4, <2>1, <2>2, <2>3
<1> QED BY <1>1, <1>2, <1>3, <1>5, TargetMoves DEF Working

\* A ticket or an alert is queued.
LEMMA EnqueueKeeps ==
    ASSUME Types, Board, NEW i \in Items, Enqueue(i)
    PROVE  Board'
<1>1. Lease(i) /\ UNCHANGED <<run, request>>
  BY DEF Enqueue
<1>2. ASSUME NEW p \in Proposals, AgentOf(ItemOf(p)) = AgentOf(i) PROVE ~ Pending(p)
  <2> SUFFICES ASSUME Pending(p) PROVE FALSE
    OBVIOUS
  <2>1. Kept(p) /\ ItemOf(p) \in Items
    BY ItemsAre DEF Board
  <2>2. Resolved(ItemOf(p)) /\ p \in item[ItemOf(p)].acts
    BY <1>2, <2>1, EnqueueDoes DEF Kept
  <2> QED BY <2>2 DEF Resolved, Pending
<1>3. \A j \in Items : AgentOf(j) # AgentOf(i) =>
          item'[j].status = item[j].status /\ item'[j].acts = item[j].acts
  BY EnqueueDoes
<1>4. \A j \in Items : AgentOf(j) = AgentOf(i) /\ Active(j)' => j = i
  BY EnqueueDoes DEF Active
<1>5. \A j \in Items : PastQueue(j) => PastQueue(j)'
  BY EnqueueDoes DEF PastQueue
<1> QED BY <1>1, <1>2, <1>3, <1>4, <1>5, LeaseKeeps

\* A ticket in the queue is polled again.
LEMMA RenewKeeps ==
    ASSUME Types, Board, NEW i \in Items, Renew(i)
    PROVE  Board'
<1>1. Lease(i) /\ UNCHANGED <<item, run, request>> /\ InQueue(i)
  BY DEF Renew, InQueue
<1>2. \A p \in Proposals : AgentOf(ItemOf(p)) = AgentOf(i) => ~ Pending(p)
  BY <1>1, NonePending
<1>3. \A j \in Items : AgentOf(j) = AgentOf(i) /\ Active(j)' => j = i
  BY <1>1 DEF Board, Active, InQueue
<1>4. \A j \in Items : PastQueue(j) => PastQueue(j)'
  BY <1>1 DEF PastQueue
<1> QED BY <1>1, <1>2, <1>3, <1>4, LeaseKeeps

\* A run takes its target, on claims and an item that are as it read them.
LEMMA SeizeKeeps ==
    ASSUME Types, Board, NEW r \in Runners, Seize(r), ~ stale'
    PROVE  Board'
<1>1. UNCHANGED <<item, claim, prop, request>> /\ \A q \in Runners \ {r} : run'[q] = run[q]
  BY SeizeDoes DEF Seize
<1>2. CASE run'[r].pc # "working"
  <2>1. \A q \in Runners : run'[q].pc = "working" =>
            Working(q) /\ run'[q] = run[q] /\ item'[run[q].item].status \in {"queued", "failed"}
    BY <1>1, <1>2 DEF Board, Cleared, Working, InQueue
  <2>2. \A i \in Items : (Active(i)' => Active(i)) /\ (PastQueue(i) => PastQueue(i)')
    BY <1>1 DEF Active, PastQueue
  <2> QED BY <1>1, <2>1, <2>2, BoardShrinks DEF Pending
<1>3. CASE run'[r].pc = "working"
  <2>1. PICK i \in Items : i = run[r].item
    BY SeizeDoes DEF Types, RunRead, Started
  <2> DEFINE a == AgentOf(i)
  <2>2. /\ a \in Agents /\ a \notin Locked /\ ~ Outdated(r)
        /\ \A b \in Rivals(a) : claim[b].held => b \in run[r].release
        /\ run'[r].item = i /\ run'[r].release = run[r].release /\ run'[r].expire = run[r].expire
    BY <1>3, <2>1, SeizeDoes, ItemsAre
  <2>3. InQueue(i)
    BY <2>1, <2>2 DEF Outdated, InQueue
  <2>4. \A q \in Runners : Working(q) => ~ OneTarget(AgentOf(run[q].item), a)
    BY <2>2, LockedIs
  <2>5. ASSUME NEW p \in Proposals, Pending(p), OneTarget(a, AgentOf(ItemOf(p)))
        PROVE  p \in run[r].expire
    <3>1. AgentOf(ItemOf(p)) # a
      BY <2>3, <2>5, NonePending
    <3>2. AgentOf(ItemOf(p)) \in Rivals(a)
      BY <2>2, <2>5, <3>1, RivalsAre, PendingNotOver
    <3> QED BY <2>2, <2>5, <3>2, PendingNotOver DEF Outdated
  <2>6. Cleared(r)'
    BY <1>1, <2>2, <2>3, <2>4, <2>5 DEF Cleared, Working, InQueue, Pending, OneTarget
  <2>7. ASSUME NEW q \in Runners \ {r} PROVE Cleared(q)'
    <3>1. Cleared(q) /\ run'[q] = run[q]
      BY <1>1 DEF Board
    <3> QED BY <1>1, <2>2, <2>4, <3>1 DEF Cleared, Working, InQueue, Pending
  <2>8. (\A p \in Proposals : Kept(p)') /\ \A d \in Deciders : Closing(d)'
    BY <1>1 DEF Board, Kept, Closing, Pending, PastQueue
  <2> QED BY <1>1, <2>6, <2>7, <2>8 DEF Board, Active
<1> QED BY <1>2, <1>3

\* What a run finds on its target when it ends: itself, its item in the queue, no claim it
\* does not release and no proposal it does not expire.
LEMMA AtTheEnd ==
    ASSUME Types, Board, NEW r \in Runners, Working(r),
           \A q \in Runners \ {r} : run'[q] = run[q], run'[r].pc = "idle",
           \A b \in Agents \ {AgentOf(run[r].item)} :
               claim'[b] = IF b \in run[r].release THEN Unclaimed ELSE claim[b]
    PROVE  LET a == AgentOf(run[r].item) IN
           /\ run[r].item \in Items /\ a \in Agents /\ InQueue(run[r].item)
           /\ \A q \in Runners : run'[q].pc = "working" =>
                  Working(q) /\ run'[q] = run[q] /\ ~ OneTarget(AgentOf(run[q].item), a)
           /\ \A b \in Agents \ {a} : /\ claim'[b].held => claim[b].held /\ ~ OneTarget(a, b)
                                      /\ ~ OneTarget(a, b) => claim'[b] = claim[b]
           /\ \A p \in Proposals : Pending(p) /\ p \notin run[r].expire =>
                  ~ OneTarget(a, AgentOf(ItemOf(p)))
<1> DEFINE a == AgentOf(run[r].item)
<1>1. /\ run[r].item \in Items /\ a \in Agents /\ InQueue(run[r].item)
      /\ run[r].release \subseteq Rivals(a) /\ Cleared(r)
  BY ItemsAre DEF Types, RunRead, Started, Working, Board, Cleared
<1>2. ASSUME NEW q \in Runners, run'[q].pc = "working"
      PROVE  Working(q) /\ run'[q] = run[q] /\ ~ OneTarget(AgentOf(run[q].item), a)
  BY <1>1, <1>2 DEF Cleared, Working, OneTarget
<1>3. ASSUME NEW b \in Agents \ {a}
      PROVE  /\ claim'[b].held => claim[b].held /\ ~ OneTarget(a, b)
             /\ ~ OneTarget(a, b) => claim'[b] = claim[b]
  <2>1. b \in Rivals(a) <=> OneTarget(a, b)
    BY <1>1, RivalsAre
  <2>2. ~ Unclaimed.held
    BY DEF Unclaimed
  <2> QED BY <1>1, <2>1, <2>2 DEF Cleared
<1>4. \A p \in Proposals : Pending(p) /\ p \notin run[r].expire => ~ OneTarget(a, AgentOf(ItemOf(p)))
  BY <1>1 DEF Cleared
<1> QED BY <1>1, <1>2, <1>3, <1>4

\* A run makes proposals: it leaves no other agent's on the target.
LEMMA ProposeKeeps ==
    ASSUME Types, Board, NEW r \in Runners, Propose(r)
    PROVE  Board'
<1>1. PICK i \in Items : i = run[r].item
  BY ProposeDoes DEF Types, RunRead, Started
<1> DEFINE a == AgentOf(i)
<1>2. PICK ps \in SUBSET Proposals :
         /\ \A p \in ps : ItemOf(p) = i
         /\ \A p \in Proposals : prop'[p] = IF p \in ps THEN "pending"
                                            ELSE IF p \in run[r].expire THEN "settled" ELSE prop[p]
         /\ item'[i].status = "waiting" /\ item'[i].acts = ps
         /\ \A j \in Items \ {i} : item'[j] = item[j]
         /\ claim'[a] = Hold(i, ps)
         /\ \A b \in Agents \ {a} : claim'[b] = IF b \in run[r].release THEN Unclaimed ELSE claim[b]
  BY <1>1, ProposeDoes
<1>3. /\ a \in Agents /\ InQueue(i)
      /\ \A q \in Runners : run'[q].pc = "working" =>
             Working(q) /\ run'[q] = run[q] /\ ~ OneTarget(AgentOf(run[q].item), a)
      /\ \A b \in Agents \ {a} : /\ claim'[b].held => claim[b].held /\ ~ OneTarget(a, b)
                                 /\ ~ OneTarget(a, b) => claim'[b] = claim[b]
      /\ \A p \in Proposals : Pending(p) /\ p \notin run[r].expire => ~ OneTarget(a, AgentOf(ItemOf(p)))
  BY <1>1, <1>2, ProposeDoes, AtTheEnd DEF Working
<1>4. ASSUME NEW p \in Proposals, prop'[p] = "pending"
      PROVE  \/ Pending(p) /\ ~ OneTarget(a, AgentOf(ItemOf(p)))
             \/ Kept(p)' /\ AgentOf(ItemOf(p)) = a /\ InQueue(ItemOf(p))
  <2>1. CASE p \in ps
    BY <1>2, <1>3, <2>1, HoldDoes DEF Kept
  <2>2. CASE p \notin ps
    BY <1>2, <1>3, <1>4, <2>2 DEF Pending
  <2> QED BY <2>1, <2>2
<1>5. /\ \A j \in Items : AgentOf(j) # a =>
             item'[j].status = item[j].status /\ item'[j].acts = item[j].acts
      /\ \A j, k \in Items : Active(j)' /\ Active(k)' /\ AgentOf(j) = a /\ AgentOf(k) = a => j = k
      /\ \A j \in Items : PastQueue(j) => PastQueue(j)'
  BY <1>2, <1>3 DEF Board, Active, InQueue, PastQueue
<1>6. UNCHANGED request
  BY DEF Propose
<1> QED BY <1>3, <1>4, <1>5, <1>6, TargetMoves

\* A run ends without proposals: its agent has none to decide, approved ones at most.
LEMMA ConcludeKeeps ==
    ASSUME Types, Board, NEW r \in Runners, Conclude(r)
    PROVE  Board'
<1>1. PICK i \in Items : i = run[r].item
  BY ConcludeDoes DEF Types, RunRead, Started
<1> DEFINE a == AgentOf(i)
<1>2. /\ \A p \in Proposals : prop'[p] = IF p \in run[r].expire THEN "settled" ELSE prop[p]
      /\ item'[i].status \in {"completed", "waiting"}
      /\ \A j \in Items \ {i} : item'[j] = item[j]
      /\ \A b \in Agents \ {a} : claim'[b] = IF b \in run[r].release THEN Unclaimed ELSE claim[b]
  BY <1>1, ConcludeDoes
<1>3. /\ a \in Agents /\ InQueue(i)
      /\ \A q \in Runners : run'[q].pc = "working" =>
             Working(q) /\ run'[q] = run[q] /\ ~ OneTarget(AgentOf(run[q].item), a)
      /\ \A b \in Agents \ {a} : /\ claim'[b].held => claim[b].held /\ ~ OneTarget(a, b)
                                 /\ ~ OneTarget(a, b) => claim'[b] = claim[b]
      /\ \A p \in Proposals : Pending(p) /\ p \notin run[r].expire => ~ OneTarget(a, AgentOf(ItemOf(p)))
  BY <1>1, <1>2, ConcludeDoes, AtTheEnd DEF Working
<1>4. \A p \in Proposals : prop'[p] = "pending" => Pending(p) /\ ~ OneTarget(a, AgentOf(ItemOf(p)))
  BY <1>2, <1>3 DEF Pending
<1>5. /\ \A j \in Items : AgentOf(j) # a =>
             item'[j].status = item[j].status /\ item'[j].acts = item[j].acts
      /\ \A j, k \in Items : Active(j)' /\ Active(k)' /\ AgentOf(j) = a /\ AgentOf(k) = a => j = k
      /\ \A j \in Items : PastQueue(j) => PastQueue(j)'
  BY <1>2, <1>3 DEF Board, Active, InQueue, PastQueue
<1>6. UNCHANGED request
  BY DEF Conclude
<1> QED BY <1>3, <1>4, <1>5, <1>6, TargetMoves

\* A run fails.
LEMMA FailKeeps ==
    ASSUME Types, Board, NEW r \in Runners, FailCounted(r) \/ FailLost(r)
    PROVE  Board'
<1>1. PICK i \in Items : i = run[r].item
  BY FailDoes
<1>2. /\ Working(r) /\ UNCHANGED <<claim, prop, request>>
      /\ run'[r].pc = "idle" /\ \A q \in Runners \ {r} : run'[q] = run[q]
      /\ \A j \in Items \ {i} : item'[j] = item[j]
      /\ item'[i].acts = item[i].acts /\ item'[i].status \in {item[i].status, "failed", "dead"}
  BY <1>1, FailDoes, FailsDoes, FailedDoes DEF Working
<1>3. InQueue(i) /\ AgentOf(i) \in Agents
  BY <1>1, <1>2, ItemsAre DEF Board, Cleared
<1>4. \A p \in Proposals : prop'[p] = "pending" => Pending(p) /\ ItemOf(p) \in Items \ {i}
  BY <1>2, <1>3, NonePending, ItemsAre DEF Pending
<1>5. \A j \in Items : (Active(j)' => Active(j)) /\ (PastQueue(j) => PastQueue(j)')
  BY <1>2, <1>3 DEF Active, InQueue, PastQueue
<1>6. ASSUME NEW q \in Runners, run'[q].pc = "working"
      PROVE  Working(q) /\ run'[q] = run[q] /\ item'[run[q].item].status \in {"queued", "failed"}
  <2>1. q # r /\ Working(q) /\ run'[q] = run[q] /\ InQueue(run[q].item) /\ run[q].item \in Items
        /\ ~ OneTarget(AgentOf(run[q].item), AgentOf(i))
    BY <1>1, <1>2, <1>6 DEF Working, Board, Cleared, Types, RunRead, Started
  <2>2. run[q].item # i
    BY <2>1 DEF OneTarget
  <2> QED BY <1>2, <2>1, <2>2 DEF InQueue
<1> QED BY <1>2, <1>4, <1>5, <1>6, BoardShrinks

\* A proposal is settled with the last of its item, or its item is to be resolved.
LEMMA SettleKeeps ==
    ASSUME Types, Board, NEW d \in Deciders, Settle(d)
    PROVE  Board'
<1>1. UNCHANGED <<claim, run>>
  BY DEF Settle
<1>2. PICK p \in Proposals : p = request[d].prop
  BY SettleDoes
<1>3. ItemOf(p) \in Items
  BY ItemsAre
<1>4. ASSUME LastOf(p), NEW q \in Proposals \ {p}, ItemOf(q) = ItemOf(p) PROVE ~ Pending(q)
  BY <1>4 DEF Board, Kept, LastOf, Pending
<1>5. \A e \in Deciders \ {d} : request'[e] = request[e]
  BY SettleDoes
<1>6. CASE request'[d].pc = "resolving"
  <2>1. request'[d].prop = p /\ LastOf(p) /\ UNCHANGED <<item, prop>>
    BY <1>2, <1>6, SettleDoes
  <2>2. Closing(d)'
    BY <1>4, <2>1 DEF Closing, PastQueue, Pending, LastOf
  <2>3. \A r \in Runners : run'[r].pc = "working" =>
            Working(r) /\ run'[r] = run[r] /\ item'[run[r].item].status \in {"queued", "failed"}
    BY <1>1, <2>1 DEF Board, Cleared, Working, InQueue
  <2> QED BY <1>1, <1>5, <2>1, <2>2, <2>3, BoardShrinks DEF Pending, Active, PastQueue
<1>7. CASE request'[d].pc # "resolving"
  <2>1. /\ prop'[p] = "settled" /\ \A q \in Proposals \ {p} : prop'[q] = prop[q]
        /\ \A j \in Items : /\ item'[j].status = IF LastOf(p) /\ j = ItemOf(p) THEN "completed" ELSE item[j].status
                            /\ item'[j].acts = item[j].acts
    BY <1>2, <1>7, SettleDoes
  <2>2. LastOf(p) => item[ItemOf(p)].status = "waiting"
    BY DEF LastOf
  <2>3. ASSUME NEW q \in Proposals, prop'[q] = "pending"
        PROVE  /\ Pending(q)
               /\ item'[ItemOf(q)].status = item[ItemOf(q)].status
               /\ item'[ItemOf(q)].acts = item[ItemOf(q)].acts
    BY <1>4, <2>1, <2>3, ItemsAre DEF Pending
  <2>4. \A j \in Items : (Active(j)' => Active(j)) /\ (PastQueue(j) => PastQueue(j)')
    BY <2>1 DEF Active, PastQueue
  <2>5. \A r \in Runners : run'[r].pc = "working" =>
            Working(r) /\ run'[r] = run[r] /\ item'[run[r].item].status \in {"queued", "failed"}
    BY <1>1, <2>1, <2>2 DEF Board, Cleared, Working, InQueue, Types, RunRead, Started
  <2> QED BY <1>1, <1>5, <1>7, <2>3, <2>4, <2>5, BoardShrinks
<1> QED BY <1>6, <1>7

\* The item of the last proposal is resolved, and its claim released: the item's, still.
LEMMA ResolveKeeps ==
    ASSUME Types, Board, NEW d \in Deciders, Resolve(d), ~ stale'
    PROVE  Board'
<1>1. PICK p \in Proposals : p = request[d].prop
  BY ResolveDoes
<1> DEFINE i == ItemOf(p)
           a == AgentOf(i)
<1>2. i \in Items /\ a \in Agents
  BY ItemsAre
<1>3. /\ UNCHANGED run /\ Closing(d) /\ request[d].pc = "resolving" /\ request'[d].pc = "idle"
      /\ claim[a].held => claim[a].owner = i
      /\ prop'[p] = "settled" /\ \A q \in Proposals \ {p} : prop'[q] = prop[q]
      /\ \A e \in Deciders \ {d} : request'[e] = request[e]
      /\ \A j \in Items : /\ item'[j].status = IF j = i THEN "completed" ELSE item[j].status
                          /\ item'[j].acts = item[j].acts
      /\ \A b \in Agents : claim'[b] = IF b = a THEN Unclaimed ELSE claim[b]
  BY <1>1, ResolveDoes DEF Resolve, Board
<1>4. PastQueue(i) /\ \A q \in Proposals \ {p} : ItemOf(q) = i => ~ Pending(q)
  BY <1>1, <1>3 DEF Closing
<1>5. ASSUME NEW q \in Proposals, prop'[q] = "pending"
      PROVE  /\ Pending(q) /\ ItemOf(q) # i
             /\ item'[ItemOf(q)].status = item[ItemOf(q)].status
             /\ item'[ItemOf(q)].acts = item[ItemOf(q)].acts
             /\ claim'[AgentOf(ItemOf(q))] = claim[AgentOf(ItemOf(q))]
  <2>1. q # p /\ Pending(q) /\ ItemOf(q) # i
    BY <1>3, <1>4, <1>5 DEF Pending
  <2>2. AgentOf(ItemOf(q)) # a
    BY <1>3, <2>1, PendingNotOver
  <2> QED BY <1>3, <2>1, <2>2, ItemsAre
<1>6. \A j \in Items : (Active(j)' => Active(j)) /\ (PastQueue(j) => PastQueue(j)')
  BY <1>3 DEF Active, PastQueue
<1>7. \A r \in Runners : run'[r].pc = "working" =>
          Working(r) /\ run'[r] = run[r] /\ item'[run[r].item].status \in {"queued", "failed"}
  BY <1>3, <1>4 DEF Board, Cleared, Working, InQueue, PastQueue, Types, RunRead, Started
<1>8. \A b \in Agents : claim'[b].held => claim[b].held
  BY <1>3 DEF Unclaimed
<1> QED BY <1>3, <1>5, <1>6, <1>7, <1>8, BoardShrinks

\* A sweep ends: the claims it releases are still over.
LEMMA SweepKeeps ==
    ASSUME Types, Board, SweepWrites, ~ stale'
    PROVE  Board'
<1>1. UNCHANGED <<run, request>> /\ \A a \in sweep.release : claim[a].held => Ended(a)
  BY DEF SweepWrites
<1>2. \A i \in Items : /\ item'[i].status = IF Resolved(i) THEN "completed" ELSE item[i].status
                       /\ item'[i].acts = item[i].acts
  BY SweepDoes
<1>3. ASSUME NEW p \in Proposals, prop'[p] = "pending"
      PROVE  LET i == ItemOf(p)
             IN  /\ Pending(p) /\ item'[i].status = item[i].status /\ item'[i].acts = item[i].acts
                 /\ claim'[AgentOf(i)] = claim[AgentOf(i)]
  <2>1. Pending(p)
    BY <1>3, SweepDoes DEF Pending
  <2>2. Kept(p) /\ ItemOf(p) \in Items /\ AgentOf(ItemOf(p)) \in Agents
    BY ItemsAre DEF Board
  <2>3. AgentOf(ItemOf(p)) \notin sweep.release
    BY <1>1, <2>1, PendingNotOver
  <2>4. ~ Resolved(ItemOf(p)) /\ claim[AgentOf(ItemOf(p))].owner = ItemOf(p)
    BY <2>1, <2>2 DEF Kept, Resolved, Pending
  <2> QED BY <1>2, <2>1, <2>2, <2>3, <2>4, SweepDoes
<1>4. \A a \in Agents : claim'[a].held => claim[a].held
  BY SweepDoes DEF Unclaimed
<1>5. \A i \in Items : (Active(i)' => Active(i)) /\ (PastQueue(i) => PastQueue(i)')
  BY <1>2 DEF Active, PastQueue, Resolved
<1>6. \A r \in Runners : run'[r].pc = "working" =>
          Working(r) /\ run'[r] = run[r] /\ item'[run[r].item].status \in {"queued", "failed"}
  BY <1>1, <1>2 DEF Board, Cleared, Working, InQueue, Resolved, Types, RunRead, Started
<1> QED BY <1>1, <1>3, <1>4, <1>5, <1>6, BoardShrinks

\* A step that leaves items and runs alone, ends proposals and at most lets claims lapse that
\* no proposal to decide needs.
LEMMA BoardRests ==
    ASSUME Types, Board, UNCHANGED run,
           \A i \in Items : item'[i].status = item[i].status /\ item'[i].acts = item[i].acts,
           \A p \in Proposals : prop'[p] = "pending" =>
               Pending(p) /\ claim'[AgentOf(ItemOf(p))] = claim[AgentOf(ItemOf(p))],
           \A a \in Agents : claim'[a].held => claim[a].held,
           \A d \in Deciders : request'[d].pc = "resolving" => request'[d] = request[d]
    PROVE  Board'
<1>1. \A i \in Items : (Active(i)' => Active(i)) /\ (PastQueue(i) => PastQueue(i)')
  BY DEF Active, PastQueue
<1>2. \A r \in Runners : run'[r].pc = "working" =>
          Working(r) /\ run'[r] = run[r] /\ item'[run[r].item].status \in {"queued", "failed"}
  BY DEF Board, Cleared, Working, InQueue, Types, RunRead, Started
<1> QED BY <1>1, <1>2, ItemsAre, BoardShrinks

\* An approval window ends, for what is to decide of an item.
LEMMA LapseKeeps ==
    ASSUME Types, Board, NEW i \in Items, Lapse(i)
    PROVE  Board'
<1>1. UNCHANGED <<item, run, request>>
  BY DEF Lapse
<1>2. ASSUME NEW q \in Proposals, prop'[q] = "pending"
      PROVE  Pending(q) /\ claim'[AgentOf(ItemOf(q))] = claim[AgentOf(ItemOf(q))]
  <2>1. Pending(q) /\ ItemOf(q) # i
    BY <1>2, LapseDoes DEF Pending
  <2> QED BY <2>1, PendingNotOver, LapseDoes
<1> QED BY <1>1, <1>2, LapseDoes, BoardRests

\* The window of a claim ends that nothing to decide needs.
LEMMA ClaimEndsKeeps ==
    ASSUME Types, Board, NEW a \in Agents, ClaimEnds(a)
    PROVE  Board'
<1>1. UNCHANGED <<item, prop, run, request>>
  BY DEF ClaimEnds
<1>2. \A p \in Proposals : Pending(p) => AgentOf(ItemOf(p)) \in Agents \ {a}
  BY PendingNotOver, ClaimEndsDoes DEF Pending
<1> QED BY <1>1, <1>2, ClaimEndsDoes, BoardRests DEF Pending

\* The other steps.
LEMMA RestKeeps ==
    ASSUME Types, Board,
           \/ \E i \in Items : CoolsDown(i) \/ Purge(i) \/ \E r \in Runners : Look(r, i)
           \/ \E d \in Deciders : (\E p \in Proposals : Read(d, p)) \/ Approve(d) \/ Close(d)
           \/ SweepReads \/ (\E a \in Pausing : Pause(a)) \/ UNCHANGED vars
    PROVE  Board'
<1>1. ASSUME NEW i \in Items, CoolsDown(i) PROVE Board'
  BY <1>1, CoolsDownDoes, BoardRests DEF CoolsDown, Pending
<1>2. ASSUME NEW i \in Items, Purge(i) PROVE Board'
  BY <1>2, BoardRests DEF Purge, Pending, Types, TypeOK
<1>3. ASSUME NEW i \in Items, NEW r \in Runners, Look(r, i) PROVE Board'
  <2>1. UNCHANGED <<item, claim, prop, request>> /\ run'[r].pc = "looked"
        /\ \A q \in Runners \ {r} : run'[q] = run[q]
    BY <1>3, LookDoes DEF Look
  <2>2. \A q \in Runners : run'[q].pc = "working" =>
            Working(q) /\ run'[q] = run[q] /\ item'[run[q].item].status \in {"queued", "failed"}
    BY <2>1 DEF Board, Cleared, Working, InQueue
  <2> QED BY <2>1, <2>2, BoardShrinks DEF Pending, Active, PastQueue
<1>4. ASSUME NEW d \in Deciders, NEW p \in Proposals, Read(d, p) PROVE Board'
  <2>1. UNCHANGED <<item, claim, prop, run>>
    BY <1>4 DEF Read
  <2>2. \A e \in Deciders : request'[e].pc = "resolving" => request'[e] = request[e]
    BY <1>4, ReadDoes
  <2> QED BY <2>1, <2>2, BoardRests DEF Pending
<1>5. ASSUME NEW d \in Deciders, Approve(d) PROVE Board'
  <2>1. UNCHANGED <<item, claim, run>> /\ Decided(d, "approved") /\ request[d].pc = "read"
        /\ "approved" \in Status
    BY <1>5 DEF Approve, Status
  <2>2. /\ \A p \in Proposals : prop'[p] = "pending" => Pending(p)
        /\ \A e \in Deciders : request'[e].pc = "resolving" => request'[e] = request[e]
    BY <2>1, DecidedDoes DEF Pending
  <2> QED BY <2>1, <2>2, BoardRests
<1>6. ASSUME NEW d \in Deciders, Close(d) PROVE Board'
  <2>1. UNCHANGED <<item, claim, prop, run>>
    BY <1>6 DEF Close
  <2>2. \A e \in Deciders : request'[e].pc = "resolving" => request'[e] = request[e]
    BY <1>6, CloseDoes
  <2> QED BY <2>1, <2>2, BoardRests DEF Pending
<1>7. ASSUME UNCHANGED <<item, claim, prop, run, request>> PROVE Board'
  BY <1>7, BoardRests DEF Pending
<1>8. CASE SweepReads \/ (\E a \in Pausing : Pause(a)) \/ UNCHANGED vars
  BY <1>7, <1>8 DEF SweepReads, Pause, vars
<1> QED BY <1>1, <1>2, <1>3, <1>4, <1>5, <1>6, <1>8

\* Every step keeps the board that does not rest on what is no longer so.
LEMMA BoardNext ==
    ASSUME Types, Board, [Next]_vars, ~ stale'
    PROVE  Board'
BY Steps, EnqueueKeeps, RenewKeeps, SeizeKeeps, ProposeKeeps, ConcludeKeeps, FailKeeps, SettleKeeps,
   ResolveKeeps, SweepKeeps, LapseKeeps, ClaimEndsKeeps, RestKeeps

\* A write that rests on what is no longer so is remembered.
LEMMA StaleStays == stale /\ [Next]_vars => stale'
BY Steps DEF Enqueue, Renew, Lapse, CoolsDown, Purge, Look, Read, Approve, Settle, Resolve, Close,
             Seize, Propose, Conclude, FailCounted, FailLost, Fails, SweepReads, SweepWrites,
             ClaimEnds, Pause, vars

\* At the start nothing is to decide, held or in progress.
LEMMA BoardInit == Init => Board
<1> SUFFICES ASSUME Init PROVE Board
  OBVIOUS
<1>1. ~ Unclaimed.held /\ NoRequest.pc = "idle"
  BY DEF Unclaimed, NoRequest
<1>2. \A i \in Items : item[i].status \in {"none", "completed"}
  BY DEF Init, NotQueued, Past
<1>3. (\A p \in Proposals : ~ Pending(p)) /\ \A r \in Runners : ~ Working(r)
  BY NoRunTyped DEF Init, Pending, Working
<1> QED BY <1>1, <1>2, <1>3 DEF Init, Board, Kept, Cleared, Closing, Active

\* The board holds until a write rests on what is no longer so.
LEMMA BoardHolds == Spec => [](stale \/ Board)
<1> DEFINE I == Types /\ (stale \/ Board)
<1>1. Init => I
  BY TypesInit, BoardInit
<1>2. I /\ [Next]_vars => I'
  BY TypesNext, BoardNext, StaleStays
<1>3. I => stale \/ Board
  OBVIOUS
<1> HIDE DEF I
<1> QED BY <1>1, <1>2, <1>3, PTL DEF Spec

\* A proposal to decide is waited for by its item and held by its agent's claim, whatever
\* overlaps, until a write rests on what is no longer so (reconcileTargetClaims,
\* holdTargetClaimForPendingProposals).
THEOREM PendingStaysHeld == Spec => []PendingIsHeld
<1>1. stale \/ Board => PendingIsHeld
  BY DEF Board, Kept, Pending, PendingIsHeld
<1> QED BY <1>1, BoardHolds, PTL

\* Two agents never have proposals to decide on one target, whatever overlaps, until a write
\* rests on what is no longer so (acquireTargetClaim, expireClaimOwnerActions).
THEOREM OneAgentStays == Spec => []OneAgentProposes
<1>1. ASSUME stale \/ Board PROVE OneAgentProposes
  <2> SUFFICES ASSUME ~ stale, NEW p \in Proposals, NEW q \in Proposals, Pending(p), Pending(q)
               PROVE  AgentOf(ItemOf(q)) \notin Rivals(AgentOf(ItemOf(p)))
    BY DEF OneAgentProposes, Pending
  <2>1. Board
    BY <1>1
  <2>2. /\ AgentOf(ItemOf(p)) \in Agents /\ claim[AgentOf(ItemOf(p))].held
        /\ AgentOf(ItemOf(q)) \in Agents /\ claim[AgentOf(ItemOf(q))].held
    BY <2>1, PendingNotOver
  <2> QED BY <2>1, <2>2, RivalsAre DEF Board
<1> QED BY <1>1, BoardHolds, PTL
================================================================================
