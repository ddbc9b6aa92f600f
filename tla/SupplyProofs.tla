---------------------------- MODULE SupplyProofs ----------------------------
(***************************************************************************)
(* Proofs about supply requests, for any items, members, quantities and    *)
(* item cap.  The ledger's soundness rests on its own transactions only,   *)
(* and the forms, the owner's console and the worker of SupplyPost change  *)
(* the request by nothing but these: SupplyPost implements RequestSpec.    *)
(***************************************************************************)
EXTENDS SupplyPost, TallyProofs, SequenceTheorems

RequestInv == RequestTypeOK /\ LedgerSound

LEMMA RequestInitInv == RequestInit => RequestInv
<1> SUFFICES ASSUME RequestInit PROVE RequestInv
  OBVIOUS
<1> USE DEF RequestInit
<1>1. RequestTypeOK
  BY TotalOfNothing, TallyAssumption DEF RequestTypeOK
<1>2. LedgerSound
  BY TotalOfNothing DEF LedgerSound, Nothing
<1> QED BY <1>1, <1>2 DEF RequestInv

\* The owner's transactions.
LEMMA OwnerInv ==
  ASSUME RequestInv,
         \/ \E i \in Items : RemoveItem(i)
         \/ \E i \in Items, q \in Qty : AddItem(i, q) \/ UpdateItemQty(i, q)
         \/ UpdateDetails \/ Cancel
  PROVE  RequestInv'
<1> USE DEF RequestInv
<1>1. ASSUME NEW i \in Items, RemoveItem(i) PROVE RequestInv'
  <2> USE <1>1 DEF RemoveItem
  <2>1. /\ required' = [required EXCEPT ![i] = 0]
        /\ reserved' = [reserved EXCEPT ![i] = Nothing]
        /\ delivered' = [delivered EXCEPT ![i] = Nothing]
        /\ status' = "open"
    OBVIOUS
  <2>2. RequestTypeOK'
    BY <2>1, TotalOfNothing, TallyAssumption DEF RequestTypeOK
  <2>3. ASSUME NEW j \in Items
        PROVE  /\ Total(reserved'[j]) <= required'[j]
               /\ \A u \in Users : delivered'[j][u] <= reserved'[j][u]
    <3>1. CASE j = i
      <4>1. reserved'[j] = Nothing /\ delivered'[j] = Nothing /\ required'[j] = 0
        BY <2>1, <3>1 DEF RequestTypeOK
      <4> QED BY <4>1, TotalOfNothing DEF Nothing
    <3>2. CASE j # i
      BY <2>1, <3>2 DEF RequestTypeOK, LedgerSound
    <3> QED BY <3>1, <3>2
  <2>4. LedgerSound'
    BY <2>1, <2>3 DEF LedgerSound
  <2> QED BY <2>2, <2>4
<1>2. ASSUME NEW i \in Items, NEW q \in Qty, AddItem(i, q) \/ UpdateItemQty(i, q)
      PROVE  RequestInv'
  <2>1. /\ required' = [required EXCEPT ![i] = q] /\ status = "open"
        /\ UNCHANGED <<status, reserved, delivered>>
        /\ q \in 0 .. MaxQty /\ q \in Nat
    BY <1>2, TallyAssumption DEF AddItem, UpdateItemQty, Qty
  <2>2. Total(reserved[i]) <= q
    <3>1. CASE AddItem(i, q)
      <4>1. required[i] \in 0 .. MaxQty /\ ~(required[i] > 0)
        BY <3>1 DEF AddItem, Listed, RequestTypeOK
      <4>2. Total(reserved[i]) <= required[i]
        BY DEF LedgerSound
      <4>3. Total(reserved[i]) \in Nat
        BY UnitsFinite
      <4> QED BY <2>1, <4>1, <4>2, <4>3, TallyAssumption
    <3>2. CASE UpdateItemQty(i, q)
      BY <3>2, <2>1, UnitsFinite DEF UpdateItemQty
    <3> QED BY <1>2, <3>1, <3>2
  <2>3. RequestTypeOK'
    BY <2>1 DEF RequestTypeOK
  <2>4. LedgerSound'
    BY <2>1, <2>2 DEF LedgerSound, RequestTypeOK
  <2> QED BY <2>3, <2>4
<1>3. ASSUME UpdateDetails PROVE RequestInv'
  BY <1>3 DEF UpdateDetails, request, RequestTypeOK, LedgerSound, Listed
<1>4. ASSUME Cancel PROVE RequestInv'
  BY <1>4 DEF Cancel, RequestTypeOK, LedgerSound
<1> QED BY <1>1, <1>2, <1>3, <1>4

\* Every way of changing what a member reserves: the row gets r, which covers
\* what was delivered, and the item keeps its capacity.
Repledged(i, u, r) ==
  /\ status = "open"
  /\ r \in 0 .. MaxQty /\ delivered[i][u] <= r
  /\ Total([reserved[i] EXCEPT ![u] = r]) <= required[i]
  /\ reserved' = [reserved EXCEPT ![i][u] = r]
  /\ UNCHANGED <<status, required, delivered>>

LEMMA RepledgedInv ==
  ASSUME RequestInv, NEW i \in Items, NEW u \in Users, NEW r, Repledged(i, u, r)
  PROVE  RequestInv'
<1> USE DEF RequestInv, Repledged
<1>1. /\ reserved'[i] = [reserved[i] EXCEPT ![u] = r]
      /\ reserved'[i] \in Shares
      /\ \A j \in Items : j # i => reserved'[j] = reserved[j]
  BY DEF RequestTypeOK, Shares
<1>2. RequestTypeOK'
  BY <1>1 DEF RequestTypeOK
<1>3. ASSUME NEW j \in Items
      PROVE  /\ Total(reserved'[j]) <= required'[j]
             /\ \A v \in Users : delivered'[j][v] <= reserved'[j][v]
  <2>1. CASE j = i
    BY <2>1, <1>1 DEF RequestTypeOK, LedgerSound, Shares
  <2>2. CASE j # i
    BY <2>2, <1>1 DEF LedgerSound
  <2> QED BY <2>1, <2>2
<1>4. LedgerSound'
  BY <1>3 DEF LedgerSound
<1> QED BY <1>2, <1>4

LEMMA PledgeInv ==
  ASSUME RequestInv, NEW i \in Items, NEW u \in Users, NEW q \in Qty,
         Reserve(i, u, q) \/ Release(i, u, q)
  PROVE  RequestInv'
<1> DEFINE res == reserved[i][u]
           del == delivered[i][u]
<1>1. /\ reserved[i] \in Shares /\ reserved \in [Items -> Shares]
      /\ res \in 0 .. MaxQty /\ del \in 0 .. MaxQty /\ del <= res
      /\ required[i] \in 0 .. MaxQty /\ Total(reserved[i]) <= required[i]
      /\ q \in Nat /\ q >= 1 /\ MaxQty \in Nat
  BY TallyAssumption DEF RequestInv, RequestTypeOK, LedgerSound, Shares, Qty
<1>2. /\ \A n \in 0 .. MaxQty :
           Total([reserved[i] EXCEPT ![u] = n]) = Total(reserved[i]) - res + n
      /\ Total(reserved[i]) \in Nat /\ res <= Total(reserved[i])
  BY <1>1, TotalUpdate, UnitsFinite, ShareWithinTotal
<1>3. ASSUME Reserve(i, u, q) PROVE RequestInv'
  <2>1. /\ q <= required[i] - Total(reserved[i]) /\ status = "open"
        /\ reserved' = [reserved EXCEPT ![i][u] = res + q]
        /\ UNCHANGED <<status, required, delivered>>
    BY <1>3 DEF Reserve
  <2> HIDE DEF res, del
  <2>2. res + q \in 0 .. MaxQty /\ del <= res + q
    BY <1>1, <1>2, <2>1
  <2>3. Total([reserved[i] EXCEPT ![u] = res + q]) = Total(reserved[i]) - res + (res + q)
    BY <1>2, <2>2
  <2>4. Total([reserved[i] EXCEPT ![u] = res + q]) <= required[i]
    BY <1>1, <1>2, <2>1, <2>3
  <2>5. Repledged(i, u, res + q)
    BY <2>1, <2>2, <2>4 DEF Repledged, del
  <2> QED BY <2>5, RepledgedInv
<1>4. ASSUME Release(i, u, q) PROVE RequestInv'
  <2>1. /\ q <= res - del /\ status = "open"
        /\ reserved' = [reserved EXCEPT ![i][u] = res - q]
        /\ UNCHANGED <<status, required, delivered>>
    BY <1>4 DEF Release, Outstanding
  <2> HIDE DEF res, del
  <2>2. res - q \in 0 .. MaxQty /\ del <= res - q
    BY <1>1, <2>1
  <2>3. Total([reserved[i] EXCEPT ![u] = res - q]) = Total(reserved[i]) - res + (res - q)
    BY <1>2, <2>2
  <2>4. Total([reserved[i] EXCEPT ![u] = res - q]) <= required[i]
    BY <1>1, <1>2, <2>1, <2>3
  <2>5. Repledged(i, u, res - q)
    BY <2>1, <2>2, <2>4 DEF Repledged, del
  <2> QED BY <2>5, RepledgedInv
<1> QED BY <1>3, <1>4

\* A delivery stays within its member's pledge; if it leaves no item short, what
\* was delivered of each is what its line asks for.
LEMMA DeliverInv ==
  ASSUME RequestInv, NEW i \in Items, NEW u \in Users, NEW q \in Qty, Deliver(i, u, q)
  PROVE  RequestInv'
<1> USE DEF RequestInv, Deliver
<1>1. /\ delivered[i] \in Shares /\ delivered \in [Items -> Shares]
      /\ delivered[i][u] \in 0 .. MaxQty /\ reserved[i][u] \in 0 .. MaxQty
      /\ q \in Nat /\ q <= reserved[i][u] - delivered[i][u]
      /\ delivered' = [delivered EXCEPT ![i][u] = @ + q]
  BY TallyAssumption DEF RequestTypeOK, Shares, Qty, Outstanding
<1>2. delivered[i][u] + q \in 0 .. MaxQty /\ delivered[i][u] + q <= reserved[i][u]
  BY <1>1, TallyAssumption
<1>3. /\ delivered'[i] = [delivered[i] EXCEPT ![u] = delivered[i][u] + q]
      /\ delivered'[i] \in Shares
      /\ \A j \in Items : j # i => delivered'[j] = delivered[j]
  BY <1>1, <1>2 DEF Shares
<1>4. delivered' \in [Items -> Shares]
  BY <1>1, <1>3
<1>5. RequestTypeOK'
  BY <1>4 DEF RequestTypeOK, Finish
<1>6. \A j \in Items, v \in Users : delivered'[j][v] <= reserved[j][v]
  <2> SUFFICES ASSUME NEW j \in Items, NEW v \in Users
               PROVE  delivered'[j][v] <= reserved[j][v]
    OBVIOUS
  <2>1. CASE j = i /\ v = u
    BY <2>1, <1>1, <1>2, <1>3 DEF Shares
  <2>2. CASE ~(j = i /\ v = u)
    <3>1. delivered'[j][v] = delivered[j][v]
      BY <2>2, <1>1, <1>3 DEF Shares
    <3> QED BY <3>1 DEF LedgerSound
  <2> QED BY <2>1, <2>2
<1>7. ASSUME status' = "completed"
      PROVE  Listed # {} /\ \A j \in Listed : Total(delivered'[j]) = required[j]
  <2>1. Listed # {} /\ \A j \in Listed : required[j] <= Total(delivered'[j])
    BY <1>7 DEF Finish
  <2>2. ASSUME NEW j \in Listed PROVE Total(delivered'[j]) = required[j]
    <3>1. /\ j \in Items /\ delivered'[j] \in Shares /\ reserved[j] \in Shares
          /\ required[j] \in 0 .. MaxQty /\ Total(reserved[j]) <= required[j]
      BY <1>4 DEF Listed, RequestTypeOK, LedgerSound
    <3>2. Total(delivered'[j]) <= Total(reserved[j])
      BY <3>1, <1>6, TotalMonotone
    <3>3. Total(delivered'[j]) \in Nat /\ Total(reserved[j]) \in Nat
      BY UnitsFinite
    <3> QED BY <2>1, <3>1, <3>2, <3>3
  <2> QED BY <2>1, <2>2
<1>8. LedgerSound'
  BY <1>6, <1>7 DEF LedgerSound, Listed
<1> QED BY <1>5, <1>8

LEMMA RequestNextInv == ASSUME RequestInv, [RequestNext]_request PROVE RequestInv'
<1>1. CASE UNCHANGED request
  BY <1>1 DEF request, RequestInv, RequestTypeOK, LedgerSound, Listed
<1>2. CASE RequestNext
  <2>1. ASSUME NEW op \in PanelOps, NEW i \in Items, NEW u \in Users, NEW q \in Qty,
               Operate(op, i, u, q)
        PROVE  RequestInv'
    BY <2>1, PledgeInv, DeliverInv DEF Operate
  <2> QED BY <1>2, <2>1, OwnerInv DEF RequestNext
<1> QED BY <1>1, <1>2

-----------------------------------------------------------------------------

\* A submitted form is one of the panel's operations on a listed item.
LEMMA AppliedIsRequestStep ==
  ASSUME NEW u \in Users, NEW i, Applied(u, i) PROVE RequestNext
<1>1. PICK q \in Qty : Operate(form[u].op, i, u, q)
  BY DEF Applied
<1>2. i \in Items /\ form[u].op \in PanelOps
  BY <1>1 DEF Operate, Reserve, Deliver, Release, Listed, PanelOps
<1> QED BY <1>1, <1>2 DEF RequestNext

\* Buttons, forms, the console and the worker change the request by its own
\* transactions only.
LEMMA StepIsRequestStep == [Next]_vars => [RequestNext]_request
<1> SUFFICES ASSUME [Next]_vars PROVE RequestNext \/ UNCHANGED request
  OBVIOUS
<1>1. CASE Console
  BY <1>1 DEF Console, OwnerEditsDetails, OwnerEditsItems, RequestNext
<1>2. CASE Republish
  BY <1>2 DEF Republish
<1>3. ASSUME NEW u \in Users,
             \/ \E op \in PanelOps : PressButton(u, op)
             \/ FormEnds(u)
      PROVE  UNCHANGED request
  BY <1>3 DEF PressButton, FormEnds
<1>4. ASSUME NEW u \in Users, SubmitPicked(u) \/ SubmitUntouched(u) PROVE RequestNext
  BY <1>4, AppliedIsRequestStep DEF SubmitPicked, SubmitUntouched
<1>5. CASE WorkerStep
  BY <1>5 DEF WorkerStep, HandlerStep, Start, NothingToDo, CreateForumPost, SetThreadID,
     EditPost, RecreatePost, FinalCard, LockPost, NothingToClose, Succeeds
<1>6. CASE UndoPost \/ RunAgain \/ Abandon \/ \E t \in DOMAIN posts : DeletedByHand(t)
  BY <1>6 DEF UndoPost, RunAgain, Abandon, DeletedByHand
<1>7. CASE UNCHANGED vars
  BY <1>7 DEF vars
<1> QED BY <1>1, <1>2, <1>3, <1>4, <1>5, <1>6, <1>7 DEF Next

\* The request with its post, panel and console behaves as the bare ledger.
THEOREM PostKeepsLedger == Spec => RequestSpec
<1>1. Init => RequestInit
  BY DEF Init
<1> QED BY <1>1, StepIsRequestStep, PTL DEF Spec, RequestSpec

\* The ledger's invariant, over its own specification.
THEOREM RequestInvHolds == RequestSpec => []RequestInv
<1> QED BY RequestInitInv, RequestNextInv, PTL DEF RequestSpec

\* No pledge past what its line allows, no delivery past its pledge, and a
\* completed request was delivered to the last unit.
THEOREM LedgerHolds == Spec => []LedgerSound
<1>1. RequestInv => LedgerSound
  BY DEF RequestInv
<1> QED BY <1>1, PostKeepsLedger, RequestInvHolds, PTL

\* Only an edit of the owner makes an open request fulfilled: a delivery that
\* would closes it.
THEOREM DeliveryCompletes == Spec => CompletesWhenDelivered
<1>1. ASSUME RequestInv, RequestNext, status' = "open", Fulfilled', ~Fulfilled,
             required' = required
      PROVE  FALSE
  <2>1. delivered' # delivered
    BY <1>1 DEF Fulfilled, Listed
  <2>2. ASSUME NEW i \in Items, RemoveItem(i) PROVE FALSE
    <3>1. required[i] > 0 /\ required[i] \in 0 .. MaxQty /\ required' = [required EXCEPT ![i] = 0]
          /\ required \in [Items -> 0 .. MaxQty]
      BY <1>1, <2>2 DEF RemoveItem, Listed, RequestInv, RequestTypeOK
    <3>2. required'[i] = 0
      BY <3>1
    <3> QED BY <1>1, <3>1, <3>2
  <2>3. ASSUME NEW i \in Items, NEW u \in Users, NEW q \in Qty, Deliver(i, u, q) PROVE FALSE
    BY <1>1, <2>3 DEF Deliver, Finish, Fulfilled, Listed
  <2>4. /\ ~UpdateDetails /\ ~Cancel
        /\ \A i \in Items, q \in Qty : ~AddItem(i, q) /\ ~UpdateItemQty(i, q)
        /\ \A i \in Items, u \in Users, q \in Qty : ~Reserve(i, u, q) /\ ~Release(i, u, q)
    BY <2>1 DEF UpdateDetails, request, Cancel, AddItem, UpdateItemQty, Reserve, Release
  <2> QED BY <1>1, <2>2, <2>3, <2>4 DEF RequestNext, Operate
<1>2. RequestInv /\ [RequestNext]_request =>
        [status' = "open" /\ Fulfilled' /\ ~Fulfilled => required' # required]_vars
  <2>1. UNCHANGED request => (Fulfilled' <=> Fulfilled)
    BY DEF request, Fulfilled, Listed
  <2> QED BY <1>1, <2>1
<1> QED BY <1>2, PostKeepsLedger, RequestInvHolds, StepIsRequestStep, PTL
       DEF CompletesWhenDelivered, RequestSpec
-----------------------------------------------------------------------------
(* The post.  What every point of a handler may rely on: there is one       *)
(* worker, a request is closed once and for all, and what a transaction     *)
(* makes out of date has a task that only runs afterwards.                  *)

\* Between handlers there is nothing of one.
Rests == run = Idle => made = NoThread /\ ~called

\* One worker: the thread stays as the handler read it; the status only closes,
\* and while what was read is current it has not.
ReadsHold ==
  run # Idle =>
    /\ prog.thread = thread
    /\ status = "open" => prog.open
    /\ prog.current => prog.open = (status = "open")

\* The kind whose task brings the post up to date, and has it waiting behind the
\* handler that read too early.
LastWord == IF status = "open" THEN "refresh" ELSE "close"
NewsWaits == run # Idle /\ ~prog.current => LastWord \in queue

\* A close is committed with the status it follows, which is final: what a close
\* reads is current, and so is a locked post.
ClosesLast ==
  /\ Coming("close") => status # "open"
  /\ run = "close" => prog.current
  /\ \A t \in DOMAIN posts : posts[t].state = "locked" => posts[t].current /\ status # "open"

\* A post that was made shows what its create read, until it is recorded or gone.
Making ==
  /\ ToCreate /\ called => made # NoThread
  /\ made # NoThread =>
       /\ run = "create" /\ called /\ thread = NoThread
       /\ posts[made].state # "gone" =>
            posts[made].current = prog.current /\ posts[made].bornOpen = prog.open

\* Between its two calls, a close has put up a card that is current.
Halfway == ToClose /\ called /\ posts[thread].state = "final" => posts[thread].current

\* The parts of PostFollows, with the one kind of task that counts.
LastWordComes == Shown /\ ~posts[thread].current => Coming(LastWord)
PostIsComing == thread = NoThread => Coming("create")
OpenPostsGetLocked ==
  status # "open" /\ Shown /\ posts[thread].bornOpen =>
    posts[thread].state = "locked" \/ Coming("close")

PostInv ==
  /\ TypeOK
  /\ RequestInv
  /\ Rests
  /\ ReadsHold
  /\ NewsWaits
  /\ ClosesLast
  /\ Making
  /\ Halfway
  /\ LastWordComes
  /\ PostIsComing
  /\ OpenPostsGetLocked

\* The posts are numbered in the order they were made.
LEMMA PostsTyped ==
  ASSUME TypeOK
  PROVE  /\ Len(posts) \in Nat /\ DOMAIN posts = 1 .. Len(posts)
         /\ \A t \in DOMAIN posts : t \in PostId /\ t # NoThread /\ posts[t] \in Post
<1>1. posts \in Seq(Post)
  BY DEF TypeOK
<1>2. Len(posts) \in Nat /\ posts \in [1 .. Len(posts) -> Post]
  BY <1>1, LenProperties
<1> QED BY <1>1, <1>2 DEF PostId, NoThread

\* Posts are edited in place, so that they stay a sequence.
LEMMA PostsEdited ==
  ASSUME TypeOK, posts' \in [DOMAIN posts -> Post]
  PROVE  posts' \in Seq(Post) /\ DOMAIN posts' = DOMAIN posts
<1>1. Len(posts) \in Nat /\ DOMAIN posts = 1 .. Len(posts)
  BY PostsTyped DEF TypeOK
<1>2. posts' \in Seq(Post)
  BY <1>1, SeqDef
<1>3. Len(posts') \in Nat /\ DOMAIN posts' = 1 .. Len(posts') /\ DOMAIN posts' = DOMAIN posts
  BY <1>2, LenProperties
<1>4. Len(posts') = Len(posts)
  BY <1>1, <1>3
<1> QED BY <1>1, <1>2, <1>3, <1>4

\* One post is changed.
LEMMA OneEdited ==
  ASSUME TypeOK, NEW t \in DOMAIN posts, NEW e \in Post, posts' = [posts EXCEPT ![t] = e]
  PROVE  /\ posts' \in Seq(Post) /\ DOMAIN posts' = DOMAIN posts
         /\ posts'[t] = e
         /\ \A u \in DOMAIN posts : u # t => posts'[u] = posts[u]
<1>1. posts' \in [DOMAIN posts -> Post]
  BY PostsTyped DEF TypeOK
<1> QED BY <1>1, PostsEdited

LEMMA PostInitInv == Init => PostInv
<1> SUFFICES ASSUME Init PROVE PostInv
  OBVIOUS
<1>1. RequestInv /\ RequestTypeOK /\ status = "open"
  BY RequestInitInv DEF Init, RequestInit, RequestInv
<1>2. posts = << >> /\ posts \in Seq(Post) /\ Len(posts) = 0 /\ DOMAIN posts = {}
  BY EmptySeq DEF Init
<1>3. form \in [Users -> Form \cup {NoForm}] /\ faults \in Nat
  BY DEF Init
<1>4. NoProgress \in Progress /\ "create" \in Tasks
  BY DEF Progress, NoProgress, NoThread, Tasks
<1>5. TypeOK
  <2>1. /\ queue \in SUBSET Tasks /\ run \in Tasks \cup {Idle} /\ prog \in Progress
        /\ called \in BOOLEAN /\ gaveUp \in SUBSET Tasks
    BY <1>4 DEF Init
  <2>2. {made, thread} \subseteq {NoThread} \cup DOMAIN posts
    BY <1>2 DEF Init
  <2> QED BY ONLY <1>1, <1>2, <1>3, <2>1, <2>2 DEF TypeOK
<1> QED BY <1>1, <1>2, <1>5 DEF Init, PostInv, Rests, ReadsHold, NewsWaits, ClosesLast, Making,
     Halfway, LastWordComes, PostIsComing, OpenPostsGetLocked, Coming, Shown, Idle, NoThread,
     ToCreate, ToClose, LastWord

-----------------------------------------------------------------------------
(* Transactions on the request.                                            *)

\* What a transaction makes out of date, it enqueues the task to show; it finds
\* the request open, and so no close about.
LEMMA AnnouncedInv ==
  ASSUME PostInv, RequestInv', RequestNext, Announced,
         form' \in [Users -> Form \cup {NoForm}]
  PROVE  PostInv'
<1> USE DEF PostInv, Announced, Outdated
<1>1. status = "open" /\ RequestTypeOK'
  BY DEF RequestNext, RemoveItem, AddItem, UpdateItemQty, UpdateDetails, Cancel, Operate,
     Reserve, Deliver, Release, RequestInv
<1>2. /\ \A t \in DOMAIN posts :
           /\ posts'[t] = [posts[t] EXCEPT !.current = FALSE] /\ posts'[t] \in Post
           /\ posts'[t].state = posts[t].state /\ posts'[t].bornOpen = posts[t].bornOpen
           /\ ~posts'[t].current
      /\ posts' \in [DOMAIN posts -> Post]
  BY PostsTyped DEF Post
<1>3. posts' \in Seq(Post) /\ DOMAIN posts' = DOMAIN posts
  BY <1>2, PostsEdited
<1>4. /\ prog' \in Progress /\ ~prog'.current
      /\ prog'.thread = prog.thread /\ prog'.open = prog.open
  BY DEF TypeOK, Progress
<1>5. LastWord' \in queue' /\ queue \subseteq queue' /\ LastWord' \in Tasks
      /\ ("close" \in queue' => "close" \in queue \/ status' # "open")
  BY DEF LastWord, Tasks
<1>6. TypeOK'
  BY <1>1, <1>3, <1>4, <1>5 DEF TypeOK, Tasks
<1>7. /\ ~Coming("close") /\ run # "close"
      /\ \A t \in DOMAIN posts : posts[t].state # "locked"
  BY <1>1 DEF ClosesLast, Coming
<1>8. Rests' /\ NewsWaits'
  BY <1>5 DEF Rests, NewsWaits
<1>9. ReadsHold'
  BY <1>1, <1>4 DEF ReadsHold
<1>10. ClosesLast'
  BY <1>2, <1>3, <1>5, <1>7 DEF ClosesLast, Coming
<1>11. Making'
  <2>1. made # NoThread => made \in DOMAIN posts
    BY DEF TypeOK
  <2>2. (ToCreate' <=> ToCreate) /\ UNCHANGED <<run, made, called, thread>> /\ Making
    BY <1>4 DEF ToCreate
  <2>3. made # NoThread /\ posts'[made].state # "gone" =>
          posts'[made].current = prog'.current /\ posts'[made].bornOpen = prog'.open
    <3>1. made # NoThread /\ posts[made].state # "gone" => posts[made].bornOpen = prog.open
      BY <2>2 DEF Making
    <3>2. made # NoThread => posts'[made].current = FALSE /\ prog'.current = FALSE
      BY <2>1, PostsTyped DEF Post, Progress, TypeOK
    <3> QED BY <1>2, <1>4, <2>1, <3>1, <3>2
  <2> QED BY ONLY <2>2, <2>3 DEF Making
<1>12. Halfway'
  BY <1>7 DEF Halfway, ToClose
<1>13. LastWordComes' /\ PostIsComing'
  BY <1>5 DEF LastWordComes, PostIsComing, Coming
<1>14. OpenPostsGetLocked'
  BY <1>5 DEF OpenPostsGetLocked, Coming, LastWord
<1> QED BY <1>6, <1>8, <1>9, <1>10, <1>11, <1>12, <1>13, <1>14

\* A button, a form dismissed, a republish: the request and its post stay, and no
\* close is enqueued.
LEMMA PanelInv ==
  ASSUME PostInv, RequestInv', UNCHANGED <<request, handler, forum, gaveUp, faults>>,
         form' \in [Users -> Form \cup {NoForm}],
         queue' \in SUBSET Tasks, queue \subseteq queue',
         "close" \in queue' => "close" \in queue
  PROVE  PostInv'
<1> USE DEF PostInv, request, handler, forum
<1>1. RequestTypeOK'
  BY DEF RequestInv
<1>2. TypeOK' /\ LastWord' = LastWord
  BY <1>1 DEF TypeOK, LastWord
<1>3. Rests' /\ ReadsHold' /\ NewsWaits' /\ ClosesLast'
  BY <1>2 DEF Rests, ReadsHold, NewsWaits, ClosesLast, Coming
<1>4. Making' /\ Halfway'
  BY DEF Making, Halfway, ToCreate, ToClose
<1>5. LastWordComes' /\ PostIsComing' /\ OpenPostsGetLocked'
  BY <1>2 DEF LastWordComes, PostIsComing, OpenPostsGetLocked, Coming, Shown
<1> QED BY <1>2, <1>3, <1>4, <1>5

LEMMA ButtonInv ==
  ASSUME PostInv, RequestInv', NEW u \in Users, NEW op \in PanelOps, PressButton(u, op)
  PROVE  PostInv'
<1> USE DEF PostInv, PressButton
<1>1. thread \in PostId /\ Eligible(op, u) \in SUBSET Items
  BY PostsTyped DEF TypeOK, Eligible, Listed
<1>2. [op |-> op, post |-> thread, shown |-> Eligible(op, u)] \in Form
  BY <1>1 DEF Form
<1>3. form' \in [Users -> Form \cup {NoForm}]
  BY <1>2 DEF TypeOK
<1> QED BY <1>3, PanelInv DEF TypeOK

LEMMA FormEndsInv ==
  ASSUME PostInv, RequestInv', NEW u \in Users, FormEnds(u) PROVE PostInv'
<1>1. form' \in [Users -> Form \cup {NoForm}]
  BY DEF PostInv, TypeOK, FormEnds
<1> QED BY <1>1, PanelInv DEF FormEnds, PostInv, TypeOK

LEMMA QuietStepsInv ==
  ASSUME PostInv, RequestInv', Republish \/ UNCHANGED vars PROVE PostInv'
<1>1. CASE Republish
  BY <1>1, PanelInv DEF Republish, PostInv, TypeOK, Tasks
<1>2. CASE UNCHANGED vars
  BY <1>2, PanelInv DEF vars, PostInv, TypeOK
<1> QED BY <1>1, <1>2

LEMMA SubmitInv ==
  ASSUME PostInv, RequestInv', NEW u \in Users, SubmitPicked(u) \/ SubmitUntouched(u)
  PROVE  PostInv'
<1>1. PICK i : Applied(u, i)
  BY DEF SubmitPicked, SubmitUntouched
<1>2. form' \in [Users -> Form \cup {NoForm}]
  BY <1>1 DEF Applied, PostInv, TypeOK
<1> QED BY <1>1, <1>2, AppliedIsRequestStep, AnnouncedInv DEF Applied

LEMMA ConsoleInv == ASSUME PostInv, RequestInv', Console PROVE PostInv'
<1>1. RequestNext
  BY DEF Console, OwnerEditsDetails, OwnerEditsItems, RequestNext
<1> QED BY <1>1, AnnouncedInv DEF Console, PostInv, TypeOK

-----------------------------------------------------------------------------
(* The worker.                                                             *)

\* A handler reads what is there.
LEMMA StartInv == ASSUME PostInv, RequestInv', NEW k \in Tasks, Start(k) PROVE PostInv'
<1> USE DEF PostInv, Start, request, forum
<1>1. RequestTypeOK' /\ status' = status
  BY DEF RequestInv
<1>2. /\ run' # Idle /\ run' \in Tasks /\ queue' \in SUBSET Tasks
      /\ made = NoThread /\ ~called
  BY DEF Rests, TypeOK, Tasks, Idle
<1>3. /\ prog' \in Progress /\ prog'.current /\ prog'.thread = thread
      /\ prog'.open = (status = "open")
  BY PostsTyped DEF Progress, TypeOK
<1>4. TypeOK' /\ LastWord' = LastWord
  BY <1>1, <1>2, <1>3 DEF TypeOK, LastWord
<1>5. \A x \in Tasks : Coming(x)' <=> Coming(x)
  BY DEF Coming, Rests, TypeOK, Idle, Tasks
<1>6. Rests' /\ ReadsHold' /\ NewsWaits' /\ Making' /\ Halfway'
  BY <1>1, <1>2, <1>3 DEF Rests, ReadsHold, NewsWaits, Making, Halfway, ToCreate, ToClose
<1>7. ClosesLast'
  BY <1>3, <1>5 DEF ClosesLast, Tasks
<1>8. LastWordComes' /\ PostIsComing' /\ OpenPostsGetLocked'
  BY <1>4, <1>5 DEF LastWordComes, PostIsComing, OpenPostsGetLocked, Shown, Tasks, LastWord
<1> QED BY <1>4, <1>6, <1>7, <1>8

\* What the end of a handler has to show: the rest of the invariant is about the
\* handler alone.
LEMMA OverInv ==
  ASSUME PostInv, RequestInv', Over, UNCHANGED <<request, form>>,
         faults' \in Nat, queue' \in SUBSET Tasks, gaveUp' \in SUBSET Tasks,
         posts' \in Seq(Post), thread' \in {NoThread} \cup DOMAIN posts',
         Coming("close")' => Coming("close"),
         \A t \in DOMAIN posts' : posts'[t].state = "locked" => posts'[t].current /\ status # "open",
         LastWordComes', PostIsComing', OpenPostsGetLocked'
  PROVE  PostInv'
<1> USE DEF PostInv, Over, request
<1>1. RequestTypeOK' /\ NoProgress \in Progress
  BY DEF RequestInv, NoProgress, Progress
<1>2. TypeOK'
  BY <1>1 DEF TypeOK
<1>3. Rests' /\ ReadsHold' /\ NewsWaits' /\ Making' /\ Halfway'
  BY DEF Rests, ReadsHold, NewsWaits, Making, Halfway, ToCreate, ToClose, Idle
<1>4. ClosesLast'
  BY DEF ClosesLast, Idle
<1> QED BY <1>2, <1>3, <1>4

\* Handlers that end without a change to the forum.
LEMMA NothingInv ==
  ASSUME PostInv, RequestInv', NothingToDo \/ NothingToClose \/ RunAgain \/ Abandon
  PROVE  PostInv'
<1> USE DEF PostInv, forum
<1>1. /\ run # Idle /\ run \in Tasks /\ Over /\ UNCHANGED <<request, form, forum>>
      /\ faults' \in Nat /\ queue' \in SUBSET Tasks /\ gaveUp' \in SUBSET Tasks
  BY DEF NothingToDo, NothingToClose, RunAgain, Abandon, Succeeds, ToClose, TypeOK,
     Tasks, Idle
<1>2. \A x \in Tasks : Coming(x)' => Coming(x)
  BY <1>1 DEF NothingToDo, NothingToClose, RunAgain, Abandon, Succeeds, Coming, Over, Idle, Tasks
<1>3. \A x \in Tasks : x # run => (Coming(x)' <=> Coming(x))
  <2>1. RunAgain \/ Abandon \/ (Succeeds /\ UNCHANGED queue)
    BY DEF NothingToDo, NothingToClose
  <2> QED BY <1>1, <2>1 DEF RunAgain, Abandon, Succeeds, Coming, Over, Idle, Tasks
<1>4. RunAgain \/ Abandon => \A x \in Tasks : x = run => Coming(x)'
  BY DEF RunAgain, Abandon, Coming
<1>5. LastWord' = LastWord /\ LastWord \in Tasks /\ (Shown' <=> Shown)
  BY <1>1 DEF LastWord, request, Tasks, Shown
<1>6. NothingToDo \/ NothingToClose =>
        /\ prog.thread = thread
        /\ \/ run = "create" /\ thread # NoThread
           \/ run = "refresh" /\ (~Shown \/ LastWord = "close")
           \/ run = "close" /\ (\/ ~Shown /\ thread # NoThread
                                \/ thread = NoThread
                                \/ posts[thread].state = "locked")
  BY <1>1 DEF NothingToDo, NothingToClose, ToClose, ReadsHold, LastWord, Shown
<1>7. posts[thread].state = "locked" /\ thread # NoThread => posts[thread].current
  BY DEF ClosesLast, TypeOK
<1>8. LastWordComes'
  BY <1>1, <1>3, <1>4, <1>5, <1>6, <1>7 DEF LastWordComes, LastWord, Shown
<1>9. PostIsComing'
  BY <1>1, <1>3, <1>4, <1>6 DEF PostIsComing, Tasks
<1>10. OpenPostsGetLocked'
  BY <1>1, <1>3, <1>4, <1>5, <1>6 DEF OpenPostsGetLocked, Tasks, Shown, request
<1> QED BY <1>1, <1>2, <1>8, <1>9, <1>10, OverInv DEF TypeOK, Tasks, ClosesLast

\* A post more, that no one but the running create knows of.
LEMMA CreateInv == ASSUME PostInv, RequestInv', CreateForumPost PROVE PostInv'
<1> USE DEF PostInv, CreateForumPost, request
<1> DEFINE e == [state |-> "live", current |-> prog.current, bornOpen |-> prog.open]
<1>1. e \in Post /\ e.state = "live" /\ e.current = prog.current /\ e.bornOpen = prog.open
  BY DEF TypeOK, Progress, Post
<1>2. posts \in Seq(Post) /\ Len(posts) \in Nat /\ DOMAIN posts = 1 .. Len(posts)
  BY PostsTyped DEF TypeOK
<1>3. posts' = Append(posts, e)
  OBVIOUS
<1> HIDE DEF e
<1>4. /\ posts' \in Seq(Post) /\ Len(posts') = Len(posts) + 1
      /\ DOMAIN posts' = 1 .. Len(posts) + 1
      /\ posts'[Len(posts) + 1] = e
      /\ \A t \in DOMAIN posts : posts'[t] = posts[t]
  BY <1>2, <1>3, <1>1, AppendProperties, LenProperties
<1>5. /\ made' \in DOMAIN posts' /\ made' # NoThread
      /\ posts'[made'] = e /\ DOMAIN posts \subseteq DOMAIN posts'
      /\ \A t \in DOMAIN posts' : t \in DOMAIN posts \/ posts'[t] = e
  BY <1>2, <1>4 DEF TypeOK, NoThread
<1>6. /\ RequestTypeOK' /\ run = "create" /\ run # Idle
      /\ thread = NoThread /\ UNCHANGED <<run, prog, thread, queue, gaveUp, status>>
  BY DEF RequestInv, ToCreate, Idle, ReadsHold
<1>7. TypeOK'
  BY <1>4, <1>5, <1>6 DEF TypeOK
<1>8. Rests' /\ ReadsHold' /\ NewsWaits' /\ Halfway'
  BY <1>6 DEF Rests, ReadsHold, NewsWaits, Halfway, ToClose, LastWord
<1>9. Making'
  BY <1>1, <1>5, <1>6 DEF Making, ToCreate
<1>10. ClosesLast'
  BY <1>1, <1>4, <1>5, <1>6 DEF ClosesLast, Coming
<1>11. LastWordComes' /\ PostIsComing' /\ OpenPostsGetLocked'
  BY <1>6 DEF LastWordComes, PostIsComing, OpenPostsGetLocked, Shown, Coming
<1> QED BY <1>7, <1>8, <1>9, <1>10, <1>11

\* What the recorded post does not show, and a close it was made too early to know
\* of, wait behind the create.
LEMMA RecordInv == ASSUME PostInv, RequestInv', SetThreadID PROVE PostInv'
<1> USE DEF PostInv, SetThreadID, Succeeds
<1>1. /\ run = "create" /\ run # Idle /\ made # NoThread /\ made \in DOMAIN posts
      /\ thread = NoThread
      /\ posts[made].state # "gone" =>
           posts[made].current = prog.current /\ posts[made].bornOpen = prog.open
  BY DEF ToCreate, Making, TypeOK, Idle
<1>2. /\ thread' = made /\ Over /\ gaveUp' = gaveUp \ {"create"}
      /\ UNCHANGED <<request, form, faults, queue, posts>> /\ status' = status
  BY <1>1 DEF request
<1>3. Coming("close")' => Coming("close")
  BY <1>2 DEF Coming, Over, Idle
<1>4. LastWordComes'
  BY <1>1, <1>2 DEF LastWordComes, Shown, NewsWaits, Coming, LastWord
<1>5. PostIsComing'
  BY <1>1, <1>2 DEF PostIsComing
<1>6. OpenPostsGetLocked'
  BY <1>1, <1>2 DEF OpenPostsGetLocked, Shown, ReadsHold, NewsWaits, LastWord, Coming
<1> QED BY <1>1, <1>2, <1>3, <1>4, <1>5, <1>6, OverInv DEF TypeOK, ClosesLast

\* The post that could not be recorded is gone before its create is run again.
LEMMA UndoInv == ASSUME PostInv, RequestInv', UndoPost PROVE PostInv'
<1> USE DEF PostInv, UndoPost
<1>1. /\ run = "create" /\ made \in DOMAIN posts /\ thread = NoThread /\ Gone \in Post
      /\ Gone.state = "gone"
  BY DEF ToCreate, Making, TypeOK, Gone, Post
<1>2. /\ posts' \in Seq(Post) /\ DOMAIN posts' = DOMAIN posts
      /\ posts'[made] = Gone
      /\ \A t \in DOMAIN posts : t # made => posts'[t] = posts[t]
  BY <1>1, OneEdited
<1>3. /\ faults' \in Nat /\ queue' \in SUBSET Tasks /\ Over
      /\ thread' \in {NoThread, made}
      /\ UNCHANGED <<request, form, gaveUp>> /\ queue' = queue \cup {"create"}
  BY <1>1 DEF TypeOK, Tasks
<1>4. Coming("close")' => Coming("close")
  BY <1>3 DEF Coming, Over, Idle
<1>5. LastWordComes' /\ PostIsComing' /\ OpenPostsGetLocked'
  BY <1>1, <1>2, <1>3 DEF LastWordComes, PostIsComing, OpenPostsGetLocked, Shown, Coming
<1> QED BY <1>1, <1>2, <1>3, <1>4, <1>5, OverInv DEF TypeOK, ClosesLast

\* A refresh shows what it read; what it read too early is still to come.
LEMMA EditInv == ASSUME PostInv, RequestInv', EditPost PROVE PostInv'
<1> USE DEF PostInv, EditPost, Succeeds
<1> DEFINE e == [posts[thread] EXCEPT !.state = "live", !.current = prog.current]
<1>1. /\ run = "refresh" /\ run # Idle /\ prog.thread = thread /\ thread # NoThread
      /\ thread \in DOMAIN posts /\ posts[thread] \in Post /\ prog \in Progress
      /\ posts[thread].state \in {"live", "final"}
  BY PostsTyped DEF ToEdit, TypeOK, ReadsHold, Idle
<1>2. /\ e \in Post /\ e.state = "live" /\ e.current = prog.current
      /\ e.bornOpen = posts[thread].bornOpen
  BY <1>1 DEF Post, Progress
<1>3. posts' = [posts EXCEPT ![thread] = e]
  BY <1>1
<1> HIDE DEF e
<1>4. /\ posts' \in Seq(Post) /\ DOMAIN posts' = DOMAIN posts
      /\ posts'[thread] = e
      /\ \A t \in DOMAIN posts : t # thread => posts'[t] = posts[t]
  BY <1>1, <1>2, <1>3, OneEdited
<1>5. /\ Over /\ gaveUp' = gaveUp \ {"refresh"}
      /\ UNCHANGED <<request, form, faults, queue, thread>> /\ status' = status
  BY <1>1 DEF request
<1>6. Coming("close")' <=> Coming("close")
  BY <1>1, <1>5 DEF Coming, Over, Idle
<1>7. LastWordComes'
  BY <1>1, <1>2, <1>4, <1>5 DEF LastWordComes, Shown, NewsWaits, Coming, LastWord
<1>8. PostIsComing'
  BY <1>1, <1>5 DEF PostIsComing
<1>9. OpenPostsGetLocked'
  BY <1>1, <1>2, <1>4, <1>5, <1>6 DEF OpenPostsGetLocked, Shown
<1> QED BY <1>2, <1>4, <1>5, <1>6, <1>7, <1>8, <1>9, OverInv DEF TypeOK, ClosesLast

\* The id of a post that is gone is cleared with the create that replaces it.
LEMMA RecreateInv == ASSUME PostInv, RequestInv', RecreatePost PROVE PostInv'
<1> USE DEF PostInv, RecreatePost, Succeeds
<1>1. run = "refresh" /\ Over /\ UNCHANGED <<request, form, faults, posts>> /\ thread' = NoThread
  BY DEF ToEdit
<1>2. queue' = queue \cup {"create"} /\ queue' \in SUBSET Tasks
  BY DEF TypeOK, Tasks
<1>3. Coming("close")' => Coming("close")
  BY <1>1, <1>2 DEF Coming, Over, Idle
<1>4. LastWordComes' /\ PostIsComing' /\ OpenPostsGetLocked'
  BY <1>1, <1>2 DEF LastWordComes, PostIsComing, OpenPostsGetLocked, Shown, Coming
<1> QED BY <1>1, <1>2, <1>3, <1>4, OverInv DEF TypeOK, ClosesLast

\* The final card is current, for nothing changes after a close.
LEMMA FinalCardInv == ASSUME PostInv, RequestInv', FinalCard PROVE PostInv'
<1> USE DEF PostInv, FinalCard, request
<1> DEFINE e == [posts[thread] EXCEPT !.state = "final", !.current = prog.current]
<1>1. /\ run = "close" /\ run # Idle /\ prog.thread = thread /\ thread # NoThread
      /\ thread \in DOMAIN posts /\ posts[thread] \in Post /\ prog \in Progress
      /\ prog.current
  BY PostsTyped DEF ToClose, TypeOK, ReadsHold, Idle, ClosesLast
<1>2. e \in Post /\ e.state = "final" /\ e.current /\ e.bornOpen = posts[thread].bornOpen
  BY <1>1 DEF Post, Progress
<1>3. posts' = [posts EXCEPT ![thread] = e]
  BY <1>1
<1> HIDE DEF e
<1>4. /\ posts' \in Seq(Post) /\ DOMAIN posts' = DOMAIN posts
      /\ posts'[thread] = e
      /\ \A t \in DOMAIN posts : t # thread => posts'[t] = posts[t]
  BY <1>1, <1>2, <1>3, OneEdited
<1>5. /\ RequestTypeOK' /\ called' = TRUE
      /\ UNCHANGED <<form, queue, run, prog, made, thread, gaveUp, faults, status>>
  BY DEF RequestInv
<1>6. TypeOK'
  BY <1>4, <1>5 DEF TypeOK
<1>7. Rests' /\ ReadsHold' /\ NewsWaits' /\ Making'
  BY <1>1, <1>5 DEF Rests, ReadsHold, NewsWaits, Making, ToCreate, LastWord
<1>8. ClosesLast' /\ Halfway'
  BY <1>2, <1>4, <1>5 DEF ClosesLast, Halfway, Coming, ToClose
<1>9. LastWordComes' /\ PostIsComing' /\ OpenPostsGetLocked'
  BY <1>1, <1>2, <1>4, <1>5 DEF LastWordComes, PostIsComing, OpenPostsGetLocked, Shown, Coming
<1> QED BY <1>6, <1>7, <1>8, <1>9

LEMMA LockInv == ASSUME PostInv, RequestInv', LockPost PROVE PostInv'
<1> USE DEF PostInv, LockPost, Succeeds
<1> DEFINE e == [posts[thread] EXCEPT !.state = "locked"]
<1>1. /\ run = "close" /\ run # Idle /\ prog.thread = thread /\ thread # NoThread
      /\ thread \in DOMAIN posts /\ posts[thread] \in Post /\ posts[thread].current
      /\ Coming("close")
  BY PostsTyped DEF ToClose, TypeOK, ReadsHold, Idle, Halfway, Coming
<1>2. e \in Post /\ e.state = "locked" /\ e.current
  BY <1>1 DEF Post
<1>3. posts' = [posts EXCEPT ![thread] = e]
  BY <1>1
<1> HIDE DEF e
<1>4. /\ posts' \in Seq(Post) /\ DOMAIN posts' = DOMAIN posts
      /\ posts'[thread] = e
      /\ \A t \in DOMAIN posts : t # thread => posts'[t] = posts[t]
  BY <1>1, <1>2, <1>3, OneEdited
<1>5. /\ Over /\ gaveUp' = gaveUp \ {"close"} /\ status # "open"
      /\ UNCHANGED <<request, form, faults, queue, thread>>
  BY <1>1 DEF ClosesLast
<1>6. LastWordComes' /\ PostIsComing' /\ OpenPostsGetLocked'
  BY <1>1, <1>2, <1>4, <1>5 DEF LastWordComes, PostIsComing, OpenPostsGetLocked, Shown
<1> QED BY <1>1, <1>2, <1>4, <1>5, <1>6, OverInv DEF TypeOK, ClosesLast

LEMMA DeletedByHandInv ==
  ASSUME PostInv, RequestInv', NEW t \in DOMAIN posts, DeletedByHand(t) PROVE PostInv'
<1> USE DEF PostInv, DeletedByHand, request, handler
<1>1. Gone \in Post /\ Gone.state = "gone" /\ RequestTypeOK' /\ faults' \in Nat
  BY DEF Gone, Post, RequestInv, TypeOK
<1>2. /\ posts' \in Seq(Post) /\ DOMAIN posts' = DOMAIN posts
      /\ posts'[t] = Gone
      /\ \A u \in DOMAIN posts : u # t => posts'[u] = posts[u]
  BY <1>1, OneEdited
<1>3. \A u \in DOMAIN posts : posts'[u] = posts[u] \/ posts'[u].state = "gone"
  BY <1>1, <1>2
<1>4. TypeOK' /\ {made, thread} \subseteq {NoThread} \cup DOMAIN posts
  BY <1>1, <1>2 DEF TypeOK
<1>5. Rests' /\ ReadsHold' /\ NewsWaits' /\ ClosesLast'
  BY <1>2, <1>3 DEF Rests, ReadsHold, NewsWaits, ClosesLast, LastWord, Coming
<1>6. Making'
  BY <1>3, <1>4 DEF Making, ToCreate
<1>7. Halfway'
  BY <1>3, <1>4 DEF Halfway, ToClose, ReadsHold, Idle
<1>8. LastWordComes' /\ PostIsComing' /\ OpenPostsGetLocked'
  BY <1>3, <1>4 DEF LastWordComes, PostIsComing, OpenPostsGetLocked, Shown, Coming, LastWord
<1> QED BY <1>4, <1>5, <1>6, <1>7, <1>8

LEMMA PostNextInv == PostInv /\ [Next]_vars => PostInv'
<1> SUFFICES ASSUME PostInv, [Next]_vars PROVE PostInv'
  OBVIOUS
<1>0. RequestInv'
  BY StepIsRequestStep, RequestNextInv DEF PostInv
<1>1. CASE Console
  BY <1>0, <1>1, ConsoleInv
<1>2. CASE Republish \/ UNCHANGED vars
  BY <1>0, <1>2, QuietStepsInv
<1>3. ASSUME NEW u \in Users,
             \/ \E op \in PanelOps : PressButton(u, op)
             \/ SubmitPicked(u) \/ SubmitUntouched(u) \/ FormEnds(u)
      PROVE  PostInv'
  BY <1>0, <1>3, ButtonInv, SubmitInv, FormEndsInv
<1>4. CASE \E k \in Tasks : Start(k)
  BY <1>0, <1>4, StartInv
<1>5. CASE NothingToDo \/ NothingToClose \/ RunAgain \/ Abandon
  BY <1>0, <1>5, NothingInv
<1>6. CASE CreateForumPost \/ SetThreadID \/ UndoPost
  BY <1>0, <1>6, CreateInv, RecordInv, UndoInv
<1>7. CASE EditPost \/ RecreatePost
  BY <1>0, <1>7, EditInv, RecreateInv
<1>8. CASE FinalCard \/ LockPost
  BY <1>0, <1>8, FinalCardInv, LockInv
<1>9. CASE \E t \in DOMAIN posts : DeletedByHand(t)
  BY <1>0, <1>9, DeletedByHandInv
<1> QED BY <1>1, <1>2, <1>3, <1>4, <1>5, <1>6, <1>7, <1>8, <1>9 DEF Next, WorkerStep, HandlerStep

\* The invariant of the request, its forms, its tasks and its post.
THEOREM PostInvHolds == Spec => []PostInv
BY PostInitInv, PostNextInv, PTL DEF Spec

\* Type correctness: the recorded thread, and the one a handler read or made, name
\* a post that was made.
THEOREM TypeCorrect == Spec => []TypeOK
<1>1. PostInv => TypeOK
  BY DEF PostInv
<1> QED BY PostInvHolds, <1>1, PTL

\* Whatever the owner, the members and the worker do in whatever order, an outdated
\* card has its task to come, a request without a post a create, and the post of a
\* closed request is locked or about to be.
THEOREM PostFollowsRequest == Spec => []PostFollows
<1>1. PostInv => PostFollows
  BY DEF PostInv, PostFollows, LastWordComes, PostIsComing, OpenPostsGetLocked, LastWord
<1> QED BY PostInvHolds, <1>1, PTL
=============================================================================
