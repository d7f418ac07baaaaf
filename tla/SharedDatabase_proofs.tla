------------------------ MODULE SharedDatabase_proofs ------------------------
(***************************************************************************)
(* Windows, closing and fresh reads, for any contexts and blocks.           *)
(***************************************************************************)
EXTENDS SharedDatabase, SequenceTheorems, TLAPS

\* What the head of a typed inbox or queue can be.
LEMMA HeadOfMessages ==
  ASSUME TypeOK, NEW c \in Context
  PROVE  /\ inbox[c] \in Seq(Message)
         /\ inbox[c] # <<>> => /\ Head(inbox[c]) \in Message
                               /\ Tail(inbox[c]) \in Seq(Message)
         /\ queue[c] # <<>> => /\ Head(queue[c]) \in Message \cup {CloseItem}
                               /\ Tail(queue[c]) \in Seq(Message \cup {CloseItem})
<1>1. inbox[c] \in Seq(Message) /\ queue[c] \in Seq(Message \cup {CloseItem})
  BY DEF TypeOK
<1> QED
  BY <1>1, HeadTailProperties

\* What a message is about: a grant names a block, a change set a row.
LEMMA Messages ==
  ASSUME NEW item \in Message
  PROVE  /\ item.kind = "block" => item.of \in Block /\ item = BlockItem(item.of)
         /\ item.kind = "apply" => item.of \in Nat
         /\ item.kind \in {"block", "apply"}
BY DEF Message, BlockItem

\* The messages the broker makes are of the type of its messages.
LEMMA MadeMessages ==
  /\ \A b \in Block : BlockItem(b) \in Message
  /\ \A v \in Nat : ApplyItem(v) \in Message
BY DEF Message, BlockItem, ApplyItem

\* Reading through the cache yields a row.
LEMMA CanonicalIsARow ==
  ASSUME TypeOK, NEW c \in Context, NEW row \in Nat
  PROVE  Canonical(c, row) \in Nat
BY DEF TypeOK, Canonical, None

\* The initial state of every tab is in the domains.
LEMMA TypeInit == Init => TypeOK
BY DEF Init, TypeOK, None, Inside, Phases, Stages

\* What is put into a work queue leaves it a queue of items.
LEMMA EnqueueType ==
  ASSUME TypeOK, NEW c \in Context, NEW item \in Message \cup {CloseItem},
         Enqueue(c, item)
  PROVE  queue' \in [Context -> Seq(Message \cup {CloseItem})]
<1>1. Append(queue[c], item) \in Seq(Message \cup {CloseItem})
  BY AppendProperties DEF TypeOK
<1> QED
  BY <1>1 DEF Enqueue, TypeOK

\* What leaves the front of a work queue leaves it a queue of items.
LEMMA DequeueType ==
  ASSUME TypeOK, NEW c \in Context, queue[c] # <<>>, Dequeue(c)
  PROVE  queue' \in [Context -> Seq(Message \cup {CloseItem})]
BY HeadOfMessages DEF Dequeue, TypeOK

\* Every step of a tab, of the broker or of close() keeps the domains.
LEMMA TypeStep == TypeOK /\ FrontInv /\ [Next]_vars => TypeOK'
<1> SUFFICES ASSUME TypeOK, FrontInv, [Next]_vars PROVE TypeOK'
  OBVIOUS
<1> USE DEF Inside
<1>1. ASSUME NEW b \in Block, CallBlock(b) PROVE TypeOK'
  <2>1. CASE closing[home[b]] # "open"
    BY <1>1, <2>1 DEF CallBlock, Goto, TypeOK, Phases, dataVars
  <2>2. CASE closing[home[b]] = "open"
    <3>1. Append(slotQueue, b) \in Seq(Block)
      BY AppendProperties DEF TypeOK
    <3> QED
      BY <1>1, <2>2, <3>1 DEF CallBlock, Goto, TypeOK, Phases, AcceptedPhases, dataVars
  <2> QED
    BY <2>1, <2>2
<1>2. ASSUME NEW b \in Block, Read(b) PROVE TypeOK'
  <2>1. home[b] \in Context /\ Canonical(home[b], stored) \in Nat
    BY CanonicalIsARow DEF TypeOK
  <2> QED
    BY <1>2, <2>1 DEF Read, Goto, TypeOK, Phases, AcceptedPhases, brokerVars, None
<1>3. ASSUME NEW b \in Block, Commit(b) PROVE TypeOK'
  <2>1. base[b] + 1 \in Nat
    BY <1>3 DEF Commit, TypeOK, None
  <2> QED
    BY <1>3, <2>1 DEF Commit, Goto, TypeOK, Phases, AcceptedPhases, brokerVars
<1>4. ASSUME NEW b \in Block, Publish(b) PROVE TypeOK'
  <2>1. home[b] \in Context /\ base[b] + 1 \in Nat
    BY <1>4 DEF Publish, TypeOK, None
  <2>2. \A x \in Context : Append(inbox[x], ApplyItem(base[b] + 1)) \in Seq(Message)
    BY <2>1, MadeMessages, AppendProperties DEF TypeOK
  <2>3. inbox' \in [Context -> Seq(Message)]
    BY <1>4, <2>2 DEF Publish, Broadcast, TypeOK
  <2> QED
    BY <1>4, <2>1, <2>3 DEF Publish, Goto, TypeOK, Phases, AcceptedPhases
<1>5. ASSUME NEW b \in Block, Finish(b) PROVE TypeOK'
  <2>1. home[b] \in Context /\ queue[home[b]] # <<>>
    BY <1>5 DEF Finish, FrontInv, Running, TypeOK
  <2>2. queue' \in [Context -> Seq(Message \cup {CloseItem})]
    BY <1>5, <2>1, DequeueType DEF Finish
  <2> QED
    BY <1>5, <2>2
       DEF Finish, Goto, TypeOK, Phases, AcceptedPhases, dataVars, brokerVars
<1>6. ASSUME NEW b \in Block, Release(b) PROVE TypeOK'
  BY <1>6 DEF Release, Returned, Goto, TypeOK, Phases, AcceptedPhases, dataVars
<1>7. CASE GrantSlot
  <2> DEFINE b == Head(slotQueue)
  <2>1. b \in Block /\ Tail(slotQueue) \in Seq(Block)
    BY <1>7, HeadTailProperties DEF GrantSlot, Grantable, TypeOK
  <2>2. home[b] \in Context /\ Append(inbox[home[b]], BlockItem(b)) \in Seq(Message)
    BY <2>1, MadeMessages, AppendProperties DEF TypeOK
  <2>3. inbox' = [inbox EXCEPT ![home[b]] = Append(@, BlockItem(b))]
    BY <1>7 DEF GrantSlot
  <2> QED
    BY <1>7, <2>1, <2>2, <2>3 DEF GrantSlot, TypeOK, dataVars, blockVars
<1>8. ASSUME NEW c \in Context, Receive(c) PROVE TypeOK'
  <2> DEFINE item == Head(inbox[c])
  <2>1. item \in Message /\ Tail(inbox[c]) \in Seq(Message)
    BY <1>8, HeadOfMessages DEF Receive
  <2>2. phase' \in [Block -> Phases]
    BY <1>8, <2>1, Messages DEF Receive, Goto, TypeOK, Phases, AcceptedPhases
  <2>3. queue' \in [Context -> Seq(Message \cup {CloseItem})]
    BY <1>8, <2>1, EnqueueType DEF Receive, TypeOK
  <2>4. \A b \in Block : Inside(b)' => Inside(b)
    BY <1>8 DEF Receive, Goto, TypeOK
  <2>5. inbox' \in [Context -> Seq(Message)]
    BY <1>8, <2>1 DEF Receive, TypeOK
  <2> QED
    BY <1>8, <2>2, <2>3, <2>4, <2>5 DEF Receive, TypeOK, dataVars
<1>9. ASSUME NEW c \in Context, ApplyExternalChanges(c) PROVE TypeOK'
  <2> DEFINE item == Head(queue[c])
  <2>1. item.of \in Nat
    BY <1>9, HeadOfMessages, Messages DEF ApplyExternalChanges, CloseItem
  <2>2. queue' \in [Context -> Seq(Message \cup {CloseItem})]
    BY <1>9, DequeueType DEF ApplyExternalChanges
  <2> QED
    BY <1>9, <2>1, <2>2
       DEF ApplyExternalChanges, Refreshed, TypeOK, blockVars, brokerVars
<1>10. ASSUME NEW c \in Context, StartFetch(c) PROVE TypeOK'
  BY <1>10 DEF StartFetch, TypeOK, blockVars, brokerVars
<1>11. ASSUME NEW c \in Context, FinishFetch(c) PROVE TypeOK'
  <2>1. Canonical(c, fetched[c]) \in Nat
    BY <1>11, CanonicalIsARow DEF FinishFetch, TypeOK
  <2> QED
    BY <1>11, <2>1 DEF FinishFetch, TypeOK, blockVars, brokerVars, None
<1>12. ASSUME NEW c \in Context, RequestClose(c) PROVE TypeOK'
  BY <1>12 DEF RequestClose, CloseStage, TypeOK, Stages, dataVars, blockVars
<1>13. ASSUME NEW c \in Context, EnterBarrier(c) PROVE TypeOK'
  BY <1>13, EnqueueType DEF EnterBarrier, CloseStage, TypeOK, Stages, dataVars, blockVars
<1>14. ASSUME NEW c \in Context, StartTeardown(c) PROVE TypeOK'
  BY <1>14 DEF StartTeardown, CloseStage, TypeOK, Stages, dataVars, blockVars
<1>15. ASSUME NEW c \in Context, CloseDriver(c) PROVE TypeOK'
  <2>1. queue[c] # <<>>
    BY <1>15 DEF CloseDriver, CloseStage, FrontInv, Running
  <2>2. queue' \in [Context -> Seq(Message \cup {CloseItem})]
    BY <1>15, <2>1, DequeueType DEF CloseDriver
  <2>3. inbox' \in [Context -> Seq(Message)]
    <3>1. <<>> \in Seq(Message)
      BY EmptySeq
    <3> QED
      BY <1>15, <3>1 DEF CloseDriver, TypeOK
  <2> QED
    BY <1>15, <2>2, <2>3 DEF CloseDriver, CloseStage, TypeOK, Stages, dataVars, blockVars
<1>16. CASE UNCHANGED vars
  BY <1>16 DEF vars, TypeOK, dataVars, blockVars, brokerVars
<1> QED
  BY <1>1, <1>2, <1>3, <1>4, <1>5, <1>6, <1>7, <1>8, <1>9, <1>10, <1>11, <1>12,
     <1>13, <1>14, <1>15, <1>16 DEF Next, BlockStep, CloseStep

\* An item in front stays in front of what is enqueued.
LEMMA FrontStaysInFront ==
  ASSUME TypeOK, NEW c \in Context, NEW item \in Message \cup {CloseItem},
         Enqueue(c, item), NEW x \in Context, NEW front, Running(x, front)
  PROVE  Running(x, front)'
<1>1. queue[x] \in Seq(Message \cup {CloseItem}) /\ queue[x] # <<>>
  BY DEF TypeOK, Running
<1>2. Append(queue[x], item) # <<>> /\ Head(Append(queue[x], item)) = Head(queue[x])
  BY <1>1, AppendProperties
<1>3. queue'[x] = IF x = c THEN Append(queue[x], item) ELSE queue[x]
  BY DEF Enqueue, TypeOK
<1> QED
  BY <1>2, <1>3 DEF Running

\* Only what is in front leaves, so nothing else that is in front is moved.
LEMMA FrontElsewhere ==
  ASSUME TypeOK, NEW c \in Context, NEW gone, Running(c, gone), Dequeue(c),
         NEW x \in Context, NEW front, front # gone, Running(x, front)
  PROVE  Running(x, front)'
<1>1. x # c
  BY DEF Running
<1> QED
  BY <1>1 DEF Running, Dequeue, TypeOK

\* No two blocks share an item, and the barrier of close() is no block.
LEMMA ItemsDiffer ==
  /\ \A a, b \in Block : BlockItem(a) = BlockItem(b) => a = b
  /\ \A b \in Block : BlockItem(b) # CloseItem /\ BlockItem(b).kind = "block"
  /\ CloseItem.kind = "close"
BY DEF BlockItem, CloseItem

\* No step moves a block at work, or the barrier, from the front of its queue.
LEMMA FrontStep == TypeOK /\ FrontInv /\ [Next]_vars => FrontInv'
<1> SUFFICES ASSUME TypeOK, FrontInv, [Next]_vars PROVE FrontInv'
  OBVIOUS
<1>0. \A b \in Block : home[b] \in Context
  BY DEF TypeOK
<1>1. ASSUME NEW b \in Block, CallBlock(b) PROVE FrontInv'
  <2>1. /\ queue' = queue /\ home' = home /\ closing' = closing
        /\ \A x \in Block : Inside(x)' => Inside(x)
    BY <1>1 DEF CallBlock, Goto, TypeOK, Inside
  <2> QED
    BY <2>1 DEF FrontInv, Running
<1>2. ASSUME NEW b \in Block, Read(b) PROVE FrontInv'
  <2>1. /\ queue' = queue /\ home' = home /\ closing' = closing
        /\ \A x \in Block : Inside(x)' => Inside(x) \/ x = b
        /\ Running(home[b], BlockItem(b))
    BY <1>2 DEF Read, Goto, TypeOK, Inside
  <2> QED
    BY <2>1 DEF FrontInv, Running
<1>3. ASSUME NEW b \in Block, Commit(b) \/ Publish(b) \/ Release(b)
      PROVE FrontInv'
  <2>1. /\ queue' = queue /\ home' = home /\ closing' = closing
        /\ \A x \in Block : Inside(x)' => Inside(x)
    BY <1>3 DEF Commit, Publish, Release, Goto, TypeOK, Inside
  <2> QED
    BY <2>1 DEF FrontInv, Running
<1>4. ASSUME NEW b \in Block, Finish(b) PROVE FrontInv'
  <2>1. /\ Running(home[b], BlockItem(b)) /\ Dequeue(home[b])
        /\ home' = home /\ closing' = closing
        /\ \A x \in Block : Inside(x)' => Inside(x) /\ x # b
    BY <1>4 DEF Finish, Goto, TypeOK, Inside, FrontInv
  <2>2. ASSUME NEW x \in Block, Inside(x)' PROVE Running(home[x], BlockItem(x))'
    <3>1. Running(home[x], BlockItem(x)) /\ BlockItem(x) # BlockItem(b)
      BY <2>1, <2>2, ItemsDiffer DEF FrontInv
    <3>2. queue'[home[x]] # <<>> /\ Head(queue'[home[x]]) = BlockItem(x)
      BY <1>0, <2>1, <3>1, FrontElsewhere DEF Running
    <3> QED
      BY <2>1, <3>2 DEF Running
  <2>3. ASSUME NEW c \in Context, closing'[c] = "teardown" PROVE Running(c, CloseItem)'
    BY <1>0, <2>1, <2>3, ItemsDiffer, FrontElsewhere DEF FrontInv
  <2> QED
    BY <2>2, <2>3 DEF FrontInv
<1>5. CASE GrantSlot
  BY <1>5 DEF GrantSlot, FrontInv, Running, Inside, blockVars
<1>6. ASSUME NEW c \in Context, Receive(c) PROVE FrontInv'
  <2>1. /\ home' = home /\ closing' = closing
        /\ \A x \in Block : Inside(x)' => Inside(x)
    BY <1>6 DEF Receive, Goto, TypeOK, Inside
  <2>2. CASE queue' = queue
    BY <2>1, <2>2 DEF FrontInv, Running
  <2>3. CASE Enqueue(c, Head(inbox[c]))
    <3>1. Head(inbox[c]) \in Message \cup {CloseItem}
      BY <1>6, HeadOfMessages DEF Receive
    <3>2. \A x \in Context : \A front :
            Running(x, front) => queue'[x] # <<>> /\ Head(queue'[x]) = front
      BY <2>3, <3>1, FrontStaysInFront DEF Running
    <3> QED
      BY <1>0, <2>1, <3>2 DEF FrontInv, Running
  <2> QED
    BY <1>6, <2>2, <2>3 DEF Receive
<1>7. ASSUME NEW c \in Context, ApplyExternalChanges(c) PROVE FrontInv'
  <2> DEFINE item == Head(queue[c])
  <2>1. /\ Running(c, item) /\ Dequeue(c) /\ item.kind = "apply"
        /\ home' = home /\ closing' = closing /\ phase' = phase
    BY <1>7 DEF ApplyExternalChanges, Running, blockVars
  <2>2. \A b \in Block : BlockItem(b) # item
    BY <2>1, ItemsDiffer
  <2>3. CloseItem # item
    BY <2>1, ItemsDiffer
  <2>4. \A x \in Context : \A front : front # item /\ Running(x, front) =>
          queue'[x] # <<>> /\ Head(queue'[x]) = front
    BY <2>1, FrontElsewhere DEF Running
  <2> QED
    BY <1>0, <2>1, <2>2, <2>3, <2>4 DEF FrontInv, Running, Inside
<1>8. ASSUME NEW c \in Context, StartFetch(c) \/ FinishFetch(c) \/ RequestClose(c)
      PROVE FrontInv'
  <2>1. /\ queue' = queue /\ home' = home /\ phase' = phase
        /\ \A x \in Context : closing'[x] = "teardown" => closing[x] = "teardown"
    BY <1>8 DEF StartFetch, FinishFetch, RequestClose, CloseStage, blockVars, TypeOK
  <2> QED
    BY <2>1 DEF FrontInv, Running, Inside
<1>9. ASSUME NEW c \in Context, EnterBarrier(c) PROVE FrontInv'
  <2>1. /\ Enqueue(c, CloseItem) /\ home' = home /\ phase' = phase
        /\ \A x \in Context : closing'[x] = "teardown" => closing[x] = "teardown"
    BY <1>9 DEF EnterBarrier, CloseStage, blockVars, TypeOK
  <2>2. \A x \in Context : \A front :
          Running(x, front) => queue'[x] # <<>> /\ Head(queue'[x]) = front
    BY <2>1, FrontStaysInFront DEF Running
  <2> QED
    BY <1>0, <2>1, <2>2 DEF FrontInv, Running, Inside
<1>10. ASSUME NEW c \in Context, StartTeardown(c) PROVE FrontInv'
  <2>1. /\ Running(c, CloseItem) /\ queue' = queue /\ home' = home /\ phase' = phase
        /\ \A x \in Context : closing'[x] = "teardown" => closing[x] = "teardown" \/ x = c
    BY <1>10 DEF StartTeardown, CloseStage, blockVars, TypeOK
  <2> QED
    BY <2>1 DEF FrontInv, Running, Inside
<1>11. ASSUME NEW c \in Context, CloseDriver(c) PROVE FrontInv'
  <2>1. /\ Running(c, CloseItem) /\ Dequeue(c) /\ home' = home /\ phase' = phase
        /\ \A x \in Context : closing'[x] = "teardown" => closing[x] = "teardown" /\ x # c
    BY <1>11 DEF CloseDriver, CloseStage, FrontInv, blockVars, TypeOK, Stages
  <2>2. ASSUME NEW b \in Block, Inside(b)' PROVE Running(home[b], BlockItem(b))'
    <3>1. Running(home[b], BlockItem(b)) /\ BlockItem(b) # CloseItem
      BY <2>1, <2>2, ItemsDiffer DEF FrontInv, Inside
    <3>2. queue'[home[b]] # <<>> /\ Head(queue'[home[b]]) = BlockItem(b)
      BY <1>0, <2>1, <3>1, FrontElsewhere DEF Running
    <3> QED
      BY <2>1, <3>2 DEF Running
  <2>3. ASSUME NEW x \in Context, closing'[x] = "teardown" PROVE Running(x, CloseItem)'
    <3>1. x # c /\ Running(x, CloseItem)
      BY <2>1, <2>3 DEF FrontInv
    <3> QED
      BY <2>1, <3>1 DEF Running, Dequeue, TypeOK
  <2> QED
    BY <2>2, <2>3 DEF FrontInv
<1>12. CASE UNCHANGED vars
  BY <1>12 DEF vars, FrontInv, Running, Inside, dataVars, blockVars, brokerVars
<1> QED
  BY <1>1, <1>2, <1>3, <1>4, <1>5, <1>6, <1>7, <1>8, <1>9, <1>10, <1>11, <1>12
     DEF Next, BlockStep, CloseStep

\* The rows, messages and queues of any number of tabs stay in their domains,
\* and nobody leaves a queue but what is in front of it.
THEOREM SharedTypeCorrect == Spec => [](TypeOK /\ FrontInv)
<1>1. Init => TypeOK /\ FrontInv
  BY TypeInit DEF Init, FrontInv, Inside
<1> QED
  BY <1>1, TypeStep, FrontStep, PTL DEF Spec

-----------------------------------------------------------------------------
(***************************************************************************)
(* The slots.                                                              *)
(***************************************************************************)

\* Positions in a sequence that grew by one, and in one that lost its head.
LEMMA Positions ==
  ASSUME NEW S, NEW s \in Seq(S), NEW e \in S
  PROVE  /\ DOMAIN s = 1..Len(s) /\ Len(s) \in Nat
         /\ DOMAIN Append(s, e) = 1..(Len(s) + 1)
         /\ \A k \in 1..Len(s) : Append(s, e)[k] = s[k]
         /\ Append(s, e)[Len(s) + 1] = e
         /\ s # <<>> => /\ 1 \in DOMAIN s /\ Head(s) = s[1]
                        /\ DOMAIN Tail(s) = 1..(Len(s) - 1)
                        /\ \A k \in 1..(Len(s) - 1) : Tail(s)[k] = s[k + 1]
<1>1. DOMAIN s = 1..Len(s) /\ Len(s) \in Nat
  BY LenProperties
<1>2. /\ Append(s, e) \in Seq(S) /\ Len(Append(s, e)) = Len(s) + 1
      /\ \A k \in 1..Len(s) : Append(s, e)[k] = s[k]
      /\ Append(s, e)[Len(s) + 1] = e
  BY AppendProperties
<1>3. DOMAIN Append(s, e) = 1..(Len(s) + 1)
  BY <1>2, LenProperties
<1>4. ASSUME s # <<>>
      PROVE  /\ 1 \in DOMAIN s /\ Head(s) = s[1]
             /\ DOMAIN Tail(s) = 1..(Len(s) - 1)
             /\ \A k \in 1..(Len(s) - 1) : Tail(s)[k] = s[k + 1]
  <2>1. /\ Tail(s) \in Seq(S) /\ Len(Tail(s)) = Len(s) - 1
        /\ \A k \in 1..Len(Tail(s)) : Tail(s)[k] = s[k + 1]
    BY <1>4, HeadTailProperties
  <2>2. 1 \in DOMAIN s /\ Head(s) = s[1]
    BY <1>1, <1>4, EmptySeq, HeadTailProperties
  <2> QED
    BY <2>1, <2>2, LenProperties
<1> QED
  BY <1>1, <1>2, <1>3, <1>4

\* What follows for the blocks at work: no other block is at work in any tab
\* while a writer is.
LEMMA HoldersHaveWindows == HoldersInv => WindowsHold
BY SharedConstants DEF HoldersInv, WindowsHold, Inside, AcceptedPhases

\* A step that adds no grant, and leaves the waiting blocks waiting and the
\* holders holding, keeps what is known of the grants on their way.
LEMMA OldGrants ==
  ASSUME TypeOK, GrantsInv, home' = home,
         \A c \in Context, k \in Nat :
           IsGrant(c, k)' => /\ IsGrant(c, k)
                             /\ inbox'[c][k] = inbox[c][k]
                             /\ phase'[inbox[c][k].of] = "waiting"
                             /\ inbox[c][k].of \in held'
  PROVE  GrantsInv'
BY DEF GrantsInv

\* A block at work that goes on working disturbs no slot, request or grant.
LEMMA WorkGoesOn ==
  ASSUME TypeOK, SlotsInv, NEW b \in Block, NEW label,
         phase[b] \in AcceptedPhases \ {"waiting"},
         label \in AcceptedPhases \ {"waiting"},
         Goto(b, label), held' = held, slotQueue' = slotQueue, home' = home,
         \A c \in Context, k \in Nat :
           IsGrant(c, k)' => IsGrant(c, k) /\ inbox'[c][k] = inbox[c][k]
  PROVE  SlotsInv'
<1>1. phase' = [phase EXCEPT ![b] = label] /\ phase \in [Block -> Phases]
  BY DEF Goto, TypeOK
<1>2. HoldersInv'
  BY <1>1 DEF SlotsInv, HoldersInv, TypeOK
<1>3. RequestsInv'
  <2>1. \A k \in DOMAIN slotQueue : slotQueue[k] # b
    BY DEF SlotsInv, RequestsInv
  <2> QED
    BY <1>1, <2>1 DEF SlotsInv, RequestsInv
<1>4. GrantsInv'
  <2>1. \A c \in Context, k \in Nat : IsGrant(c, k) =>
          /\ inbox[c][k].of # b
          /\ phase[inbox[c][k].of] = "waiting"
          /\ inbox[c][k].of \in held
    BY DEF SlotsInv, GrantsInv
  <2>2. \A c \in Context, k \in Nat : IsGrant(c, k) =>
          phase'[inbox[c][k].of] = "waiting"
    BY <1>1, <2>1 DEF TypeOK
  <2> QED
    BY <2>1, <2>2, OldGrants DEF SlotsInv
<1> QED
  BY <1>2, <1>3, <1>4 DEF SlotsInv

\* A broadcast of change sets is no grant.
LEMMA BroadcastGrantsNothing ==
  ASSUME TypeOK, NEW c \in Context, NEW v \in Nat, inbox' = Broadcast(c, v),
         NEW x \in Context, NEW k \in Nat, IsGrant(x, k)'
  PROVE  IsGrant(x, k) /\ inbox'[x][k] = inbox[x][k]
<1>1. inbox[x] \in Seq(Message) /\ ApplyItem(v) \in Message
  BY MadeMessages DEF TypeOK
<1>2. CASE inbox'[x] = inbox[x]
  BY <1>2 DEF IsGrant
<1>3. CASE inbox'[x] = Append(inbox[x], ApplyItem(v))
  <2>1. k # Len(inbox[x]) + 1
    BY <1>1, <1>3, Positions DEF IsGrant, ApplyItem
  <2>2. k \in 1..Len(inbox[x])
    BY <1>1, <1>3, <2>1, Positions DEF IsGrant
  <2> QED
    BY <1>1, <1>3, <2>2, Positions DEF IsGrant
<1> QED
  BY <1>2, <1>3 DEF Broadcast

\* A block that asks for a slot has none, and had not asked before.
LEMMA RequestSlots ==
  ASSUME TypeOK, SlotsInv, NEW b \in Block, CallBlock(b)
  PROVE  SlotsInv'
<1>1. /\ phase[b] = "new" /\ held' = held /\ inbox' = inbox /\ home' = home
      /\ \E label \in {"waiting", "refused"} : phase' = [phase EXCEPT ![b] = label]
      /\ \/ slotQueue' = slotQueue
         \/ slotQueue' = Append(slotQueue, b) /\ phase'[b] = "waiting"
  <2>1. CASE closing[home[b]] # "open"
    BY <2>1 DEF CallBlock, Goto
  <2>2. CASE closing[home[b]] = "open"
    BY <2>2 DEF CallBlock, Goto, TypeOK
  <2> QED
    BY <2>1, <2>2
<1>2. b \notin held
  BY <1>1 DEF SlotsInv, HoldersInv, AcceptedPhases
<1>3. HoldersInv'
  BY <1>1, <1>2 DEF SlotsInv, HoldersInv, AcceptedPhases, TypeOK
<1>4. \A x \in Block : x # b => phase'[x] = phase[x]
  BY <1>1 DEF TypeOK
<1>5. slotQueue \in Seq(Block) /\ DOMAIN slotQueue = 1..Len(slotQueue) /\ Len(slotQueue) \in Nat
  BY Positions DEF TypeOK
<1>6. \A k \in DOMAIN slotQueue :
        /\ slotQueue[k] \in Block /\ slotQueue[k] # b
        /\ phase[slotQueue[k]] = "waiting" /\ slotQueue[k] \notin held
  BY <1>1, <1>5, LenProperties DEF SlotsInv, RequestsInv
<1>7. RequestsInv'
  <2>1. CASE slotQueue' = slotQueue
    BY <1>1, <1>4, <1>6, <2>1 DEF SlotsInv, RequestsInv
  <2>2. CASE slotQueue' = Append(slotQueue, b) /\ phase'[b] = "waiting"
    <3>1. /\ DOMAIN slotQueue' = 1..(Len(slotQueue) + 1)
          /\ \A k \in 1..Len(slotQueue) : slotQueue'[k] = slotQueue[k]
          /\ slotQueue'[Len(slotQueue) + 1] = b
      BY <1>5, <2>2, Positions
    <3>2. \A k \in DOMAIN slotQueue' :
            IF k \in DOMAIN slotQueue THEN slotQueue'[k] = slotQueue[k]
            ELSE slotQueue'[k] = b /\ k = Len(slotQueue) + 1
      BY <1>5, <3>1
    <3>3. ASSUME NEW k \in DOMAIN slotQueue'
          PROVE  phase'[slotQueue'[k]] = "waiting" /\ slotQueue'[k] \notin held'
      BY <1>1, <1>2, <1>4, <1>6, <2>2, <3>2, <3>3
    <3>4. ASSUME NEW j \in DOMAIN slotQueue', NEW k \in DOMAIN slotQueue',
                 slotQueue'[j] = slotQueue'[k]
          PROVE  j = k
      BY <1>6, <3>2, <3>4 DEF SlotsInv, RequestsInv
    <3> QED
      BY <3>3, <3>4 DEF RequestsInv
  <2> QED
    BY <1>1, <2>1, <2>2
<1>8. GrantsInv'
  <2>1. \A c \in Context, k \in Nat : IsGrant(c, k) =>
          /\ inbox[c][k].of # b /\ inbox[c][k].of \in held
          /\ inbox[c][k].of \in Block /\ phase[inbox[c][k].of] = "waiting"
    BY <1>1 DEF SlotsInv, GrantsInv, TypeOK
  <2> QED
    BY <1>1, <1>4, <2>1, OldGrants DEF SlotsInv, IsGrant
<1> QED
  BY <1>3, <1>7, <1>8 DEF SlotsInv

\* What the broker grants next goes to a block that held nothing and has no
\* grant on its way; it shares its slot with no writer.
LEMMA GrantSlots ==
  ASSUME TypeOK, SlotsInv, GrantSlot
  PROVE  SlotsInv'
<1> DEFINE b == Head(slotQueue)
           n == Len(inbox[home[b]]) + 1
<1>1. /\ slotQueue \in Seq(Block) /\ slotQueue # <<>> /\ 1 \in DOMAIN slotQueue
      /\ b = slotQueue[1] /\ b \in Block /\ home[b] \in Context
      /\ DOMAIN slotQueue = 1..Len(slotQueue) /\ Len(slotQueue) \in Nat
      /\ DOMAIN Tail(slotQueue) = 1..(Len(slotQueue) - 1)
      /\ \A k \in 1..(Len(slotQueue) - 1) : Tail(slotQueue)[k] = slotQueue[k + 1]
  BY Positions, HeadTailProperties DEF GrantSlot, Grantable, TypeOK
<1>2. /\ slotQueue' = Tail(slotQueue) /\ held' = held \cup {b}
      /\ inbox' = [inbox EXCEPT ![home[b]] = Append(@, BlockItem(b))]
      /\ home' = home /\ phase' = phase
  BY DEF GrantSlot, blockVars
<1>3. phase[b] = "waiting" /\ b \notin held
  BY <1>1 DEF SlotsInv, RequestsInv
<1>4. HoldersInv'
  <2>1. \A w \in held' \cap Writer : held' = {w}
    BY <1>2 DEF GrantSlot, Grantable, SlotsInv, HoldersInv
  <2> QED
    BY <1>2, <1>3, <2>1 DEF SlotsInv, HoldersInv, AcceptedPhases
<1>5. RequestsInv'
  <2>1. \A k \in DOMAIN slotQueue' :
          /\ k + 1 \in DOMAIN slotQueue /\ k + 1 # 1
          /\ slotQueue'[k] = slotQueue[k + 1]
    BY <1>1, <1>2
  <2>2. \A k \in DOMAIN slotQueue' : slotQueue'[k] # b
    BY <1>1, <2>1 DEF SlotsInv, RequestsInv
  <2>3. \A k \in DOMAIN slotQueue' :
          phase'[slotQueue'[k]] = "waiting" /\ slotQueue'[k] \notin held'
    BY <1>2, <2>1, <2>2 DEF SlotsInv, RequestsInv
  <2>4. \A j, k \in DOMAIN slotQueue' : slotQueue'[j] = slotQueue'[k] => j + 1 = k + 1
    BY <2>1 DEF SlotsInv, RequestsInv
  <2>5. \A j, k \in DOMAIN slotQueue' : j + 1 = k + 1 => j = k
    BY <1>1, <1>2
  <2> QED
    BY <2>3, <2>4, <2>5 DEF RequestsInv
<1>6. GrantsInv'
  <2>1. /\ inbox[home[b]] \in Seq(Message) /\ BlockItem(b) \in Message
        /\ inbox'[home[b]] = Append(inbox[home[b]], BlockItem(b))
        /\ \A c \in Context : c # home[b] => inbox'[c] = inbox[c]
    BY <1>1, <1>2, MadeMessages DEF TypeOK
  <2>2. \A c \in Context, k \in Nat : IsGrant(c, k) => inbox[c][k].of # b
    BY <1>3 DEF SlotsInv, GrantsInv
  <2>3. ASSUME NEW c \in Context, NEW k \in Nat, IsGrant(c, k)'
        PROVE  \/ IsGrant(c, k) /\ inbox'[c][k] = inbox[c][k]
               \/ c = home[b] /\ k = n /\ inbox'[c][k] = BlockItem(b)
    <3>1. CASE c # home[b]
      BY <2>1, <2>3, <3>1 DEF IsGrant
    <3>2. CASE c = home[b]
      <4>1. /\ k \in 1..n
            /\ k \in 1..Len(inbox[c]) => inbox'[c][k] = inbox[c][k]
            /\ inbox'[c][n] = BlockItem(b) /\ n - 1 = Len(inbox[c]) /\ n \in Nat
            /\ DOMAIN inbox[c] = 1..Len(inbox[c])
        BY <2>1, <2>3, <3>2, Positions DEF IsGrant
      <4>2. k \in 1..Len(inbox[c]) \/ k = n
        BY <4>1
      <4> QED
        BY <2>3, <3>2, <4>1, <4>2 DEF IsGrant
    <3> QED
      BY <3>1, <3>2
  <2>4. BlockItem(b).of = b
    BY DEF BlockItem
  <2>5. ASSUME NEW c \in Context, NEW k \in Nat, IsGrant(c, k)'
        PROVE  /\ phase'[inbox'[c][k].of] = "waiting"
               /\ inbox'[c][k].of \in held'
               /\ home'[inbox'[c][k].of] = c
    <3>0. home' = home /\ phase' = phase /\ held' = held \cup {b}
      BY <1>2
    <3>1. CASE IsGrant(c, k) /\ inbox'[c][k] = inbox[c][k]
      <4>1. /\ phase[inbox[c][k].of] = "waiting"
            /\ inbox[c][k].of \in held
            /\ home[inbox[c][k].of] = c
        BY <3>1 DEF SlotsInv, GrantsInv
      <4> QED
        BY <3>0, <3>1, <4>1
    <3>2. CASE c = home[b] /\ inbox'[c][k] = BlockItem(b)
      BY <1>3, <2>4, <3>0, <3>2
    <3> QED
      BY <2>3, <2>5, <3>1, <3>2
  <2>6. ASSUME NEW c \in Context, NEW j \in Nat, NEW k \in Nat,
               IsGrant(c, j)', IsGrant(c, k)', inbox'[c][j].of = inbox'[c][k].of
        PROVE  j = k
    BY <2>2, <2>3, <2>4, <2>6 DEF SlotsInv, GrantsInv
  <2> QED
    BY <2>5, <2>6 DEF GrantsInv
<1> QED
  BY <1>4, <1>5, <1>6 DEF SlotsInv

\* A block is put into the queue of its own tab, once, and by its own grant.
LEMMA ReceiveSlots ==
  ASSUME TypeOK, SlotsInv, NEW c \in Context, Receive(c)
  PROVE  SlotsInv'
<1> DEFINE item == Head(inbox[c])
<1>1. /\ inbox[c] \in Seq(Message) /\ inbox[c] # <<>>
      /\ item = inbox[c][1] /\ item \in Message /\ IsGrant(c, 1) <=> item.kind = "block"
  BY Positions, HeadOfMessages DEF Receive, IsGrant
<1>2. /\ held' = held /\ slotQueue' = slotQueue /\ home' = home
      /\ inbox' = [inbox EXCEPT ![c] = Tail(@)]
      /\ IF item.kind = "block" THEN Goto(item.of, "queued") ELSE phase' = phase
  BY DEF Receive
<1>3. ASSUME NEW x \in Context, NEW k \in Nat, IsGrant(x, k)'
      PROVE  /\ x = c => IsGrant(c, k + 1) /\ inbox'[c][k] = inbox[c][k + 1]
             /\ x # c => IsGrant(x, k) /\ inbox'[x][k] = inbox[x][k]
  <2>1. CASE x # c
    BY <1>2, <1>3, <2>1 DEF IsGrant, TypeOK
  <2>2. CASE x = c
    <3>1. inbox'[c] = Tail(inbox[c])
      BY <1>2 DEF TypeOK
    <3>2. k \in 1..(Len(inbox[c]) - 1) /\ inbox'[c][k] = inbox[c][k + 1]
      BY <1>1, <1>3, <2>2, <3>1, Positions DEF IsGrant
    <3>3. k + 1 \in DOMAIN inbox[c]
      BY <1>1, <3>2, Positions
    <3> QED
      BY <1>3, <2>2, <3>2, <3>3 DEF IsGrant
  <2> QED
    BY <2>1, <2>2
<1>4. CASE item.kind = "block"
  <2> DEFINE b == item.of
  <2>1. /\ b \in Block /\ phase[b] = "waiting" /\ b \in held /\ home[b] = c
    BY <1>1, <1>4, Messages DEF SlotsInv, GrantsInv
  <2>2. phase' = [phase EXCEPT ![b] = "queued"] /\ phase'[b] = "queued"
    BY <1>2, <1>4, <2>1 DEF Goto, TypeOK
  <2>3. \A x \in Block : x # b => phase'[x] = phase[x]
    BY <2>2 DEF TypeOK
  <2>4. HoldersInv'
    BY <1>2, <2>1, <2>2, <2>3 DEF SlotsInv, HoldersInv, AcceptedPhases, TypeOK
  <2>5. RequestsInv'
    <3>1. \A k \in DOMAIN slotQueue : slotQueue[k] # b /\ slotQueue[k] \in Block
      BY <2>1, LenProperties DEF SlotsInv, RequestsInv, TypeOK
    <3> QED
      BY <1>2, <2>3, <3>1 DEF SlotsInv, RequestsInv
  <2>6. GrantsInv'
    <3>1. ASSUME NEW x \in Context, NEW k \in Nat, IsGrant(x, k)'
          PROVE  /\ phase'[inbox'[x][k].of] = "waiting"
                 /\ inbox'[x][k].of \in held'
                 /\ home'[inbox'[x][k].of] = x
      <4> DEFINE g == inbox'[x][k].of
      <4>1. g \in held /\ phase[g] = "waiting" /\ home[g] = x
        BY <1>3, <3>1 DEF SlotsInv, GrantsInv
      <4>2. g # b
        <5>1. CASE x = c
          <6>1. IsGrant(c, k + 1) /\ IsGrant(c, 1) /\ inbox'[c][k] = inbox[c][k + 1]
            BY <1>1, <1>3, <1>4, <3>1, <5>1
          <6>2. k \in 1..Len(inbox'[c]) /\ k + 1 # 1
            BY <1>1, <1>2, <3>1, <5>1, HeadTailProperties, LenProperties DEF IsGrant, TypeOK
          <6> QED
            BY <1>1, <5>1, <6>1, <6>2 DEF SlotsInv, GrantsInv
        <5>2. CASE x # c
          BY <2>1, <4>1, <5>2
        <5> QED
          BY <5>1, <5>2
      <4>3. phase'[g] = "waiting"
        BY <2>3, <4>1, <4>2 DEF TypeOK
      <4> QED
        BY <1>2, <4>1, <4>3
    <3>2. ASSUME NEW x \in Context, NEW j \in Nat, NEW k \in Nat,
                 IsGrant(x, j)', IsGrant(x, k)', inbox'[x][j].of = inbox'[x][k].of
          PROVE  j = k
      <4>1. CASE x = c
        BY <1>3, <3>2, <4>1 DEF SlotsInv, GrantsInv
      <4>2. CASE x # c
        BY <1>3, <3>2, <4>2 DEF SlotsInv, GrantsInv
      <4> QED
        BY <4>1, <4>2
    <3> QED
      BY <3>1, <3>2 DEF GrantsInv
  <2> QED
    BY <2>4, <2>5, <2>6 DEF SlotsInv
<1>5. CASE item.kind # "block"
  <2>1. phase' = phase
    BY <1>2, <1>5
  <2>2. HoldersInv' /\ RequestsInv'
    BY <1>2, <2>1 DEF SlotsInv, HoldersInv, RequestsInv
  <2>3. GrantsInv'
    <3>1. ASSUME NEW x \in Context, NEW k \in Nat, IsGrant(x, k)'
          PROVE  /\ phase[inbox'[x][k].of] = "waiting"
                 /\ inbox'[x][k].of \in held
                 /\ home[inbox'[x][k].of] = x
      BY <1>3, <3>1 DEF SlotsInv, GrantsInv
    <3>2. ASSUME NEW x \in Context, NEW j \in Nat, NEW k \in Nat,
                 IsGrant(x, j)', IsGrant(x, k)', inbox'[x][j].of = inbox'[x][k].of
          PROVE  j = k
      <4>1. CASE x = c
        BY <1>3, <3>2, <4>1 DEF SlotsInv, GrantsInv
      <4>2. CASE x # c
        BY <1>3, <3>2, <4>2 DEF SlotsInv, GrantsInv
      <4> QED
        BY <4>1, <4>2
    <3> QED
      <4>1. home' = home /\ phase' = phase /\ held' = held
        BY <1>2, <2>1
      <4>2. \A x \in Context, k \in Nat : IsGrant(x, k)' =>
              /\ phase'[inbox'[x][k].of] = "waiting"
              /\ inbox'[x][k].of \in held'
              /\ home'[inbox'[x][k].of] = x
        BY <3>1, <4>1
      <4> QED
        BY <3>2, <4>2 DEF GrantsInv
  <2> QED
    BY <2>2, <2>3 DEF SlotsInv
<1> QED
  BY <1>4, <1>5

\* A slot is given back by a block that has ended.
LEMMA ReleaseSlots ==
  ASSUME TypeOK, SlotsInv, NEW b \in Block, Release(b)
  PROVE  SlotsInv'
<1>1. /\ phase[b] = "ended" /\ phase' = [phase EXCEPT ![b] = "done"]
      /\ held' = held \ {b} /\ slotQueue' = slotQueue /\ inbox' = inbox /\ home' = home
  BY DEF Release, Returned, Goto
<1>2. HoldersInv'
  BY <1>1 DEF SlotsInv, HoldersInv, AcceptedPhases, TypeOK
<1>3. RequestsInv'
  <2>1. \A k \in DOMAIN slotQueue : slotQueue[k] # b /\ slotQueue[k] \in Block
    BY <1>1, LenProperties DEF SlotsInv, RequestsInv, TypeOK
  <2> QED
    BY <1>1, <2>1 DEF SlotsInv, RequestsInv, TypeOK
<1>4. GrantsInv'
  <2>1. \A c \in Context, k \in Nat : IsGrant(c, k) =>
          /\ inbox[c][k].of # b /\ inbox[c][k].of \in held
          /\ phase[inbox[c][k].of] = "waiting"
    BY <1>1 DEF SlotsInv, GrantsInv
  <2>2. \A x \in Block : x # b => phase'[x] = phase[x]
    BY <1>1 DEF TypeOK
  <2>3. \A c \in Context, k \in Nat : IsGrant(c, k)' =>
          IsGrant(c, k) /\ inbox'[c][k] = inbox[c][k]
    BY <1>1 DEF IsGrant
  <2>4. \A c \in Context, k \in Nat : IsGrant(c, k) =>
          phase'[inbox[c][k].of] = "waiting" /\ inbox[c][k].of \in held'
    BY <1>1, <2>1, <2>2 DEF TypeOK
  <2> QED
    BY <1>1, <2>3, <2>4, OldGrants DEF SlotsInv
<1> QED
  BY <1>2, <1>3, <1>4 DEF SlotsInv

\* Every step of a block, of the broker and of close() keeps the slots in order.
LEMMA SlotsStep == TypeOK /\ SlotsInv /\ [Next]_vars => SlotsInv'
<1> SUFFICES ASSUME TypeOK, SlotsInv, [Next]_vars PROVE SlotsInv'
  OBVIOUS
<1>0. inbox' = inbox => \A c \in Context, k \in Nat :
        IsGrant(c, k)' => IsGrant(c, k) /\ inbox'[c][k] = inbox[c][k]
  BY DEF IsGrant
<1>1. ASSUME NEW b \in Block, Read(b) PROVE SlotsInv'
  <2>1. /\ phase[b] = "queued" /\ Goto(b, "read") /\ home' = home
        /\ held' = held /\ slotQueue' = slotQueue /\ inbox' = inbox
    BY <1>1 DEF Read, brokerVars
  <2> QED
    BY <1>0, <2>1, WorkGoesOn DEF AcceptedPhases
<1>2. ASSUME NEW b \in Block, Commit(b) PROVE SlotsInv'
  <2>1. /\ phase[b] = "read" /\ Goto(b, "stored") /\ home' = home
        /\ held' = held /\ slotQueue' = slotQueue /\ inbox' = inbox
    BY <1>2 DEF Commit, brokerVars
  <2> QED
    BY <1>0, <2>1, WorkGoesOn DEF AcceptedPhases
<1>3. ASSUME NEW b \in Block, Publish(b) PROVE SlotsInv'
  <2>1. /\ phase[b] = "stored" /\ Goto(b, "published") /\ home' = home
        /\ held' = held /\ slotQueue' = slotQueue
        /\ inbox' = Broadcast(home[b], base[b] + 1)
    BY <1>3 DEF Publish
  <2>2. home[b] \in Context /\ base[b] + 1 \in Nat
    BY <2>1 DEF TypeOK, Inside, None
  <2>3. \A c \in Context, k \in Nat :
          IsGrant(c, k)' => IsGrant(c, k) /\ inbox'[c][k] = inbox[c][k]
    BY <2>1, <2>2, BroadcastGrantsNothing
  <2> QED
    BY <2>1, <2>3, WorkGoesOn DEF AcceptedPhases
<1>4. ASSUME NEW b \in Block, Finish(b) PROVE SlotsInv'
  <2>1. /\ phase[b] \in {"read", "published"} /\ Goto(b, "ended") /\ home' = home
        /\ held' = held /\ slotQueue' = slotQueue /\ inbox' = inbox
    BY <1>4 DEF Finish, brokerVars
  <2> QED
    BY <1>0, <2>1, WorkGoesOn DEF AcceptedPhases
<1>5. ASSUME NEW c \in Context, CloseDriver(c) PROVE SlotsInv'
  <2>1. /\ phase' = phase /\ home' = home /\ held' = held /\ slotQueue' = slotQueue
        /\ inbox' = [inbox EXCEPT ![c] = <<>>]
    BY <1>5 DEF CloseDriver, CloseStage, blockVars
  <2>2. \A x \in Context, k \in Nat : IsGrant(x, k)' =>
          IsGrant(x, k) /\ inbox'[x][k] = inbox[x][k]
    BY <2>1 DEF IsGrant, TypeOK
  <2>3. \A x \in Context, k \in Nat : IsGrant(x, k) =>
          phase[inbox[x][k].of] = "waiting" /\ inbox[x][k].of \in held
    BY DEF SlotsInv, GrantsInv
  <2>4. GrantsInv'
    BY <2>1, <2>2, <2>3, OldGrants DEF SlotsInv
  <2> QED
    BY <2>1, <2>4 DEF SlotsInv, HoldersInv, RequestsInv
<1>6. ASSUME \/ \E c \in Context : \/ ApplyExternalChanges(c)
                                   \/ StartFetch(c) \/ FinishFetch(c)
                                   \/ RequestClose(c) \/ EnterBarrier(c)
                                   \/ StartTeardown(c)
             \/ UNCHANGED vars
      PROVE SlotsInv'
  <2>1. /\ phase' = phase /\ home' = home /\ held' = held
        /\ slotQueue' = slotQueue /\ inbox' = inbox
    BY <1>6
       DEF ApplyExternalChanges, StartFetch, FinishFetch, RequestClose, EnterBarrier,
           StartTeardown, CloseStage, vars, dataVars, blockVars, brokerVars
  <2> QED
    BY <2>1 DEF SlotsInv, HoldersInv, RequestsInv, GrantsInv, IsGrant
<1> QED
  BY <1>1, <1>2, <1>3, <1>4, <1>5, <1>6, RequestSlots, GrantSlots, ReceiveSlots,
     ReleaseSlots DEF Next, BlockStep, CloseStep

\* A write block is alone at work in every tab, and nobody is at work without
\* a slot, whatever the tabs and the calls.
THEOREM WindowsAlwaysHold == Spec => []WindowsHold
<1>1. Init => SlotsInv
  BY DEF Init, SlotsInv, HoldersInv, RequestsInv, GrantsInv, IsGrant, AcceptedPhases
<1>2. SlotsInv => WindowsHold
  BY HoldersHaveWindows DEF SlotsInv
<1> QED
  BY <1>1, <1>2, SharedTypeCorrect, SlotsStep, PTL DEF Spec

-----------------------------------------------------------------------------
(***************************************************************************)
(* close().                                                                *)
(***************************************************************************)

\* A context past its barrier gets no new block, and a context past its drain
\* no new direct fetch.
LEMMA ClosingStep == TypeOK /\ SlotsInv /\ ClosingInv /\ [Next]_vars => ClosingInv'
<1> SUFFICES ASSUME TypeOK, SlotsInv, ClosingInv, [Next]_vars PROVE ClosingInv'
  OBVIOUS
<1> DEFINE Past(c) == closing[c] \in {"barrier", "teardown", "closed"}
           Over(b) == phase[b] \in {"new", "refused", "done"}
<1>1. ASSUME NEW b \in Block, CallBlock(b) PROVE ClosingInv'
  <2>1. /\ closing' = closing /\ home' = home /\ fetched' = fetched
        /\ phase' = [phase EXCEPT ![b] = "refused"]
           \/ (closing[home[b]] = "open" /\ phase' = [phase EXCEPT ![b] = "waiting"])
    BY <1>1 DEF CallBlock, Goto, dataVars
  <2> QED
    BY <2>1 DEF ClosingInv, TypeOK
<1>2. ASSUME NEW b \in Block, BlockStep(b) PROVE ClosingInv'
  <2>1. /\ closing' = closing /\ home' = home /\ fetched' = fetched
        /\ \E label \in AcceptedPhases \cup {"done"} : phase' = [phase EXCEPT ![b] = label]
        /\ phase[b] \in AcceptedPhases
    BY <1>2 DEF BlockStep, Read, Commit, Publish, Finish, Release, Goto, dataVars,
                AcceptedPhases
  <2>2. ~Past(home[b])
    BY <2>1 DEF ClosingInv, AcceptedPhases, TypeOK
  <2> QED
    BY <2>1, <2>2 DEF ClosingInv, TypeOK
<1>3. ASSUME NEW c \in Context, Receive(c) PROVE ClosingInv'
  <2> DEFINE item == Head(inbox[c])
  <2>1. closing' = closing /\ home' = home /\ fetched' = fetched
    BY <1>3 DEF Receive, dataVars
  <2>2. CASE item.kind = "block"
    <3>1. IsGrant(c, 1) /\ item = inbox[c][1] /\ item.of \in Block
      BY <1>3, <2>2, Positions, HeadOfMessages, Messages DEF Receive, IsGrant, TypeOK
    <3>2. home[item.of] = c /\ phase[item.of] = "waiting"
      BY <3>1 DEF SlotsInv, GrantsInv
    <3>3. ~Past(c)
      BY <3>1, <3>2 DEF ClosingInv
    <3>4. phase' = [phase EXCEPT ![item.of] = "queued"]
      BY <1>3, <2>2 DEF Receive, Goto
    <3> QED
      BY <2>1, <3>1, <3>2, <3>3, <3>4 DEF ClosingInv, TypeOK
  <2>3. CASE item.kind # "block"
    BY <1>3, <2>1, <2>3 DEF Receive, ClosingInv
  <2> QED
    BY <2>2, <2>3
<1>4. ASSUME NEW c \in Context, StartFetch(c) PROVE ClosingInv'
  <2>1. /\ phase' = phase /\ home' = home /\ closing' = closing
        /\ closing[c] # "closed" /\ fetched' = [fetched EXCEPT ![c] = stored]
    BY <1>4 DEF StartFetch, DirectAdmitted, blockVars
  <2> QED
    BY <2>1 DEF ClosingInv, TypeOK
<1>5. ASSUME NEW c \in Context, FinishFetch(c) PROVE ClosingInv'
  <2>1. /\ phase' = phase /\ home' = home /\ closing' = closing
        /\ fetched' = [fetched EXCEPT ![c] = None]
    BY <1>5 DEF FinishFetch, blockVars
  <2> QED
    BY <2>1 DEF ClosingInv, TypeOK
<1>6. ASSUME NEW c \in Context, RequestClose(c) \/ StartTeardown(c)
      PROVE ClosingInv'
  <2>1. /\ phase' = phase /\ home' = home /\ fetched' = fetched
        /\ \/ closing' = [closing EXCEPT ![c] = "requested"]
           \/ Past(c) /\ closing' = [closing EXCEPT ![c] = "teardown"]
    BY <1>6 DEF RequestClose, StartTeardown, CloseStage, dataVars, blockVars
  <2> QED
    BY <2>1 DEF ClosingInv, TypeOK
<1>7. ASSUME NEW c \in Context, EnterBarrier(c) PROVE ClosingInv'
  <2>1. /\ phase' = phase /\ home' = home /\ fetched' = fetched
        /\ closing' = [closing EXCEPT ![c] = "barrier"] /\ AcceptedWork(c) = {}
    BY <1>7 DEF EnterBarrier, CloseStage, dataVars, blockVars
  <2>2. \A b \in Block : home[b] = c => Over(b)
    BY <2>1 DEF AcceptedWork, TypeOK, Phases
  <2> QED
    BY <2>1, <2>2 DEF ClosingInv, TypeOK
<1>8. ASSUME NEW c \in Context, CloseDriver(c) PROVE ClosingInv'
  <2>1. /\ phase' = phase /\ home' = home /\ fetched' = fetched
        /\ closing' = [closing EXCEPT ![c] = "closed"] /\ Past(c) /\ fetched[c] = None
    BY <1>8 DEF CloseDriver, CloseStage, dataVars, blockVars
  <2> QED
    BY <2>1 DEF ClosingInv, TypeOK
<1>9. ASSUME \/ GrantSlot \/ \E c \in Context : ApplyExternalChanges(c)
             \/ UNCHANGED vars
      PROVE ClosingInv'
  <2>1. phase' = phase /\ home' = home /\ fetched' = fetched /\ closing' = closing
    BY <1>9 DEF GrantSlot, ApplyExternalChanges, vars, dataVars, blockVars
  <2> QED
    BY <2>1 DEF ClosingInv
<1> QED
  BY <1>1, <1>2, <1>3, <1>4, <1>5, <1>6, <1>7, <1>8, <1>9 DEF Next, CloseStep

\* A closed driver leaves no accepted block, no slot and no fetch behind.
THEOREM ClosesQuietly == Spec => []ClosedQuietly
<1>1. Init => SlotsInv /\ ClosingInv
  BY DEF Init, SlotsInv, HoldersInv, RequestsInv, GrantsInv, IsGrant, AcceptedPhases,
         ClosingInv
<1>2. SlotsInv /\ ClosingInv => ClosedQuietly
  BY DEF SlotsInv, HoldersInv, ClosingInv, ClosedQuietly, AcceptedPhases
<1> QED
  BY <1>1, <1>2, SharedTypeCorrect, SlotsStep, ClosingStep, PTL DEF Spec

-----------------------------------------------------------------------------
(***************************************************************************)
(* Fresh reads.  What a context has still to do is one stream, its queue   *)
(* and then its inbox: a delivery moves nothing in it, work leaves at the  *)
(* front and the broker posts at the end.                                  *)
(***************************************************************************)

\* What a work queue holds.
WorkItem == Message \cup {CloseItem}

\* Two sequences one behind the other, when the first loses its head, the second
\* grows, or the second's head moves to the end of the first.
LEMMA Joined ==
  ASSUME NEW S, NEW s \in Seq(S), NEW t \in Seq(S)
  PROVE  /\ s # <<>> => /\ s \o t # <<>> /\ Head(s \o t) = Head(s)
                        /\ Tail(s) \o t = Tail(s \o t)
         /\ \A e \in S : s \o Append(t, e) = Append(s \o t, e)
         /\ t # <<>> => Append(s, Head(t)) \o Tail(t) = s \o t
<1>1. /\ s \o t \in Seq(S) /\ Len(s \o t) = Len(s) + Len(t)
      /\ \A i \in 1..(Len(s) + Len(t)) :
           (s \o t)[i] = IF i <= Len(s) THEN s[i] ELSE t[i - Len(s)]
      /\ Len(s) \in Nat /\ Len(t) \in Nat
  BY ConcatProperties, LenProperties
<1>2. ASSUME s # <<>>
      PROVE  s \o t # <<>> /\ Head(s \o t) = Head(s) /\ Tail(s) \o t = Tail(s \o t)
  <2>1. /\ Len(s) \in Nat \ {0} /\ Tail(s) \in Seq(S) /\ Len(Tail(s)) = Len(s) - 1
        /\ \A i \in 1..(Len(s) - 1) : Tail(s)[i] = s[i + 1]
    BY <1>2, EmptySeq, HeadTailProperties
  <2>2. s \o t # <<>>
    BY <1>1, <2>1, EmptySeq
  <2>3. /\ Tail(s \o t) \in Seq(S) /\ Len(Tail(s \o t)) = Len(s) + Len(t) - 1
        /\ \A i \in 1..(Len(s) + Len(t) - 1) : Tail(s \o t)[i] = (s \o t)[i + 1]
    BY <1>1, <2>2, HeadTailProperties
  <2>4. /\ Tail(s) \o t \in Seq(S) /\ Len(Tail(s) \o t) = Len(s) - 1 + Len(t)
        /\ \A i \in 1..(Len(s) - 1 + Len(t)) :
             (Tail(s) \o t)[i] = IF i <= Len(s) - 1 THEN Tail(s)[i] ELSE t[i - (Len(s) - 1)]
    BY <2>1, ConcatProperties
  <2>5. \A i \in 1..(Len(s) - 1 + Len(t)) : (Tail(s) \o t)[i] = Tail(s \o t)[i]
    <3>1. TAKE i \in 1..(Len(s) - 1 + Len(t))
    <3>2. Tail(s \o t)[i] = IF i + 1 <= Len(s) THEN s[i + 1] ELSE t[i + 1 - Len(s)]
      BY <1>1, <2>3
    <3>3. (Tail(s) \o t)[i] = IF i <= Len(s) - 1 THEN Tail(s)[i] ELSE t[i - (Len(s) - 1)]
      BY <2>4
    <3>4. CASE i <= Len(s) - 1
      BY <1>1, <2>1, <3>2, <3>3, <3>4
    <3>5. CASE ~(i <= Len(s) - 1)
      <4>1. i + 1 - Len(s) = i - (Len(s) - 1)
        BY <1>1
      <4> QED
        BY <1>1, <3>2, <3>3, <3>5, <4>1
    <3> QED
      BY <3>4, <3>5
  <2>6. Len(Tail(s) \o t) = Len(Tail(s \o t))
    BY <1>1, <2>3, <2>4
  <2>7. Head(s \o t) = Head(s)
    <3>1. Head(s \o t) = (s \o t)[1] /\ Head(s) = s[1]
      BY <1>1, <1>2, <2>2, Positions
    <3> QED
      BY <1>1, <2>1, <3>1
  <2>8. Tail(s) \o t = Tail(s \o t)
    BY <2>3, <2>4, <2>5, <2>6, SeqEqual
  <2> QED
    BY <2>2, <2>7, <2>8
<1>3. ASSUME NEW e \in S PROVE s \o Append(t, e) = Append(s \o t, e)
  <2>1. <<e>> \in Seq(S) /\ Append(t, e) = t \o <<e>> /\ Append(s \o t, e) = (s \o t) \o <<e>>
    BY <1>1, AppendIsConcat
  <2> QED
    BY <2>1, ConcatAssociative
<1>4. ASSUME t # <<>> PROVE Append(s, Head(t)) \o Tail(t) = s \o t
  <2>1. Head(t) \in S /\ Tail(t) \in Seq(S)
    BY <1>4, HeadTailProperties
  <2>2. <<Head(t)>> \in Seq(S) /\ Append(s, Head(t)) = s \o <<Head(t)>>
    BY <2>1, AppendIsConcat
  <2>3. <<Head(t)>> \o Tail(t) = t
    <3>1. /\ <<Head(t)>> \o Tail(t) \in Seq(S)
          /\ Len(<<Head(t)>> \o Tail(t)) = 1 + Len(Tail(t))
          /\ \A i \in 1..(1 + Len(Tail(t))) : (<<Head(t)>> \o Tail(t))[i] =
               IF i <= 1 THEN <<Head(t)>>[i] ELSE Tail(t)[i - 1]
      BY <2>1, <2>2, ConcatProperties, Len(<<Head(t)>>) = 1
    <3>2. /\ Len(Tail(t)) = Len(t) - 1 /\ Head(t) = t[1]
          /\ \A i \in 1..(Len(t) - 1) : Tail(t)[i] = t[i + 1]
      BY <1>4, HeadTailProperties
    <3>3. \A i \in 1..Len(t) : (<<Head(t)>> \o Tail(t))[i] = t[i]
      BY <1>1, <3>1, <3>2
    <3>4. Len(<<Head(t)>> \o Tail(t)) = Len(t)
      BY <1>1, <3>1, <3>2
    <3> QED
      BY <3>1, <3>3, <3>4, SeqEqual
  <2> QED
    BY <2>1, <2>2, <2>3, ConcatAssociative
<1> QED
  BY <1>2, <1>3, <1>4

\* What is where in a sequence that lost its head.
LEMMA TailPlaces ==
  ASSUME NEW S, NEW s \in Seq(S), s # <<>>, NEW k \in Nat, NEW kind
  PROVE  /\ IsItem(Tail(s), k, kind) => IsItem(s, k + 1, kind) /\ Tail(s)[k] = s[k + 1]
         /\ IsItem(s, k + 1, kind) /\ k # 0 =>
              IsItem(Tail(s), k, kind) /\ Tail(s)[k] = s[k + 1]
         /\ Head(s) = s[1] /\ 1 \in DOMAIN s
<1>1. /\ DOMAIN s = 1..Len(s) /\ Len(s) \in Nat
      /\ Tail(s) \in Seq(S) /\ Len(Tail(s)) = Len(s) - 1
      /\ \A i \in 1..Len(Tail(s)) : Tail(s)[i] = s[i + 1]
      /\ Len(s) # 0
  BY HeadTailProperties, LenProperties, EmptySeq
<1>2. DOMAIN Tail(s) = 1..Len(Tail(s))
  BY <1>1, LenProperties
<1>3. Head(s) = s[1]
  BY HeadTailProperties
<1> QED
  BY <1>1, <1>2, <1>3 DEF IsItem

\* What is where in a sequence that grew.
LEMMA AppendPlaces ==
  ASSUME NEW S, NEW s \in Seq(S), NEW e \in S, NEW k \in Nat, NEW kind
  PROVE  /\ IsItem(s, k, kind) =>
              IsItem(Append(s, e), k, kind) /\ Append(s, e)[k] = s[k] /\ k <= Len(s)
         /\ IsItem(Append(s, e), k, kind) =>
              \/ IsItem(s, k, kind) /\ Append(s, e)[k] = s[k]
              \/ k = Len(s) + 1 /\ Append(s, e)[k] = e /\ e.kind = kind
<1>1. /\ DOMAIN s = 1..Len(s) /\ Len(s) \in Nat
      /\ DOMAIN Append(s, e) = 1..(Len(s) + 1)
      /\ \A i \in 1..Len(s) : Append(s, e)[i] = s[i]
      /\ Append(s, e)[Len(s) + 1] = e
  BY Positions
<1> QED
  BY <1>1 DEF IsItem

\* The stream of a context is a sequence of items.
LEMMA Streams ==
  ASSUME TypeOK, NEW c \in Context
  PROVE  /\ Stream(c) \in Seq(WorkItem)
         /\ queue[c] \in Seq(WorkItem) /\ inbox[c] \in Seq(WorkItem)
         /\ queue[c] # <<>> => Stream(c) # <<>> /\ Head(Stream(c)) = Head(queue[c])
<1>1. queue[c] \in Seq(WorkItem) /\ inbox[c] \in Seq(WorkItem)
  BY SeqMonotonic DEF TypeOK, WorkItem
<1>2. Stream(c) \in Seq(WorkItem)
  BY <1>1, ConcatProperties DEF Stream
<1>3. queue[c] # <<>> => Stream(c) # <<>> /\ Head(Stream(c)) = Head(queue[c])
  <2>1. queue[c] # <<>> => /\ queue[c] \o inbox[c] # <<>>
                          /\ Head(queue[c] \o inbox[c]) = Head(queue[c])
    BY <1>1, Joined
  <2> QED
    BY <2>1 DEF Stream
<1> QED
  BY <1>1, <1>2, <1>3

\* Delivering a message of an open context moves nothing in its stream.
LEMMA ReceiveStreams ==
  ASSUME TypeOK, NEW c \in Context, Receive(c), NEW x \in Context, closing[x] = "open"
  PROVE  Stream(x)' = Stream(x)
<1>1. CASE x # c
  BY <1>1 DEF Receive, Enqueue, TypeOK, Stream
<1>2. CASE x = c
  <2>1. /\ inbox'[c] = Tail(inbox[c]) /\ inbox[c] # <<>>
        /\ queue'[c] = Append(queue[c], Head(inbox[c]))
    BY <1>2 DEF Receive, Enqueue, TypeOK
  <2>2. Append(queue[c], Head(inbox[c])) \o Tail(inbox[c]) = queue[c] \o inbox[c]
    BY <2>1, Streams, Joined
  <2> QED
    BY <1>2, <2>1, <2>2 DEF Stream
<1> QED
  BY <1>1, <1>2

\* What runs to its end leaves the front of its own stream.
LEMMA DequeueStreams ==
  ASSUME TypeOK, NEW c \in Context, queue[c] # <<>>, Dequeue(c), inbox' = inbox,
         NEW x \in Context
  PROVE  Stream(x)' = IF x = c THEN Tail(Stream(x)) ELSE Stream(x)
<1>1. queue'[x] = IF x = c THEN Tail(queue[x]) ELSE queue[x]
  BY DEF Dequeue, TypeOK
<1>2. x = c => Tail(queue[x]) \o inbox[x] = Tail(queue[x] \o inbox[x])
  BY Streams, Joined
<1> QED
  BY <1>1, <1>2 DEF Stream

\* What the broker posts comes last in a stream.
LEMMA PostedStreams ==
  ASSUME TypeOK, NEW x \in Context, NEW item \in WorkItem, queue' = queue,
         inbox'[x] = Append(inbox[x], item)
  PROVE  Stream(x)' = Append(Stream(x), item)
<1>1. queue[x] \o Append(inbox[x], item) = Append(queue[x] \o inbox[x], item)
  BY Streams, Joined
<1> QED
  BY <1>1 DEF Stream

\* What an item of a stream is about.
LEMMA Items ==
  ASSUME NEW item \in WorkItem
  PROVE  /\ item.kind = "block" => item.of \in Block /\ item = BlockItem(item.of)
         /\ item.kind = "apply" => item.of \in Nat
BY Messages DEF WorkItem, CloseItem

\* A closed context is not opened again.
LEMMA StaysOpen ==
  ASSUME TypeOK, [Next]_vars, NEW c \in Context, closing'[c] = "open"
  PROVE  closing[c] = "open"
BY DEF Next, BlockStep, CloseStep, CallBlock, Read, Commit, Publish, Finish, Release,
       GrantSlot, Receive, ApplyExternalChanges, StartFetch, FinishFetch, RequestClose,
       EnterBarrier, StartTeardown, CloseDriver, CloseStage, vars, TypeOK

\* An open context's stream stays as it is, or loses its head.
Shrunk(c) ==
  Stream(c)' = Stream(c) \/ (Stream(c) # <<>> /\ Stream(c)' = Tail(Stream(c)))

\* Every item of a stream that shrank was there, at most one place further on.
LEMMA ShrunkPlaces ==
  ASSUME TypeOK, NEW c \in Context, Shrunk(c)
  PROVE  \E d \in {0, 1} : \A k \in Nat, kind \in {"block", "apply"} :
           /\ IsItem(Stream(c)', k, kind) =>
                IsItem(Stream(c), k + d, kind) /\ Stream(c)'[k] = Stream(c)[k + d]
           /\ IsItem(Stream(c), k + d, kind) /\ k # 0 =>
                IsItem(Stream(c)', k, kind) /\ Stream(c)'[k] = Stream(c)[k + d]
<1>1. CASE Stream(c)' = Stream(c)
  BY <1>1
<1>2. CASE Stream(c) # <<>> /\ Stream(c)' = Tail(Stream(c))
  <2>1. Stream(c) \in Seq(WorkItem)
    BY Streams
  <2>2. \A k \in Nat, kind \in {"block", "apply"} :
          /\ IsItem(Tail(Stream(c)), k, kind) =>
               IsItem(Stream(c), k + 1, kind) /\ Tail(Stream(c))[k] = Stream(c)[k + 1]
          /\ IsItem(Stream(c), k + 1, kind) /\ k # 0 =>
               IsItem(Tail(Stream(c)), k, kind) /\ Tail(Stream(c))[k] = Stream(c)[k + 1]
    BY <1>2, <2>1, TailPlaces
  <2> QED
    BY <1>2, <2>2
<1> QED
  BY <1>1, <1>2 DEF Shrunk

\* While streams only shrink and blocks keep their turns, what is to come is
\* still right.
LEMMA UpcomingKept ==
  ASSUME TypeOK, UpcomingInv, [Next]_vars,
         \A c \in Context : closing'[c] = "open" => Turns(c) \subseteq Turns(c)' /\ Shrunk(c)
  PROVE  UpcomingInv'
<1> SUFFICES ASSUME NEW c \in Context, closing'[c] = "open"
             PROVE  /\ \A k \in Nat : IsItem(Stream(c)', k, "block") =>
                         Stream(c)'[k].of \in Turns(c)'
                    /\ \A j, k \in Nat :
                         /\ IsItem(Stream(c)', j, "block") /\ IsItem(Stream(c)', k, "block")
                         /\ Stream(c)'[j].of = Stream(c)'[k].of
                         => j = k
  BY DEF UpcomingInv, IsItem
<1>1. closing[c] = "open" /\ Shrunk(c) /\ Turns(c) \subseteq Turns(c)'
  BY StaysOpen
<1>2. PICK d \in {0, 1} : \A k \in Nat : IsItem(Stream(c)', k, "block") =>
        IsItem(Stream(c), k + d, "block") /\ Stream(c)'[k] = Stream(c)[k + d]
  BY <1>1, ShrunkPlaces
<1>4. \A k \in Nat : k + d \in Nat
  OBVIOUS
<1>5. ASSUME NEW k \in Nat, IsItem(Stream(c)', k, "block")
      PROVE  Stream(c)'[k].of \in Turns(c)'
  BY <1>1, <1>2, <1>4, <1>5 DEF UpcomingInv
<1>6. ASSUME NEW j \in Nat, NEW k \in Nat, IsItem(Stream(c)', j, "block"),
             IsItem(Stream(c)', k, "block"), Stream(c)'[j].of = Stream(c)'[k].of
      PROVE  j = k
  <2>1. j + d = k + d
    BY <1>1, <1>2, <1>4, <1>6 DEF UpcomingInv
  <2> QED
    BY <2>1
<1> QED
  BY <1>5, <1>6

\* The places of a stream hold items and begin with the first.
LEMMA StreamItems ==
  ASSUME TypeOK, NEW c \in Context, NEW k \in Nat, NEW kind, IsItem(Stream(c), k, kind)
  PROVE  Stream(c)[k] \in WorkItem /\ Stream(c)[k].kind = kind /\ k >= 1
<1>1. Stream(c) \in Seq(WorkItem)
  BY Streams
<1>2. k \in 1..Len(Stream(c))
  BY <1>1, LenProperties DEF IsItem
<1> QED
  BY <1>1, <1>2, ElementOfSeq, LenProperties DEF IsItem

\* A running block is first in its context's stream.
LEMMA RunningIsFirst ==
  ASSUME TypeOK, NEW c \in Context, NEW b \in Block, Running(c, BlockItem(b))
  PROVE  /\ IsItem(Stream(c), 1, "block") /\ Stream(c)[1] = BlockItem(b)
         /\ Stream(c) # <<>> /\ Stream(c) \in Seq(WorkItem)
<1>1. /\ Stream(c) \in Seq(WorkItem) /\ Stream(c) # <<>>
      /\ Head(Stream(c)) = BlockItem(b)
  BY Streams DEF Running
<1>2. Head(Stream(c)) = Stream(c)[1] /\ 1 \in DOMAIN Stream(c)
  BY <1>1, TailPlaces
<1> QED
  BY <1>1, <1>2 DEF IsItem, BlockItem

\* A writer that has a turn keeps every other block from having one.
LEMMA TurnsExclude ==
  ASSUME HoldersInv, NEW c \in Context, NEW d \in Context, NEW w \in Turns(c),
         w \in Writer, NEW b \in Turns(d)
  PROVE  b = w
BY DEF HoldersInv, Turns

\* A block at work has a turn.
LEMMA WorkHasATurn ==
  ASSUME TypeOK, HoldersInv, NEW b \in Block,
         phase[b] \in {"queued", "read", "stored", "published"}
  PROVE  b \in Turns(home[b]) /\ home[b] \in Context
BY DEF HoldersInv, Turns, TypeOK, AcceptedPhases

\* A block that is granted a slot comes last in its context, and only there.
LEMMA GrantUpcoming ==
  ASSUME TypeOK, SlotsInv, UpcomingInv, [Next]_vars, GrantSlot
  PROVE  UpcomingInv'
<1> DEFINE b == Head(slotQueue)
<1>1. /\ b \in Block /\ home[b] \in Context /\ b \notin held /\ phase[b] = "waiting"
  <2>1. slotQueue \in Seq(Block) /\ slotQueue # <<>>
    BY DEF GrantSlot, Grantable, TypeOK
  <2>2. b = slotQueue[1] /\ 1 \in DOMAIN slotQueue /\ b \in Block
    BY <2>1, TailPlaces, HeadTailProperties
  <2> QED
    BY <2>2 DEF SlotsInv, RequestsInv, TypeOK
<1>2. /\ held' = held \cup {b} /\ phase' = phase /\ home' = home /\ queue' = queue
      /\ \A x \in Context : inbox'[x] =
           IF x = home[b] THEN Append(inbox[x], BlockItem(b)) ELSE inbox[x]
  BY DEF GrantSlot, blockVars, TypeOK
<1>3. BlockItem(b) \in WorkItem /\ BlockItem(b).kind = "block" /\ BlockItem(b).of = b
  BY <1>1, MadeMessages DEF WorkItem, BlockItem
<1> SUFFICES ASSUME NEW c \in Context, closing'[c] = "open"
             PROVE  /\ \A k \in Nat : IsItem(Stream(c)', k, "block") =>
                         Stream(c)'[k].of \in Turns(c)'
                    /\ \A j, k \in Nat :
                         /\ IsItem(Stream(c)', j, "block") /\ IsItem(Stream(c)', k, "block")
                         /\ Stream(c)'[j].of = Stream(c)'[k].of
                         => j = k
  BY DEF UpcomingInv, IsItem
<1>4. closing[c] = "open"
  BY StaysOpen
<1>5. Turns(c) \subseteq Turns(c)' /\ b \notin Turns(c)
  BY <1>1, <1>2 DEF Turns
<1>6. CASE c # home[b]
  <2>1. Stream(c)' = Stream(c)
    BY <1>2, <1>6 DEF Stream
  <2> QED
    BY <1>4, <1>5, <2>1 DEF UpcomingInv
<1>7. CASE c = home[b]
  <2>1. Stream(c)' = Append(Stream(c), BlockItem(b)) /\ Stream(c) \in Seq(WorkItem)
    BY <1>2, <1>3, <1>7, PostedStreams, Streams
  <2>2. b \in Turns(c)'
    BY <1>1, <1>2, <1>7 DEF Turns, AcceptedPhases
  <2>3. ASSUME NEW k \in Nat, IsItem(Stream(c)', k, "block")
        PROVE  \/ IsItem(Stream(c), k, "block") /\ Stream(c)'[k] = Stream(c)[k]
               \/ k = Len(Stream(c)) + 1 /\ Stream(c)'[k].of = b
    <3>1. \/ IsItem(Stream(c), k, "block")
             /\ Append(Stream(c), BlockItem(b))[k] = Stream(c)[k]
          \/ k = Len(Stream(c)) + 1 /\ Append(Stream(c), BlockItem(b))[k] = BlockItem(b)
      <4>1. IsItem(Append(Stream(c), BlockItem(b)), k, "block")
        BY <2>1, <2>3
      <4> QED
        BY <1>3, <2>1, <4>1, AppendPlaces DEF IsItem
    <3> QED
      BY <1>3, <2>1, <3>1
  <2>4. \A k \in Nat : IsItem(Stream(c), k, "block") => Stream(c)[k].of \in Turns(c)
    BY <1>4 DEF UpcomingInv
  <2>5. ASSUME NEW j \in Nat, NEW k \in Nat, IsItem(Stream(c)', j, "block"),
               IsItem(Stream(c)', k, "block"), Stream(c)'[j].of = Stream(c)'[k].of
        PROVE  j = k
    BY <1>4, <1>5, <2>3, <2>4, <2>5 DEF UpcomingInv
  <2> QED
    BY <1>5, <2>2, <2>3, <2>4, <2>5
<1> QED
  BY <1>6, <1>7

\* A change set is no block, so what is to come of blocks stays.
LEMMA PublishUpcoming ==
  ASSUME TypeOK, UpcomingInv, [Next]_vars, NEW b \in Block, Publish(b)
  PROVE  UpcomingInv'
<1> DEFINE item == ApplyItem(base[b] + 1)
<1>1. /\ phase[b] = "stored" /\ phase' = [phase EXCEPT ![b] = "published"]
      /\ held' = held /\ home' = home /\ queue' = queue /\ closing' = closing
      /\ inbox' = Broadcast(home[b], base[b] + 1)
  BY DEF Publish, Goto
<1>2. item \in WorkItem /\ item.kind = "apply"
  <2>1. base[b] + 1 \in Nat
    BY <1>1 DEF TypeOK, Inside, None
  <2> QED
    BY <2>1, MadeMessages DEF WorkItem, ApplyItem
<1> SUFFICES ASSUME NEW c \in Context, closing'[c] = "open"
             PROVE  /\ \A k \in Nat : IsItem(Stream(c)', k, "block") =>
                         Stream(c)'[k].of \in Turns(c)'
                    /\ \A j, k \in Nat :
                         /\ IsItem(Stream(c)', j, "block") /\ IsItem(Stream(c)', k, "block")
                         /\ Stream(c)'[j].of = Stream(c)'[k].of
                         => j = k
  BY DEF UpcomingInv, IsItem
<1>3. closing[c] = "open" /\ Turns(c) \subseteq Turns(c)'
  BY <1>1 DEF Turns, AcceptedPhases, TypeOK
<1>4. \A k \in Nat : IsItem(Stream(c)', k, "block") =>
        IsItem(Stream(c), k, "block") /\ Stream(c)'[k] = Stream(c)[k]
  <2>1. CASE inbox'[c] = inbox[c]
    BY <1>1, <2>1 DEF Stream
  <2>2. CASE inbox'[c] = Append(inbox[c], item)
    <3>1. Stream(c)' = Append(Stream(c), item) /\ Stream(c) \in Seq(WorkItem)
      BY <1>1, <1>2, <2>2, PostedStreams, Streams
    <3>2. ASSUME NEW k \in Nat, IsItem(Append(Stream(c), item), k, "block")
          PROVE  IsItem(Stream(c), k, "block") /\ Append(Stream(c), item)[k] = Stream(c)[k]
      <4>1. item.kind # "block"
        BY <1>2
      <4> HIDE DEF item
      <4> QED
        BY <1>2, <3>1, <3>2, <4>1, AppendPlaces DEF IsItem
    <3> QED
      BY <3>1, <3>2
  <2> QED
    BY <1>1, <2>1, <2>2 DEF Broadcast
<1> QED
  BY <1>3, <1>4 DEF UpcomingInv

\* A block that ends leaves its stream, where it came only once.
LEMMA FinishUpcoming ==
  ASSUME TypeOK, FrontInv, UpcomingInv, [Next]_vars, NEW b \in Block, Finish(b)
  PROVE  UpcomingInv'
<1>1. /\ Running(home[b], BlockItem(b)) /\ Dequeue(home[b]) /\ home[b] \in Context
      /\ phase' = [phase EXCEPT ![b] = "ended"] /\ inbox' = inbox
      /\ held' = held /\ home' = home /\ closing' = closing
  BY DEF Finish, Goto, FrontInv, Inside, brokerVars, TypeOK
<1> SUFFICES ASSUME NEW c \in Context, closing'[c] = "open"
             PROVE  /\ \A k \in Nat : IsItem(Stream(c)', k, "block") =>
                         Stream(c)'[k].of \in Turns(c)'
                    /\ \A j, k \in Nat :
                         /\ IsItem(Stream(c)', j, "block") /\ IsItem(Stream(c)', k, "block")
                         /\ Stream(c)'[j].of = Stream(c)'[k].of
                         => j = k
  BY DEF UpcomingInv, IsItem
<1>2. /\ closing[c] = "open" /\ Turns(c) \ {b} \subseteq Turns(c)'
      /\ Stream(c)' = IF c = home[b] THEN Tail(Stream(c)) ELSE Stream(c)
  BY <1>1, DequeueStreams DEF Turns, TypeOK, Running
<1>3. CASE c # home[b]
  <2>1. b \notin Turns(c)
    BY <1>3 DEF Turns
  <2> QED
    BY <1>2, <1>3, <2>1 DEF UpcomingInv
<1>4. CASE c = home[b]
  <2>1. /\ IsItem(Stream(c), 1, "block") /\ Stream(c)[1].of = b
        /\ Stream(c) # <<>> /\ Stream(c) \in Seq(WorkItem)
    BY <1>1, <1>4, RunningIsFirst DEF BlockItem
  <2>2. \A k \in Nat : IsItem(Stream(c)', k, "block") =>
          /\ IsItem(Stream(c), k + 1, "block") /\ Stream(c)'[k] = Stream(c)[k + 1]
          /\ k # 0
    <3>1. \A k \in Nat : IsItem(Tail(Stream(c)), k, "block") =>
            IsItem(Stream(c), k + 1, "block") /\ Tail(Stream(c))[k] = Stream(c)[k + 1]
      BY <2>1, TailPlaces
    <3>2. DOMAIN Tail(Stream(c)) = 1..Len(Tail(Stream(c)))
      BY <2>1, HeadTailProperties, LenProperties
    <3> QED
      BY <1>2, <1>4, <3>1, <3>2 DEF IsItem
  <2>3. ASSUME NEW k \in Nat, IsItem(Stream(c)', k, "block")
        PROVE  Stream(c)'[k].of \in Turns(c)'
    <3>1. /\ k + 1 \in Nat /\ k + 1 # 1 /\ IsItem(Stream(c), k + 1, "block")
          /\ Stream(c)'[k] = Stream(c)[k + 1]
      BY <2>2, <2>3
    <3>2. Stream(c)[k + 1].of \in Turns(c) /\ Stream(c)[k + 1].of # b
      BY <1>2, <2>1, <3>1 DEF UpcomingInv
    <3> QED
      BY <1>2, <3>1, <3>2
  <2>4. ASSUME NEW j \in Nat, NEW k \in Nat, IsItem(Stream(c)', j, "block"),
               IsItem(Stream(c)', k, "block"), Stream(c)'[j].of = Stream(c)'[k].of
        PROVE  j = k
    <3>1. /\ j + 1 \in Nat /\ IsItem(Stream(c), j + 1, "block")
          /\ k + 1 \in Nat /\ IsItem(Stream(c), k + 1, "block")
          /\ Stream(c)[j + 1].of = Stream(c)[k + 1].of
      BY <2>2, <2>4
    <3>2. j + 1 = k + 1
      BY <1>2, <3>1 DEF UpcomingInv
    <3> QED
      BY <3>2
  <2> QED
    BY <2>3, <2>4
<1> QED
  BY <1>3, <1>4

\* The steps that put nothing into a stream and end no block.
QuietStep ==
  \/ \E b \in Block : CallBlock(b) \/ Read(b) \/ Commit(b) \/ Release(b)
  \/ \E c \in Context : \/ Receive(c) \/ ApplyExternalChanges(c)
                       \/ StartFetch(c) \/ FinishFetch(c)
                       \/ RequestClose(c) \/ CloseStep(c)
  \/ UNCHANGED vars

\* Such a step leaves the streams of the open contexts as they are, except for
\* the head that is applied.
LEMMA QuietStreams ==
  ASSUME TypeOK, QuietStep, NEW x \in Context, closing[x] = "open", closing'[x] = "open"
  PROVE  Shrunk(x)
<1>1. ASSUME NEW c \in Context, ApplyExternalChanges(c) PROVE Shrunk(x)
  <2>1. queue[c] # <<>> /\ Dequeue(c) /\ inbox' = inbox
    BY <1>1 DEF ApplyExternalChanges, brokerVars
  <2>2. Stream(x)' = IF x = c THEN Tail(Stream(x)) ELSE Stream(x)
    BY <2>1, DequeueStreams
  <2>3. x = c => Stream(x) # <<>>
    BY <2>1, Streams
  <2> QED
    BY <2>2, <2>3 DEF Shrunk
<1>2. ASSUME NEW c \in Context, Receive(c) PROVE Shrunk(x)
  BY <1>2, ReceiveStreams DEF Shrunk
<1>3. ASSUME NEW c \in Context, RequestClose(c) \/ CloseStep(c) PROVE Shrunk(x)
  <2>1. queue'[x] = queue[x] /\ inbox'[x] = inbox[x]
    BY <1>3
       DEF RequestClose, CloseStep, EnterBarrier, StartTeardown, CloseDriver, CloseStage,
           Enqueue, Dequeue, TypeOK
  <2> QED
    BY <2>1 DEF Shrunk, Stream
<1>4. ASSUME \/ \E b \in Block : CallBlock(b) \/ Read(b) \/ Commit(b) \/ Release(b)
             \/ \E c \in Context : StartFetch(c) \/ FinishFetch(c)
             \/ UNCHANGED vars
      PROVE  Shrunk(x)
  <2>1. queue' = queue /\ inbox' = inbox
    BY <1>4 DEF CallBlock, Read, Commit, Release, StartFetch, FinishFetch, vars, brokerVars
  <2> QED
    BY <2>1 DEF Shrunk, Stream
<1> QED
  BY <1>1, <1>2, <1>3, <1>4 DEF QuietStep

\* Nor does it take a turn away.
LEMMA QuietTurns ==
  ASSUME TypeOK, SlotsInv, QuietStep, NEW x \in Context
  PROVE  Turns(x) \subseteq Turns(x)'
<1>1. ASSUME NEW b \in Block, Release(b) PROVE Turns(x) \subseteq Turns(x)'
  <2>1. /\ phase[b] = "ended" /\ phase' = [phase EXCEPT ![b] = "done"]
        /\ held' = held \ {b} /\ home' = home
    BY <1>1 DEF Release, Returned, Goto
  <2>2. b \notin Turns(x)
    BY <2>1 DEF Turns
  <2> QED
    BY <2>1, <2>2 DEF Turns, TypeOK
<1>2. ASSUME NEW b \in Block, CallBlock(b) PROVE Turns(x) \subseteq Turns(x)'
  <2>1. /\ phase[b] = "new" /\ home' = home /\ held' = held
        /\ \A a \in Block : a # b => phase'[a] = phase[a]
    BY <1>2 DEF CallBlock, Goto, TypeOK
  <2>2. b \notin Turns(x)
    BY <2>1 DEF Turns, AcceptedPhases
  <2> QED
    BY <2>1, <2>2 DEF Turns
<1>3. ASSUME NEW b \in Block, Read(b) \/ Commit(b) PROVE Turns(x) \subseteq Turns(x)'
  <2>1. /\ home' = home /\ held' = held
        /\ \E label \in {"read", "stored"} : phase' = [phase EXCEPT ![b] = label]
    BY <1>3 DEF Read, Commit, Goto, brokerVars
  <2> QED
    BY <2>1 DEF Turns, AcceptedPhases, TypeOK
<1>4. ASSUME NEW c \in Context, Receive(c) PROVE Turns(x) \subseteq Turns(x)'
  <2>1. home' = home /\ held' = held
    BY <1>4 DEF Receive
  <2>2. phase' = phase \/ phase' = [phase EXCEPT ![Head(inbox[c]).of] = "queued"]
    BY <1>4 DEF Receive, Goto
  <2> QED
    BY <2>1, <2>2 DEF Turns, AcceptedPhases, TypeOK
<1>5. ASSUME \/ \E c \in Context : \/ ApplyExternalChanges(c) \/ StartFetch(c)
                                   \/ FinishFetch(c) \/ RequestClose(c) \/ CloseStep(c)
             \/ UNCHANGED vars
      PROVE  Turns(x) \subseteq Turns(x)'
  <2>1. phase' = phase /\ home' = home /\ held' = held
    BY <1>5
       DEF ApplyExternalChanges, StartFetch, FinishFetch, RequestClose, CloseStep,
           EnterBarrier, StartTeardown, CloseDriver, CloseStage, vars, dataVars,
           blockVars, brokerVars
  <2> QED
    BY <2>1 DEF Turns
<1> QED
  BY <1>1, <1>2, <1>3, <1>4, <1>5 DEF QuietStep

\* Every step is quiet, or a grant, a publication or an end.
LEMMA Steps ==
  ASSUME [Next]_vars
  PROVE  QuietStep \/ GrantSlot \/ \E b \in Block : Publish(b) \/ Finish(b)
BY DEF Next, BlockStep, QuietStep

\* What is to come of blocks is right after every step.
LEMMA UpcomingStep ==
  TypeOK /\ FrontInv /\ SlotsInv /\ UpcomingInv /\ [Next]_vars => UpcomingInv'
<1> SUFFICES ASSUME TypeOK, FrontInv, SlotsInv, UpcomingInv, [Next]_vars PROVE UpcomingInv'
  OBVIOUS
<1>1. CASE QuietStep
  <2>1. ASSUME NEW c \in Context, closing'[c] = "open"
        PROVE  Turns(c) \subseteq Turns(c)' /\ Shrunk(c)
    BY <1>1, <2>1, StaysOpen, QuietStreams, QuietTurns
  <2> QED
    BY <2>1, UpcomingKept
<1> QED
  BY <1>1, Steps, GrantUpcoming, PublishUpcoming, FinishUpcoming

\* A stream that shrank has no change behind a block's turn that was not there.
LEMMA OrderKept ==
  ASSUME TypeOK, OrderInv, NEW c \in Context, closing[c] = "open", Shrunk(c),
         NEW j \in Nat, NEW k \in Nat,
         IsItem(Stream(c)', j, "block"), IsItem(Stream(c)', k, "apply")
  PROVE  k < j
<1>1. PICK d \in {0, 1} : \A i \in Nat, kind \in {"block", "apply"} :
        IsItem(Stream(c)', i, kind) =>
          IsItem(Stream(c), i + d, kind) /\ Stream(c)'[i] = Stream(c)[i + d]
  BY ShrunkPlaces
<1>2. /\ j + d \in Nat /\ k + d \in Nat
      /\ IsItem(Stream(c), j + d, "block") /\ IsItem(Stream(c), k + d, "apply")
  BY <1>1
<1>3. k + d < j + d
  BY <1>2 DEF OrderInv
<1> QED
  BY <1>3

\* No step puts a change behind a block's turn: the turn keeps every writer from
\* having one.
LEMMA OrderStep ==
  /\ TypeOK /\ FrontInv /\ SlotsInv /\ UpcomingInv /\ OrderInv /\ StoredByOne /\ [Next]_vars
  => OrderInv'
<1> SUFFICES ASSUME TypeOK, FrontInv, SlotsInv, UpcomingInv, OrderInv, StoredByOne,
                    [Next]_vars,
                    NEW c \in Context, NEW j \in Nat, NEW k \in Nat, closing'[c] = "open",
                    IsItem(Stream(c)', j, "block"), IsItem(Stream(c)', k, "apply")
             PROVE  k < j
  BY DEF OrderInv, IsItem
<1>0. closing[c] = "open" /\ Stream(c) \in Seq(WorkItem)
  BY StaysOpen, Streams
<1>1. CASE QuietStep
  BY <1>0, <1>1, QuietStreams, OrderKept
<1>2. ASSUME NEW b \in Block, Finish(b) PROVE k < j
  <2>1. /\ queue[home[b]] # <<>> /\ Dequeue(home[b]) /\ home[b] \in Context
        /\ inbox' = inbox
    BY <1>2 DEF Finish, FrontInv, Running, Inside, brokerVars, TypeOK
  <2>2. Stream(c)' = IF c = home[b] THEN Tail(Stream(c)) ELSE Stream(c)
    BY <2>1, DequeueStreams
  <2>3. c = home[b] => Stream(c) # <<>>
    BY <2>1, Streams
  <2>4. Shrunk(c)
    BY <2>2, <2>3 DEF Shrunk
  <2> QED
    BY <1>0, <2>4, OrderKept
<1>3. ASSUME NEW item \in WorkItem, Stream(c)' = Append(Stream(c), item),
             item.kind = "block" \/ ~ \E i \in Nat : IsItem(Stream(c), i, "block")
      PROVE  k < j
  <2>1. /\ DOMAIN Stream(c) = 1..Len(Stream(c)) /\ Len(Stream(c)) \in Nat
        /\ DOMAIN Stream(c)' = 1..(Len(Stream(c)) + 1)
        /\ \A i \in 1..Len(Stream(c)) : Stream(c)'[i] = Stream(c)[i]
        /\ Stream(c)'[Len(Stream(c)) + 1] = item
    BY <1>0, <1>3, Positions
  <2>2. CASE item.kind = "block"
    <3>1. IsItem(Stream(c), k, "apply") /\ k <= Len(Stream(c))
      BY <2>1, <2>2 DEF IsItem
    <3>2. CASE j = Len(Stream(c)) + 1
      BY <2>1, <3>1, <3>2
    <3>3. CASE j # Len(Stream(c)) + 1
      <4>1. IsItem(Stream(c), j, "block")
        BY <2>1, <3>3 DEF IsItem
      <4> QED
        BY <1>0, <3>1, <4>1 DEF OrderInv
    <3> QED
      BY <3>2, <3>3
  <2>3. CASE item.kind # "block"
    <3>1. IsItem(Stream(c), j, "block")
      BY <2>1, <2>3 DEF IsItem
    <3> QED
      BY <1>3, <2>3, <3>1
  <2> QED
    BY <2>2, <2>3
<1>4. CASE GrantSlot
  <2> DEFINE b == Head(slotQueue)
  <2>1. b \in Block /\ BlockItem(b) \in WorkItem
    <3>1. b \in Block
      BY <1>4, HeadTailProperties DEF GrantSlot, Grantable, TypeOK
    <3> QED
      BY <3>1, MadeMessages DEF WorkItem
  <2>2. /\ queue' = queue
        /\ inbox'[c] = IF c = home[b] THEN Append(inbox[c], BlockItem(b)) ELSE inbox[c]
    BY <1>4 DEF GrantSlot, TypeOK
  <2>3. CASE c = home[b]
    <3>1. Stream(c)' = Append(Stream(c), BlockItem(b))
      BY <2>1, <2>2, <2>3, PostedStreams
    <3> QED
      BY <1>3, <2>1, <3>1, ItemsDiffer
  <2>4. CASE c # home[b]
    BY <1>0, <2>2, <2>4, OrderKept DEF Shrunk, Stream
  <2> QED
    BY <2>3, <2>4
<1>5. ASSUME NEW b \in Block, Publish(b) PROVE k < j
  <2> DEFINE item == ApplyItem(base[b] + 1)
  <2>1. /\ queue' = queue /\ phase[b] = "stored" /\ item \in WorkItem
        /\ inbox'[c] = IF c = home[b] THEN inbox[c] ELSE Append(inbox[c], item)
    <3>1. base[b] + 1 \in Nat
      BY <1>5 DEF Publish, TypeOK, Inside, None
    <3> QED
      BY <1>0, <1>5, <3>1, MadeMessages DEF Publish, Broadcast, WorkItem
  <2>2. CASE c = home[b]
    BY <1>0, <2>1, <2>2, OrderKept DEF Shrunk, Stream
  <2>3. CASE c # home[b]
    <3>1. Stream(c)' = Append(Stream(c), item)
      BY <2>1, <2>3, PostedStreams
    <3>2. ASSUME NEW i \in Nat, IsItem(Stream(c), i, "block")
          PROVE  FALSE
      <4>1. Stream(c)[i].of \in Turns(c)
        BY <1>0, <3>2 DEF UpcomingInv
      <4>2. b \in Turns(home[b]) /\ home[b] \in Context /\ b \in Writer
        BY <2>1, WorkHasATurn DEF SlotsInv, StoredByOne
      <4>3. b = Stream(c)[i].of
        BY <3>2, <4>1, <4>2, TurnsExclude DEF SlotsInv
      <4> QED
        BY <2>3, <4>1, <4>3 DEF Turns
    <3> QED
      BY <1>3, <2>1, <3>1, <3>2
  <2> QED
    BY <2>2, <2>3
<1> QED
  BY <1>1, <1>2, <1>4, <1>5, Steps

\* A context whose stream stays, or loses a head that is no change, stays as far
\* up to date as it was.
LEMMA BroughtKept ==
  ASSUME TypeOK, NEW c \in Context, BroughtUpToDate(c), Shrunk(c),
         Stream(c)' = Stream(c) \/ Head(Stream(c)).kind # "apply",
         stored' = stored, cache'[c] = cache[c], fetched'[c] = fetched[c]
  PROVE  BroughtUpToDate(c)'
<1>1. PICK d \in {0, 1} : \A k \in Nat :
        /\ IsItem(Stream(c)', k, "apply") =>
             IsItem(Stream(c), k + d, "apply") /\ Stream(c)'[k] = Stream(c)[k + d]
        /\ IsItem(Stream(c), k + d, "apply") /\ k # 0 =>
             IsItem(Stream(c)', k, "apply") /\ Stream(c)'[k] = Stream(c)[k + d]
        /\ IsItem(Stream(c), k, "apply") => k > d
  <2>1. CASE Stream(c)' = Stream(c)
    <3>1. \A k \in Nat : IsItem(Stream(c), k, "apply") => k > 0
      BY StreamItems
    <3> QED
      BY <2>1, <3>1
  <2>2. CASE Stream(c) # <<>> /\ Stream(c)' = Tail(Stream(c)) /\ Head(Stream(c)).kind # "apply"
    <3>1. /\ Stream(c) \in Seq(WorkItem)
          /\ \A k \in Nat : IsItem(Stream(c), k, "apply") => k >= 1
      BY Streams, StreamItems
    <3>2. \A k \in Nat :
            /\ IsItem(Tail(Stream(c)), k, "apply") =>
                 IsItem(Stream(c), k + 1, "apply") /\ Tail(Stream(c))[k] = Stream(c)[k + 1]
            /\ IsItem(Stream(c), k + 1, "apply") /\ k # 0 =>
                 IsItem(Tail(Stream(c)), k, "apply") /\ Tail(Stream(c))[k] = Stream(c)[k + 1]
      BY <2>2, <3>1, TailPlaces
    <3>3. ~IsItem(Stream(c), 1, "apply")
      BY <2>2, <3>1, TailPlaces DEF IsItem
    <3>4. \A k \in Nat : IsItem(Stream(c), k, "apply") => k > 1
      BY <3>1, <3>3
    <3> QED
      BY <2>2, <3>2, <3>4
  <2> QED
    BY <2>1, <2>2 DEF Shrunk
<1>2. CASE \E k \in Nat : LastChange(c, k) /\ Stream(c)[k].of = stored
  <2>1. PICK k \in Nat : LastChange(c, k) /\ Stream(c)[k].of = stored
    BY <1>2
  <2>2. k > d /\ k - d \in Nat /\ k - d # 0 /\ (k - d) + d = k
    BY <1>1, <2>1 DEF LastChange
  <2>3. IsItem(Stream(c)', k - d, "apply") /\ Stream(c)'[k - d] = Stream(c)[k]
    BY <1>1, <2>1, <2>2 DEF LastChange
  <2>4. \A j \in Nat : IsItem(Stream(c)', j, "apply") => j <= k - d
    <3>1. TAKE j \in Nat
    <3>2. HAVE IsItem(Stream(c)', j, "apply")
    <3>3. j + d \in Nat /\ IsItem(Stream(c), j + d, "apply")
      BY <1>1, <3>2
    <3>4. j + d <= k
      BY <2>1, <3>3 DEF LastChange
    <3> QED
      BY <3>4
  <2> QED
    BY <2>1, <2>2, <2>3, <2>4 DEF BroughtUpToDate, LastChange, IsItem
<1>3. CASE NoChangeComes(c)
  <2>1. \A k \in Nat : ~IsItem(Stream(c)', k, "apply")
    BY <1>1, <1>3, \A k \in Nat : k + d \in Nat DEF NoChangeComes
  <2>2. cache'[c] = stored' \/ (cache'[c] = None /\ fetched'[c] \in {None, stored'})
    BY <1>3 DEF BroughtUpToDate, NoChangeComes, LastChange
  <2> QED
    BY <1>3, <2>1, <2>2 DEF BroughtUpToDate, NoChangeComes, LastChange, IsItem
<1> QED
  BY <1>2, <1>3 DEF BroughtUpToDate

\* A block that is posted changes nothing of what comes of changes.
LEMMA BroughtBehindBlock ==
  ASSUME TypeOK, NEW c \in Context, BroughtUpToDate(c), NEW b \in Block,
         Stream(c)' = Append(Stream(c), BlockItem(b)),
         stored' = stored, cache'[c] = cache[c], fetched'[c] = fetched[c]
  PROVE  BroughtUpToDate(c)'
<1>1. /\ Stream(c) \in Seq(WorkItem) /\ BlockItem(b) \in WorkItem
      /\ BlockItem(b).kind # "apply"
  BY Streams, MadeMessages DEF WorkItem, BlockItem
<1>2. \A k \in Nat :
        /\ IsItem(Stream(c)', k, "apply") <=> IsItem(Stream(c), k, "apply")
        /\ IsItem(Stream(c), k, "apply") => Stream(c)'[k] = Stream(c)[k]
  <2>1. /\ DOMAIN Stream(c) = 1..Len(Stream(c)) /\ Len(Stream(c)) \in Nat
        /\ DOMAIN Stream(c)' = 1..(Len(Stream(c)) + 1)
        /\ \A i \in 1..Len(Stream(c)) : Stream(c)'[i] = Stream(c)[i]
        /\ Stream(c)'[Len(Stream(c)) + 1] = BlockItem(b)
    BY <1>1, Positions
  <2> QED
    BY <1>1, <2>1 DEF IsItem
<1> QED
  BY <1>2 DEF BroughtUpToDate, NoChangeComes, LastChange, IsItem

\* An applied change: the last one leaves the record in the cache.
LEMMA BroughtByApply ==
  ASSUME TypeOK, NEW c \in Context, BroughtUpToDate(c), ApplyExternalChanges(c)
  PROVE  BroughtUpToDate(c)'
<1> DEFINE item == Head(queue[c])
<1>1. /\ queue[c] # <<>> /\ item.kind = "apply" /\ Dequeue(c) /\ inbox' = inbox
      /\ cache'[c] = item.of /\ stored' = stored
  BY DEF ApplyExternalChanges, Refreshed, brokerVars, TypeOK
<1>2. /\ Stream(c) \in Seq(WorkItem) /\ Stream(c) # <<>> /\ Head(Stream(c)) = item
      /\ Stream(c)' = Tail(Stream(c))
  BY <1>1, Streams, DequeueStreams
<1>3. /\ Stream(c)[1] = item /\ IsItem(Stream(c), 1, "apply")
      /\ \A k \in Nat :
           /\ IsItem(Stream(c)', k, "apply") =>
                IsItem(Stream(c), k + 1, "apply") /\ Stream(c)'[k] = Stream(c)[k + 1]
           /\ IsItem(Stream(c), k + 1, "apply") /\ k # 0 =>
                IsItem(Stream(c)', k, "apply") /\ Stream(c)'[k] = Stream(c)[k + 1]
  <2>1. Stream(c)[1] = item /\ IsItem(Stream(c), 1, "apply")
    BY <1>1, <1>2, TailPlaces DEF IsItem
  <2>2. \A k \in Nat :
          /\ IsItem(Tail(Stream(c)), k, "apply") =>
               IsItem(Stream(c), k + 1, "apply") /\ Tail(Stream(c))[k] = Stream(c)[k + 1]
          /\ IsItem(Stream(c), k + 1, "apply") /\ k # 0 =>
               IsItem(Tail(Stream(c)), k, "apply") /\ Tail(Stream(c))[k] = Stream(c)[k + 1]
    BY <1>2, TailPlaces
  <2> QED
    BY <1>2, <2>1, <2>2
<1>4. PICK k \in Nat : LastChange(c, k) /\ Stream(c)[k].of = stored
  BY <1>3, 1 \in Nat DEF BroughtUpToDate, NoChangeComes
<1>5. k >= 1
  BY <1>4, StreamItems DEF LastChange
<1>6. CASE k = 1
  <2>1. \A j \in Nat : ~IsItem(Stream(c)', j, "apply")
    <3>1. TAKE j \in Nat
    <3>2. ASSUME IsItem(Stream(c)', j, "apply") PROVE FALSE
      <4>1. j + 1 \in Nat /\ IsItem(Stream(c), j + 1, "apply")
        BY <1>3, <3>2
      <4>2. j + 1 <= 1
        BY <1>4, <1>6, <4>1 DEF LastChange
      <4>3. j # 0
        <5>1. DOMAIN Tail(Stream(c)) = 1..Len(Tail(Stream(c)))
          BY <1>2, HeadTailProperties, LenProperties
        <5> QED
          BY <1>2, <3>2, <5>1 DEF IsItem
      <4> QED
        BY <4>2, <4>3
    <3> QED
      BY <3>2
  <2>2. cache'[c] = stored'
    BY <1>1, <1>3, <1>4, <1>6
  <2> QED
    BY <2>1, <2>2 DEF BroughtUpToDate, NoChangeComes, IsItem
<1>7. CASE k # 1
  <2>1. k - 1 \in Nat /\ k - 1 # 0 /\ (k - 1) + 1 = k
    BY <1>5, <1>7
  <2>2. IsItem(Stream(c)', k - 1, "apply") /\ Stream(c)'[k - 1] = Stream(c)[k]
    BY <1>3, <1>4, <2>1 DEF LastChange
  <2>3. \A j \in Nat : IsItem(Stream(c)', j, "apply") => j <= k - 1
    <3>1. TAKE j \in Nat
    <3>2. HAVE IsItem(Stream(c)', j, "apply")
    <3>3. j + 1 \in Nat /\ IsItem(Stream(c), j + 1, "apply")
      BY <1>3, <3>2
    <3>4. j + 1 <= k
      BY <1>4, <3>3 DEF LastChange
    <3> QED
      BY <3>4
  <2> QED
    BY <1>1, <1>4, <2>1, <2>2, <2>3 DEF BroughtUpToDate, LastChange, IsItem
<1> QED
  BY <1>6, <1>7

\* A published change is the last to come in every other open context; in its
\* own none comes, and the cache has it.
LEMMA BroughtByPublish ==
  ASSUME TypeOK, FrontInv, OrderInv, NEW b \in Writer, Publish(b), stored = base[b] + 1,
         NEW c \in Context, closing[c] = "open"
  PROVE  BroughtUpToDate(c)'
<1> DEFINE item == ApplyItem(base[b] + 1)
<1>1. /\ b \in Block /\ queue' = queue /\ stored' = stored
      /\ inbox'[c] = IF c = home[b] THEN inbox[c] ELSE Append(inbox[c], item)
      /\ c = home[b] => cache'[c] = stored
      /\ item \in WorkItem /\ item.kind = "apply" /\ item.of = stored
  <2>1. b \in Block /\ base[b] + 1 \in Nat /\ item \in WorkItem
    BY SharedConstants, MadeMessages DEF TypeOK, WorkItem
  <2> QED
    BY <2>1 DEF Publish, Broadcast, ApplyItem, TypeOK
<1>2. CASE c = home[b]
  <2>1. IsItem(Stream(c), 1, "block") /\ Stream(c)[1] = BlockItem(b)
    BY <1>1, <1>2, RunningIsFirst DEF FrontInv, Inside, Publish
  <2>2. \A k \in Nat : ~IsItem(Stream(c), k, "apply")
    <3>1. TAKE k \in Nat
    <3>2. ASSUME IsItem(Stream(c), k, "apply") PROVE FALSE
      <4>1. k >= 1
        BY <3>2, StreamItems
      <4>2. k < 1
        BY <2>1, <3>2, 1 \in Nat DEF OrderInv, BlockItem
      <4> QED
        BY <4>1, <4>2
    <3> QED
      BY <3>2
  <2>3. Stream(c)' = Stream(c)
    BY <1>1, <1>2 DEF Stream
  <2> QED
    BY <1>1, <1>2, <2>2, <2>3 DEF BroughtUpToDate, NoChangeComes, IsItem
<1>3. CASE c # home[b]
  <2>1. Stream(c)' = Append(Stream(c), item) /\ Stream(c) \in Seq(WorkItem)
    BY <1>1, <1>3, PostedStreams, Streams
  <2>2. /\ Len(Stream(c)) \in Nat /\ DOMAIN Stream(c)' = 1..(Len(Stream(c)) + 1)
        /\ Stream(c)'[Len(Stream(c)) + 1] = item
    BY <1>1, <2>1, Positions
  <2> DEFINE last == Len(Stream(c)) + 1
  <2>3. last \in Nat /\ IsItem(Stream(c)', last, "apply") /\ Stream(c)'[last].of = stored
    BY <1>1, <2>2 DEF IsItem
  <2>4. \A j \in Nat : IsItem(Stream(c)', j, "apply") => j <= last
    BY <2>2 DEF IsItem
  <2> QED
    BY <1>1, <2>3, <2>4 DEF BroughtUpToDate, LastChange, IsItem
<1> QED
  BY <1>2, <1>3

\* Before the turn of a block in front, its context has the record.
LEMMA BlockReadsStored ==
  ASSUME TypeOK, OrderInv, NEW b \in Block, Running(home[b], BlockItem(b)),
         closing[home[b]] = "open", BroughtUpToDate(home[b])
  PROVE  Canonical(home[b], stored) = stored
<1> DEFINE c == home[b]
<1>1. c \in Context
  BY DEF TypeOK
<1>2. IsItem(Stream(c), 1, "block") /\ Stream(c)[1] = BlockItem(b)
  BY <1>1, RunningIsFirst
<1>3. ASSUME NEW k \in Nat, IsItem(Stream(c), k, "apply") PROVE FALSE
  <2>1. k >= 1
    BY <1>1, <1>3, StreamItems
  <2>2. k < 1
    BY <1>1, <1>2, <1>3, 1 \in Nat DEF OrderInv, BlockItem
  <2> QED
    BY <2>1, <2>2
<1>4. cache[c] \in {None, stored}
  BY <1>3 DEF BroughtUpToDate, LastChange
<1> QED
  BY <1>4 DEF Canonical

\* Beside a writer that is at work nobody is in the middle of a commit.
LEMMA OneAtWork ==
  ASSUME TypeOK, HoldersInv, NEW a \in Block, NEW b \in Block,
         phase[a] \in {"queued", "read", "stored", "published"},
         phase[b] \in {"queued", "read", "stored", "published"},
         a \in Writer \/ b \in Writer
  PROVE  a = b
BY WorkHasATurn, TurnsExclude

\* Only a commit stores, and only a read changes what a block has read.
LEMMA StoredStep ==
  TypeOK /\ SlotsInv /\ StoredByOne /\ [Next]_vars => StoredByOne'
<1> SUFFICES ASSUME TypeOK, SlotsInv, StoredByOne, [Next]_vars,
                    NEW a \in Block, phase'[a] = "stored"
             PROVE  a \in Writer /\ stored' = base'[a] + 1
  BY DEF StoredByOne
<1>1. ASSUME NEW b \in Block, Commit(b) PROVE a \in Writer /\ stored' = base'[a] + 1
  <2>1. /\ b \in Writer /\ phase[b] = "read" /\ stored' = base[b] + 1 /\ base' = base
        /\ phase' = [phase EXCEPT ![b] = "stored"]
    BY <1>1 DEF Commit, Goto
  <2>2. a = b \/ phase[a] = "stored"
    BY <2>1 DEF TypeOK
  <2>3. a = b
    BY <2>1, <2>2, OneAtWork DEF SlotsInv
  <2> QED
    BY <2>1, <2>3
<1>2. ASSUME NEW b \in Block, Read(b) PROVE a \in Writer /\ stored' = base'[a] + 1
  <2>1. /\ phase' = [phase EXCEPT ![b] = "read"] /\ stored' = stored
        /\ \A x \in Block : x # b => base'[x] = base[x]
    BY <1>2 DEF Read, Goto, TypeOK
  <2>2. a # b /\ phase[a] = "stored"
    BY <2>1 DEF TypeOK
  <2> QED
    BY <2>1, <2>2 DEF StoredByOne
<1>3. ASSUME stored' = stored, base' = base, phase[a] = "stored"
      PROVE  a \in Writer /\ stored' = base'[a] + 1
  BY <1>3 DEF StoredByOne
<1>4. ASSUME NEW b \in Block, CallBlock(b) \/ Publish(b) \/ Finish(b) \/ Release(b)
      PROVE  stored' = stored /\ base' = base /\ phase[a] = "stored"
  <2>1. /\ stored' = stored /\ base' = base
        /\ \E label \in {"refused", "waiting", "published", "ended", "done"} :
             phase' = [phase EXCEPT ![b] = label]
    BY <1>4 DEF CallBlock, Publish, Finish, Release, Goto, dataVars
  <2> QED
    BY <2>1 DEF TypeOK
<1>5. ASSUME NEW c \in Context, Receive(c)
      PROVE  stored' = stored /\ base' = base /\ phase[a] = "stored"
  <2>1. /\ stored' = stored /\ base' = base
        /\ phase' = phase \/ phase' = [phase EXCEPT ![Head(inbox[c]).of] = "queued"]
    BY <1>5 DEF Receive, Goto, dataVars
  <2> QED
    BY <2>1 DEF TypeOK
<1>6. ASSUME \/ GrantSlot \/ UNCHANGED vars
             \/ \E c \in Context : \/ ApplyExternalChanges(c) \/ StartFetch(c)
                                  \/ FinishFetch(c) \/ RequestClose(c) \/ CloseStep(c)
      PROVE  stored' = stored /\ base' = base /\ phase[a] = "stored"
  BY <1>6
     DEF GrantSlot, ApplyExternalChanges, StartFetch, FinishFetch, RequestClose, CloseStep,
         EnterBarrier, StartTeardown, CloseDriver, CloseStage, vars, dataVars, blockVars
<1> QED
  BY <1>1, <1>2, <1>3, <1>4, <1>5, <1>6 DEF Next, BlockStep

\* A delivered grant takes a block that waits into the queue.
LEMMA ReceivedPhases ==
  ASSUME TypeOK, SlotsInv, NEW c \in Context, Receive(c)
  PROVE  \/ phase' = phase
         \/ \E b \in Block : phase[b] = "waiting" /\ phase' = [phase EXCEPT ![b] = "queued"]
<1>1. CASE Head(inbox[c]).kind = "block"
  <2>1. inbox[c] \in Seq(Message) /\ inbox[c] # <<>> /\ Head(inbox[c]) \in Message
    BY HeadOfMessages DEF Receive
  <2>2. IsGrant(c, 1) /\ Head(inbox[c]) = inbox[c][1]
    BY <1>1, <2>1, TailPlaces DEF IsGrant
  <2>3. Head(inbox[c]).of \in Block /\ phase[Head(inbox[c]).of] = "waiting"
    BY <1>1, <2>1, <2>2, Messages DEF SlotsInv, GrantsInv
  <2> QED
    BY <1>1, <2>3 DEF Receive, Goto
<1>2. CASE Head(inbox[c]).kind # "block"
  BY <1>2 DEF Receive
<1> QED
  BY <1>1, <1>2

\* Unless a commit is under way, every open context will have the record.
LEMMA PublishedStep ==
  /\ TypeOK /\ FrontInv /\ SlotsInv /\ OrderInv /\ PublishedInv /\ [Next]_vars
  => PublishedInv'
<1> SUFFICES ASSUME TypeOK, FrontInv, SlotsInv, OrderInv, PublishedInv, [Next]_vars
             PROVE  PublishedInv'
  OBVIOUS
<1>0. StoredByOne'
  BY StoredStep DEF PublishedInv
<1> SUFFICES ASSUME NothingUnpublished', NEW c \in Context, closing'[c] = "open"
             PROVE  BroughtUpToDate(c)'
  BY <1>0 DEF PublishedInv
<1>1. closing[c] = "open"
  BY StaysOpen
<1>2. NothingUnpublished => BroughtUpToDate(c)
  BY <1>1 DEF PublishedInv
<1>3. ASSUME NEW b \in Block, Publish(b) PROVE BroughtUpToDate(c)'
  <2>1. b \in Writer /\ stored = base[b] + 1
    BY <1>3 DEF PublishedInv, StoredByOne, Publish
  <2> QED
    BY <1>1, <1>3, <2>1, BroughtByPublish
<1>4. ASSUME NEW b \in Block, Commit(b) PROVE FALSE
  <2>1. phase'[b] = "stored"
    BY <1>4 DEF Commit, Goto, TypeOK
  <2> QED
    BY <2>1 DEF NothingUnpublished
<1>5. ASSUME NEW b \in Block, Finish(b) PROVE BroughtUpToDate(c)'
  <2>1. /\ Running(home[b], BlockItem(b)) /\ Dequeue(home[b]) /\ inbox' = inbox
        /\ home[b] \in Context /\ phase' = [phase EXCEPT ![b] = "ended"]
        /\ phase[b] # "stored"
        /\ stored' = stored /\ cache' = cache /\ fetched' = fetched
    BY <1>5 DEF Finish, Goto, FrontInv, Inside, brokerVars, dataVars, TypeOK
  <2>2. NothingUnpublished
    BY <2>1 DEF NothingUnpublished, TypeOK
  <2>3. Stream(c)' = IF c = home[b] THEN Tail(Stream(c)) ELSE Stream(c)
    BY <2>1, DequeueStreams DEF Running
  <2>4. c = home[b] => Stream(c) # <<>> /\ Head(Stream(c)).kind # "apply"
    BY <2>1, Streams, ItemsDiffer DEF Running
  <2>5. Shrunk(c)
    BY <2>3, <2>4 DEF Shrunk
  <2> QED
    BY <1>2, <2>1, <2>2, <2>3, <2>4, <2>5, BroughtKept
<1>6. CASE GrantSlot
  <2> DEFINE b == Head(slotQueue)
  <2>1. /\ b \in Block /\ BlockItem(b) \in WorkItem
    <3>1. b \in Block
      BY <1>6, HeadTailProperties DEF GrantSlot, Grantable, TypeOK
    <3> QED
      BY <3>1, MadeMessages DEF WorkItem
  <2>2. /\ queue' = queue /\ phase' = phase
        /\ stored' = stored /\ cache' = cache /\ fetched' = fetched
        /\ inbox'[c] = IF c = home[b] THEN Append(inbox[c], BlockItem(b)) ELSE inbox[c]
    BY <1>6 DEF GrantSlot, dataVars, blockVars, TypeOK
  <2>3. BroughtUpToDate(c)
    BY <1>2, <2>2 DEF NothingUnpublished
  <2>4. CASE c = home[b]
    <3>1. Stream(c)' = Append(Stream(c), BlockItem(b))
      BY <2>1, <2>2, <2>4, PostedStreams
    <3> QED
      BY <2>1, <2>2, <2>3, <3>1, BroughtBehindBlock
  <2>5. CASE c # home[b]
    <3>1. Stream(c)' = Stream(c)
      BY <2>2, <2>5 DEF Stream
    <3> QED
      BY <2>2, <2>3, <3>1, BroughtKept DEF Shrunk
  <2> QED
    BY <2>4, <2>5
<1>7. ASSUME NEW x \in Context, ApplyExternalChanges(x) PROVE BroughtUpToDate(c)'
  <2>1. /\ phase' = phase /\ stored' = stored /\ fetched' = fetched
        /\ inbox' = inbox /\ queue[x] # <<>> /\ Dequeue(x)
        /\ c # x => cache'[c] = cache[c]
    BY <1>7 DEF ApplyExternalChanges, blockVars, brokerVars, TypeOK
  <2>2. BroughtUpToDate(c)
    BY <1>2, <2>1 DEF NothingUnpublished
  <2>3. CASE c = x
    BY <1>7, <2>2, <2>3, BroughtByApply
  <2>4. CASE c # x
    <3>1. Stream(c)' = Stream(c)
      BY <2>1, <2>4, DequeueStreams
    <3> QED
      BY <2>1, <2>2, <2>4, <3>1, BroughtKept DEF Shrunk
  <2> QED
    BY <2>3, <2>4
<1>8. ASSUME NEW b \in Block, Read(b) PROVE BroughtUpToDate(c)'
  <2>1. /\ phase[b] = "queued" /\ phase' = [phase EXCEPT ![b] = "read"]
        /\ stored' = stored /\ fetched' = fetched /\ queue' = queue /\ inbox' = inbox
        /\ cache'[c] = IF c = home[b] THEN Canonical(c, stored) ELSE cache[c]
    BY <1>8 DEF Read, Goto, brokerVars, TypeOK
  <2>2. NothingUnpublished
    BY <2>1 DEF NothingUnpublished, TypeOK
  <2>3. Stream(c)' = Stream(c)
    BY <2>1 DEF Stream
  <2> QED
    BY <1>2, <2>1, <2>2, <2>3
       DEF BroughtUpToDate, NoChangeComes, LastChange, IsItem, Canonical
<1>9. ASSUME NEW x \in Context, StartFetch(x) \/ FinishFetch(x) PROVE BroughtUpToDate(c)'
  <2>1. /\ phase' = phase /\ stored' = stored /\ queue' = queue /\ inbox' = inbox
        /\ \/ cache'[c] = cache[c] /\ fetched'[c] \in {fetched[c], stored}
           \/ cache'[c] = Canonical(c, fetched[c]) /\ fetched'[c] = None /\ fetched[c] # None
    BY <1>9 DEF StartFetch, FinishFetch, blockVars, brokerVars, TypeOK
  <2>2. BroughtUpToDate(c)
    BY <1>2, <2>1 DEF NothingUnpublished
  <2>3. Stream(c)' = Stream(c)
    BY <2>1 DEF Stream
  <2>4. CASE \E k \in Nat : LastChange(c, k) /\ Stream(c)[k].of = stored
    BY <2>1, <2>3, <2>4 DEF BroughtUpToDate, LastChange, IsItem
  <2>5. CASE /\ NoChangeComes(c)
             /\ cache[c] = stored \/ (cache[c] = None /\ fetched[c] \in {None, stored})
    <3>1. stored # None
      BY DEF TypeOK, None
    <3>2. cache'[c] = stored' \/ (cache'[c] = None /\ fetched'[c] \in {None, stored'})
      BY <2>1, <2>5, <3>1 DEF Canonical
    <3> QED
      BY <2>3, <2>5, <3>2 DEF BroughtUpToDate, NoChangeComes, IsItem
  <2> QED
    BY <2>2, <2>4, <2>5 DEF BroughtUpToDate
<1>10. ASSUME \/ \E b \in Block : CallBlock(b) \/ Release(b)
              \/ \E x \in Context : Receive(x) \/ RequestClose(x) \/ CloseStep(x)
              \/ UNCHANGED vars
       PROVE  BroughtUpToDate(c)'
  <2>1. /\ stored' = stored /\ cache' = cache /\ fetched' = fetched
        /\ \A b \in Block : phase[b] = "stored" => phase'[b] = "stored"
    <3>1. ASSUME NEW b \in Block, CallBlock(b) \/ Release(b)
          PROVE  /\ stored' = stored /\ cache' = cache /\ fetched' = fetched
                 /\ phase[b] # "stored" /\ \E label : phase' = [phase EXCEPT ![b] = label]
      BY <3>1 DEF CallBlock, Release, Goto, dataVars
    <3>2. ASSUME NEW x \in Context, Receive(x)
          PROVE  /\ stored' = stored /\ cache' = cache /\ fetched' = fetched
                 /\ \A b \in Block : phase[b] = "stored" => phase'[b] = "stored"
      BY <3>2, ReceivedPhases DEF Receive, dataVars, TypeOK
    <3>3. ASSUME \/ UNCHANGED vars \/ \E x \in Context : RequestClose(x) \/ CloseStep(x)
          PROVE  /\ stored' = stored /\ cache' = cache /\ fetched' = fetched /\ phase' = phase
      BY <3>3
         DEF RequestClose, CloseStep, EnterBarrier, StartTeardown, CloseDriver, CloseStage,
             vars, dataVars, blockVars
    <3> QED
      BY <1>10, <3>1, <3>2, <3>3 DEF TypeOK
  <2>2. BroughtUpToDate(c)
    BY <1>2, <2>1 DEF NothingUnpublished
  <2>3. Stream(c)' = Stream(c)
    <3>1. ASSUME NEW x \in Context, RequestClose(x) \/ CloseStep(x)
          PROVE  queue'[c] = queue[c] /\ inbox'[c] = inbox[c]
      BY <1>1, <3>1
         DEF RequestClose, CloseStep, EnterBarrier, StartTeardown, CloseDriver, CloseStage,
             Enqueue, Dequeue, TypeOK
    <3>2. ASSUME UNCHANGED vars \/ \E b \in Block : CallBlock(b) \/ Release(b)
          PROVE  queue'[c] = queue[c] /\ inbox'[c] = inbox[c]
      BY <3>2 DEF CallBlock, Release, vars, brokerVars
    <3> QED
      BY <1>1, <1>10, <3>1, <3>2, ReceiveStreams DEF Stream
  <2> QED
    BY <2>1, <2>2, <2>3, BroughtKept DEF Shrunk
<1> QED
  BY <1>3, <1>4, <1>5, <1>6, <1>7, <1>8, <1>9, <1>10 DEF Next, BlockStep

\* A block that reads finds the record, and until it is done with it no writer commits.
LEMMA ReadFreshStep ==
  /\ TypeOK /\ SlotsInv /\ OrderInv /\ PublishedInv /\ OpenBlocksReadFresh /\ [Next]_vars
  => OpenBlocksReadFresh'
<1> SUFFICES ASSUME TypeOK, SlotsInv, OrderInv, PublishedInv, OpenBlocksReadFresh,
                    [Next]_vars,
                    NEW w \in Block, phase'[w] = "read", closing'[home'[w]] = "open"
             PROVE  base'[w] = stored'
  BY DEF OpenBlocksReadFresh
<1>1. home' = home /\ home[w] \in Context
  BY SharedConstants
     DEF TypeOK, Next, BlockStep, CloseStep, CallBlock, Read, Commit, Publish, Finish,
         Release, GrantSlot, Receive, ApplyExternalChanges, StartFetch, FinishFetch,
         RequestClose, EnterBarrier, StartTeardown, CloseDriver, CloseStage, vars, blockVars
<1>2. closing[home[w]] = "open"
  BY <1>1, StaysOpen
<1>3. CASE Read(w)
  <2>1. /\ phase[w] = "queued" /\ Running(home[w], BlockItem(w)) /\ stored' = stored
        /\ base'[w] = Canonical(home[w], stored)
    BY <1>1, <1>3 DEF Read, TypeOK
  <2>2. \A b \in Block : phase[b] # "stored"
    BY <2>1, OneAtWork DEF SlotsInv, PublishedInv, StoredByOne
  <2>3. BroughtUpToDate(home[w])
    BY <1>1, <1>2, <2>2 DEF PublishedInv, NothingUnpublished
  <2> QED
    BY <1>2, <2>1, <2>3, BlockReadsStored
<1>4. ASSUME ~Read(w) PROVE phase[w] = "read" /\ base'[w] = base[w] /\ stored' = stored
  <2>1. ASSUME NEW b \in Block, Read(b)
        PROVE  phase[w] = "read" /\ base'[w] = base[w] /\ stored' = stored
    BY <1>1, <1>4, <2>1 DEF Read, Goto, TypeOK
  <2>2. ASSUME NEW b \in Block, Commit(b) PROVE FALSE
    <3>1. b \in Writer /\ phase[b] = "read" /\ phase' = [phase EXCEPT ![b] = "stored"]
      BY <2>2 DEF Commit, Goto
    <3>2. w # b /\ phase[w] = "read"
      BY <1>1, <3>1 DEF TypeOK
    <3> QED
      BY <1>1, <3>1, <3>2, OneAtWork DEF SlotsInv
  <2>3. ASSUME NEW b \in Block, CallBlock(b) \/ Publish(b) \/ Finish(b) \/ Release(b)
        PROVE  phase[w] = "read" /\ base'[w] = base[w] /\ stored' = stored
    <3>1. /\ stored' = stored /\ base' = base
          /\ \E label \in {"refused", "waiting", "published", "ended", "done"} :
               phase' = [phase EXCEPT ![b] = label]
      BY <2>3 DEF CallBlock, Publish, Finish, Release, Goto, dataVars
    <3> QED
      BY <1>1, <3>1 DEF TypeOK
  <2>4. ASSUME NEW c \in Context, Receive(c)
        PROVE  phase[w] = "read" /\ base'[w] = base[w] /\ stored' = stored
    <3>1. /\ stored' = stored /\ base' = base
          /\ phase' = phase \/ phase' = [phase EXCEPT ![Head(inbox[c]).of] = "queued"]
      BY <2>4 DEF Receive, Goto, dataVars
    <3> QED
      BY <1>1, <3>1 DEF TypeOK
  <2>5. ASSUME \/ GrantSlot \/ UNCHANGED vars
               \/ \E c \in Context : \/ ApplyExternalChanges(c) \/ StartFetch(c)
                                    \/ FinishFetch(c) \/ RequestClose(c) \/ CloseStep(c)
        PROVE  phase[w] = "read" /\ base'[w] = base[w] /\ stored' = stored
    BY <2>5
       DEF GrantSlot, ApplyExternalChanges, StartFetch, FinishFetch, RequestClose,
           CloseStep, EnterBarrier, StartTeardown, CloseDriver, CloseStage, vars, dataVars,
           blockVars
  <2> QED
    BY <2>1, <2>2, <2>3, <2>4, <2>5 DEF Next, BlockStep
<1> QED
  BY <1>2, <1>3, <1>4 DEF OpenBlocksReadFresh

\* A block of an open tab reads the latest record, whatever the tabs, the blocks and the order in which grants, broadcasts and fetches arrive.
THEOREM OpenBlocksAlwaysReadFresh == Spec => []OpenBlocksReadFresh
<1>1. Init => FreshInv
  <2> SUFFICES ASSUME Init PROVE FreshInv
    OBVIOUS
  <2>1. \A c \in Context : Stream(c) = <<>>
    BY ConcatEmptySeq, EmptySeq DEF Init, Stream
  <2>2. \A c \in Context, k \in Nat, kind \in {"block", "apply"} : ~IsItem(Stream(c), k, kind)
    BY <2>1 DEF IsItem
  <2> QED
    BY <2>2, SharedConstants
       DEF Init, FreshInv, UpcomingInv, OrderInv, PublishedInv, StoredByOne,
           NothingUnpublished, OpenBlocksReadFresh, BroughtUpToDate, NoChangeComes
<1>2. /\ TypeOK /\ FrontInv /\ SlotsInv /\ FreshInv /\ [Next]_vars
      => FreshInv'
  BY UpcomingStep, OrderStep, PublishedStep, ReadFreshStep DEF FreshInv, PublishedInv
<1>3. Init => SlotsInv
  BY DEF Init, SlotsInv, HoldersInv, RequestsInv, GrantsInv, IsGrant, AcceptedPhases
<1>4. FreshInv => OpenBlocksReadFresh
  BY DEF FreshInv
<1> QED
  BY <1>1, <1>2, <1>3, <1>4, SharedTypeCorrect, SlotsStep, PTL DEF Spec

-----------------------------------------------------------------------------
(***************************************************************************)
(* SharedDatabase implements AtomicBlocks.                                 *)
(***************************************************************************)
\* The blocks a step leaves where they were have not happened in it.
LEMMA HappenedKept ==
  ASSUME TypeOK, NEW b \in Block, NEW from, NEW to,
         phase[b] = from, phase' = [phase EXCEPT ![b] = to],
         \A x \in Block : x # b => base'[x] = base[x],
         \/ /\ {from, to} \subseteq {"stored", "published", "ended", "done"}
            /\ base' = base
         \/ {from, to} \cap {"stored", "published", "ended", "done"} = {}
  PROVE  \A x \in Block : Happened(x)' = Happened(x)
BY DEF Happened, TypeOK

\* A step in which no block happens, no tab begins to close and nothing is stored.
LEMMA QuietIsStutter ==
  ASSUME stored' = stored, \A x \in Block : Happened(x)' = Happened(x),
         \A x \in Block : (closing'[home'[x]] # "open") <=> (closing[home[x]] # "open")
  PROVE  UNCHANGED Atomic!vars
<1>1. [x \in Block |-> Happened(x)]' = [x \in Block |-> Happened(x)]
  OBVIOUS
<1>2. {x \in Block : closing[home[x]] # "open"}' = {x \in Block : closing[home[x]] # "open"}
  OBVIOUS
<1> QED
  BY <1>1, <1>2 DEF Atomic!vars

\* A block that ends or commits happens, in a tab that is leaving or to the record.
LEMMA BlockHappens ==
  ASSUME TypeOK, OpenBlocksReadFresh, NEW b \in Block, phase[b] = "read",
         NEW to \in {"stored", "ended"}, phase' = [phase EXCEPT ![b] = to],
         UNCHANGED <<base, home, closing>>
  PROVE  Atomic!Happen(b) /\ Happened(b)' = base[b]
<1> DEFINE seen == [x \in Block |-> Happened(x)]
           leaving == {x \in Block : closing[home[x]] # "open"}
<1>1. Happened(b) = None /\ Happened(b)' = base[b] /\ base[b] \in Nat
  BY DEF Happened, TypeOK, Inside
<1>2. \A x \in Block : x # b => Happened(x)' = Happened(x)
  BY DEF Happened, TypeOK
<1>3. seen' = [seen EXCEPT ![b] = seen'[b]]
  BY <1>2
<1>4. leaving' = leaving
  OBVIOUS
<1>5. b \notin leaving => base[b] = stored
  BY DEF OpenBlocksReadFresh
<1>6. seen[b] = None /\ seen'[b] = base[b]
  BY <1>1
<1> QED
  BY <1>1, <1>3, <1>4, <1>5, <1>6 DEF Atomic!Happen, Atomic!None, None

\* Every step is one of the abstract blocks', or nothing.
LEMMA AtomicStep ==
  TypeOK /\ SlotsInv /\ OpenBlocksReadFresh /\ [Next]_vars => [Atomic!Next]_(Atomic!vars)
<1> SUFFICES ASSUME TypeOK, SlotsInv, OpenBlocksReadFresh, [Next]_vars
             PROVE  Atomic!Next \/ UNCHANGED Atomic!vars
  OBVIOUS
<1> DEFINE seen == [x \in Block |-> Happened(x)]
           leaving == {x \in Block : closing[home[x]] # "open"}
<1>1. ASSUME NEW b \in Block, Commit(b) PROVE Atomic!Write(b)
  <2>1. /\ b \in Writer /\ phase[b] = "read" /\ stored' = base[b] + 1
        /\ phase' = [phase EXCEPT ![b] = "stored"] /\ UNCHANGED <<base, home, closing>>
    BY <1>1 DEF Commit, Goto
  <2>2. Atomic!Happen(b) /\ Happened(b)' = base[b]
    BY <2>1, BlockHappens
  <2>3. seen'[b] = base[b]
    BY <2>2
  <2> QED
    BY <2>1, <2>2, <2>3 DEF Atomic!Write
<1>2. ASSUME NEW b \in Block, Finish(b), phase[b] = "read" PROVE Atomic!Look(b)
  <2>1. /\ stored' = stored /\ phase' = [phase EXCEPT ![b] = "ended"]
        /\ UNCHANGED <<base, home, closing>>
    BY <1>2 DEF Finish, Goto, dataVars
  <2> QED
    BY <1>2, <2>1, BlockHappens DEF Atomic!Look
<1>3. ASSUME NEW b \in Block,
             \/ CallBlock(b) \/ Read(b) \/ Publish(b) \/ Release(b)
             \/ Finish(b) /\ phase[b] # "read"
      PROVE  UNCHANGED Atomic!vars
  <2>1. stored' = stored /\ home' = home /\ closing' = closing
    BY <1>3 DEF CallBlock, Read, Publish, Release, Finish, dataVars
  <2>2. \E from \in Phases, to \in Phases :
          /\ phase[b] = from /\ phase' = [phase EXCEPT ![b] = to]
          /\ \A x \in Block : x # b => base'[x] = base[x]
          /\ \/ /\ {from, to} \subseteq {"stored", "published", "ended", "done"}
                /\ base' = base
             \/ {from, to} \cap {"stored", "published", "ended", "done"} = {}
    BY <1>3 DEF CallBlock, Read, Publish, Release, Finish, Goto, dataVars, TypeOK, Phases,
                AcceptedPhases
  <2>3. \A x \in Block : Happened(x)' = Happened(x)
    BY <2>2, HappenedKept
  <2> QED
    BY <2>1, <2>3, QuietIsStutter
<1>4. ASSUME NEW c \in Context, Receive(c) PROVE UNCHANGED Atomic!vars
  <2>1. stored' = stored /\ home' = home /\ closing' = closing /\ base' = base
    BY <1>4 DEF Receive, dataVars
  <2>2. \A x \in Block : Happened(x)' = Happened(x)
    BY <1>4, <2>1, ReceivedPhases DEF Happened, TypeOK
  <2> QED
    BY <2>1, <2>2, QuietIsStutter
<1>5. ASSUME NEW c \in Context, RequestClose(c) PROVE Atomic!Next
  <2>1. /\ stored' = stored /\ home' = home /\ phase' = phase /\ base' = base
        /\ \A x \in Context : closing[x] # "open" => closing'[x] # "open"
    BY <1>5 DEF RequestClose, CloseStage, dataVars, blockVars, TypeOK
  <2>2. leaving \subseteq leaving' /\ seen' = seen
    BY <2>1 DEF TypeOK, Happened
  <2> QED
    BY <2>1, <2>2 DEF Atomic!Next, Atomic!Leave
<1>6. ASSUME NEW c \in Context, CloseStep(c) PROVE UNCHANGED Atomic!vars
  <2>1. /\ stored' = stored /\ home' = home /\ phase' = phase /\ base' = base
        /\ \A x \in Context : closing[x] # "open" <=> closing'[x] # "open"
    BY <1>6
       DEF CloseStep, EnterBarrier, StartTeardown, CloseDriver, CloseStage, dataVars,
           blockVars, TypeOK
  <2> QED
    BY <2>1, QuietIsStutter DEF TypeOK, Happened
<1>7. ASSUME \/ GrantSlot \/ UNCHANGED vars
             \/ \E c \in Context : ApplyExternalChanges(c) \/ StartFetch(c) \/ FinishFetch(c)
      PROVE  UNCHANGED Atomic!vars
  <2>1. stored' = stored /\ home' = home /\ phase' = phase /\ base' = base
        /\ closing' = closing
    BY <1>7
       DEF GrantSlot, ApplyExternalChanges, StartFetch, FinishFetch, vars, dataVars, blockVars
  <2> QED
    BY <2>1, QuietIsStutter DEF Happened
<1> QED
  BY <1>1, <1>2, <1>3, <1>4, <1>5, <1>6, <1>7 DEF Next, BlockStep, Atomic!Next

\* For any number of tabs and blocks: the blocks happen one at a time, in an order
\* in which each reads what those before it left, unless its tab is closing.
THEOREM BlocksAlwaysAtomic == Spec => BlocksAreAtomic
<1>1. Init => Atomic!Init
  <2> SUFFICES ASSUME Init PROVE Atomic!Init
    OBVIOUS
  <2>1. \A b \in Block : Happened(b) = None /\ closing[home[b]] = "open"
    BY DEF Init, Happened
  <2>2. [b \in Block |-> Happened(b)] = [b \in Block |-> None]
    BY <2>1
  <2>3. {b \in Block : closing[home[b]] # "open"} = {}
    BY <2>1
  <2> QED
    BY <2>2, <2>3 DEF Init, Atomic!Init, Atomic!None, None
<1>2. Init => SlotsInv
  BY DEF Init, SlotsInv, HoldersInv, RequestsInv, GrantsInv, IsGrant, AcceptedPhases
<1> QED
  BY <1>1, <1>2, AtomicStep, SharedTypeCorrect, SlotsStep, OpenBlocksAlwaysReadFresh, PTL
     DEF Spec, BlocksAreAtomic, Atomic!Spec

=============================================================================
