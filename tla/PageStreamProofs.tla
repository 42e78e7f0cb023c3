-------------------------- MODULE PageStreamProofs --------------------------
(***************************************************************************)
(* Machine-checked proofs about PageStream: what a listing yields, for      *)
(* every finite set of documents, every page size and any edits.            *)
(***************************************************************************)
EXTENDS PageStream, FiniteSetTheorems, TLAPS

Listing == state \in {"idle", "pending"}

\* The documents the stream has yielded.
Yielded == UNION {items[i].docs : i \in DOMAIN items}

\* The inductive invariant: the cursor separates what was yielded from what is to come.

\* A stream that is listing has yielded pages only, and its fetches start at a cursor.
Standing ==
  /\ Listing => \A i \in DOMAIN items : items[i].kind = "page"
  /\ Listing /\ first => items = <<>>
  /\ state = "pending" => first \/ cursor # None
  /\ reply # None => reply.kind \in {"page", "error"}

\* Everything yielded lies up to the cursor.
YieldedBelowCursor ==
  Listing /\ cursor # None => \A d \in Yielded : d <= cursor

\* Every undisturbed document up to the cursor was yielded, and all of them at the end.
NothingMissedSoFar ==
  Listing /\ ~first => \A d \in stable : cursor = None \/ d <= cursor => d \in Yielded

\* A page that is waiting to be delivered continues at the cursor up to its own.
ReplyContinues ==
  state = "pending" /\ reply # None /\ reply.kind = "page" =>
    /\ \A d \in reply.docs : /\ cursor # None => cursor < d
                             /\ reply.next # None => d <= reply.next
    /\ cursor # None /\ reply.next # None => cursor < reply.next
    /\ \A d \in stable :
         (cursor = None \/ cursor < d) /\ (reply.next = None \/ d <= reply.next) =>
           d \in reply.docs

IInv ==
  /\ TypeOK
  /\ Standing
  /\ YieldedBelowCursor
  /\ NothingMissedSoFar
  /\ ReplyContinues
  /\ PagesInOrder
  /\ NothingMissed
-----------------------------------------------------------------------------
(* What a poll that is ready appends. *)

\* A stream that has yielded no item has yielded no document.
LEMMA NoItems ==
  ASSUME items = <<>>
  PROVE  DOMAIN items = {} /\ Yielded = {}
<1>1. items \in Seq(Replies) /\ Len(items) = 0
  OBVIOUS
<1>2. DOMAIN items = 1..0
  BY <1>1
<1>3. QED
  BY <1>2 DEF Yielded

\* The items before an appended one stay where they were, and its documents join theirs.
LEMMA AppendedItem ==
  ASSUME items \in Seq(Replies), NEW item \in Replies, items' = Append(items, item)
  PROVE  /\ items' \in Seq(Replies)
         /\ DOMAIN items = 1..Len(items) /\ DOMAIN items' = 1..(Len(items) + 1)
         /\ Len(items) \in Nat
         /\ \A i \in DOMAIN items : items'[i] = items[i]
         /\ items'[Len(items) + 1] = item
         /\ Yielded' = Yielded \cup item.docs
<1>1. /\ items' \in Seq(Replies)
      /\ DOMAIN items = 1..Len(items) /\ DOMAIN items' = 1..(Len(items) + 1)
      /\ Len(items) \in Nat
      /\ \A i \in DOMAIN items : items'[i] = items[i]
      /\ items'[Len(items) + 1] = item
  OBVIOUS
<1>2. ASSUME NEW d
      PROVE  d \in Yielded' <=> d \in Yielded \cup item.docs
  <2>1. \A i \in DOMAIN items' : i \in DOMAIN items \/ i = Len(items) + 1
    BY <1>1
  <2>2. \A i \in DOMAIN items : i \in DOMAIN items'
    BY <1>1
  <2>3. Len(items) + 1 \in DOMAIN items'
    BY <1>1
  <2>4. QED
    BY <1>1, <2>1, <2>2, <2>3 DEF Yielded
<1>3. QED
  BY <1>1, <1>2

\* An item without documents puts nothing out of order.
LEMMA EmptyItem ==
  ASSUME items \in Seq(Replies), NEW item \in Replies, items' = Append(items, item),
         item.docs = {}, PagesInOrder
  PROVE  /\ items' \in Seq(Replies)
         /\ PagesInOrder'
         /\ Yielded' = Yielded
         /\ \A i \in DOMAIN items : i \in DOMAIN items' /\ items'[i] = items[i]
         /\ \E i \in DOMAIN items' : items'[i] = item
<1>1. PagesInOrder'
  <2>1. SUFFICES ASSUME NEW i \in DOMAIN items', NEW j \in DOMAIN items', i < j,
                        NEW d \in items'[i].docs, NEW e \in items'[j].docs
                 PROVE  d < e
    BY DEF PagesInOrder
  <2>2. j # Len(items) + 1
    OBVIOUS
  <2>3. i \in DOMAIN items /\ j \in DOMAIN items
    BY <2>1, <2>2
  <2>4. QED
    BY <2>1, <2>3 DEF PagesInOrder
<1>2. \A i \in DOMAIN items : i \in DOMAIN items' /\ items'[i] = items[i]
  OBVIOUS
<1>3. \E i \in DOMAIN items' : items'[i] = item
  OBVIOUS
<1>4. items' \in Seq(Replies) /\ Yielded' = Yielded \cup item.docs
  BY AppendedItem
<1>5. QED
  BY <1>1, <1>2, <1>3, <1>4
-----------------------------------------------------------------------------
(* The invariant holds initially and every step preserves it. *)

\* PageStream::new starts at the first page with nothing yielded.
LEMMA InitEstablishes ==
  Init => IInv
<1>1. SUFFICES ASSUME Init PROVE IInv
  OBVIOUS
<1>2. DOMAIN items = {} /\ Yielded = {}
  BY <1>1, NoItems DEF Init
<1>3. TypeOK
  <2>1. items \in Seq(Replies)
    BY <1>1 DEF Init
  <2>2. edits \in 0..MaxEdits
    BY <1>1, ConstantsAssumption DEF Init
  <2>3. QED
    BY <1>1, <2>1, <2>2 DEF Init, TypeOK
<1>4. Standing /\ YieldedBelowCursor /\ NothingMissedSoFar /\ ReplyContinues
  BY <1>1, <1>2
  DEF Init, Standing, YieldedBelowCursor, NothingMissedSoFar, ReplyContinues
<1>5. PagesInOrder /\ NothingMissed
  BY <1>1, <1>2 DEF Init, PagesInOrder, NothingMissed
<1>6. QED
  BY <1>3, <1>4, <1>5 DEF IInv

\* Nothing the invariant relates changes when the consumer comes, goes or drops the stream.
LEMMA ConsumerPreserves ==
  IInv /\ (Await \/ StopAwaiting \/ DropStream) => IInv'
<1>1. SUFFICES ASSUME IInv, Await \/ StopAwaiting \/ DropStream PROVE IInv'
  OBVIOUS
<1>2. /\ UNCHANGED <<cursor, first, reply, items, docs, edits, stable>>
      /\ state' = state \/ state' = "dropped"
      /\ polling' \in BOOLEAN /\ (polling' => state' # "dropped")
  BY <1>1 DEF Await, StopAwaiting, DropStream
<1>3. TypeOK'
  BY <1>1, <1>2 DEF IInv, TypeOK
<1>4. Yielded' = Yielded
  BY <1>2 DEF Yielded
<1>5. Standing' /\ YieldedBelowCursor' /\ NothingMissedSoFar'
  BY <1>1, <1>2, <1>4
  DEF IInv, Standing, YieldedBelowCursor, NothingMissedSoFar, Listing
<1>6. ReplyContinues'
  BY <1>1, <1>2 DEF IInv, ReplyContinues
<1>7. PagesInOrder' /\ NothingMissed'
  BY <1>1, <1>2 DEF IInv, PagesInOrder, NothingMissed
<1>8. QED
  BY <1>3, <1>5, <1>6, <1>7 DEF IInv

\* A fetch starts at the cursor, or at the beginning if it is the first.
LEMMA FetchPreserves ==
  IInv /\ Fetch => IInv'
<1>1. SUFFICES ASSUME IInv, Fetch PROVE IInv'
  OBVIOUS
<1>2. UNCHANGED <<cursor, first, polling, items, docs, edits, stable>>
      /\ state = "idle" /\ state' = "pending" /\ reply' = None
      /\ (first \/ cursor # None)
  BY <1>1 DEF Fetch, Exhausted
<1>3. TypeOK'
  BY <1>1, <1>2 DEF IInv, TypeOK
<1>4. Yielded' = Yielded
  BY <1>2 DEF Yielded
<1>5. Standing' /\ YieldedBelowCursor' /\ NothingMissedSoFar' /\ ReplyContinues'
  BY <1>1, <1>2, <1>4
  DEF IInv, Standing, YieldedBelowCursor, NothingMissedSoFar, ReplyContinues, Listing
<1>6. PagesInOrder' /\ NothingMissed'
  BY <1>1, <1>2 DEF IInv, PagesInOrder, NothingMissed
<1>7. QED
  BY <1>3, <1>5, <1>6 DEF IInv

\* The end is reported when every undisturbed document was yielded.
LEMMA FinishPreserves ==
  IInv /\ Finish => IInv'
<1>1. SUFFICES ASSUME IInv, Finish PROVE IInv'
  OBVIOUS
<1>2. UNCHANGED <<cursor, first, reply, docs, edits, stable>>
      /\ state = "idle" /\ state' = "done" /\ ~first /\ cursor = None
      /\ items' = Append(items, End) /\ polling' = FALSE
  BY <1>1 DEF Finish, Exhausted, Yield
<1>3. End \in Replies /\ End.docs = {} /\ items \in Seq(Replies)
  BY <1>1 DEF End, Replies, IInv, TypeOK
<1>4. /\ items' \in Seq(Replies) /\ PagesInOrder' /\ Yielded' = Yielded
  BY <1>1, <1>2, <1>3, EmptyItem DEF IInv
<1>5. TypeOK'
  BY <1>1, <1>2, <1>4 DEF IInv, TypeOK
<1>6. Standing' /\ YieldedBelowCursor' /\ NothingMissedSoFar' /\ ReplyContinues'
  BY <1>1, <1>2
  DEF IInv, Standing, YieldedBelowCursor, NothingMissedSoFar, ReplyContinues, Listing
<1>7. \A d \in stable : d \in Yielded'
  BY <1>1, <1>2, <1>4 DEF IInv, NothingMissedSoFar, Listing
<1>8. NothingMissed'
  BY <1>2, <1>7 DEF NothingMissed, Yielded
<1>9. QED
  BY <1>4, <1>5, <1>6, <1>8 DEF IInv

\* An error is yielded, and with it nothing is promised.
LEMMA DeliverErrorPreserves ==
  IInv /\ DeliverError => IInv'
<1>1. SUFFICES ASSUME IInv, DeliverError PROVE IInv'
  OBVIOUS
<1>2. UNCHANGED <<cursor, first, reply, docs, edits, stable>>
      /\ state' = "done" /\ items' = Append(items, Failed) /\ polling' = FALSE
  BY <1>1 DEF DeliverError, Yield
<1>3. Failed \in Replies /\ Failed.docs = {} /\ items \in Seq(Replies)
  BY <1>1 DEF Failed, Replies, IInv, TypeOK
<1>4. /\ items' \in Seq(Replies) /\ PagesInOrder'
      /\ \E i \in DOMAIN items' : items'[i] = Failed
  BY <1>1, <1>2, <1>3, EmptyItem DEF IInv
<1>5. TypeOK'
  BY <1>1, <1>2, <1>4 DEF IInv, TypeOK
<1>6. Standing' /\ YieldedBelowCursor' /\ NothingMissedSoFar' /\ ReplyContinues'
  BY <1>1, <1>2
  DEF IInv, Standing, YieldedBelowCursor, NothingMissedSoFar, ReplyContinues, Listing
<1>7. NothingMissed'
  BY <1>4 DEF NothingMissed, Failed
<1>8. QED
  BY <1>4, <1>5, <1>6, <1>7 DEF IInv

\* A stream that is done yields ends, which are no documents.
LEMMA PollDonePreserves ==
  IInv /\ PollDone => IInv'
<1>1. SUFFICES ASSUME IInv, PollDone PROVE IInv'
  OBVIOUS
<1>2. UNCHANGED <<state, cursor, first, reply, docs, edits, stable>>
      /\ state = "done" /\ items' = Append(items, End) /\ polling' = FALSE
  BY <1>1 DEF PollDone, Yield
<1>3. End \in Replies /\ End.docs = {} /\ items \in Seq(Replies)
  BY <1>1 DEF End, Replies, IInv, TypeOK
<1>4. /\ items' \in Seq(Replies) /\ PagesInOrder'
      /\ \A i \in DOMAIN items : i \in DOMAIN items' /\ items'[i] = items[i]
  BY <1>1, <1>2, <1>3, EmptyItem DEF IInv
<1>5. TypeOK'
  BY <1>1, <1>2, <1>4 DEF IInv, TypeOK
<1>6. Standing' /\ YieldedBelowCursor' /\ NothingMissedSoFar' /\ ReplyContinues'
  BY <1>1, <1>2
  DEF IInv, Standing, YieldedBelowCursor, NothingMissedSoFar, ReplyContinues, Listing
<1>7. NothingMissed'
  BY <1>1, <1>2, <1>4 DEF IInv, NothingMissed
<1>8. QED
  BY <1>4, <1>5, <1>6, <1>7 DEF IInv

\* A page continues at the cursor, and its own cursor is where the next one starts.
LEMMA DeliverPagePreserves ==
  IInv /\ DeliverPage => IInv'
<1>1. SUFFICES ASSUME IInv, DeliverPage PROVE IInv'
  OBVIOUS
<1>2. UNCHANGED <<reply, docs, edits, stable>>
      /\ state = "pending" /\ state' = "idle" /\ reply # None /\ reply.kind = "page"
      /\ cursor' = reply.next /\ first' = FALSE
      /\ items' = Append(items, reply) /\ polling' = FALSE
  BY <1>1 DEF DeliverPage, Yield
<1>3. /\ reply \in Replies /\ reply.docs \subseteq Docs /\ reply.next \in Docs \cup {None}
      /\ items \in Seq(Replies) /\ stable \subseteq Docs /\ cursor \in Docs \cup {None}
      /\ Docs \subseteq Nat /\ None \notin Nat
  BY <1>1, <1>2, ConstantsAssumption DEF IInv, TypeOK, Replies
<1>4. /\ items' \in Seq(Replies)
      /\ DOMAIN items = 1..Len(items) /\ DOMAIN items' = 1..(Len(items) + 1)
      /\ Len(items) \in Nat
      /\ \A i \in DOMAIN items : items'[i] = items[i]
      /\ items'[Len(items) + 1] = reply
      /\ Yielded' = Yielded \cup reply.docs
  BY <1>2, <1>3, AppendedItem
<1>5. TypeOK'
  BY <1>1, <1>2, <1>3, <1>4 DEF IInv, TypeOK
<1>6. Standing'
  <2>1. ASSUME NEW i \in DOMAIN items' PROVE items'[i].kind = "page"
    <3>1. i \in DOMAIN items \/ i = Len(items) + 1
      BY <1>4
    <3>2. QED
      BY <3>1, <1>1, <1>2, <1>4 DEF IInv, Standing, Listing
  <2>2. QED
    BY <1>1, <1>2, <2>1 DEF Standing
<1>7. \A d \in Yielded : cursor # None /\ d <= cursor
  <2>1. SUFFICES ASSUME NEW d \in Yielded PROVE cursor # None
    BY <1>1, <1>2 DEF IInv, YieldedBelowCursor, Listing
  <2>2. items # <<>>
    BY <2>1, NoItems
  <2>3. QED
    BY <1>1, <1>2, <2>2 DEF IInv, Standing, Listing
<1>8. Yielded \subseteq Docs
  <2>1. ASSUME NEW i \in DOMAIN items PROVE items[i].docs \subseteq Docs
    <3>1. items[i] \in Replies
      BY <1>3, <1>4
    <3>2. QED
      BY <3>1 DEF Replies
  <2>2. QED
    BY <2>1 DEF Yielded
<1>9. YieldedBelowCursor'
  <2>1. SUFFICES ASSUME reply.next # None, NEW d \in Yielded' PROVE d <= reply.next
    BY <1>2 DEF YieldedBelowCursor
  <2>2. CASE d \in reply.docs
    BY <1>1, <1>2, <2>1, <2>2 DEF IInv, ReplyContinues
  <2>3. CASE d \in Yielded
    <3>1. cursor # None /\ d <= cursor /\ cursor < reply.next
      BY <1>1, <1>2, <1>7, <2>1, <2>3 DEF IInv, ReplyContinues
    <3>2. d \in Nat /\ cursor \in Nat /\ reply.next \in Nat
      BY <1>3, <1>8, <2>1, <2>3, <3>1
    <3>3. QED
      BY <3>1, <3>2
  <2>4. QED
    BY <1>4, <2>1, <2>2, <2>3
<1>10. NothingMissedSoFar'
  <2>1. SUFFICES ASSUME NEW d \in stable, reply.next = None \/ d <= reply.next
                 PROVE  d \in Yielded \cup reply.docs
    BY <1>2, <1>4 DEF NothingMissedSoFar
  <2>2. CASE cursor = None \/ cursor < d
    BY <1>1, <1>2, <2>1, <2>2 DEF IInv, ReplyContinues
  <2>3. CASE cursor # None /\ ~(cursor < d)
    <3>1. d <= cursor /\ ~first
      BY <1>1, <1>3, <2>1, <2>3 DEF IInv, TypeOK
    <3>2. QED
      BY <1>1, <1>2, <2>1, <3>1 DEF IInv, NothingMissedSoFar, Listing
  <2>4. QED
    BY <2>2, <2>3
<1>11. PagesInOrder'
  <2>1. SUFFICES ASSUME NEW i \in DOMAIN items', NEW j \in DOMAIN items', i < j,
                        NEW d \in items'[i].docs, NEW e \in items'[j].docs
                 PROVE  d < e
    BY DEF PagesInOrder
  <2>2. i \in DOMAIN items /\ items'[i] = items[i]
    BY <1>4, <2>1
  <2>3. CASE j \in DOMAIN items
    BY <1>1, <1>4, <2>1, <2>2, <2>3 DEF IInv, PagesInOrder
  <2>4. CASE j = Len(items) + 1
    <3>1. d \in Yielded /\ e \in reply.docs
      BY <1>4, <2>1, <2>2, <2>4 DEF Yielded
    <3>2. cursor # None /\ d <= cursor /\ cursor < e
      BY <1>1, <1>2, <1>7, <3>1 DEF IInv, ReplyContinues
    <3>3. d \in Nat /\ cursor \in Nat /\ e \in Nat
      BY <1>3, <1>8, <3>1, <3>2
    <3>4. QED
      BY <3>2, <3>3
  <2>5. QED
    BY <1>4, <2>3, <2>4
<1>12. ReplyContinues' /\ NothingMissed'
  BY <1>2 DEF ReplyContinues, NothingMissed
<1>13. QED
  BY <1>5, <1>6, <1>9, <1>10, <1>11, <1>12 DEF IInv

\* A page of the server's holds every document between the cursor and its last one.
LEMMA LowestIsInitial ==
  ASSUME NEW ds \in SUBSET Nat, IsFiniteSet(ds), NEW next \in Lowest(ds, PageSize),
         NEW d \in ds, d <= next
  PROVE  d \in Lowest(ds, PageSize)
<1> DEFINE Below(x) == {e \in ds : e < x}
<1>1. next \in ds /\ Cardinality(Below(next)) < PageSize
  BY DEF Lowest
<1>2. Below(d) \subseteq Below(next)
  <2>1. SUFFICES ASSUME NEW e \in ds, e < d PROVE e < next
    OBVIOUS
  <2>2. e \in Nat /\ d \in Nat /\ next \in Nat /\ d <= next
    BY <1>1
  <2>3. QED
    BY <2>1, <2>2
<1>3. IsFiniteSet(Below(next))
  BY FS_Subset
<1>4. /\ Cardinality(Below(d)) \in Nat /\ Cardinality(Below(next)) \in Nat
      /\ Cardinality(Below(d)) <= Cardinality(Below(next))
  BY <1>2, <1>3, FS_Subset, FS_CardinalityType
<1>5. Cardinality(Below(d)) < PageSize
  BY <1>1, <1>4, ConstantsAssumption
<1>6. QED
  BY <1>5 DEF Lowest

\* The server's page continues at the cursor.
LEMMA AnswerPreserves ==
  IInv /\ Answer => IInv'
<1>1. SUFFICES ASSUME IInv, Answer PROVE IInv'
  OBVIOUS
<1> DEFINE ds == Lowest(Remaining(cursor), PageSize)
<1>2. PICK next \in {None} \cup ds :
        /\ next = None => ds = Remaining(cursor)
        /\ next # None => \A d \in ds : d <= next
        /\ reply' = Page(ds, next)
  BY <1>1 DEF Answer
<1>3. UNCHANGED <<state, cursor, first, polling, items, docs, edits, stable>>
      /\ state = "pending"
  BY <1>1 DEF Answer
<1>4. /\ docs \subseteq Docs /\ Docs \subseteq Nat /\ IsFiniteSet(Docs) /\ None \notin Nat
      /\ stable \subseteq docs
  BY <1>1, ConstantsAssumption DEF IInv, TypeOK
<1>5. ds \subseteq Remaining(cursor) /\ Remaining(cursor) \subseteq docs
  BY DEF Lowest, Remaining
<1>6. reply' \in Replies /\ reply'.kind = "page" /\ reply'.docs = ds /\ reply'.next = next
  BY <1>2, <1>4, <1>5 DEF Page, Replies
<1>7. TypeOK'
  BY <1>1, <1>3, <1>6 DEF IInv, TypeOK
<1>8. Yielded' = Yielded
  BY <1>3 DEF Yielded
<1>9. Standing' /\ YieldedBelowCursor' /\ NothingMissedSoFar'
  BY <1>1, <1>3, <1>6, <1>8
  DEF IInv, Standing, YieldedBelowCursor, NothingMissedSoFar, Listing
<1>10. PagesInOrder' /\ NothingMissed'
  BY <1>1, <1>3 DEF IInv, PagesInOrder, NothingMissed
<1>11. ReplyContinues'
  <2>1. \A d \in ds : cursor # None => cursor < d
    BY <1>5 DEF Remaining
  <2>2. ASSUME NEW d \in stable, cursor = None \/ cursor < d, next = None \/ d <= next
        PROVE  d \in ds
    <3>1. d \in Remaining(cursor)
      BY <1>4, <2>2 DEF Remaining
    <3>2. CASE next = None
      BY <1>2, <3>1, <3>2
    <3>3. CASE next # None
      <4>1. next \in ds /\ d <= next
        BY <1>2, <1>4, <1>5, <2>2, <3>3
      <4>2. Remaining(cursor) \in SUBSET Nat /\ IsFiniteSet(Remaining(cursor))
        BY <1>4, <1>5, FS_Subset
      <4>3. QED
        BY <3>1, <4>1, <4>2, LowestIsInitial
    <3>4. QED
      BY <3>2, <3>3
  <2>3. QED
    BY <1>2, <1>3, <1>6, <2>1, <2>2 DEF ReplyContinues
<1>12. QED
  BY <1>7, <1>9, <1>10, <1>11 DEF IInv

\* A fetch that fails brings no page.
LEMMA FetchFailsPreserves ==
  IInv /\ FetchFails => IInv'
<1>1. SUFFICES ASSUME IInv, FetchFails PROVE IInv'
  OBVIOUS
<1>2. UNCHANGED <<state, cursor, first, polling, items, docs, edits, stable>>
      /\ reply' = Failed
  BY <1>1 DEF FetchFails
<1>3. Failed \in Replies /\ Failed.kind = "error"
  BY DEF Failed, Replies
<1>4. TypeOK'
  BY <1>1, <1>2, <1>3 DEF IInv, TypeOK
<1>5. Yielded' = Yielded
  BY <1>2 DEF Yielded
<1>6. Standing' /\ YieldedBelowCursor' /\ NothingMissedSoFar' /\ ReplyContinues'
  BY <1>1, <1>2, <1>3, <1>5
  DEF IInv, Standing, YieldedBelowCursor, NothingMissedSoFar, ReplyContinues, Listing
<1>7. PagesInOrder' /\ NothingMissed'
  BY <1>1, <1>2 DEF IInv, PagesInOrder, NothingMissed
<1>8. QED
  BY <1>4, <1>6, <1>7 DEF IInv

\* An edit takes its document from the undisturbed ones, and changes no item.
LEMMA EditPreserves ==
  ASSUME IInv, NEW d \in Docs, Edit(d)
  PROVE  IInv'
<1>1. /\ UNCHANGED <<state, cursor, first, reply, polling, items>>
      /\ state # "done" /\ docs' \subseteq Docs /\ edits' \in 0..MaxEdits
      /\ stable' \subseteq docs'
      /\ (first /\ state = "idle") \/ stable' \subseteq stable
  BY ConstantsAssumption DEF IInv, TypeOK, Edit
<1>2. TypeOK'
  BY <1>1 DEF IInv, TypeOK
<1>3. Yielded' = Yielded
  BY <1>1 DEF Yielded
<1>4. Standing' /\ YieldedBelowCursor'
  BY <1>1, <1>3 DEF IInv, Standing, YieldedBelowCursor, Listing
<1>5. NothingMissedSoFar'
  BY <1>1, <1>3 DEF IInv, NothingMissedSoFar, Listing
<1>6. ReplyContinues'
  BY <1>1 DEF IInv, ReplyContinues
<1>7. PagesInOrder' /\ NothingMissed'
  BY <1>1 DEF IInv, PagesInOrder, NothingMissed
<1>8. QED
  BY <1>2, <1>4, <1>5, <1>6, <1>7 DEF IInv

\* Every step of the stream, its consumer and the server preserves the invariant.
LEMMA NextPreserves ==
  IInv /\ [Next]_vars => IInv'
<1>1. SUFFICES ASSUME IInv, [Next]_vars PROVE IInv'
  OBVIOUS
<1>2. CASE Poll
  BY <1>1, <1>2, FetchPreserves, FinishPreserves, DeliverPagePreserves,
     DeliverErrorPreserves, PollDonePreserves
  DEF Poll
<1>3. CASE Await \/ StopAwaiting \/ DropStream
  BY <1>1, <1>3, ConsumerPreserves
<1>4. CASE Answer \/ FetchFails
  BY <1>1, <1>4, AnswerPreserves, FetchFailsPreserves
<1>5. CASE \E d \in Docs : Edit(d)
  BY <1>1, <1>5, EditPreserves
<1>6. CASE UNCHANGED vars
  BY <1>1, <1>6
  DEF vars, IInv, TypeOK, Standing, YieldedBelowCursor, NothingMissedSoFar,
      ReplyContinues, PagesInOrder, NothingMissed, Listing, Yielded
<1>7. QED
  BY <1>1, <1>2, <1>3, <1>4, <1>5, <1>6 DEF Next
-----------------------------------------------------------------------------
(* Theorems of the specification. *)

\* The cursor separates what was yielded from what is to come, in every reachable state.
THEOREM Invariance ==
  Spec => []IInv
<1>1. Init => IInv
  BY InitEstablishes
<1>2. IInv /\ [Next]_vars => IInv'
  BY NextPreserves
<1>3. QED
  BY <1>1, <1>2, PTL DEF Spec

\* The variables of the stream, its consumer and the server have their types.
THEOREM TypeCorrect ==
  Spec => []TypeOK
<1>1. IInv => TypeOK
  BY DEF IInv
<1>2. QED
  BY <1>1, Invariance, PTL

\* Across any edits and interrupted awaits, no document is listed twice and pages come
\* in order (PageStream::poll_next).
THEOREM InOrder ==
  Spec => []PagesInOrder
<1>1. IInv => PagesInOrder
  BY DEF IInv
<1>2. QED
  BY <1>1, Invariance, PTL

\* A listing that ends without an error has every document that was there throughout.
THEOREM Complete ==
  Spec => []NothingMissed
<1>1. IInv => NothingMissed
  BY DEF IInv
<1>2. QED
  BY <1>1, Invariance, PTL

\* After an error or the end, the stream sends no request and yields only the end.
THEOREM FusedStream ==
  Spec => Fused
<1>1. IInv /\ [Next]_vars =>
        [(\E i \in DOMAIN items : items[i].kind # "page") =>
           /\ state' # "pending"
           /\ items' # items => items' = Append(items, End)]_vars
  <2>1. SUFFICES ASSUME IInv, Next, NEW i \in DOMAIN items, items[i].kind # "page"
                 PROVE  /\ state' # "pending"
                        /\ items' # items => items' = Append(items, End)
    OBVIOUS
  <2>2. state \notin {"idle", "pending"}
    BY <2>1 DEF IInv, Standing, Listing
  <2>3. QED
    BY <2>1, <2>2
    DEF Next, Poll, Fetch, Finish, DeliverPage, DeliverError, PollDone, Await,
        StopAwaiting, DropStream, Answer, FetchFails, Edit, Yield
<1>2. QED
  BY <1>1, Invariance, PTL DEF Spec, Fused
=============================================================================
