----------------------------- MODULE PageStream -----------------------------
(***************************************************************************)
(* PageStream (src/src/pagination.rs) over Client::list_documents           *)
(* (src/src/documents.rs): the state machine behind poll_next, a consumer   *)
(* that may stop awaiting a page and come back for it, and a server whose   *)
(* documents change between two pages.  A fetch is one request_json, with   *)
(* its retries.                                                             *)
(***************************************************************************)
EXTENDS Integers, Sequences, FiniteSets

CONSTANTS Docs,      \* document ids; the server lists in ascending order
          PageSize,  \* the most documents on one page
          MaxEdits,  \* bound on the changes of the server's documents
          MaxEnds,   \* bound on the ends a consumer asks for
          None       \* no cursor, no reply

ASSUME ConstantsAssumption ==
  /\ Docs \subseteq Nat /\ IsFiniteSet(Docs)
  /\ PageSize \in Nat \ {0} /\ MaxEdits \in Nat /\ MaxEnds \in Nat
  /\ None \notin Nat

VARIABLES state,    \* StreamState: "idle", "pending", "done"; "dropped" with the stream
          cursor,   \* the cursor kept in Idle, and the one of the fetch in Pending
          first,    \* first_call
          reply,    \* what the fetch's future resolves to, once it is ready
          polling,  \* is the consumer awaiting the next item?
          items,    \* the items the stream has yielded: pages, errors and None
          docs,     \* the server's documents
          edits,    \* the number of changes so far
          stable    \* history: the documents present since the first fetch was sent

vars == <<state, cursor, first, reply, polling, items, docs, edits, stable>>

Page(ds, next) == [kind |-> "page", docs |-> ds, next |-> next]
Failed == [kind |-> "error", docs |-> {}, next |-> None]
End == [kind |-> "end", docs |-> {}, next |-> None]

Init ==
  /\ state = "idle" /\ cursor = None /\ first = TRUE
  /\ reply = None /\ polling = FALSE /\ items = <<>>
  /\ docs \in SUBSET Docs
  /\ edits = 0 /\ stable = docs

\* Poll::Ready: the consumer gets an item and stops awaiting.
Yield(item) == items' = Append(items, item) /\ polling' = FALSE

Ends == Cardinality({i \in DOMAIN items : items[i].kind = "end"})

\* The consumer awaits the next item; here, at most MaxEnds times up to the end.
Await ==
  /\ state # "dropped"
  /\ ~polling
  /\ Ends < MaxEnds
  /\ polling' = TRUE
  /\ UNCHANGED <<state, cursor, first, reply, items, docs, edits, stable>>

Exhausted == ~first /\ cursor = None

\* Mutant: the fetcher is called without the cursor.
FetchFromStart ==
  /\ polling /\ state = "idle" /\ ~Exhausted
  /\ state' = "pending"
  /\ cursor' = None
  /\ reply' = None
  /\ UNCHANGED <<first, polling, items, docs, edits, stable>>

\* poll_next in Idle: ask the fetcher for the page at the cursor.
Fetch ==
  /\ polling /\ state = "idle" /\ ~Exhausted
  /\ state' = "pending"
  /\ reply' = None
  /\ UNCHANGED <<cursor, first, polling, items, docs, edits, stable>>

\* poll_next in Idle: the last page had no cursor.
Finish ==
  /\ polling /\ state = "idle" /\ Exhausted
  /\ state' = "done"
  /\ Yield(End)
  /\ UNCHANGED <<cursor, first, reply, docs, edits, stable>>

\* Mutant: first_call is not cleared.
DeliverPageKeepsFirst ==
  /\ polling /\ state = "pending" /\ reply # None /\ reply.kind = "page"
  /\ state' = "idle" /\ cursor' = reply.next
  /\ Yield(reply)
  /\ UNCHANGED <<first, reply, docs, edits, stable>>

\* poll_next in Pending: the future is ready with a page.
DeliverPage ==
  /\ polling /\ state = "pending" /\ reply # None /\ reply.kind = "page"
  /\ state' = "idle" /\ cursor' = reply.next /\ first' = FALSE
  /\ Yield(reply)
  /\ UNCHANGED <<reply, docs, edits, stable>>

\* Mutant: after an error the stream goes back to Idle, as if to try again.
DeliverErrorAndGoOn ==
  /\ polling /\ state = "pending" /\ reply # None /\ reply.kind = "error"
  /\ state' = "idle" /\ first' = FALSE
  /\ Yield(Failed)
  /\ UNCHANGED <<cursor, reply, docs, edits, stable>>

\* Mutant: an error is not yielded, and the fetch is sent once more.
DeliverErrorRefetches ==
  /\ polling /\ state = "pending" /\ reply # None /\ reply.kind = "error"
  /\ reply' = None
  /\ UNCHANGED <<state, cursor, first, polling, items, docs, edits, stable>>

\* poll_next in Pending: the future is ready with an error, which ends the stream.
DeliverError ==
  /\ polling /\ state = "pending" /\ reply # None /\ reply.kind = "error"
  /\ state' = "done"
  /\ Yield(Failed)
  /\ UNCHANGED <<cursor, first, reply, docs, edits, stable>>

\* poll_next in Done, however often it is called.
PollDone ==
  /\ polling /\ state = "done"
  /\ Yield(End)
  /\ UNCHANGED <<state, cursor, first, reply, docs, edits, stable>>

Poll == Fetch \/ Finish \/ DeliverPage \/ DeliverError \/ PollDone

\* Mutant: Pending is not put back before Poll::Pending is returned.
StopAwaitingForgets ==
  /\ polling
  /\ polling' = FALSE
  /\ state' = IF state = "pending" THEN "done" ELSE state
  /\ UNCHANGED <<cursor, first, reply, items, docs, edits, stable>>

\* The consumer drops the future of next() (a select!, a timeout), not the stream: the
\* fetch stays in Pending, and the next poll goes on with it.
StopAwaiting ==
  /\ polling
  /\ polling' = FALSE
  /\ UNCHANGED <<state, cursor, first, reply, items, docs, edits, stable>>

DropStream ==
  /\ state # "dropped"
  /\ state' = "dropped" /\ polling' = FALSE
  /\ UNCHANGED <<cursor, first, reply, items, docs, edits, stable>>

\* The documents the server still has to list at a cursor: its page ends there.
Remaining(c) == IF c = None THEN docs ELSE {d \in docs : d > c}

\* The first n of ds, in listing order.
Lowest(ds, n) == {d \in ds : Cardinality({e \in ds : e < d}) < n}

\* The server answers the fetch.  A full page may carry a cursor though nothing follows.
Answer ==
  /\ state = "pending" /\ reply = None
  /\ LET ds == Lowest(Remaining(cursor), PageSize)
     IN  \E next \in {None} \cup ds :
           /\ next = None => ds = Remaining(cursor)
           /\ next # None => (\A d \in ds : d <= next) /\ Cardinality(ds) = PageSize
           /\ reply' = Page(ds, next)
  /\ UNCHANGED <<state, cursor, first, polling, items, docs, edits, stable>>

\* The fetch fails: no tenant is configured, or request_json returns an error.
FetchFails ==
  /\ state = "pending" /\ reply = None
  /\ reply' = Failed
  /\ UNCHANGED <<state, cursor, first, polling, items, docs, edits, stable>>

\* Somebody adds or deletes a document.
Edit(d) ==
  /\ edits < MaxEdits /\ state \notin {"done", "dropped"}
  /\ docs' = IF d \in docs THEN docs \ {d} ELSE docs \cup {d}
  /\ edits' = edits + 1
  /\ stable' = IF first /\ state = "idle" THEN docs' ELSE stable \ {d}
  /\ UNCHANGED <<state, cursor, first, reply, polling, items>>

Next ==
  \/ Poll
  \/ Await \/ StopAwaiting \/ DropStream
  \/ Answer \/ FetchFails
  \/ \E d \in Docs : Edit(d)

Spec == Init /\ [][Next]_vars

\* A task that awaits is polled until its item is ready, and a request ends, by its
\* timeout at the latest.  Nothing makes the consumer come back.
Fairness == WF_vars(Poll) /\ WF_vars(Answer \/ FetchFails)

FairSpec == Spec /\ Fairness
-----------------------------------------------------------------------------
(* Properties *)

Replies == [kind : {"page", "error", "end"}, docs : SUBSET Docs, next : Docs \cup {None}]

TypeOK ==
  /\ state \in {"idle", "pending", "done", "dropped"}
  /\ cursor \in Docs \cup {None}
  /\ first \in BOOLEAN /\ (first => cursor = None)
  /\ polling \in BOOLEAN /\ (polling => state # "dropped")
  /\ reply \in Replies \cup {None}
  /\ items \in Seq(Replies)
  /\ docs \in SUBSET Docs /\ stable \subseteq docs
  /\ edits \in 0..MaxEdits

\* No document is listed twice, and pages come in order, whatever is added or deleted
\* meanwhile and however often the consumer stopped awaiting: each fetch starts where the
\* last page yielded ended.
PagesInOrder ==
  \A i, j \in DOMAIN items : i < j =>
    \A d \in items[i].docs, e \in items[j].docs : d < e

\* A listing that ends without an error has every document that was there throughout:
\* no page is lost when the consumer stops awaiting it.
NothingMissed ==
  state = "done" /\ (\A i \in DOMAIN items : items[i].kind # "error") =>
    \A d \in stable : \E i \in DOMAIN items : d \in items[i].docs

\* The stream is fused: after an error or the end it yields nothing but the end, and
\* sends no further request.
Fused ==
  [][(\E i \in DOMAIN items : items[i].kind # "page") =>
        /\ state' # "pending"
        /\ items' # items => items' = Append(items, End)]_vars

\* A consumer that keeps asking, and in the end waits for what it asked, gets to the
\* end of the listing: the cursor moves on with every page.
KeepAskingEnds ==
  []<>(polling \/ state = "done") /\ <>[][~StopAwaiting]_vars => <>(state = "done")
=============================================================================
