---------------------------- MODULE SingleFlight ----------------------------
(***************************************************************************)
(* SingleFlight::do_call (src/src/singleflight.rs).  A call is one         *)
(* invocation of do_call by some task.  The map lock is held over no await,*)
(* so each critical section is one step, and every await between two steps *)
(* is a point where the runtime may run another call or where the caller   *)
(* may drop the future (select!, timeout, a panic in f).                   *)
(***************************************************************************)
CONSTANTS Calls,           \* invocations of do_call
          Keys,            \* coalescing keys
          Results,         \* what f() may return: Ok and Err values alike
          Droppable,       \* the calls whose future may be dropped
          None,            \* absent: no slot, no key, no message
          BroadcastError   \* "singleflight broadcast error: ..."

ASSUME ConstantsAssumption ==
  /\ None \notin Calls \cup Keys \cup Results
  /\ BroadcastError \notin Results
  /\ BroadcastError # None
  /\ Droppable \subseteq Calls

VARIABLES slot,   \* slot[k]: the call whose Sender the map holds under k
          pc,     \* pc[c]: the await or step call c stands at
          key,    \* key[c]: the key c was called with
          sub,    \* sub[c]: the call whose channel follower c subscribed to
          tx,     \* tx[c]: the channel whose Sender leader c took off the map
          chan,   \* chan[c]: the message in the channel leader c created
          res     \* res[c]: f()'s result for a leader, the return value once done

vars == <<slot, pc, key, sub, tx, chan, res>>

States == {"idle", "enter", "run", "publish", "send", "wait", "done", "dropped"}

Init ==
  /\ slot = [k \in Keys |-> None]
  /\ pc = [c \in Calls |-> "idle"]
  /\ key = [c \in Calls |-> None]
  /\ sub = [c \in Calls |-> None]
  /\ tx = [c \in Calls |-> None]
  /\ chan = [c \in Calls |-> None]
  /\ res = [c \in Calls |-> None]

Goto(c, s) == pc' = [pc EXCEPT ![c] = s]

\* A sender of l's channel exists while the map or a local variable owns it.
SenderAlive(l) == (\E k \in Keys : slot[k] = l) \/ (\E c \in Calls : tx[c] = l)

\* do_call(k, f) is polled for the first time and waits for the map lock.
Enter(c, k) ==
  /\ pc[c] = "idle"
  /\ key' = [key EXCEPT ![c] = k]
  /\ Goto(c, "enter")
  /\ UNCHANGED <<slot, sub, tx, chan, res>>

\* Mutant: the lock is released between the lookup and the insert.
LeadWithoutLookup(c) ==
  /\ pc[c] = "enter"
  /\ slot' = [slot EXCEPT ![key[c]] = c]
  /\ Goto(c, "run")
  /\ UNCHANGED <<key, sub, tx, chan, res>>

\* No flight under the key: insert a fresh Sender and start f() at once.
Lead(c) ==
  /\ pc[c] = "enter"
  /\ slot[key[c]] = None
  /\ slot' = [slot EXCEPT ![key[c]] = c]
  /\ Goto(c, "run")
  /\ UNCHANGED <<key, sub, tx, chan, res>>

\* A flight exists: subscribe to its channel, still under the lock.
Follow(c) ==
  /\ pc[c] = "enter"
  /\ slot[key[c]] # None
  /\ sub' = [sub EXCEPT ![c] = slot[key[c]]]
  /\ Goto(c, "wait")
  /\ UNCHANGED <<slot, key, tx, chan, res>>

\* f() resolves; the leader goes for the map lock again.
Finish(c, r) ==
  /\ pc[c] = "run"
  /\ res' = [res EXCEPT ![c] = r]
  /\ Goto(c, "publish")
  /\ UNCHANGED <<slot, key, sub, tx, chan>>

\* Mutant: get instead of remove; the flight stays open after it is settled.
PublishKeepsSlot(c) ==
  /\ pc[c] = "publish"
  /\ tx' = [tx EXCEPT ![c] = slot[key[c]]]
  /\ Goto(c, "send")
  /\ UNCHANGED <<slot, key, sub, chan, res>>

\* Mutant: the removed Sender is dropped at once instead of being sent on.
PublishDropsSender(c) ==
  /\ pc[c] = "publish"
  /\ slot' = [slot EXCEPT ![key[c]] = None]
  /\ Goto(c, "send")
  /\ UNCHANGED <<key, sub, tx, chan, res>>

\* Mutant: the leader returns without taking its Sender off the map.
PublishLeaks(c) ==
  /\ pc[c] = "publish"
  /\ Goto(c, "done")
  /\ UNCHANGED <<slot, key, sub, tx, chan, res>>

\* map.remove(&key): takes whatever Sender is there, without an identity check.
Publish(c) ==
  /\ pc[c] = "publish"
  /\ tx' = [tx EXCEPT ![c] = slot[key[c]]]
  /\ slot' = [slot EXCEPT ![key[c]] = None]
  /\ Goto(c, "send")
  /\ UNCHANGED <<key, sub, chan, res>>

\* Outside the lock: send to the receivers, drop the Sender, return the result.
Send(c) ==
  /\ pc[c] = "send"
  /\ chan' = [l \in Calls |-> IF l = tx[c] THEN res[c] ELSE chan[l]]
  /\ tx' = [tx EXCEPT ![c] = None]
  /\ Goto(c, "done")
  /\ UNCHANGED <<slot, key, sub, res>>

\* Mutant: a queue instead of a broadcast; the first receiver takes the message.
ReceiveConsumes(c) ==
  /\ pc[c] = "wait"
  /\ chan[sub[c]] # None \/ ~SenderAlive(sub[c])
  /\ res' = [res EXCEPT ![c] =
               IF chan[sub[c]] # None THEN chan[sub[c]] ELSE BroadcastError]
  /\ chan' = [chan EXCEPT ![sub[c]] = None]
  /\ Goto(c, "done")
  /\ UNCHANGED <<slot, key, sub, tx>>

\* rx.recv(): the message if one was sent, RecvError::Closed once no sender is left.
\* Lagged cannot occur: a channel of capacity 1 carries a single message.
Receive(c) ==
  /\ pc[c] = "wait"
  /\ chan[sub[c]] # None \/ ~SenderAlive(sub[c])
  /\ res' = [res EXCEPT ![c] =
               IF chan[sub[c]] # None THEN chan[sub[c]] ELSE BroadcastError]
  /\ Goto(c, "done")
  /\ UNCHANGED <<slot, key, sub, tx, chan>>

\* Mutant: dropping a leader pushes the broadcast error to its followers as a message.
DropSendsError(c) ==
  /\ c \in Droppable
  /\ pc[c] \in {"enter", "run", "publish", "wait"}
  /\ Goto(c, "dropped")
  /\ res' = [res EXCEPT ![c] = None]
  /\ chan' = IF pc[c] = "run" THEN [chan EXCEPT ![c] = BroadcastError] ELSE chan
  /\ UNCHANGED <<slot, key, sub, tx>>

\* The future is dropped at one of its awaits (both locks, f(), recv()).  There is
\* no guard object: a leader's map entry, and the Sender in it, stay behind.
Drop(c) ==
  /\ c \in Droppable
  /\ pc[c] \in {"enter", "run", "publish", "wait"}
  /\ Goto(c, "dropped")
  /\ res' = [res EXCEPT ![c] = None]
  /\ UNCHANGED <<slot, key, sub, tx, chan>>

Step(c) == Lead(c) \/ Follow(c) \/ Publish(c) \/ Send(c) \/ Receive(c)

\* Every call returned or was dropped: the only legitimate halt.
AllOver == \A c \in Calls : pc[c] \in {"done", "dropped"}

Next ==
  \/ \E c \in Calls :
       \/ \E k \in Keys : Enter(c, k)
       \/ Step(c)
       \/ \E r \in Results : Finish(c, r)
       \/ Drop(c)
  \/ AllOver /\ UNCHANGED vars

Spec == Init /\ [][Next]_vars

\* The runtime polls every woken task, and f() ends: each HTTP attempt has a
\* timeout and the attempts are bounded.  Nobody is obliged to call or to drop.
Fairness ==
  \A c \in Calls : WF_vars(Step(c)) /\ WF_vars(\E r \in Results : Finish(c, r))

FairSpec == Spec /\ Fairness
-----------------------------------------------------------------------------
(* Properties *)

TypeOK ==
  /\ slot \in [Keys -> Calls \cup {None}]
  /\ pc \in [Calls -> States]
  /\ key \in [Calls -> Keys \cup {None}]
  /\ sub \in [Calls -> Calls \cup {None}]
  /\ tx \in [Calls -> Calls \cup {None}]
  /\ chan \in [Calls -> Results \cup {None}]
  /\ res \in [Calls -> Results \cup {None, BroadcastError}]

\* "only the first actually performs the work" (singleflight.rs:3-4): f() is never
\* in flight twice for one key, whichever calls end, are dropped or start meanwhile.
OneExecution ==
  \A c, d \in Calls :
    (pc[c] = "run" /\ pc[d] = "run" /\ key[c] = key[d]) => c = d

\* "the rest await the same future and receive a cloned result" (singleflight.rs:4-5):
\* a follower that returned got its leader's result for its own key, never a closed channel.
FollowersShareResult ==
  \A c \in Calls :
    (pc[c] = "done" /\ sub[c] # None) =>
      /\ pc[sub[c]] = "done"
      /\ key[sub[c]] = key[c]
      /\ res[c] = res[sub[c]]
      /\ res[c] \in Results

\* A waiting receiver has a message to read or a live sender that can still send one:
\* removing the slot before sending never strands or closes a receiver.
NoReceiverClosed ==
  \A c \in Calls :
    pc[c] = "wait" => chan[sub[c]] # None \/ SenderAlive(sub[c])

\* Once a flight's sender left the map nobody joins it: a call never gets a result that
\* was settled before the call looked (the subscribe and the remove share the lock).
JoinsOpenFlight ==
  [][\A c \in Calls :
       sub'[c] # sub[c] => pc[sub'[c]] \in {"run", "publish", "dropped"}]_vars

\* Every call that entered do_call returns, or its own caller drops it.  It is what
\* "receive a cloned result" promises a follower; it needs leaders that are not dropped.
EveryCallReturns ==
  \A c \in Calls : (pc[c] # "idle") ~> (pc[c] \in {"done", "dropped"})

\* With dropped leaders: a call can hang only on a flight whose leader was dropped.
OnlyOrphansHang ==
  \A c \in Calls :
    (pc[c] # "idle") ~>
      \/ pc[c] \in {"done", "dropped"}
      \/ pc[c] = "wait" /\ pc[sub[c]] = "dropped"
-----------------------------------------------------------------------------
(* Refinement: the flight settles when its leader takes the slot off the map. *)

\* The call whose result binds c: its leader's if it follows, its own if it leads.
Leader(c) == IF sub[c] # None THEN sub[c] ELSE c

\* A follower is settled as soon as its leader's sender left the map.
Settled(c) ==
  \/ pc[c] = "send"
  \/ pc[c] = "wait" /\ slot[key[c]] # sub[c]

flightBar ==
  [k \in Keys |-> {c \in Calls : slot[k] # None /\ Leader(c) = slot[k]}]

Status(c) ==
  IF pc[c] \in {"idle", "enter"} THEN "new"
  ELSE IF Settled(c) THEN "settled"
  ELSE IF pc[c] = "done" THEN "returned"
  ELSE IF pc[c] = "dropped" THEN "left" ELSE "joined"

statusBar == [c \in Calls |-> Status(c)]

\* A settled call is bound to its leader's result, a returned one to what it returned.
Outcome(c) ==
  IF Settled(c) THEN res[Leader(c)] ELSE IF pc[c] = "done" THEN res[c] ELSE None

outcomeBar == [c \in Calls |-> Outcome(c)]

Abstract ==
  INSTANCE Coalescer WITH flight <- flightBar, status <- statusBar, outcome <- outcomeBar

\* do_call implements the abstract coalescer: one result per flight, fixed in one step.
Coalesces == Abstract!Spec
=============================================================================
