------------------------ MODULE SingleFlightProofs ------------------------
(***************************************************************************)
(* Machine-checked proofs about SingleFlight, for every set of calls, keys *)
(* and results and every choice of the calls that may be dropped.          *)
(***************************************************************************)
EXTENDS SingleFlight, TLAPS

(* The inductive invariant: who owns a slot, a channel and a subscription. *)

\* A sender in the map belongs to a leader of that key which is not past its
\* removal, or to a leader that was dropped.
SlotsHeldByLeaders ==
  \A k \in Keys :
    slot[k] # None =>
      /\ key[slot[k]] = k
      /\ sub[slot[k]] = None
      /\ pc[slot[k]] \in {"run", "publish", "dropped"}

\* Conversely a live leader's sender is in the map until the leader removes it.
LeadersHoldSlots ==
  \A c \in Calls :
    /\ pc[c] \in {"run", "publish"} => slot[key[c]] = c
    /\ pc[c] \in {"run", "publish", "send"} => sub[c] = None
    /\ tx[c] = IF pc[c] = "send" THEN c ELSE None

\* Every call that entered has a key; results exist where they are read.
Progressed ==
  \A c \in Calls :
    /\ pc[c] # "idle" => key[c] \in Keys
    /\ pc[c] \in {"idle", "enter"} => sub[c] = None
    /\ pc[c] \in {"publish", "send", "done"} => res[c] \in Results
    /\ pc[c] = "wait" => sub[c] # None

\* A channel carries its leader's result once the leader returned, nothing before.
ChannelsCarryResults ==
  \A c \in Calls :
    chan[c] = IF pc[c] = "done" /\ sub[c] = None THEN res[c] ELSE None

\* A follower's leader led the same key; while the follower waits, a dropped leader's
\* sender is still in the map.
FollowersFollowLeaders ==
  \A c \in Calls :
    sub[c] # None =>
      /\ sub[sub[c]] = None
      /\ key[sub[c]] = key[c]
      /\ pc[sub[c]] \in {"run", "publish", "send", "done", "dropped"}
      /\ (pc[c] = "wait" /\ pc[sub[c]] = "dropped") => slot[key[c]] = sub[c]
      /\ pc[c] = "done" => pc[sub[c]] = "done" /\ res[c] = res[sub[c]]

IInv ==
  /\ TypeOK
  /\ SlotsHeldByLeaders
  /\ LeadersHoldSlots
  /\ Progressed
  /\ ChannelsCarryResults
  /\ FollowersFollowLeaders
-----------------------------------------------------------------------------
(* The invariant holds initially and every step preserves it. *)

\* Nothing is coalesced before the first call.
LEMMA InitEstablishes == Init => IInv
  BY ConstantsAssumption
  DEF Init, IInv, TypeOK, States, SlotsHeldByLeaders, LeadersHoldSlots, Progressed,
      ChannelsCarryResults, FollowersFollowLeaders

\* Why a follower never sees a closed channel: its leader's sender is in the map, in
\* the leader's hands, or has sent.
LEMMA InvariantKeepsSenders == IInv => NoReceiverClosed
<1> SUFFICES ASSUME IInv, NEW c \in Calls, pc[c] = "wait", chan[sub[c]] = None
           PROVE  SenderAlive(sub[c])
  BY DEF NoReceiverClosed
<1>1. sub[c] \in Calls /\ key[sub[c]] = key[c] /\ key[c] \in Keys
  BY DEF IInv, TypeOK, Progressed, FollowersFollowLeaders
<1>2. pc[sub[c]] \in {"run", "publish", "send", "done", "dropped"}
  BY DEF IInv, Progressed, FollowersFollowLeaders
<1>3. CASE pc[sub[c]] \in {"run", "publish"}
  BY <1>1, <1>3 DEF IInv, LeadersHoldSlots, SenderAlive
<1>4. CASE pc[sub[c]] = "send"
  BY <1>1, <1>4 DEF IInv, LeadersHoldSlots, SenderAlive
<1>5. CASE pc[sub[c]] = "done"
  BY <1>1, <1>5, ConstantsAssumption
  DEF IInv, TypeOK, Progressed, ChannelsCarryResults, FollowersFollowLeaders
<1>6. CASE pc[sub[c]] = "dropped"
  BY <1>1, <1>6 DEF IInv, Progressed, FollowersFollowLeaders, SenderAlive
<1> QED
  BY <1>2, <1>3, <1>4, <1>5, <1>6

\* Preservation when a call starts.
LEMMA EnterPreserves ==
  ASSUME IInv, NEW c \in Calls, NEW k \in Keys, Enter(c, k)
  PROVE  IInv'
<1> USE DEF IInv, Enter, Goto
<1>1. TypeOK'
  BY DEF States, TypeOK
<1>2. SlotsHeldByLeaders'
  BY DEF SlotsHeldByLeaders
<1>3. LeadersHoldSlots'
  BY DEF LeadersHoldSlots
<1>4. Progressed'
  BY DEF TypeOK, Progressed
<1>5. ChannelsCarryResults'
  BY DEF ChannelsCarryResults
<1>6. FollowersFollowLeaders'
  BY DEF Progressed, FollowersFollowLeaders
<1> QED
  BY <1>1, <1>2, <1>3, <1>4, <1>5, <1>6

\* Preservation when a call becomes the leader of its key.
LEMMA LeadPreserves ==
  ASSUME IInv, NEW c \in Calls, Lead(c)
  PROVE  IInv'
<1> USE DEF IInv, Lead, Goto
<1>1. TypeOK'
  BY DEF States, TypeOK
<1>2. SlotsHeldByLeaders'
  BY DEF TypeOK, SlotsHeldByLeaders, Progressed
<1>3. LeadersHoldSlots'
  BY ConstantsAssumption DEF TypeOK, LeadersHoldSlots, Progressed
<1>4. Progressed'
  BY DEF Progressed
<1>5. ChannelsCarryResults'
  BY DEF ChannelsCarryResults
<1>6. FollowersFollowLeaders'
  BY DEF FollowersFollowLeaders
<1> QED
  BY <1>1, <1>2, <1>3, <1>4, <1>5, <1>6

\* Preservation when a call subscribes to the open flight.
LEMMA FollowPreserves ==
  ASSUME IInv, NEW c \in Calls, Follow(c)
  PROVE  IInv'
<1> USE DEF IInv, Follow, Goto
<1>1. TypeOK'
  BY DEF States, TypeOK, Progressed
<1>2. SlotsHeldByLeaders'
  BY DEF SlotsHeldByLeaders
<1>3. LeadersHoldSlots'
  BY DEF LeadersHoldSlots
<1>4. Progressed'
  BY DEF TypeOK, Progressed
<1>5. ChannelsCarryResults'
  BY DEF ChannelsCarryResults
<1>6. FollowersFollowLeaders'
  BY DEF SlotsHeldByLeaders, Progressed, FollowersFollowLeaders
<1> QED
  BY <1>1, <1>2, <1>3, <1>4, <1>5, <1>6

\* Preservation when the work of a leader ends.
LEMMA FinishPreserves ==
  ASSUME IInv, NEW c \in Calls, NEW r \in Results, Finish(c, r)
  PROVE  IInv'
<1> USE DEF IInv, Finish, Goto
<1>1. TypeOK'
  BY DEF States, TypeOK
<1>2. SlotsHeldByLeaders'
  BY DEF SlotsHeldByLeaders
<1>3. LeadersHoldSlots'
  BY DEF LeadersHoldSlots
<1>4. Progressed'
  BY DEF TypeOK, Progressed
<1>5. ChannelsCarryResults'
  BY DEF ChannelsCarryResults
<1>6. FollowersFollowLeaders'
  BY DEF FollowersFollowLeaders
<1> QED
  BY <1>1, <1>2, <1>3, <1>4, <1>5, <1>6

\* Preservation when a leader takes its sender off the map.
LEMMA PublishPreserves ==
  ASSUME IInv, NEW c \in Calls, Publish(c)
  PROVE  IInv'
<1> USE DEF IInv, Publish, Goto
<1>1. TypeOK'
  BY DEF States, TypeOK, LeadersHoldSlots
<1>2. SlotsHeldByLeaders'
  BY DEF TypeOK, SlotsHeldByLeaders
<1>3. LeadersHoldSlots'
  BY DEF TypeOK, LeadersHoldSlots
<1>4. Progressed'
  BY DEF Progressed
<1>5. ChannelsCarryResults'
  BY DEF ChannelsCarryResults
<1>6. FollowersFollowLeaders'
  BY DEF LeadersHoldSlots, FollowersFollowLeaders
<1> QED
  BY <1>1, <1>2, <1>3, <1>4, <1>5, <1>6

\* Preservation when a leader broadcasts and returns.
LEMMA SendPreserves ==
  ASSUME IInv, NEW c \in Calls, Send(c)
  PROVE  IInv'
<1> USE DEF IInv, Send, Goto
<1>1. TypeOK'
  BY DEF States, TypeOK, Progressed
<1>2. SlotsHeldByLeaders'
  BY DEF SlotsHeldByLeaders
<1>3. LeadersHoldSlots'
  BY DEF TypeOK, LeadersHoldSlots
<1>4. Progressed'
  BY DEF Progressed
<1>5. ChannelsCarryResults'
  BY DEF TypeOK, LeadersHoldSlots, ChannelsCarryResults
<1>6. FollowersFollowLeaders'
  BY DEF LeadersHoldSlots, FollowersFollowLeaders
<1> QED
  BY <1>1, <1>2, <1>3, <1>4, <1>5, <1>6

\* Preservation when a follower returns.
LEMMA ReceivePreserves ==
  ASSUME IInv, NEW c \in Calls, Receive(c)
  PROVE  IInv'
<1> USE DEF IInv, Receive, Goto
<1>0. chan[sub[c]] # None
  BY InvariantKeepsSenders DEF NoReceiverClosed
<1>1. TypeOK'
  BY <1>0 DEF TypeOK, Progressed, ChannelsCarryResults
<1>2. SlotsHeldByLeaders'
  BY DEF SlotsHeldByLeaders
<1>3. LeadersHoldSlots'
  BY DEF LeadersHoldSlots
<1>4. Progressed'
  BY <1>0 DEF TypeOK, Progressed
<1>5. ChannelsCarryResults'
  BY DEF Progressed, ChannelsCarryResults
<1>6. FollowersFollowLeaders'
  BY <1>0 DEF TypeOK, ChannelsCarryResults, FollowersFollowLeaders
<1> QED
  BY <1>1, <1>2, <1>3, <1>4, <1>5, <1>6

\* Preservation when a future is dropped.
LEMMA DropPreserves ==
  ASSUME IInv, NEW c \in Calls, Drop(c)
  PROVE  IInv'
<1> USE DEF IInv, Drop, Goto
<1>1. TypeOK'
  BY DEF States, TypeOK
<1>2. SlotsHeldByLeaders'
  BY DEF SlotsHeldByLeaders
<1>3. LeadersHoldSlots'
  BY DEF LeadersHoldSlots
<1>4. Progressed'
  BY DEF TypeOK, Progressed
<1>5. ChannelsCarryResults'
  BY DEF ChannelsCarryResults
<1>6. FollowersFollowLeaders'
  BY DEF LeadersHoldSlots, FollowersFollowLeaders
<1> QED
  BY <1>1, <1>2, <1>3, <1>4, <1>5, <1>6

\* Every step of the specification preserves the invariant.
LEMMA NextPreserves == IInv /\ [Next]_vars => IInv'
<1> SUFFICES ASSUME IInv, [Next]_vars
             PROVE  IInv'
  OBVIOUS
<1>1. CASE UNCHANGED vars
  BY <1>1 DEF vars, IInv, TypeOK, SlotsHeldByLeaders, LeadersHoldSlots, Progressed,
              ChannelsCarryResults, FollowersFollowLeaders
<1>2. ASSUME NEW c \in Calls, Step(c)
      PROVE  IInv'
  BY <1>2, LeadPreserves, FollowPreserves, PublishPreserves, SendPreserves,
     ReceivePreserves DEF Step
<1> QED
  BY <1>1, <1>2, EnterPreserves, FinishPreserves, DropPreserves DEF Next

-----------------------------------------------------------------------------
(* What do_call guarantees. *)

\* The inductive invariant holds throughout.
THEOREM Invariance == Spec => []IInv
  BY InitEstablishes, NextPreserves, PTL DEF Spec

\* Every variable keeps its type.
THEOREM TypeCorrect == Spec => []TypeOK
<1>1. IInv => TypeOK
  BY DEF IInv
<1> QED
  BY <1>1, Invariance, PTL

\* Whatever calls arrive, end or are dropped, a key's work is in flight at most once:
\* two running leaders would both hold the slot.
THEOREM AtMostOneExecution == Spec => []OneExecution
<1>1. IInv => OneExecution
  BY DEF IInv, LeadersHoldSlots, OneExecution
<1> QED
  BY <1>1, Invariance, PTL

\* A follower that returned has its leader's result for its own key.
THEOREM FollowersAgree == Spec => []FollowersShareResult
<1>1. IInv => FollowersShareResult
  BY DEF IInv, TypeOK, Progressed, FollowersFollowLeaders, FollowersShareResult
<1> QED
  BY <1>1, Invariance, PTL

\* No follower ever observes a closed channel.
THEOREM ReceiversKeepSenders == Spec => []NoReceiverClosed
  BY InvariantKeepsSenders, Invariance, PTL

\* No call subscribes to a flight whose result was already taken off the map.
THEOREM JoinersMeetOpenFlight == Spec => JoinsOpenFlight
<1>1. IInv /\ [Next]_vars =>
        [\A c \in Calls :
           sub'[c] # sub[c] => pc[sub'[c]] \in {"run", "publish", "dropped"}]_vars
  <2> SUFFICES ASSUME IInv, Next, NEW d \in Calls, sub'[d] # sub[d]
               PROVE  pc[sub'[d]] \in {"run", "publish", "dropped"}
    OBVIOUS
  <2>1. Follow(d)
    BY DEF Next, Step, Enter, Lead, Follow, Finish, Publish, Send, Receive, Drop, IInv,
           TypeOK, vars
  <2> QED
    BY <2>1 DEF Follow, IInv, TypeOK, Progressed, SlotsHeldByLeaders
<1> QED
  BY <1>1, Invariance, PTL DEF Spec, JoinsOpenFlight

-----------------------------------------------------------------------------
(* do_call implements the abstract coalescer. *)

\* The initial states map to the abstract initial state.
LEMMA InitRefines == Init => Abstract!Init
  BY DEF Init, Abstract!Init, flightBar, statusBar, Status, outcomeBar, Outcome, Settled

\* Every step maps to an abstract step or to a stutter.
LEMMA NextRefines == IInv /\ [Next]_vars => [Abstract!Next]_(Abstract!vars)
<1> SUFFICES ASSUME IInv, [Next]_vars
             PROVE  Abstract!Next \/ UNCHANGED Abstract!vars
  OBVIOUS
<1>1. CASE UNCHANGED vars
  BY <1>1
  DEF vars, Abstract!vars, flightBar, statusBar, Status, outcomeBar, Outcome, Settled,
      Leader
<1>2. ASSUME NEW c \in Calls, NEW k \in Keys, Enter(c, k)
      PROVE  UNCHANGED Abstract!vars
  <2>1. \A d \in Calls \ {c} : Settled(d)' <=> Settled(d)
    BY <1>2 DEF Settled, Enter, Goto
  <2>2. flightBar' = flightBar
    BY <1>2 DEF flightBar, Leader, Enter
  <2>3. statusBar' = statusBar
    BY <1>2, <2>1 DEF statusBar, Status, Enter, Goto
  <2>4. outcomeBar' = outcomeBar
    BY <1>2, <2>1 DEF outcomeBar, Outcome, Settled, Leader, Enter, Goto
  <2> QED
    BY <2>2, <2>3, <2>4 DEF Abstract!vars
<1>3. ASSUME NEW c \in Calls, Lead(c)
      PROVE  Abstract!Join(c, key[c])
  <2>1. \A d \in Calls \ {c} : Settled(d)' <=> Settled(d)
    BY <1>3 DEF Settled, Lead, Goto, IInv, Progressed, FollowersFollowLeaders
  <2>2. flightBar' = [flightBar EXCEPT ![key[c]] = @ \cup {c}]
    <3>1. \A d \in Calls : Leader(d)' = IF d = c THEN c ELSE Leader(d)
      BY <1>3 DEF Leader, Lead, IInv, Progressed
    <3>2. \A k \in Keys : flightBar'[k] =
            IF k = key[c] THEN flightBar[k] \cup {c} ELSE flightBar[k]
      <4>1. \A k \in Keys : flightBar'[k] =
              {d \in Calls : slot'[k] # None /\ Leader(d)' = slot'[k]}
        BY DEF flightBar
      <4>2. \A k \in Keys : {d \in Calls : slot'[k] # None /\ Leader(d)' = slot'[k]}
              = IF k = key[c] THEN flightBar[k] \cup {c} ELSE flightBar[k]
        BY <1>3, <3>1, ConstantsAssumption
        DEF flightBar, Leader, Lead, IInv, TypeOK, FollowersFollowLeaders
      <4> QED
        BY <4>1, <4>2
    <3>3. key[c] \in Keys
      BY <1>3 DEF Lead, IInv, Progressed
    <3> QED
      BY <3>2, <3>3 DEF flightBar
  <2>3. statusBar' = [statusBar EXCEPT ![c] = "joined"]
    BY <1>3, <2>1 DEF statusBar, Status, Settled, Lead, Goto, IInv, TypeOK
  <2>4. outcomeBar' = outcomeBar
    BY <1>3, <2>1 DEF outcomeBar, Outcome, Settled, Leader, Lead, Goto
  <2>5. statusBar[c] = "new" /\ key[c] \in Keys
    BY <1>3 DEF statusBar, Status, Lead, IInv, Progressed
  <2> QED
    BY <2>2, <2>3, <2>4, <2>5 DEF Abstract!Join
<1>4. ASSUME NEW c \in Calls, Follow(c)
      PROVE  Abstract!Join(c, key[c])
  <2>1. \A d \in Calls \ {c} : Settled(d)' <=> Settled(d)
    BY <1>4 DEF Settled, Follow, Goto
  <2>2. flightBar' = [flightBar EXCEPT ![key[c]] = @ \cup {c}]
    <3>1. \A d \in Calls : Leader(d)' = IF d = c THEN slot[key[c]] ELSE Leader(d)
      BY <1>4 DEF Leader, Follow, IInv, TypeOK
    <3>2. \A k \in Keys : flightBar'[k] =
            IF k = key[c] THEN flightBar[k] \cup {c} ELSE flightBar[k]
      <4>1. \A k \in Keys : flightBar'[k] =
              {d \in Calls : slot'[k] # None /\ Leader(d)' = slot'[k]}
        BY DEF flightBar
      <4>2. \A k \in Keys : {d \in Calls : slot'[k] # None /\ Leader(d)' = slot'[k]}
              = IF k = key[c] THEN flightBar[k] \cup {c} ELSE flightBar[k]
        BY <1>4, <3>1
        DEF flightBar, Leader, Follow, IInv, SlotsHeldByLeaders, Progressed
      <4> QED
        BY <4>1, <4>2
    <3>3. key[c] \in Keys
      BY <1>4 DEF Follow, IInv, Progressed
    <3> QED
      BY <3>2, <3>3 DEF flightBar
  <2>3. statusBar' = [statusBar EXCEPT ![c] = "joined"]
    BY <1>4, <2>1 DEF statusBar, Status, Settled, Follow, Goto, IInv, TypeOK
  <2>4. outcomeBar' = outcomeBar
    BY <1>4, <2>1 DEF outcomeBar, Outcome, Settled, Leader, Follow, Goto, IInv, TypeOK
  <2>5. statusBar[c] = "new" /\ key[c] \in Keys
    BY <1>4 DEF statusBar, Status, Follow, IInv, Progressed
  <2> QED
    BY <2>2, <2>3, <2>4, <2>5 DEF Abstract!Join
<1>5. ASSUME NEW c \in Calls, NEW r \in Results, Finish(c, r)
      PROVE  UNCHANGED Abstract!vars
  <2>1. \A d \in Calls \ {c} : Settled(d)' <=> Settled(d)
    BY <1>5 DEF Settled, Finish, Goto
  <2>2. flightBar' = flightBar
    BY <1>5 DEF flightBar, Leader, Finish
  <2>3. statusBar' = statusBar
    BY <1>5, <2>1 DEF statusBar, Status, Settled, Finish, Goto
  <2>4. outcomeBar' = outcomeBar
    BY <1>5, <2>1
    DEF outcomeBar, Outcome, Settled, Leader, Finish, Goto, IInv, LeadersHoldSlots,
        FollowersFollowLeaders
  <2> QED
    BY <2>2, <2>3, <2>4 DEF Abstract!vars
<1>6. ASSUME NEW c \in Calls, Publish(c)
      PROVE  Abstract!Settle(key[c], res[c])
  <2> DEFINE served == {d \in flightBar[key[c]] : statusBar[d] = "joined"}
  <2>1. key[c] \in Keys /\ flightBar[key[c]] = {d \in Calls : Leader(d) = c}
    BY <1>6, ConstantsAssumption
    DEF flightBar, Publish, IInv, LeadersHoldSlots, Progressed
  <2>2. \A d \in Calls : d \in served <=> d = c \/ (sub[d] = c /\ pc[d] = "wait")
    BY <1>6, <2>1, ConstantsAssumption
    DEF States, statusBar, Status, Settled, Leader, Publish, IInv, TypeOK,
        LeadersHoldSlots, FollowersFollowLeaders
  <2>3. \A d \in Calls : Settled(d)' <=> Settled(d) \/ d \in served
    BY <1>6, <2>2
    DEF Settled, Publish, Goto, IInv, TypeOK, SlotsHeldByLeaders, LeadersHoldSlots,
        Progressed
  <2>4. flightBar' = [flightBar EXCEPT ![key[c]] = {}]
    <3>1. \A d \in Calls : Leader(d)' = Leader(d)
      BY <1>6 DEF Leader, Publish
    <3>2. \A k \in Keys : flightBar'[k] =
            IF k = key[c] THEN {} ELSE flightBar[k]
      <4>1. \A k \in Keys : flightBar'[k] =
              {d \in Calls : slot'[k] # None /\ Leader(d)' = slot'[k]}
        BY DEF flightBar
      <4>2. \A k \in Keys : {d \in Calls : slot'[k] # None /\ Leader(d)' = slot'[k]}
              = IF k = key[c] THEN {} ELSE flightBar[k]
        BY <1>6, <3>1 DEF flightBar, Publish, IInv, TypeOK
      <4> QED
        BY <4>1, <4>2
    <3>3. key[c] \in Keys
      BY <1>6 DEF Publish, IInv, Progressed
    <3> QED
      BY <3>2, <3>3 DEF flightBar
  <2>5. statusBar' = [d \in Calls |-> IF d \in served THEN "settled" ELSE statusBar[d]]
    BY <1>6, <2>2, <2>3 DEF statusBar, Status, Publish, Goto
  <2>6. outcomeBar' = [d \in Calls |-> IF d \in served THEN res[c] ELSE outcomeBar[d]]
    BY <1>6, <2>2, <2>3, ConstantsAssumption
    DEF outcomeBar, Outcome, Leader, Publish, Goto, IInv, LeadersHoldSlots
  <2> QED
    BY <2>2, <2>4, <2>5, <2>6, <1>6 DEF Abstract!Settle
<1>7. ASSUME NEW c \in Calls, Send(c)
      PROVE  Abstract!Return(c)
  <2>1. \A d \in Calls \ {c} : Settled(d)' <=> Settled(d)
    BY <1>7 DEF Settled, Send, Goto
  <2>2. flightBar' = flightBar
    BY <1>7 DEF flightBar, Leader, Send
  <2>3. statusBar' = [statusBar EXCEPT ![c] = "returned"]
    BY <1>7, <2>1 DEF statusBar, Status, Settled, Send, Goto, IInv, TypeOK
  <2>4. outcomeBar' = outcomeBar
    BY <1>7, <2>1
    DEF outcomeBar, Outcome, Settled, Leader, Send, Goto, IInv, LeadersHoldSlots
  <2>5. statusBar[c] = "settled"
    BY <1>7 DEF statusBar, Status, Settled, Send
  <2> QED
    BY <2>2, <2>3, <2>4, <2>5 DEF Abstract!Return
<1>8. ASSUME NEW c \in Calls, Receive(c)
      PROVE  Abstract!Return(c)
  <2>0. /\ sub[c] \in Calls /\ pc[sub[c]] = "done"
        /\ res' = [res EXCEPT ![c] = res[sub[c]]]
    BY <1>8, InvariantKeepsSenders
    DEF NoReceiverClosed, Receive, IInv, TypeOK, Progressed, ChannelsCarryResults
  <2>1. \A d \in Calls \ {c} : Settled(d)' <=> Settled(d)
    BY <1>8 DEF Settled, Receive, Goto
  <2>2. flightBar' = flightBar
    BY <1>8 DEF flightBar, Leader, Receive
  <2>3. statusBar' = [statusBar EXCEPT ![c] = "returned"]
    BY <1>8, <2>1 DEF statusBar, Status, Settled, Receive, Goto, IInv, TypeOK
  <2>4. outcomeBar' = outcomeBar
    BY <1>8, <2>0, <2>1
    DEF outcomeBar, Outcome, Settled, Leader, Receive, Goto, IInv, TypeOK,
        SlotsHeldByLeaders, Progressed, FollowersFollowLeaders
  <2>5. statusBar[c] = "settled"
    BY <1>8, <2>0
    DEF statusBar, Status, Settled, Receive, IInv, SlotsHeldByLeaders, Progressed
  <2> QED
    BY <2>2, <2>3, <2>4, <2>5 DEF Abstract!Return
<1>9. ASSUME NEW c \in Calls, Drop(c)
      PROVE  Abstract!Leave(c)
  <2>1. \A d \in Calls \ {c} : Settled(d)' <=> Settled(d)
    BY <1>9 DEF Settled, Drop, Goto
  <2>2. flightBar' = flightBar
    BY <1>9 DEF flightBar, Leader, Drop
  <2>3. statusBar' = [statusBar EXCEPT ![c] = "left"]
    BY <1>9, <2>1 DEF statusBar, Status, Settled, Drop, Goto, IInv, TypeOK
  <2>4. outcomeBar' = [outcomeBar EXCEPT ![c] = None]
    <3>1. \A d \in Calls \ {c} : Settled(d) => Leader(d) # c
      BY <1>9 DEF Settled, Leader, Drop, IInv, LeadersHoldSlots, FollowersFollowLeaders
    <3>2. \A d \in Calls : Outcome(d)' = IF d = c THEN None ELSE Outcome(d)
      BY <1>9, <2>1, <3>1 DEF Outcome, Settled, Leader, Drop, Goto, IInv, TypeOK
    <3>3. \A d \in Calls : outcomeBar'[d] = Outcome(d)' /\ outcomeBar[d] = Outcome(d)
      BY DEF outcomeBar
    <3> QED
      BY <3>2, <3>3 DEF outcomeBar
  <2>5. statusBar[c] \in {"new", "joined", "settled"}
    BY <1>9 DEF statusBar, Status, Drop
  <2> QED
    BY <2>2, <2>3, <2>4, <2>5 DEF Abstract!Leave
<1>10. ASSUME NEW c \in Calls, Step(c)
       PROVE  Abstract!Next
  <2>1. key[c] \in Keys
    BY <1>10 DEF Step, Lead, Follow, Publish, Send, Receive, IInv, Progressed
  <2>2. Publish(c) => res[c] \in Results
    BY DEF Publish, IInv, Progressed
  <2> QED
    BY <1>10, <2>1, <2>2, <1>3, <1>4, <1>6, <1>7, <1>8 DEF Step, Abstract!Next
<1> QED
  BY <1>1, <1>2, <1>5, <1>9, <1>10 DEF Next, Abstract!Next

\* One result per flight, fixed in one atomic step, for every instance.
THEOREM Implements == Spec => Coalesces
  BY NextRefines, InitRefines, Invariance, PTL DEF Spec, Coalesces, Abstract!Spec
=============================================================================
