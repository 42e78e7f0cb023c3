------------------------ MODULE CachedSearchProofs ------------------------
(***************************************************************************)
(* Proofs about CachedSearch, for every set of calls, keys and error kinds, *)
(* every configuration and every bound.  What SingleFlightProofs shows of   *)
(* the coalescer is used through the instance Flights.                      *)
(***************************************************************************)
EXTENDS CachedSearch, LruProofs

Flights ==
  INSTANCE SingleFlightProofs WITH
    Results <- Replies, BroadcastError <- Failure(None, "broadcast")

Entries == [key : Keys, at : 0..now, val : Replies]

Marks == [at : Epochs, seen : Epochs, any : Epochs, quiet : Epochs]

\* The call whose request answers c: its leader's, or its own.
Source(c) == IF sub[c] # None THEN sub[c] ELSE c

-----------------------------------------------------------------------------
(* The inductive invariant *)

\* Where a call stands in cached_search says where it may stand in do_call.
Staged ==
  \A c \in Calls :
    /\ stage[c] = "idle" => pc[c] = "idle" /\ fetched[c] = None
    /\ stage[c] = "flight" =>
         /\ pc[c] \in {"enter", "run", "publish", "send", "wait", "done"}
         /\ sfOn /\ c \notin derived
    /\ stage[c] = "direct" => pc[c] = "idle"
    /\ stage[c] = "direct" => ~sfOn \/ c \in derived
    /\ stage[c] = "back" => pc[c] \in {"idle", "done"}
    /\ stage[c] = "gone" => pc[c] \in {"idle", "dropped"}
    /\ stage[c] # "idle" => asked[c] \in Keys /\ before[c] \in Marks
    /\ pc[c] # "idle" => key[c] = asked[c] /\ sfOn /\ c \notin derived
    /\ pc[c] \in {"enter", "wait"} => fetched[c] = None

\* A reply to a call's own request is for its key, and not older than the call.
RepliesTimely ==
  \A c \in Calls :
    fetched[c] # None =>
      /\ fetched[c].key = asked[c]
      /\ fetched[c].err = None => before[c].at <= fetched[c].epoch /\ fetched[c].epoch <= epoch

\* What a leader hands out is the reply to its own request.
LeadersReport ==
  \A c \in Calls :
    sub[c] = None /\ pc[c] \in {"publish", "send", "done"} =>
      fetched[c] # None /\ res[c] = fetched[c]

\* The cache holds one entry per key, with an answer to that key that is not older than
\* the last invalidation that met no search.
Remembered ==
  /\ Distinct(lru)
  /\ \A i \in DOMAIN lru :
       /\ lru[i].val.key = lru[i].key /\ lru[i].val.err = None
       /\ floor.quiet <= lru[i].val.epoch /\ lru[i].val.epoch <= epoch

\* The marks a call took when it started are in the past.
MarksPast ==
  /\ floor.any <= epoch /\ floor.quiet <= epoch
  /\ \A c \in Calls :
       stage[c] # "idle" =>
         /\ before[c].seen <= before[c].at /\ before[c].at <= epoch
         /\ before[c].quiet <= floor.quiet

\* No reply that a search still waits for is older than the last quiet invalidation, unless
\* it waits for a dropped leader, from which nothing will come.
QuietFlights ==
  \A c \in Calls :
    /\ Outstanding(c)
    /\ pc[Source(c)] # "dropped"
    /\ fetched[Source(c)] # None
    /\ fetched[Source(c)].err = None
    => floor.quiet <= fetched[Source(c)].epoch

\* An answer that was returned is for the key asked for and from a past epoch; when there
\* is no cache, a coalesced answer is what do_call returned.
Answered ==
  \A c \in Calls :
    stage[c] = "back" =>
      /\ answer[c].key = asked[c]
      /\ answer[c].err = None =>
           /\ answer[c].epoch \in Epochs
           /\ answer[c].epoch <= epoch
           /\ before[c].quiet <= answer[c].epoch
           /\ c \in derived => before[c].at <= answer[c].epoch
           /\ ~cacheOn /\ sfOn /\ c \notin derived => pc[c] = "done" /\ answer[c] = res[c]

\* Without a cache, an open flight's reply is not older than any result handed out for the
\* key before: flights for a key follow one another.
FlightsFollow ==
  \A l, d \in Calls :
    /\ pc[l] \in {"run", "publish"} /\ fetched[l] # None /\ fetched[l].err = None
    /\ pc[d] \in {"send", "done"} /\ key[d] = key[l] /\ res[d].err = None
    => res[d].epoch <= fetched[l].epoch

\* Nor older than what a call that joined the flight, or may still join it, has seen.
JoinersSeenPast ==
  \A l, c \in Calls :
    /\ fetched[l] # None /\ fetched[l].err = None /\ key[c] = key[l]
    /\ \/ pc[c] = "enter" /\ pc[l] \in {"run", "publish"}
       \/ pc[c] = "wait" /\ sub[c] = l /\ pc[l] # "dropped"
    => before[c].seen <= fetched[l].epoch

\* Nor is a result older than what the call that got it had seen.
ResultsNotOlder ==
  \A c \in Calls :
    pc[c] = "done" /\ res[c].err = None => before[c].seen <= res[c].epoch

NoCacheOrder == ~cacheOn => FlightsFollow /\ JoinersSeenPast /\ ResultsNotOlder

IInv ==
  /\ TypeOK
  /\ Flights!IInv
  /\ Staged
  /\ RepliesTimely
  /\ LeadersReport
  /\ Remembered
  /\ MarksPast
  /\ QuietFlights
  /\ Answered
  /\ NoCacheOrder
  /\ MonotoneReads
-----------------------------------------------------------------------------
(* Lemmas about the data *)

\* Answers, failures and None differ, as SingleFlight assumes of its constants.
LEMMA FlightConstants ==
  Flights!ConstantsAssumption
  <1> DEFINE broken == Failure(None, "broadcast")
  <1>1. broken # None
    BY ConstantsAssumption DEF Failure
  <1>2. None \notin Replies /\ broken \notin Replies
    <2>1. ASSUME NEW k \in Keys, NEW e \in Epochs
          PROVE  Answer(k, e) # None /\ Answer(k, e) # broken
      BY ConstantsAssumption DEF Answer, Failure, Epochs
    <2>2. ASSUME NEW k \in Keys, NEW kind \in ErrorKinds
          PROVE  Failure(k, kind) # None /\ Failure(k, kind) # broken
      BY ConstantsAssumption DEF Failure
    <2> HIDE DEF broken
    <2> QED BY <2>1, <2>2 DEF Replies
  <1> QED BY <1>1, <1>2, ConstantsAssumption DEF Flights!ConstantsAssumption

\* What a reply is made of.
LEMMA ReplyFields ==
  ASSUME NEW r \in Replies
  PROVE  /\ r # None /\ r.key \in Keys /\ r.epoch \in Epochs
         /\ r.err \in ErrorKinds \cup {None}
  <1>1. r # None
    BY FlightConstants DEF Flights!ConstantsAssumption
  <1>2. ASSUME NEW k \in Keys, NEW e \in Epochs, r = Answer(k, e)
        PROVE  r.key \in Keys /\ r.epoch \in Epochs /\ r.err \in ErrorKinds \cup {None}
    BY <1>2 DEF Answer
  <1>3. ASSUME NEW k \in Keys, NEW kind \in ErrorKinds, r = Failure(k, kind)
        PROVE  r.key \in Keys /\ r.epoch \in Epochs /\ r.err \in ErrorKinds \cup {None}
    BY <1>3, ConstantsAssumption DEF Failure, Epochs
  <1> QED BY <1>1, <1>2, <1>3 DEF Replies

\* A set of epochs has a greatest element.
LEMMA LatestEpoch ==
  ASSUME NEW S \in SUBSET Epochs, S # {}
  PROVE  Max(S) \in S /\ \A e \in S : e <= Max(S)
  <1> DEFINE T == {n \in Nat : n <= MaxEpoch /\ MaxEpoch - n \in S}
  <1>1. \A e \in S : e \in Nat /\ e <= MaxEpoch /\ MaxEpoch - e \in T
    BY ConstantsAssumption DEF Epochs
  <1>2. PICK m \in T : \A n \in T : ~(<<n, m>> \in OpToRel(<, Nat))
    BY <1>1, NatLessThanWellFounded, WFMin
  <1>3. \A n \in T : m <= n
    <2>1. OpToRel(<, Nat) = {ss \in Nat \X Nat : ss[1] < ss[2]}
      BY Zenon DEF OpToRel
    <2>2. \A n \in T : <<n, m>> \notin {ss \in Nat \X Nat : ss[1] < ss[2]}
      BY <1>2, <2>1, Zenon
    <2>3. ASSUME NEW n \in Nat, NEW q \in Nat, n < q
          PROVE  <<n, q>> \in {ss \in Nat \X Nat : ss[1] < ss[2]}
      BY <2>3
    <2>4. \A n \in T : n \in Nat
      OBVIOUS
    <2>5. \A n \in T : ~(n < m)
      BY <2>2, <2>3, <2>4, Zenon
    <2> QED BY <2>4, <2>5
  <1>4. MaxEpoch - m \in S /\ \A e \in S : e <= MaxEpoch - m
    BY <1>1, <1>3, ConstantsAssumption
  <1> QED BY <1>4, Zenon DEF Max

-----------------------------------------------------------------------------
(* The steps of the coalescer *)

\* Whatever a search does, the coalescer takes a step of its own specification or none.
LEMMA FlightSteps ==
  ASSUME TypeOK, [Next]_vars
  PROVE  [Flights!Next]_Flights!vars
  <1>1. CASE UNCHANGED flightVars
    BY <1>1 DEF flightVars, Flights!vars
  <1>2. ASSUME NEW c \in Calls, NEW k \in Keys, SF!Enter(c, k)
        PROVE  Flights!Enter(c, k)
    BY <1>2 DEF SF!Enter, Flights!Enter, SF!Goto, Flights!Goto
  <1>3. ASSUME NEW c \in Calls, SF!Step(c)
        PROVE  Flights!Step(c)
    BY <1>3 DEF SF!Step, Flights!Step, SF!Lead, Flights!Lead, SF!Follow, Flights!Follow,
         SF!Publish, Flights!Publish, SF!Send, Flights!Send, SF!Receive, Flights!Receive,
         SF!SenderAlive, Flights!SenderAlive, SF!Goto, Flights!Goto
  <1>4. ASSUME NEW c \in Calls, fetched[c] # None, SF!Finish(c, fetched[c])
        PROVE  \E r \in Replies : Flights!Finish(c, r)
    BY <1>4 DEF TypeOK, SF!Finish, Flights!Finish, SF!Goto, Flights!Goto
  <1>5. ASSUME NEW c \in Calls, SF!Drop(c)
        PROVE  Flights!Drop(c)
    BY <1>5 DEF SF!Drop, Flights!Drop, SF!Goto, Flights!Goto
  <1>6. CASE UNCHANGED vars
    BY <1>1, <1>6 DEF vars
  <1>7. ASSUME NEW c \in Calls, NEW k \in Keys, Search(c, k)
        PROVE  [Flights!Next]_Flights!vars
    BY <1>1, <1>2, <1>7
    DEF Search, SearchHit, SearchToFlight, SearchToDirect, Flights!Next
  <1>8. ASSUME NEW c \in Calls, Respond(c) \/ Returns(c)
        PROVE  [Flights!Next]_Flights!vars
    BY <1>1, <1>8 DEF Respond, Returns, FlightReturns, DirectReturns
  <1>9. ASSUME NEW c \in Calls, FlightStep(c)
        PROVE  [Flights!Next]_Flights!vars
    BY <1>3, <1>4, <1>9 DEF FlightStep, Flights!Next
  <1>10. ASSUME NEW c \in Calls, Drop(c)
         PROVE  [Flights!Next]_Flights!vars
    BY <1>1, <1>5, <1>10 DEF Drop, Flights!Next
  <1>11. CASE Invalidate \/ Change \/ Tick
    BY <1>1, <1>11 DEF Invalidate, Change, Tick
  <1> QED BY <1>6, <1>7, <1>8, <1>9, <1>10, <1>11 DEF Next

\* So the coalescer's invariant is kept.
LEMMA FlightsPreserved ==
  ASSUME TypeOK, Flights!IInv, [Next]_vars
  PROVE  Flights!IInv' /\ SF!TypeOK'
  <1>1. Flights!IInv'
    BY FlightConstants, FlightSteps, Flights!NextPreserves
  <1>2. Flights!TypeOK' => SF!TypeOK'
    BY DEF Flights!TypeOK, SF!TypeOK, Flights!States, SF!States
  <1> QED BY <1>1, <1>2 DEF Flights!IInv

\* What a call that do_call returned to holds: the reply to the request of its source,
\* which was for the same key and has returned as well.
LEMMA ReturnedResult ==
  ASSUME IInv, NEW c \in Calls, pc[c] = "done"
  PROVE  /\ Source(c) \in Calls /\ pc[Source(c)] = "done" /\ key[Source(c)] = key[c]
         /\ fetched[Source(c)] # None /\ res[c] = fetched[Source(c)]
         /\ asked[Source(c)] = asked[c]
         /\ res[c] \in Replies /\ res[c].key = asked[c] /\ res[c].epoch \in Epochs
         /\ res[c].err = None => res[c].epoch <= epoch
  <1>1. /\ Source(c) \in Calls /\ pc[Source(c)] = "done" /\ key[Source(c)] = key[c]
        /\ sub[Source(c)] = None /\ res[c] = res[Source(c)]
    BY DEF IInv, Source, Flights!IInv, Flights!TypeOK, Flights!FollowersFollowLeaders
  <1>2. fetched[Source(c)] # None /\ res[c] = fetched[Source(c)]
    BY <1>1 DEF IInv, LeadersReport
  <1>3. asked[Source(c)] = asked[c]
    BY <1>1 DEF IInv, Staged
  <1>4. fetched[Source(c)] \in Replies
    BY <1>1, <1>2 DEF IInv, TypeOK
  <1>5. /\ fetched[Source(c)].key = asked[c]
        /\ fetched[Source(c)].err = None => fetched[Source(c)].epoch <= epoch
    BY <1>1, <1>2, <1>3 DEF IInv, RepliesTimely
  <1>6. fetched[Source(c)].epoch \in Epochs
    BY <1>4, ReplyFields
  <1>7. /\ res[c].key = asked[c]
        /\ res[c].err = None => res[c].epoch <= epoch
    BY <1>2, <1>5
  <1> QED BY <1>1, <1>2, <1>3, <1>4, <1>6, <1>7, Zenon

\* The latest epoch seen is that of some returned answer, or 0, and none is later.
LEMMA SeenBound ==
  ASSUME IInv, NEW c \in Calls, NEW k \in Keys
  PROVE  /\ LatestSeen(c, k) \in Epochs /\ LatestSeen(c, k) <= epoch
         /\ \/ LatestSeen(c, k) = 0
            \/ \E d \in Calls : /\ stage[d] = "back" /\ asked[d] = k /\ answer[d].err = None
                                /\ (d \in derived <=> c \in derived)
                                /\ LatestSeen(c, k) = answer[d].epoch
  <1> DEFINE D == {e \in Calls : stage[e] = "back" /\ asked[e] = k /\ answer[e].err = None
                                /\ (e \in derived <=> c \in derived)}
             S == {answer[d].epoch : d \in D} \cup {0}
  <1>1. \A d \in D : answer[d].epoch \in Epochs /\ answer[d].epoch <= epoch
    BY DEF IInv, Answered
  <1>2. 0 \in Epochs /\ epoch \in Epochs /\ 0 <= epoch
    BY ConstantsAssumption DEF IInv, TypeOK, Epochs
  <1>3. S \in SUBSET Epochs /\ S # {}
    BY <1>1, <1>2
  <1>4. LatestSeen(c, k) = Max(S)
    BY DEF LatestSeen
  <1>5. Max(S) \in S
    BY <1>3, LatestEpoch
  <1> QED BY <1>1, <1>2, <1>4, <1>5

-----------------------------------------------------------------------------
(* The invariant is preserved, action by action *)

\* A search for k starts, whatever comes next: the marks it takes and what it leaves alone.
Began(c, k) ==
  /\ stage[c] = "idle" /\ pc[c] = "idle" /\ fetched[c] = None /\ sub[c] = None
  /\ asked' = [asked EXCEPT ![c] = k]
  /\ UNCHANGED <<cacheOn, sfOn, derived, fetched, now, epoch, floor>>
  /\ before' \in [Calls -> Marks \cup {None}]
  /\ before'[c] \in Marks /\ before'[c].at = epoch /\ before'[c].quiet = floor.quiet
  /\ before'[c].seen = LatestSeen(c, k) /\ before'[c].seen <= epoch
  /\ \A d \in Calls \ {c} : before'[d] = before[d] /\ asked'[d] = asked[d]

\* What a search notes when it begins.
LEMMA BeginProperties ==
  ASSUME IInv, NEW c \in Calls, NEW k \in Keys, Begins(c, k)
  PROVE  Began(c, k)
  <1>1. stage[c] = "idle" /\ pc[c] = "idle" /\ fetched[c] = None
    BY DEF IInv, Staged, Begins
  <1>2. sub[c] = None
    BY <1>1 DEF IInv, Flights!IInv, Flights!Progressed
  <1>3. LatestSeen(c, k) \in Epochs /\ LatestSeen(c, k) <= epoch
    BY SeenBound
  <1>4. epoch \in Epochs /\ floor \in [any : Epochs, quiet : Epochs]
        /\ before \in [Calls -> Marks \cup {None}] /\ asked \in [Calls -> Keys \cup {None}]
    BY DEF IInv, TypeOK, Marks
  <1>5. before' = [before EXCEPT ![c] = [at |-> epoch, seen |-> LatestSeen(c, k),
                                         any |-> floor.any, quiet |-> floor.quiet]]
    BY DEF Begins
  <1>6. [at |-> epoch, seen |-> LatestSeen(c, k), any |-> floor.any, quiet |-> floor.quiet]
          \in Marks
    BY <1>3, <1>4 DEF Marks
  <1> QED BY <1>1, <1>2, <1>3, <1>4, <1>5, <1>6 DEF Begins, Began, config

\* The marks a search takes are in the past.
LEMMA BeganMarks ==
  ASSUME IInv, NEW c \in Calls, NEW k \in Keys, Began(c, k),
         \A d \in Calls \ {c} : stage'[d] = stage[d]
  PROVE  MarksPast'
  <1>1. floor' = floor /\ epoch' = epoch
    BY DEF Began
  <1>2. epoch \in Nat /\ floor.quiet \in Nat
    BY DEF IInv, TypeOK, Epochs
  <1>3. before'[c].seen <= before'[c].at /\ before'[c].at <= epoch
        /\ before'[c].quiet <= floor.quiet
    BY <1>2 DEF Began
  <1>4. ASSUME NEW d \in Calls \ {c}, stage'[d] # "idle"
        PROVE  before'[d].seen <= before'[d].at /\ before'[d].at <= epoch
               /\ before'[d].quiet <= floor.quiet
    BY <1>4 DEF Began, IInv, MarksPast
  <1> QED BY <1>1, <1>3, <1>4 DEF IInv, MarksPast

\* A cache hit.
LEMMA SearchHitPreserves ==
  ASSUME IInv, [Next]_vars, NEW c \in Calls, NEW k \in Keys, SearchHit(c, k)
  PROVE  IInv'
  <1> DEFINE v == Peek(lru, k).val
  <1>0. Began(c, k)
    BY BeginProperties DEF SearchHit
  <1>1. /\ UNCHANGED flightVars /\ stage' = [stage EXCEPT ![c] = "back"]
        /\ answer' = [answer EXCEPT ![c] = v] /\ lru' = Promote(lru, k)
        /\ k \in CachedKeys(lru) /\ cacheOn /\ c \notin derived
    BY DEF SearchHit, Begins, Fresh, Has, Goto
  <1>2. Flights!IInv' /\ SF!TypeOK'
    BY FlightsPreserved DEF IInv
  <1>3. lru \in Seq(Entries) /\ Distinct(lru) /\ Len(lru) <= Capacity
    BY DEF IInv, TypeOK, Entries, Remembered
  <1>4. \E i \in DOMAIN lru : lru[i] = Peek(lru, k) /\ lru[i].key = k
    BY <1>1, PositionFinds DEF Peek
  <1>5. /\ v \in Replies /\ v.key = k /\ v.err = None
        /\ floor.quiet <= v.epoch /\ v.epoch <= epoch /\ v.epoch \in Epochs
    <2>1. Peek(lru, k) \in Entries
      BY <1>3, <1>4
    <2>2. v \in Replies
      BY <2>1 DEF Entries
    <2> QED BY <1>4, <2>2, ReplyFields DEF IInv, Remembered
  <1>6. /\ lru' \in Seq(Entries) /\ Distinct(lru') /\ Len(lru') <= Capacity
        /\ \A i \in DOMAIN lru' : \E m \in DOMAIN lru : lru'[i] = lru[m]
    BY <1>1, <1>3, PromoteKeeps
  <1> HIDE DEF v
  <1>7. Entries' = Entries
    BY <1>0 DEF Began, Entries
  <1>8. TypeOK'
    BY <1>1, <1>2, <1>5, <1>6, <1>7, <1>0
    DEF Began, IInv, TypeOK, config, Marks, Entries
  <1>9. Staged'
    BY <1>1, <1>0 DEF Began, IInv, Staged, config, flightVars, TypeOK
  <1>10. RepliesTimely'
    BY <1>1, <1>0 DEF Began, IInv, RepliesTimely
  <1>11. LeadersReport'
    BY <1>1, <1>0 DEF Began, IInv, LeadersReport, flightVars
  <1>12. Remembered'
    BY <1>6, <1>0 DEF Began, IInv, Remembered
  <1>13. MarksPast'
    <2>1. \A d \in Calls \ {c} : stage'[d] = stage[d]
      BY <1>1 DEF IInv, TypeOK
    <2> QED BY <1>0, <2>1, BeganMarks
  <1>14. QuietFlights'
    BY <1>1, <1>0 DEF Began, IInv, QuietFlights, Source, flightVars, Outstanding, TypeOK
  <1>15. Answered'
    <2>1. ASSUME NEW d \in Calls, stage'[d] = "back", d # c
          PROVE  stage[d] = "back" /\ UNCHANGED <<answer[d], asked[d], before[d], pc[d], res[d]>>
      BY <1>0, <1>1, <2>1 DEF Began, flightVars, IInv, TypeOK
    <2>2. answer'[c] = v /\ asked'[c] = k /\ before'[c].quiet <= v.epoch /\ c \notin derived
      BY <1>0, <1>1, <1>5 DEF Began, IInv, TypeOK
    <2> QED BY <1>0, <1>1, <1>5, <2>1, <2>2 DEF Began, IInv, Answered
  <1>16. NoCacheOrder' /\ MonotoneReads'
    BY <1>1, <1>0 DEF Began, NoCacheOrder, MonotoneReads
  <1> QED BY <1>2, <1>8, <1>9, <1>10, <1>11, <1>12, <1>13, <1>14, <1>15, <1>16 DEF IInv

\* A miss drops at most an expired entry.
LEMMA MissKeeps ==
  ASSUME IInv, NEW c \in Calls, NEW k \in Keys, Misses(c, k)
  PROVE  /\ lru' \in Seq(Entries) /\ Distinct(lru') /\ Len(lru') <= Capacity
         /\ \A i \in DOMAIN lru' : \E m \in DOMAIN lru : lru'[i] = lru[m]
  <1>1. lru \in Seq(Entries) /\ Distinct(lru) /\ Len(lru) <= Capacity
    BY DEF IInv, TypeOK, Entries, Remembered
  <1>2. CASE lru' = lru
    BY <1>1, <1>2
  <1>3. CASE lru' = Pop(lru, k)
    <2>1. /\ lru' \in Seq(Entries) /\ Distinct(lru')
          /\ Len(lru') = IF k \in CachedKeys(lru) THEN Len(lru) - 1 ELSE Len(lru)
          /\ \A i \in DOMAIN lru' : \E m \in DOMAIN lru : lru'[i] = lru[m]
      BY <1>1, <1>3, PopProperties
    <2>2. Len(lru') <= Capacity
      BY <1>1, <2>1, CapacityAssumption
    <2> QED BY <2>1, <2>2
  <1> QED BY <1>2, <1>3 DEF Misses

\* A search goes to the coalescer.
LEMMA SearchToFlightPreserves ==
  ASSUME IInv, [Next]_vars, NEW c \in Calls, NEW k \in Keys, SearchToFlight(c, k)
  PROVE  IInv'
  <1>0. Began(c, k)
    BY BeginProperties DEF SearchToFlight
  <1>1. /\ stage' = [stage EXCEPT ![c] = "flight"] /\ answer' = answer
        /\ pc' = [pc EXCEPT ![c] = "enter"] /\ key' = [key EXCEPT ![c] = k]
        /\ UNCHANGED <<slot, sub, tx, chan, res>>
        /\ sfOn /\ c \notin derived /\ Misses(c, k)
    BY DEF SearchToFlight, Has, Goto, SF!Enter, SF!Goto
  <1>2. Flights!IInv' /\ SF!TypeOK'
    BY FlightsPreserved DEF IInv
  <1>3. /\ lru' \in Seq(Entries) /\ Distinct(lru') /\ Len(lru') <= Capacity
        /\ \A i \in DOMAIN lru' : \E m \in DOMAIN lru : lru'[i] = lru[m]
    BY <1>1, MissKeeps
  <1>4. Entries' = Entries
    BY <1>0 DEF Began, Entries
  <1>5. /\ \A d \in Calls \ {c} : stage'[d] = stage[d] /\ pc'[d] = pc[d] /\ key'[d] = key[d]
        /\ stage'[c] = "flight" /\ pc'[c] = "enter" /\ key'[c] = k /\ asked'[c] = k
    BY <1>0, <1>1 DEF Began, IInv, TypeOK, Flights!IInv, Flights!TypeOK
  <1>6. TypeOK'
    BY <1>0, <1>1, <1>2, <1>3, <1>4 DEF Began, IInv, TypeOK, Marks, Entries
  <1>7. Staged'
    BY <1>0, <1>1, <1>5 DEF Began, IInv, Staged
  <1>8. RepliesTimely'
    BY <1>0 DEF Began, IInv, RepliesTimely
  <1>9. LeadersReport'
    BY <1>0, <1>1, <1>5 DEF Began, IInv, LeadersReport
  <1>10. Remembered'
    BY <1>0, <1>3 DEF Began, IInv, Remembered
  <1>11. MarksPast'
    BY <1>0, <1>5, BeganMarks
  <1>12. QuietFlights'
    BY <1>0, <1>1, <1>5 DEF Began, IInv, QuietFlights, Source, Outstanding,
       Flights!IInv, Flights!TypeOK
  <1>13. Answered'
    BY <1>0, <1>1, <1>5 DEF Began, IInv, Answered
  <1>14. NoCacheOrder'
    <2> SUFFICES ASSUME ~cacheOn PROVE (FlightsFollow /\ JoinersSeenPast /\ ResultsNotOlder)'
      BY <1>0 DEF Began, NoCacheOrder
    <2>1. FlightsFollow /\ JoinersSeenPast /\ ResultsNotOlder
      BY DEF IInv, NoCacheOrder
    <2>2. FlightsFollow'
      BY <1>0, <1>1, <1>5, <2>1 DEF Began, FlightsFollow
    <2>3. ASSUME NEW l \in Calls, pc[l] \in {"run", "publish"}, key[l] = k,
                 fetched[l] # None, fetched[l].err = None
          PROVE  before'[c].seen <= fetched[l].epoch
      <3>1. fetched[l].epoch \in Epochs
        BY <2>3, ReplyFields DEF IInv, TypeOK
      <3>2. CASE LatestSeen(c, k) = 0
        BY <1>0, <3>1, <3>2 DEF Began, Epochs
      <3>3. ASSUME NEW d \in Calls, stage[d] = "back", asked[d] = k, answer[d].err = None,
                   d \notin derived, LatestSeen(c, k) = answer[d].epoch
            PROVE  before'[c].seen <= fetched[l].epoch
        <4>1. pc[d] = "done" /\ answer[d] = res[d] /\ key[d] = k
          BY <1>1, <3>3 DEF IInv, Answered, Staged
        <4> QED BY <1>0, <2>1, <2>3, <3>3, <4>1 DEF Began, FlightsFollow
      <3> QED BY <1>1, <3>2, <3>3, SeenBound
    <2>4. JoinersSeenPast'
      <3> SUFFICES ASSUME NEW l \in Calls, NEW d \in Calls,
                          fetched[l] # None, fetched[l].err = None, key'[d] = key'[l],
                          \/ pc'[d] = "enter" /\ pc'[l] \in {"run", "publish"}
                          \/ pc'[d] = "wait" /\ sub[d] = l /\ pc'[l] # "dropped"
                   PROVE  before'[d].seen <= fetched[l].epoch
        BY <1>0, <1>1 DEF Began, JoinersSeenPast
      <3>1. l # c
        BY <1>0 DEF Began
      <3>2. CASE d = c
        BY <1>5, <2>3, <3>1, <3>2
      <3>3. CASE d # c
        BY <1>0, <1>5, <2>1, <3>1, <3>3 DEF Began, JoinersSeenPast
      <3> QED BY <3>2, <3>3
    <2>5. ResultsNotOlder'
      BY <1>0, <1>1, <1>5, <2>1 DEF Began, ResultsNotOlder
    <2> QED BY <2>2, <2>4, <2>5
  <1>15. MonotoneReads'
    BY <1>0, <1>1, <1>5 DEF Began, IInv, MonotoneReads
  <1> QED BY <1>2, <1>6, <1>7, <1>8, <1>9, <1>10, <1>11, <1>12, <1>13, <1>14, <1>15 DEF IInv

\* A search sends its own request.
LEMMA SearchToDirectPreserves ==
  ASSUME IInv, [Next]_vars, NEW c \in Calls, NEW k \in Keys, SearchToDirect(c, k)
  PROVE  IInv'
  <1>0. Began(c, k)
    BY BeginProperties DEF SearchToDirect
  <1>1. /\ stage' = [stage EXCEPT ![c] = "direct"] /\ answer' = answer
        /\ UNCHANGED flightVars /\ Misses(c, k) /\ (~sfOn \/ c \in derived)
    BY DEF SearchToDirect, Has, Goto
  <1>2. Flights!IInv' /\ SF!TypeOK'
    BY FlightsPreserved DEF IInv
  <1>3. /\ lru' \in Seq(Entries) /\ Distinct(lru') /\ Len(lru') <= Capacity
        /\ \A i \in DOMAIN lru' : \E m \in DOMAIN lru : lru'[i] = lru[m]
    BY <1>1, MissKeeps
  <1>4. Entries' = Entries
    BY <1>0 DEF Began, Entries
  <1>5. /\ \A d \in Calls \ {c} : stage'[d] = stage[d]
        /\ stage'[c] = "direct" /\ asked'[c] = k
    BY <1>0, <1>1 DEF Began, IInv, TypeOK
  <1>6. TypeOK'
    BY <1>0, <1>1, <1>2, <1>3, <1>4 DEF Began, IInv, TypeOK, Marks, Entries
  <1>7. Staged'
    BY <1>0, <1>1, <1>5 DEF Began, IInv, Staged, flightVars
  <1>8. RepliesTimely'
    BY <1>0 DEF Began, IInv, RepliesTimely
  <1>9. LeadersReport'
    BY <1>0, <1>1 DEF Began, IInv, LeadersReport, flightVars
  <1>10. Remembered'
    BY <1>0, <1>3 DEF Began, IInv, Remembered
  <1>11. MarksPast'
    BY <1>0, <1>5, BeganMarks
  <1>12. QuietFlights'
    BY <1>0, <1>1, <1>5 DEF Began, IInv, QuietFlights, Source, Outstanding, flightVars
  <1>13. Answered'
    BY <1>0, <1>1, <1>5 DEF Began, IInv, Answered, flightVars
  <1>14. NoCacheOrder'
    <2>1. \A d \in Calls : pc[d] # "idle" => before'[d] = before[d]
      BY <1>0 DEF Began
    <2> QED BY <1>0, <1>1, <2>1
        DEF Began, IInv, NoCacheOrder, FlightsFollow, JoinersSeenPast, ResultsNotOlder,
            flightVars
  <1>15. MonotoneReads'
    BY <1>0, <1>1, <1>5 DEF Began, IInv, MonotoneReads
  <1> QED BY <1>2, <1>6, <1>7, <1>8, <1>9, <1>10, <1>11, <1>12, <1>13, <1>14, <1>15 DEF IInv

\* The server answers a call's own request.
LEMMA RespondPreserves ==
  ASSUME IInv, [Next]_vars, NEW c \in Calls, Respond(c)
  PROVE  IInv'
  <1>1. /\ UNCHANGED flightVars /\ UNCHANGED <<cacheOn, sfOn, derived, stage, asked, answer>>
        /\ UNCHANGED <<before, lru, now, epoch, floor>>
        /\ fetched[c] = None /\ (pc[c] = "run" \/ stage[c] = "direct")
    BY DEF Respond, config
  <1>2. Flights!IInv' /\ SF!TypeOK'
    BY FlightsPreserved DEF IInv
  <1>3. stage[c] # "idle" /\ stage[c] # "back" /\ asked[c] \in Keys /\ before[c] \in Marks
    BY <1>1 DEF IInv, Staged
  <1>4. PICK r \in ServerReplies(c) : fetched' = [fetched EXCEPT ![c] = r]
    BY DEF Respond
  <1>5. r \in Replies /\ r # None /\ r.key = asked[c]
        /\ (r.err = None => r.epoch = epoch)
    <2>1. CASE r = Answer(asked[c], epoch)
      <3>1. r \in Replies
        BY <1>3, <2>1 DEF Replies, IInv, TypeOK
      <3> QED BY <2>1, <3>1, ReplyFields DEF Answer
    <2>2. ASSUME NEW kind \in ErrorKinds, r = Failure(asked[c], kind)
          PROVE  r \in Replies /\ r # None /\ r.key = asked[c] /\ r.err # None
      <3>1. r \in Replies
        BY <1>3, <2>2 DEF Replies
      <3> QED BY <2>2, <3>1, ReplyFields, ConstantsAssumption DEF Failure
    <2> QED BY <1>4, <2>1, <2>2 DEF ServerReplies
  <1>6. fetched'[c] = r /\ \A d \in Calls \ {c} : fetched'[d] = fetched[d]
    BY <1>4 DEF IInv, TypeOK
  <1>7. epoch \in Nat /\ before[c].at <= epoch /\ floor.quiet <= epoch
    BY <1>3 DEF IInv, MarksPast, TypeOK, Epochs
  <1>8. TypeOK'
    BY <1>1, <1>2, <1>4, <1>5 DEF IInv, TypeOK
  <1>9. Staged'
    BY <1>1, <1>3, <1>6 DEF IInv, Staged, flightVars
  <1>10. RepliesTimely'
    BY <1>1, <1>5, <1>6, <1>7 DEF IInv, RepliesTimely
  <1>11. LeadersReport'
    <2>1. pc[c] \notin {"publish", "send", "done"}
      BY <1>1 DEF IInv, Staged
    <2> QED BY <1>1, <1>6, <2>1 DEF IInv, LeadersReport, flightVars
  <1>12. Remembered'
    BY <1>1 DEF IInv, Remembered
  <1>13. MarksPast'
    BY <1>1 DEF IInv, MarksPast
  <1>14. QuietFlights'
    <2> SUFFICES ASSUME NEW d \in Calls, Outstanding(d), pc[Source(d)] # "dropped",
                        fetched'[Source(d)] # None, fetched'[Source(d)].err = None
                 PROVE  floor.quiet <= fetched'[Source(d)].epoch
      BY <1>1 DEF QuietFlights, Outstanding, Source, flightVars
    <2>1. Source(d) \in Calls
      BY DEF Source, IInv, Flights!IInv, Flights!TypeOK
    <2> QED BY <1>5, <1>6, <1>7, <2>1 DEF IInv, QuietFlights
  <1>15. Answered'
    BY <1>1 DEF IInv, Answered, flightVars
  <1>16. NoCacheOrder'
    <2> SUFFICES ASSUME ~cacheOn PROVE (FlightsFollow /\ JoinersSeenPast /\ ResultsNotOlder)'
      BY <1>1 DEF NoCacheOrder
    <2>1. FlightsFollow /\ JoinersSeenPast /\ ResultsNotOlder
      BY DEF IInv, NoCacheOrder
    <2>2. ASSUME NEW d \in Calls, pc[d] \in {"send", "done"}, res[d].err = None
          PROVE  res[d].epoch <= epoch
      <3>1. CASE pc[d] = "done"
        BY <2>2, <3>1, ReturnedResult
      <3>2. CASE pc[d] = "send"
        <4>1. sub[d] = None
          BY <3>2 DEF IInv, Flights!IInv, Flights!LeadersHoldSlots
        <4>2. fetched[d] # None /\ res[d] = fetched[d]
          BY <3>2, <4>1 DEF IInv, LeadersReport
        <4> QED BY <2>2, <4>2 DEF IInv, RepliesTimely
      <3> QED BY <2>2, <3>1, <3>2
    <2>3. FlightsFollow'
      BY <1>1, <1>5, <1>6, <2>1, <2>2 DEF FlightsFollow, flightVars
    <2>4. ASSUME NEW d \in Calls, pc[d] \in {"enter", "wait"}
          PROVE  before[d].seen <= epoch
      <3>1. stage[d] # "idle" /\ before[d] \in Marks
        BY <2>4 DEF IInv, Staged
      <3> QED BY <1>7, <3>1 DEF IInv, MarksPast, Marks, Epochs
    <2>5. JoinersSeenPast'
      BY <1>1, <1>5, <1>6, <2>1, <2>4 DEF JoinersSeenPast, flightVars
    <2>6. ResultsNotOlder'
      BY <1>1, <2>1 DEF ResultsNotOlder, flightVars
    <2> QED BY <2>3, <2>5, <2>6
  <1>17. MonotoneReads'
    BY <1>1 DEF IInv, MonotoneReads
  <1> QED BY <1>2, <1>8, <1>9, <1>10, <1>11, <1>12, <1>13, <1>14, <1>15, <1>16, <1>17 DEF IInv

\* What every step inside do_call leaves alone, and what that keeps.
LEMMA FlightStepFrame ==
  ASSUME IInv, [Next]_vars, NEW c \in Calls, FlightStep(c), stage[c] = "flight"
  PROVE  /\ UNCHANGED <<cacheOn, sfOn, derived, stage, asked, fetched, answer, before, lru, now>>
         /\ UNCHANGED <<epoch, floor>>
         /\ Flights!IInv' /\ TypeOK' /\ RepliesTimely' /\ Remembered' /\ MarksPast'
         /\ MonotoneReads'
  <1>1. /\ UNCHANGED <<cacheOn, sfOn, derived, stage, asked, fetched, answer, before, lru, now>>
        /\ UNCHANGED <<epoch, floor>>
    BY DEF FlightStep, config, callVars
  <1>2. Flights!IInv' /\ SF!TypeOK'
    BY FlightsPreserved DEF IInv
  <1>3. TypeOK'
    BY <1>1, <1>2 DEF IInv, TypeOK
  <1>4. RepliesTimely' /\ Remembered' /\ MarksPast' /\ MonotoneReads'
    BY <1>1 DEF IInv, RepliesTimely, Remembered, MarksPast, MonotoneReads
  <1> QED BY <1>1, <1>2, <1>3, <1>4

\* A call becomes the leader of its key.
LEMMA LeadPreserves ==
  ASSUME IInv, [Next]_vars, NEW c \in Calls, FlightStep(c), SF!Lead(c)
  PROVE  IInv'
  <1>1. /\ pc[c] = "enter" /\ pc' = [pc EXCEPT ![c] = "run"]
        /\ UNCHANGED <<key, sub, tx, chan, res>>
    BY DEF SF!Lead, SF!Goto
  <1>2. stage[c] = "flight" /\ fetched[c] = None
    BY <1>1 DEF IInv, Staged, TypeOK
  <1>3. /\ UNCHANGED <<cacheOn, sfOn, derived, stage, asked, fetched, answer, before, lru, now>>
        /\ UNCHANGED <<epoch, floor>>
        /\ Flights!IInv' /\ TypeOK' /\ RepliesTimely' /\ Remembered' /\ MarksPast'
        /\ MonotoneReads'
    BY <1>2, FlightStepFrame
  <1>4. pc'[c] = "run" /\ \A d \in Calls \ {c} : pc'[d] = pc[d]
    BY <1>1 DEF IInv, Flights!IInv, Flights!TypeOK
  <1>5. Staged'
    BY <1>1, <1>2, <1>3, <1>4 DEF IInv, Staged
  <1>6. LeadersReport'
    BY <1>1, <1>3, <1>4 DEF IInv, LeadersReport
  <1>7. QuietFlights'
    <2>1. \A d \in Calls : Source(d) \in Calls
      BY DEF Source, IInv, Flights!IInv, Flights!TypeOK
    <2> QED BY <1>1, <1>2, <1>3, <1>4, <2>1 DEF IInv, QuietFlights, Outstanding, Source
  <1>8. Answered'
    BY <1>1, <1>2, <1>3, <1>4 DEF IInv, Answered
  <1>9. NoCacheOrder'
    BY <1>1, <1>2, <1>3, <1>4
    DEF IInv, NoCacheOrder, FlightsFollow, JoinersSeenPast, ResultsNotOlder
  <1> QED BY <1>3, <1>5, <1>6, <1>7, <1>8, <1>9 DEF IInv

\* A call subscribes to the open flight for its key.
LEMMA FollowPreserves ==
  ASSUME IInv, [Next]_vars, NEW c \in Calls, FlightStep(c), SF!Follow(c)
  PROVE  IInv'
  <1> DEFINE l == slot[key[c]]
  <1>1. /\ pc[c] = "enter" /\ pc' = [pc EXCEPT ![c] = "wait"]
        /\ sub' = [sub EXCEPT ![c] = l] /\ l # None
        /\ UNCHANGED <<slot, key, tx, chan, res>>
    BY DEF SF!Follow, SF!Goto
  <1>2. stage[c] = "flight" /\ fetched[c] = None
    BY <1>1 DEF IInv, Staged, TypeOK
  <1>3. /\ UNCHANGED <<cacheOn, sfOn, derived, stage, asked, fetched, answer, before, lru, now>>
        /\ UNCHANGED <<epoch, floor>>
        /\ Flights!IInv' /\ TypeOK' /\ RepliesTimely' /\ Remembered' /\ MarksPast'
        /\ MonotoneReads'
    BY <1>2, FlightStepFrame
  <1>4. /\ pc'[c] = "wait" /\ \A d \in Calls \ {c} : pc'[d] = pc[d]
        /\ sub'[c] = l /\ \A d \in Calls \ {c} : sub'[d] = sub[d]
    BY <1>1 DEF IInv, Flights!IInv, Flights!TypeOK
  <1>5. /\ l \in Calls /\ pc[l] \in {"run", "publish", "dropped"} /\ sub[l] = None
        /\ key[l] = key[c] /\ l # c
    BY <1>1 DEF IInv, Flights!IInv, Flights!TypeOK, Flights!Progressed,
       Flights!SlotsHeldByLeaders
  <1> HIDE DEF l
  <1>6. Staged'
    BY <1>1, <1>2, <1>3, <1>4 DEF IInv, Staged
  <1>7. LeadersReport'
    BY <1>1, <1>3, <1>4 DEF IInv, LeadersReport
  <1>8. QuietFlights'
    <2> SUFFICES ASSUME NEW d \in Calls, Outstanding(d), pc'[Source(d)'] # "dropped",
                        fetched[Source(d)'] # None, fetched[Source(d)'].err = None
                 PROVE  floor.quiet <= fetched[Source(d)'].epoch
      BY <1>3 DEF QuietFlights, Outstanding
    <2>1. CASE d = c
      <3>1. Source(d)' = l /\ pc[l] \in {"run", "publish"} /\ Source(l) = l
        BY <1>1, <1>4, <1>5, <2>1 DEF Source
      <3>2. Outstanding(l)
        BY <1>5, <3>1 DEF IInv, TypeOK, Staged, Outstanding
      <3> QED BY <1>5, <3>1, <3>2 DEF IInv, QuietFlights
    <2>2. CASE d # c
      <3>1. Source(d)' = Source(d) /\ Source(d) \in Calls
        BY <1>4, <2>2 DEF Source, IInv, Flights!IInv, Flights!TypeOK
      <3>2. pc[Source(d)] # "dropped"
        BY <1>1, <1>4, <3>1
      <3> QED BY <3>1, <3>2 DEF IInv, QuietFlights
    <2> QED BY <2>1, <2>2
  <1>9. Answered'
    BY <1>1, <1>2, <1>3, <1>4 DEF IInv, Answered
  <1>10. NoCacheOrder'
    <2> SUFFICES ASSUME ~cacheOn PROVE (FlightsFollow /\ JoinersSeenPast /\ ResultsNotOlder)'
      BY <1>3 DEF NoCacheOrder
    <2>1. FlightsFollow /\ JoinersSeenPast /\ ResultsNotOlder
      BY DEF IInv, NoCacheOrder
    <2>2. FlightsFollow' /\ ResultsNotOlder'
      BY <1>1, <1>3, <1>4, <2>1 DEF FlightsFollow, ResultsNotOlder
    <2>3. JoinersSeenPast'
      BY <1>1, <1>3, <1>4, <1>5, <2>1 DEF JoinersSeenPast
    <2> QED BY <2>2, <2>3
  <1> QED BY <1>3, <1>6, <1>7, <1>8, <1>9, <1>10 DEF IInv

\* A leader's request has ended.
LEMMA FinishPreserves ==
  ASSUME IInv, [Next]_vars, NEW c \in Calls, FlightStep(c),
         fetched[c] # None, SF!Finish(c, fetched[c])
  PROVE  IInv'
  <1>1. /\ pc[c] = "run" /\ pc' = [pc EXCEPT ![c] = "publish"]
        /\ res' = [res EXCEPT ![c] = fetched[c]]
        /\ UNCHANGED <<slot, key, sub, tx, chan>>
    BY DEF SF!Finish, SF!Goto
  <1>2. stage[c] = "flight"
    BY <1>1 DEF IInv, Staged, TypeOK
  <1>3. /\ UNCHANGED <<cacheOn, sfOn, derived, stage, asked, fetched, answer, before, lru, now>>
        /\ UNCHANGED <<epoch, floor>>
        /\ Flights!IInv' /\ TypeOK' /\ RepliesTimely' /\ Remembered' /\ MarksPast'
        /\ MonotoneReads'
    BY <1>2, FlightStepFrame
  <1>4. /\ pc'[c] = "publish" /\ \A d \in Calls \ {c} : pc'[d] = pc[d]
        /\ res'[c] = fetched[c] /\ \A d \in Calls \ {c} : res'[d] = res[d]
    BY <1>1 DEF IInv, Flights!IInv, Flights!TypeOK
  <1>5. Staged'
    BY <1>1, <1>2, <1>3, <1>4 DEF IInv, Staged
  <1>6. LeadersReport'
    BY <1>1, <1>3, <1>4 DEF IInv, LeadersReport
  <1>7. QuietFlights'
    <2>1. \A d \in Calls : Source(d) \in Calls /\ Source(d)' = Source(d)
      BY <1>1 DEF Source, IInv, Flights!IInv, Flights!TypeOK
    <2> QED BY <1>1, <1>3, <1>4, <2>1 DEF IInv, QuietFlights, Outstanding
  <1>8. Answered'
    BY <1>1, <1>2, <1>3, <1>4 DEF IInv, Answered
  <1>9. NoCacheOrder'
    BY <1>1, <1>3, <1>4
    DEF IInv, NoCacheOrder, FlightsFollow, JoinersSeenPast, ResultsNotOlder
  <1> QED BY <1>3, <1>5, <1>6, <1>7, <1>8, <1>9 DEF IInv

\* A leader takes its flight off the map: no other flight is open for its key.
LEMMA PublishPreserves ==
  ASSUME IInv, [Next]_vars, NEW c \in Calls, FlightStep(c), SF!Publish(c)
  PROVE  IInv'
  <1>1. /\ pc[c] = "publish" /\ pc' = [pc EXCEPT ![c] = "send"]
        /\ UNCHANGED <<key, sub, chan, res>>
    BY DEF SF!Publish, SF!Goto
  <1>2. stage[c] = "flight"
    BY <1>1 DEF IInv, Staged, TypeOK
  <1>3. /\ UNCHANGED <<cacheOn, sfOn, derived, stage, asked, fetched, answer, before, lru, now>>
        /\ UNCHANGED <<epoch, floor>>
        /\ Flights!IInv' /\ TypeOK' /\ RepliesTimely' /\ Remembered' /\ MarksPast'
        /\ MonotoneReads'
    BY <1>2, FlightStepFrame
  <1>4. pc'[c] = "send" /\ \A d \in Calls \ {c} : pc'[d] = pc[d]
    BY <1>1 DEF IInv, Flights!IInv, Flights!TypeOK
  <1>5. Staged'
    BY <1>1, <1>2, <1>3, <1>4 DEF IInv, Staged
  <1>6. LeadersReport'
    BY <1>1, <1>3, <1>4 DEF IInv, LeadersReport
  <1>7. QuietFlights'
    <2>1. \A d \in Calls : Source(d) \in Calls /\ Source(d)' = Source(d)
      BY <1>1 DEF Source, IInv, Flights!IInv, Flights!TypeOK
    <2> QED BY <1>1, <1>3, <1>4, <2>1 DEF IInv, QuietFlights, Outstanding
  <1>8. Answered'
    BY <1>1, <1>2, <1>3, <1>4 DEF IInv, Answered
  <1>9. NoCacheOrder'
    <2>1. \A l \in Calls : pc'[l] \in {"run", "publish"} => key[l] # key[c]
      BY <1>1, <1>4 DEF IInv, Flights!IInv, Flights!LeadersHoldSlots
    <2> QED BY <1>1, <1>3, <1>4, <2>1
        DEF IInv, NoCacheOrder, FlightsFollow, JoinersSeenPast, ResultsNotOlder
  <1> QED BY <1>3, <1>5, <1>6, <1>7, <1>8, <1>9 DEF IInv

\* A leader broadcasts and returns.
LEMMA SendPreserves ==
  ASSUME IInv, [Next]_vars, NEW c \in Calls, FlightStep(c), SF!Send(c)
  PROVE  IInv'
  <1>1. /\ pc[c] = "send" /\ pc' = [pc EXCEPT ![c] = "done"]
        /\ UNCHANGED <<slot, key, sub, res>>
    BY DEF SF!Send, SF!Goto
  <1>2. stage[c] = "flight" /\ sub[c] = None
    BY <1>1 DEF IInv, Staged, TypeOK, Flights!IInv, Flights!LeadersHoldSlots
  <1>3. /\ UNCHANGED <<cacheOn, sfOn, derived, stage, asked, fetched, answer, before, lru, now>>
        /\ UNCHANGED <<epoch, floor>>
        /\ Flights!IInv' /\ TypeOK' /\ RepliesTimely' /\ Remembered' /\ MarksPast'
        /\ MonotoneReads'
    BY <1>2, FlightStepFrame
  <1>4. pc'[c] = "done" /\ \A d \in Calls \ {c} : pc'[d] = pc[d]
    BY <1>1 DEF IInv, Flights!IInv, Flights!TypeOK
  <1>5. Staged'
    BY <1>1, <1>2, <1>3, <1>4 DEF IInv, Staged
  <1>6. LeadersReport'
    BY <1>1, <1>3, <1>4 DEF IInv, LeadersReport
  <1>7. QuietFlights'
    <2>1. \A d \in Calls : Source(d) \in Calls /\ Source(d)' = Source(d)
      BY <1>1 DEF Source, IInv, Flights!IInv, Flights!TypeOK
    <2> QED BY <1>1, <1>3, <1>4, <2>1 DEF IInv, QuietFlights, Outstanding
  <1>8. Answered'
    BY <1>1, <1>2, <1>3, <1>4 DEF IInv, Answered
  <1>9. NoCacheOrder'
    <2>1. res[c].err = None => before[c].seen <= res[c].epoch
      <3>1. fetched[c] # None /\ res[c] = fetched[c] /\ res[c] \in Replies
        BY <1>1, <1>2 DEF IInv, LeadersReport, TypeOK
      <3>2. before[c] \in Marks /\ before[c].seen <= before[c].at
        BY <1>2 DEF IInv, Staged, MarksPast
      <3>3. res[c].err = None => before[c].at <= res[c].epoch
        BY <3>1 DEF IInv, RepliesTimely
      <3>4. res[c].epoch \in Epochs
        BY <3>1, ReplyFields
      <3> QED BY <3>2, <3>3, <3>4 DEF Marks, Epochs
    <2> QED BY <1>1, <1>3, <1>4, <2>1
        DEF IInv, NoCacheOrder, FlightsFollow, JoinersSeenPast, ResultsNotOlder
  <1> QED BY <1>3, <1>5, <1>6, <1>7, <1>8, <1>9 DEF IInv

\* A follower returns with its leader's result.
LEMMA ReceivePreserves ==
  ASSUME IInv, [Next]_vars, NEW c \in Calls, FlightStep(c), SF!Receive(c)
  PROVE  IInv'
  <1> DEFINE l == sub[c]
  <1>1. /\ pc[c] = "wait" /\ pc' = [pc EXCEPT ![c] = "done"]
        /\ res' = [res EXCEPT ![c] = IF chan[l] # None THEN chan[l]
                                     ELSE Failure(None, "broadcast")]
        /\ UNCHANGED <<slot, key, sub, tx, chan>>
        /\ (chan[l] # None \/ ~Flights!SenderAlive(l))
    BY DEF SF!Receive, SF!Goto, SF!SenderAlive, Flights!SenderAlive
  <1>2. stage[c] = "flight"
    BY <1>1 DEF IInv, Staged, TypeOK
  <1>3. /\ UNCHANGED <<cacheOn, sfOn, derived, stage, asked, fetched, answer, before, lru, now>>
        /\ UNCHANGED <<epoch, floor>>
        /\ Flights!IInv' /\ TypeOK' /\ RepliesTimely' /\ Remembered' /\ MarksPast'
        /\ MonotoneReads'
    BY <1>2, FlightStepFrame
  <1>4. chan[l] # None
    BY <1>1, FlightConstants, Flights!InvariantKeepsSenders DEF IInv, Flights!NoReceiverClosed
  <1>5. /\ l \in Calls /\ l # None /\ pc[l] = "done" /\ sub[l] = None /\ chan[l] = res[l]
        /\ key[l] = key[c] /\ l # c
    BY <1>1, <1>4 DEF IInv, Flights!IInv, Flights!TypeOK, Flights!Progressed,
       Flights!ChannelsCarryResults, Flights!FollowersFollowLeaders
  <1>6. fetched[l] # None /\ res[l] = fetched[l]
    BY <1>5 DEF IInv, LeadersReport
  <1>7. /\ pc'[c] = "done" /\ \A d \in Calls \ {c} : pc'[d] = pc[d]
        /\ res'[c] = res[l] /\ \A d \in Calls \ {c} : res'[d] = res[d]
    BY <1>1, <1>4, <1>5 DEF IInv, Flights!IInv, Flights!TypeOK
  <1> HIDE DEF l
  <1>8. Staged'
    BY <1>1, <1>2, <1>3, <1>7 DEF IInv, Staged
  <1>9. LeadersReport'
    BY <1>1, <1>3, <1>5, <1>7 DEF IInv, LeadersReport, l
  <1>10. QuietFlights'
    <2>1. \A d \in Calls : Source(d) \in Calls /\ Source(d)' = Source(d)
      BY <1>1 DEF Source, IInv, Flights!IInv, Flights!TypeOK
    <2> QED BY <1>1, <1>3, <1>7, <2>1 DEF IInv, QuietFlights, Outstanding
  <1>11. Answered'
    BY <1>1, <1>2, <1>3, <1>7 DEF IInv, Answered
  <1>12. NoCacheOrder'
    <2> SUFFICES ASSUME ~cacheOn PROVE (FlightsFollow /\ JoinersSeenPast /\ ResultsNotOlder)'
      BY <1>3 DEF NoCacheOrder
    <2>1. FlightsFollow /\ JoinersSeenPast /\ ResultsNotOlder
      BY DEF IInv, NoCacheOrder
    <2>2. FlightsFollow'
      BY <1>1, <1>3, <1>5, <1>7, <2>1 DEF FlightsFollow
    <2>3. JoinersSeenPast'
      BY <1>1, <1>3, <1>7, <2>1 DEF JoinersSeenPast
    <2>4. res[l].err = None => before[c].seen <= res[l].epoch
      BY <1>1, <1>5, <1>6, <2>1 DEF JoinersSeenPast, l
    <2>5. ResultsNotOlder'
      BY <1>1, <1>3, <1>7, <2>1, <2>4 DEF ResultsNotOlder
    <2> QED BY <2>2, <2>3, <2>5
  <1> QED BY <1>3, <1>8, <1>9, <1>10, <1>11, <1>12 DEF IInv

\* Every step inside do_call.
LEMMA FlightStepPreserves ==
  ASSUME IInv, [Next]_vars, NEW c \in Calls, FlightStep(c)
  PROVE  IInv'
  BY LeadPreserves, FollowPreserves, PublishPreserves, SendPreserves, ReceivePreserves,
     FinishPreserves DEF FlightStep, SF!Step

\* What a call returns to its caller may be cached.
LEMMA RememberKeeps ==
  ASSUME IInv, NEW c \in Calls, NEW r, Remember(c, r), asked[c] \in Keys,
         r.err = None =>
           r \in Replies /\ r.key = asked[c] /\ floor.quiet <= r.epoch /\ r.epoch <= epoch,
         UNCHANGED <<now, epoch, floor>>
  PROVE  lru' \in Seq(Entries') /\ Len(lru') <= Capacity /\ Remembered'
  <1> DEFINE e == [key |-> asked[c], at |-> now, val |-> r]
  <1>1. lru \in Seq(Entries) /\ Distinct(lru) /\ Len(lru) <= Capacity
    BY DEF IInv, TypeOK, Entries, Remembered
  <1>2. Entries' = Entries
    BY DEF Entries
  <1>3. CASE lru' = lru
    BY <1>1, <1>2, <1>3 DEF IInv, Remembered
  <1>4. CASE r.err = None /\ lru' = Put(lru, e)
    <2>1. e \in Entries
      BY <1>4 DEF Entries, IInv, TypeOK
    <2>2. e.val.key = e.key /\ e.val.err = None
          /\ floor.quiet <= e.val.epoch /\ e.val.epoch <= epoch
      BY <1>4
    <2> HIDE DEF e
    <2>3. /\ lru' \in Seq(Entries) /\ Len(lru') <= Capacity /\ Distinct(lru')
          /\ \A i \in DOMAIN lru' : lru'[i] = e \/ \E m \in DOMAIN lru : lru'[i] = lru[m]
      BY <1>1, <1>4, <2>1, PutKeeps
    <2> QED BY <1>2, <2>2, <2>3 DEF IInv, Remembered
  <1> QED BY <1>3, <1>4 DEF Remember

\* do_call's result comes back to the search.
LEMMA FlightReturnsPreserves ==
  ASSUME IInv, [Next]_vars, NEW c \in Calls, FlightReturns(c)
  PROVE  IInv'
  <1> DEFINE a == IF res[c].err = None THEN res[c] ELSE Failure(asked[c], "Other")
  <1>1. /\ stage[c] = "flight" /\ pc[c] = "done" /\ Remember(c, res[c])
        /\ answer' = [answer EXCEPT ![c] = a] /\ stage' = [stage EXCEPT ![c] = "back"]
        /\ UNCHANGED flightVars
        /\ UNCHANGED <<cacheOn, sfOn, derived, asked, fetched, before, now, epoch, floor>>
    BY DEF FlightReturns, Goto, config
  <1>2. Flights!IInv' /\ SF!TypeOK'
    BY FlightsPreserved DEF IInv
  <1>3. /\ Source(c) \in Calls /\ pc[Source(c)] = "done"
        /\ fetched[Source(c)] # None /\ res[c] = fetched[Source(c)]
        /\ res[c] \in Replies /\ res[c].key = asked[c] /\ res[c].epoch \in Epochs
        /\ res[c].err = None => res[c].epoch <= epoch
    BY <1>1, ReturnedResult
  <1>4. asked[c] \in Keys /\ before[c] \in Marks /\ sfOn /\ c \notin derived
        /\ before[c].quiet <= floor.quiet
    BY <1>1 DEF IInv, Staged, MarksPast
  <1>5. res[c].err = None => floor.quiet <= res[c].epoch
    BY <1>1, <1>3 DEF IInv, QuietFlights, Outstanding
  <1>6. res[c].err = None => before[c].quiet <= res[c].epoch
    <2>1. floor.quiet \in Nat /\ before[c].quiet \in Nat /\ res[c].epoch \in Nat
      BY <1>3, <1>4 DEF IInv, TypeOK, Marks, Epochs
    <2> QED BY <1>4, <1>5, <2>1
  <1>7. lru' \in Seq(Entries') /\ Len(lru') <= Capacity /\ Remembered'
    BY <1>1, <1>3, <1>4, <1>5, RememberKeeps
  <1>8. /\ a.key = asked[c]
        /\ a.err = None => a = res[c] /\ res[c].err = None
        /\ a \in Replies \cup {Failure(k, "Other") : k \in Keys}
    <2>1. Failure(asked[c], "Other").key = asked[c] /\ Failure(asked[c], "Other").err # None
      BY ConstantsAssumption DEF Failure
    <2> QED BY <1>3, <1>4, <2>1
  <1> HIDE DEF a
  <1>9. /\ answer'[c] = a /\ stage'[c] = "back"
        /\ \A d \in Calls \ {c} : answer'[d] = answer[d] /\ stage'[d] = stage[d]
    BY <1>1 DEF IInv, TypeOK
  <1>10. TypeOK'
    BY <1>1, <1>2, <1>7, <1>8 DEF IInv, TypeOK, Entries
  <1>11. Staged'
    BY <1>1, <1>9 DEF IInv, Staged, flightVars
  <1>12. RepliesTimely' /\ LeadersReport'
    BY <1>1 DEF IInv, RepliesTimely, LeadersReport, flightVars
  <1>13. MarksPast'
    BY <1>1, <1>9 DEF IInv, MarksPast
  <1>14. QuietFlights'
    BY <1>1, <1>9 DEF IInv, QuietFlights, Outstanding, Source, flightVars
  <1>15. Answered'
    <2>1. ASSUME NEW d \in Calls \ {c}, stage'[d] = "back"
          PROVE  stage[d] = "back" /\ UNCHANGED <<answer[d], pc[d], res[d]>>
      BY <1>1, <1>9, <2>1 DEF flightVars
    <2>2. a.err = None => a.epoch \in Epochs /\ a.epoch <= epoch /\ before[c].quiet <= a.epoch
      BY <1>3, <1>6, <1>8
    <2>3. pc'[c] = "done" /\ (a.err = None => answer'[c] = res'[c])
      BY <1>1, <1>8, <1>9 DEF flightVars
    <2> QED BY <1>1, <1>4, <1>8, <1>9, <2>1, <2>2, <2>3 DEF IInv, Answered
  <1>16. NoCacheOrder'
    BY <1>1
    DEF IInv, NoCacheOrder, FlightsFollow, JoinersSeenPast, ResultsNotOlder, flightVars
  <1>17. MonotoneReads'
    <2>1. ~cacheOn /\ res[c].err = None => before[c].seen <= res[c].epoch
      BY <1>1 DEF IInv, NoCacheOrder, ResultsNotOlder
    <2>2. ASSUME NEW d \in Calls \ {c}, stage'[d] = "back"
          PROVE  stage[d] = "back" /\ answer'[d] = answer[d]
      BY <1>9, <2>2
    <2>3. ~cacheOn /\ a.err = None => before[c].seen <= a.epoch
      BY <1>8, <2>1
    <2>4. cacheOn' = cacheOn /\ before' = before
      BY <1>1
    <2> QED BY <1>9, <2>2, <2>3, <2>4 DEF IInv, MonotoneReads
  <1> QED BY <1>2, <1>7, <1>10, <1>11, <1>12, <1>13, <1>14, <1>15, <1>16, <1>17 DEF IInv

\* A search's own request has ended.
LEMMA DirectReturnsPreserves ==
  ASSUME IInv, [Next]_vars, NEW c \in Calls, DirectReturns(c)
  PROVE  IInv'
  <1> DEFINE a == fetched[c]
  <1>1. /\ stage[c] = "direct" /\ a # None /\ Remember(c, a)
        /\ answer' = [answer EXCEPT ![c] = a] /\ stage' = [stage EXCEPT ![c] = "back"]
        /\ UNCHANGED flightVars
        /\ UNCHANGED <<cacheOn, sfOn, derived, asked, fetched, before, now, epoch, floor>>
    BY DEF DirectReturns, Goto, config
  <1>2. Flights!IInv' /\ SF!TypeOK'
    BY FlightsPreserved DEF IInv
  <1>3. /\ asked[c] \in Keys /\ before[c] \in Marks /\ pc[c] = "idle"
        /\ (~sfOn \/ c \in derived) /\ before[c].quiet <= floor.quiet
        /\ before[c].seen <= before[c].at
    BY <1>1 DEF IInv, Staged, MarksPast
  <1>4. Source(c) = c
    BY <1>3 DEF Source, IInv, Flights!IInv, Flights!Progressed
  <1>5. /\ a \in Replies /\ a.key = asked[c] /\ a.epoch \in Epochs
        /\ a.err = None => before[c].at <= a.epoch /\ a.epoch <= epoch
    <2>1. a \in Replies
      BY <1>1 DEF IInv, TypeOK
    <2> QED BY <1>1, <2>1, ReplyFields DEF IInv, RepliesTimely
  <1>6. a.err = None => floor.quiet <= a.epoch
    BY <1>1, <1>3, <1>4 DEF IInv, QuietFlights, Outstanding
  <1>7. a.err = None => before[c].quiet <= a.epoch /\ before[c].seen <= a.epoch
    <2>1. floor.quiet \in Nat /\ before[c].quiet \in Nat /\ a.epoch \in Nat
          /\ before[c].seen \in Nat /\ before[c].at \in Nat
      BY <1>3, <1>5 DEF IInv, TypeOK, Marks, Epochs
    <2> HIDE DEF a
    <2> QED BY <1>3, <1>5, <1>6, <2>1
  <1>8. lru' \in Seq(Entries') /\ Len(lru') <= Capacity /\ Remembered'
    BY <1>1, <1>3, <1>5, <1>6, RememberKeeps
  <1> HIDE DEF a
  <1>9. /\ answer'[c] = a /\ stage'[c] = "back"
        /\ \A d \in Calls \ {c} : answer'[d] = answer[d] /\ stage'[d] = stage[d]
    BY <1>1 DEF IInv, TypeOK
  <1>10. TypeOK'
    BY <1>1, <1>2, <1>5, <1>8 DEF IInv, TypeOK, Entries
  <1>11. Staged'
    BY <1>1, <1>3, <1>9 DEF IInv, Staged, flightVars
  <1>12. RepliesTimely' /\ LeadersReport'
    BY <1>1 DEF IInv, RepliesTimely, LeadersReport, flightVars
  <1>13. MarksPast'
    BY <1>1, <1>9 DEF IInv, MarksPast
  <1>14. QuietFlights'
    BY <1>1, <1>9 DEF IInv, QuietFlights, Outstanding, Source, flightVars
  <1>15. Answered'
    <2>1. ASSUME NEW d \in Calls \ {c}, stage'[d] = "back"
          PROVE  stage[d] = "back" /\ UNCHANGED <<answer[d], pc[d], res[d]>>
      BY <1>1, <1>9, <2>1 DEF flightVars
    <2> QED BY <1>1, <1>3, <1>5, <1>7, <1>9, <2>1 DEF IInv, Answered
  <1>16. NoCacheOrder'
    BY <1>1
    DEF IInv, NoCacheOrder, FlightsFollow, JoinersSeenPast, ResultsNotOlder, flightVars
  <1>17. MonotoneReads'
    <2>1. ASSUME NEW d \in Calls \ {c}, stage'[d] = "back"
          PROVE  stage[d] = "back" /\ answer'[d] = answer[d]
      BY <1>9, <2>1
    <2> QED BY <1>1, <1>7, <1>9, <2>1 DEF IInv, MonotoneReads
  <1> QED BY <1>2, <1>8, <1>10, <1>11, <1>12, <1>13, <1>14, <1>15, <1>16, <1>17 DEF IInv

\* A search's future is dropped, in do_call or with its own request.
LEMMA DropPreserves ==
  ASSUME IInv, [Next]_vars, NEW c \in Calls, Drop(c)
  PROVE  IInv'
  <1>1. /\ stage' = [stage EXCEPT ![c] = "gone"]
        /\ UNCHANGED <<cacheOn, sfOn, derived, asked, fetched, answer, before, lru, now>>
        /\ UNCHANGED <<epoch, floor, slot, key, sub, tx, chan>>
    BY DEF Drop, Goto, config, SF!Drop, flightVars
  <1>2. \/ /\ stage[c] = "flight" /\ pc[c] \in {"enter", "run", "publish", "wait"}
           /\ pc' = [pc EXCEPT ![c] = "dropped"] /\ res' = [res EXCEPT ![c] = None]
        \/ stage[c] = "direct" /\ pc' = pc /\ res' = res /\ pc[c] = "idle"
    BY DEF Drop, SF!Drop, SF!Goto, flightVars, IInv, Staged
  <1>3. Flights!IInv' /\ SF!TypeOK'
    BY FlightsPreserved DEF IInv
  <1>4. /\ stage'[c] = "gone" /\ pc'[c] \in {"idle", "dropped"}
        /\ pc'[c] = "idle" => pc[c] = "idle"
        /\ \A d \in Calls \ {c} : stage'[d] = stage[d] /\ pc'[d] = pc[d] /\ res'[d] = res[d]
    BY <1>1, <1>2 DEF IInv, TypeOK, Flights!IInv, Flights!TypeOK
  <1>5. TypeOK'
    BY <1>1, <1>3 DEF IInv, TypeOK
  <1>6. Staged'
    BY <1>1, <1>2, <1>4 DEF IInv, Staged
  <1>7. RepliesTimely' /\ Remembered'
    BY <1>1 DEF IInv, RepliesTimely, Remembered
  <1>8. LeadersReport'
    BY <1>1, <1>4 DEF IInv, LeadersReport
  <1>9. MarksPast'
    BY <1>1, <1>2, <1>4 DEF IInv, MarksPast
  <1>10. QuietFlights'
    <2>1. \A d \in Calls : Source(d) \in Calls /\ Source(d)' = Source(d)
      BY <1>1 DEF Source, IInv, Flights!IInv, Flights!TypeOK
    <2>2. ASSUME NEW d \in Calls, Outstanding(d)', pc'[Source(d)] # "dropped"
          PROVE  Outstanding(d) /\ pc[Source(d)] # "dropped"
      BY <1>2, <1>4, <2>1, <2>2 DEF Outstanding
    <2> QED BY <1>1, <2>1, <2>2 DEF IInv, QuietFlights
  <1>11. Answered'
    BY <1>1, <1>4 DEF IInv, Answered
  <1>12. NoCacheOrder'
    BY <1>1, <1>4 DEF IInv, NoCacheOrder, FlightsFollow, JoinersSeenPast, ResultsNotOlder
  <1>13. MonotoneReads'
    BY <1>1, <1>4 DEF IInv, MonotoneReads
  <1> QED BY <1>3, <1>5, <1>6, <1>7, <1>8, <1>9, <1>10, <1>11, <1>12, <1>13 DEF IInv

\* The cache is emptied; the mark of a quiet invalidation moves only if nobody waits.
LEMMA InvalidatePreserves ==
  ASSUME IInv, [Next]_vars, Invalidate
  PROVE  IInv'
  <1> DEFINE busy == \E c \in Calls : Outstanding(c)
  <1>1. /\ lru' = Empty
        /\ floor' = [any |-> epoch, quiet |-> IF busy THEN floor.quiet ELSE epoch]
        /\ UNCHANGED flightVars
        /\ UNCHANGED <<cacheOn, sfOn, derived, stage, asked, fetched, answer, before, now, epoch>>
    BY DEF Invalidate, config, callVars
  <1>2. Flights!IInv' /\ SF!TypeOK'
    BY FlightsPreserved DEF IInv
  <1>3. /\ epoch \in Epochs /\ floor.quiet \in Epochs /\ floor.quiet <= epoch
        /\ epoch <= epoch
    BY DEF IInv, TypeOK, MarksPast, Epochs
  <1>4. floor'.any = epoch /\ floor'.quiet \in {floor.quiet, epoch}
        /\ (busy => floor'.quiet = floor.quiet) /\ floor' \in [any : Epochs, quiet : Epochs]
    BY <1>1, <1>3
  <1>5. floor.quiet <= floor'.quiet /\ floor'.quiet <= epoch
    BY <1>3, <1>4 DEF Epochs
  <1>6. TypeOK'
    <2>1. lru' \in Seq([key : Keys, at : 0..now, val : Replies]) /\ Len(lru') <= Capacity
      BY <1>1, CapacityAssumption DEF Empty
    <2> QED BY <1>1, <1>2, <1>4, <2>1 DEF IInv, TypeOK
  <1>7. Staged' /\ RepliesTimely' /\ LeadersReport'
    BY <1>1 DEF IInv, Staged, RepliesTimely, LeadersReport, flightVars
  <1>8. Remembered'
    BY <1>1 DEF Remembered, Distinct, Empty
  <1>9. MarksPast'
    <2>1. ASSUME NEW c \in Calls, stage[c] # "idle"
          PROVE  before[c].quiet <= floor'.quiet
      <3>1. before[c] \in Marks /\ before[c].quiet <= floor.quiet
        BY <2>1 DEF IInv, Staged, MarksPast
      <3> QED BY <1>3, <1>4, <1>5, <3>1 DEF Marks, Epochs
    <2> QED BY <1>1, <1>3, <1>4, <1>5, <2>1 DEF IInv, MarksPast
  <1>10. QuietFlights'
    BY <1>1, <1>4 DEF IInv, QuietFlights, Outstanding, Source, flightVars
  <1>11. Answered'
    BY <1>1 DEF IInv, Answered, flightVars
  <1>12. NoCacheOrder' /\ MonotoneReads'
    BY <1>1
    DEF IInv, NoCacheOrder, MonotoneReads, FlightsFollow, JoinersSeenPast, ResultsNotOlder,
        flightVars
  <1> QED BY <1>2, <1>6, <1>7, <1>8, <1>9, <1>10, <1>11, <1>12 DEF IInv

\* The server's data change.
LEMMA ChangePreserves ==
  ASSUME IInv, [Next]_vars, Change
  PROVE  IInv'
  <1>1. /\ epoch < MaxEpoch /\ epoch' = epoch + 1 /\ UNCHANGED flightVars
        /\ UNCHANGED <<cacheOn, sfOn, derived, stage, asked, fetched, answer, before, lru, now>>
        /\ UNCHANGED floor
    BY DEF Change, config, callVars
  <1>2. Flights!IInv' /\ SF!TypeOK'
    BY FlightsPreserved DEF IInv
  <1>3. epoch' \in Epochs /\ \A e \in Epochs : e <= epoch => e <= epoch'
    BY <1>1, ConstantsAssumption DEF IInv, TypeOK, Epochs
  <1>4. TypeOK'
    BY <1>1, <1>2, <1>3 DEF IInv, TypeOK
  <1>5. Staged' /\ LeadersReport'
    BY <1>1 DEF IInv, Staged, LeadersReport, flightVars
  <1>6. RepliesTimely'
    <2>1. \A c \in Calls : fetched[c] # None => fetched[c].epoch \in Epochs
      BY ReplyFields DEF IInv, TypeOK
    <2> QED BY <1>1, <1>3, <2>1 DEF IInv, RepliesTimely
  <1>7. Remembered'
    <2>1. \A i \in DOMAIN lru : lru[i].val.epoch \in Epochs
      <3> SUFFICES ASSUME NEW i \in DOMAIN lru PROVE lru[i].val.epoch \in Epochs
        OBVIOUS
      <3> lru \in Seq(Entries)
        BY DEF IInv, TypeOK, Entries
      <3>1. lru[i] \in Entries
        OBVIOUS
      <3>2. lru[i].val \in Replies
        BY <3>1 DEF Entries
      <3> QED BY <3>2, ReplyFields
    <2> QED BY <1>1, <1>3, <2>1 DEF IInv, Remembered
  <1>8. MarksPast'
    <2>1. floor.any \in Epochs /\ floor.quiet \in Epochs
      BY DEF IInv, TypeOK
    <2>2. \A c \in Calls : stage[c] # "idle" => before[c].at \in Epochs
      BY DEF IInv, Staged, Marks
    <2> QED BY <1>1, <1>3, <2>1, <2>2 DEF IInv, MarksPast
  <1>9. QuietFlights'
    BY <1>1 DEF IInv, QuietFlights, Outstanding, Source, flightVars
  <1>10. Answered'
    BY <1>1, <1>3 DEF IInv, Answered, flightVars
  <1>11. NoCacheOrder' /\ MonotoneReads'
    BY <1>1
    DEF IInv, NoCacheOrder, MonotoneReads, FlightsFollow, JoinersSeenPast, ResultsNotOlder,
        flightVars
  <1> QED BY <1>2, <1>4, <1>5, <1>6, <1>7, <1>8, <1>9, <1>10, <1>11 DEF IInv

\* Time passes.
LEMMA TickPreserves ==
  ASSUME IInv, [Next]_vars, Tick
  PROVE  IInv'
  <1>1. /\ now' = now + 1 /\ UNCHANGED flightVars
        /\ UNCHANGED <<cacheOn, sfOn, derived, stage, asked, fetched, answer, before, lru>>
        /\ UNCHANGED <<epoch, floor>>
    BY DEF Tick, config, callVars
  <1>2. Flights!IInv' /\ SF!TypeOK'
    BY FlightsPreserved DEF IInv
  <1>3. TypeOK'
    <2>1. now \in Nat /\ lru \in Seq(Entries)
      BY DEF IInv, TypeOK, Entries
    <2>2. Entries \subseteq Entries' /\ now' \in Nat
      BY <1>1, <2>1 DEF Entries
    <2>3. lru' \in Seq(Entries')
      BY <1>1, <2>1, <2>2
    <2> QED BY <1>1, <1>2, <2>2, <2>3 DEF IInv, TypeOK, Entries
  <1>4. Staged' /\ RepliesTimely' /\ LeadersReport' /\ Remembered' /\ MarksPast'
    BY <1>1 DEF IInv, Staged, RepliesTimely, LeadersReport, Remembered, MarksPast, flightVars
  <1>5. QuietFlights' /\ Answered'
    BY <1>1 DEF IInv, QuietFlights, Answered, Outstanding, Source, flightVars
  <1>6. NoCacheOrder' /\ MonotoneReads'
    BY <1>1
    DEF IInv, NoCacheOrder, MonotoneReads, FlightsFollow, JoinersSeenPast, ResultsNotOlder,
        flightVars
  <1> QED BY <1>2, <1>3, <1>4, <1>5, <1>6 DEF IInv

\* Nothing happens to the client.
LEMMA StutterPreserves ==
  ASSUME IInv, [Next]_vars, UNCHANGED vars
  PROVE  IInv'
  <1>1. /\ UNCHANGED flightVars
        /\ UNCHANGED <<cacheOn, sfOn, derived, stage, asked, fetched, answer, before, lru>>
        /\ UNCHANGED <<now, epoch, floor>>
    BY DEF vars, config, callVars
  <1>2. Flights!IInv' /\ SF!TypeOK'
    BY FlightsPreserved DEF IInv
  <1>3. TypeOK'
    BY <1>1, <1>2 DEF IInv, TypeOK
  <1>4. Staged' /\ RepliesTimely' /\ LeadersReport' /\ Remembered' /\ MarksPast'
    BY <1>1 DEF IInv, Staged, RepliesTimely, LeadersReport, Remembered, MarksPast, flightVars
  <1>5. QuietFlights' /\ Answered'
    BY <1>1 DEF IInv, QuietFlights, Answered, Outstanding, Source, flightVars
  <1>6. NoCacheOrder' /\ MonotoneReads'
    BY <1>1
    DEF IInv, NoCacheOrder, MonotoneReads, FlightsFollow, JoinersSeenPast, ResultsNotOlder,
        flightVars
  <1> QED BY <1>2, <1>3, <1>4, <1>5, <1>6 DEF IInv

\* The invariant is inductive.
LEMMA NextPreserves ==
  ASSUME IInv, [Next]_vars
  PROVE  IInv'
  <1>1. ASSUME NEW c \in Calls, NEW k \in Keys, Search(c, k)
        PROVE  IInv'
    BY <1>1, SearchHitPreserves, SearchToFlightPreserves, SearchToDirectPreserves DEF Search
  <1>2. ASSUME NEW c \in Calls, Returns(c)
        PROVE  IInv'
    BY <1>2, FlightReturnsPreserves, DirectReturnsPreserves DEF Returns
  <1>3. ASSUME NEW c \in Calls, Respond(c) \/ FlightStep(c) \/ Drop(c)
        PROVE  IInv'
    BY <1>3, RespondPreserves, FlightStepPreserves, DropPreserves
  <1>4. CASE Invalidate \/ Change \/ Tick
    BY <1>4, InvalidatePreserves, ChangePreserves, TickPreserves
  <1>5. CASE UNCHANGED vars
    BY <1>5, StutterPreserves
  <1> QED BY <1>1, <1>2, <1>3, <1>4, <1>5 DEF Next

\* The coalescer starts by its own specification, and so does the search.
LEMMA InitFlights == Init => Flights!Init
  BY DEF Init, SF!Init, Flights!Init

\* The invariant holds before the first search.
LEMMA InitEstablishes == Init => IInv
  <1> SUFFICES ASSUME Init PROVE IInv
    OBVIOUS
  <1>1. Flights!IInv
    BY FlightConstants, InitFlights, Flights!InitEstablishes
  <1>2. SF!TypeOK
    BY <1>1 DEF Flights!IInv, Flights!TypeOK, SF!TypeOK, Flights!States, SF!States
  <1>3. \A c \in Calls : pc[c] = "idle"
    BY DEF Init, SF!Init
  <1>4. 0 \in Epochs
    BY ConstantsAssumption DEF Epochs
  <1>5. TypeOK
    <2>1. lru \in Seq([key : Keys, at : 0..now, val : Replies]) /\ Len(lru) <= Capacity
      BY CapacityAssumption DEF Init, Empty
    <2> QED BY <1>2, <1>4, <2>1, ConstantsAssumption DEF Init, TypeOK
  <1>6. Staged /\ RepliesTimely /\ LeadersReport /\ Remembered /\ MarksPast
    BY <1>3 DEF Init, Staged, RepliesTimely, LeadersReport, Remembered, MarksPast, Distinct,
       Empty
  <1>7. QuietFlights /\ Answered /\ NoCacheOrder /\ MonotoneReads
    BY <1>3 DEF Init, QuietFlights, Outstanding, Answered, NoCacheOrder, FlightsFollow,
       JoinersSeenPast, ResultsNotOlder, MonotoneReads
  <1> QED BY <1>1, <1>5, <1>6, <1>7 DEF IInv

-----------------------------------------------------------------------------
(* The theorems *)

\* The inductive invariant holds in every reachable state of CachedSearch.
LEMMA Invariance == Spec => []IInv
  BY InitEstablishes, NextPreserves, PTL DEF Spec

\* Every variable of cached_search, its cache and its coalescer keeps its type, and the
\* cache never exceeds its capacity.
THEOREM TypeCorrect == Spec => []TypeOK
  <1>1. IInv => TypeOK
    BY DEF IInv
  <1> QED BY <1>1, Invariance, PTL

\* A search is answered for its own key, whatever way the answer took, and the cache holds
\* nothing but answers to their own key.
THEOREM AnswersAreOwn == Spec => []OwnAnswers
  <1>1. IInv => OwnAnswers
    BY DEF IInv, Answered, Remembered, OwnAnswers
  <1> QED BY <1>1, Invariance, PTL

\* With the cache off, coalescing never takes a caller back in time.
THEOREM ReadsAreMonotone == Spec => []MonotoneReads
  <1>1. IInv => MonotoneReads
    BY DEF IInv
  <1> QED BY <1>1, Invariance, PTL

\* An invalidate_cache that meets no outstanding search is complete.
THEOREM QuietInvalidationIsComplete == Spec => []QuietInvalidation
  <1>1. IInv => QuietInvalidation
    BY DEF IInv, Answered, QuietInvalidation
  <1> QED BY <1>1, Invariance, PTL

\* A client made by with_tenant_id never returns data from before its search started.
THEOREM DerivedClientsReadFresh == Spec => []DerivedReadsFresh
  <1>1. IInv => DerivedReadsFresh
    BY DEF IInv, TypeOK, Answered, DerivedReadsFresh
  <1> QED BY <1>1, Invariance, PTL

\* A step that ends no search leaves every answer and what it rests on alone.
LEMMA FailuresKept ==
  ASSUME IInv, FailuresAreReal,
         \A d \in Calls : /\ stage'[d] = "back" => stage[d] = "back"
                          /\ stage[d] = "back" => answer'[d] = answer[d]
                          /\ stage[d] # "idle" => asked'[d] = asked[d]
                          /\ fetched[d] # None => fetched'[d] = fetched[d]
                          /\ stage[d] = "back" => fetched'[d] = fetched[d],
         UNCHANGED config
  PROVE  FailuresAreReal'
  <1>1. \A d \in Calls : fetched[d] # None => stage[d] # "idle"
    BY DEF IInv, Staged
  <1>2. \A d \in Calls : Has(d, sfOn)' = Has(d, sfOn)
    BY DEF Has, config
  <1> SUFFICES ASSUME NEW c \in Calls, stage'[c] = "back", answer'[c].err # None
               PROVE  IF Has(c, sfOn)'
                      THEN /\ answer'[c].err = "Other"
                           /\ \E d \in Calls : /\ asked'[d] = asked'[c] /\ Has(d, sfOn)'
                                               /\ fetched'[d] # None /\ fetched'[d].err # None
                      ELSE answer'[c] = fetched'[c]
    BY Zenon DEF FailuresAreReal
  <1>3. stage[c] = "back" /\ answer'[c] = answer[c] /\ asked'[c] = asked[c]
        /\ fetched'[c] = fetched[c] /\ answer[c].err # None
    BY Zenon
  <1>4. CASE Has(c, sfOn)
    <2>1. answer[c].err = "Other"
      BY <1>3, <1>4 DEF FailuresAreReal
    <2>2. PICK d \in Calls : /\ asked[d] = asked[c] /\ Has(d, sfOn)
                            /\ fetched[d] # None /\ fetched[d].err # None
      BY <1>3, <1>4 DEF FailuresAreReal
    <2>3. asked'[d] = asked[d] /\ fetched'[d] = fetched[d]
      BY <1>1, <2>2, Zenon
    <2> QED BY <1>2, <1>3, <1>4, <2>1, <2>2, <2>3
  <1>5. CASE ~Has(c, sfOn)
    BY <1>2, <1>3, <1>5 DEF FailuresAreReal
  <1> QED BY <1>4, <1>5

\* The search of c ends with the answer a; other searches keep theirs.
LEMMA FailureReturned ==
  ASSUME IInv, FailuresAreReal, NEW c \in Calls, NEW a,
         stage' = [stage EXCEPT ![c] = "back"], answer' = [answer EXCEPT ![c] = a],
         UNCHANGED <<config, fetched>>,
         \A d \in Calls : stage[d] # "idle" => asked'[d] = asked[d],
         a.err # None =>
           IF Has(c, sfOn)
           THEN /\ a.err = "Other"
                /\ \E d \in Calls : /\ asked[d] = asked'[c] /\ Has(d, sfOn)
                                    /\ fetched[d] # None /\ fetched[d].err # None
           ELSE a = fetched[c]
  PROVE  FailuresAreReal'
  <1>1. \A d \in Calls : fetched[d] # None => stage[d] # "idle"
    BY DEF IInv, Staged
  <1>2. /\ answer'[c] = a /\ stage'[c] = "back"
        /\ \A d \in Calls \ {c} : answer'[d] = answer[d] /\ stage'[d] = stage[d]
    BY DEF IInv, TypeOK
  <1>3. \A d \in Calls : Has(d, sfOn)' = Has(d, sfOn)
    BY DEF Has, config
  <1> QED BY <1>1, <1>2, <1>3 DEF FailuresAreReal, Has, config

\* Every step keeps failures real.
LEMMA FailuresPreserved ==
  ASSUME IInv, FailuresAreReal, [Next]_vars
  PROVE  FailuresAreReal'
  <1>1. ASSUME NEW c \in Calls, NEW k \in Keys, SearchHit(c, k)
        PROVE  FailuresAreReal'
    <2>1. Peek(lru, k).val.err = None
      BY <1>1, PositionFinds DEF SearchHit, Fresh, IInv, Remembered, Peek
    <2>2. /\ stage[c] = "idle" /\ asked' = [asked EXCEPT ![c] = k]
          /\ stage' = [stage EXCEPT ![c] = "back"]
          /\ answer' = [answer EXCEPT ![c] = Peek(lru, k).val]
          /\ UNCHANGED <<config, fetched>>
      BY <1>1 DEF SearchHit, Begins, Goto
    <2>3. \A d \in Calls : stage[d] # "idle" => asked'[d] = asked[d]
      BY <2>2 DEF IInv, TypeOK
    <2> QED BY <2>1, <2>2, <2>3, FailureReturned
  <1>2. ASSUME NEW c \in Calls, FlightReturns(c)
        PROVE  FailuresAreReal'
    <2> DEFINE a == IF res[c].err = None THEN res[c] ELSE Failure(asked[c], "Other")
    <2>1. /\ stage[c] = "flight" /\ pc[c] = "done"
          /\ stage' = [stage EXCEPT ![c] = "back"] /\ answer' = [answer EXCEPT ![c] = a]
          /\ UNCHANGED <<config, fetched, asked>>
      BY <1>2 DEF FlightReturns, Goto
    <2>2. /\ Source(c) \in Calls /\ pc[Source(c)] = "done"
          /\ fetched[Source(c)] # None /\ res[c] = fetched[Source(c)]
          /\ asked[Source(c)] = asked[c]
      BY <2>1, ReturnedResult
    <2>3. Has(c, sfOn) /\ Has(Source(c), sfOn)
      BY <2>1, <2>2 DEF IInv, Staged, Has
    <2>4. a.err # None => a.err = "Other" /\ res[c].err # None
      BY DEF Failure
    <2> HIDE DEF a
    <2> QED BY <2>1, <2>2, <2>3, <2>4, FailureReturned
  <1>3. ASSUME NEW c \in Calls, DirectReturns(c)
        PROVE  FailuresAreReal'
    <2>1. /\ stage[c] = "direct" /\ stage' = [stage EXCEPT ![c] = "back"]
          /\ answer' = [answer EXCEPT ![c] = fetched[c]]
          /\ UNCHANGED <<config, fetched, asked>>
      BY <1>3 DEF DirectReturns, Goto
    <2>2. ~Has(c, sfOn)
      BY <2>1 DEF IInv, Staged, Has
    <2> QED BY <2>1, <2>2, FailureReturned
  <1>4. ASSUME NEW c \in Calls, NEW k \in Keys, SearchToFlight(c, k) \/ SearchToDirect(c, k)
        PROVE  FailuresAreReal'
    <2>1. /\ stage[c] = "idle" /\ asked' = [asked EXCEPT ![c] = k]
          /\ \E s \in {"flight", "direct"} : stage' = [stage EXCEPT ![c] = s]
          /\ UNCHANGED <<config, fetched, answer>>
      BY <1>4 DEF SearchToFlight, SearchToDirect, Begins, Goto
    <2> QED BY <2>1, FailuresKept DEF IInv, TypeOK
  <1>5. ASSUME NEW c \in Calls, Respond(c)
        PROVE  FailuresAreReal'
    <2>1. /\ fetched[c] = None /\ (pc[c] = "run" \/ stage[c] = "direct")
          /\ \E r : fetched' = [fetched EXCEPT ![c] = r]
          /\ UNCHANGED <<config, stage, asked, answer>>
      BY <1>5 DEF Respond
    <2>2. stage[c] # "back"
      BY <1>5 DEF Respond, IInv, Staged
    <2>3. fetched[c] = None
      BY <1>5 DEF Respond
    <2> QED BY <2>1, <2>2, <2>3, FailuresKept DEF IInv, TypeOK
  <1>6. ASSUME NEW c \in Calls, Drop(c)
        PROVE  FailuresAreReal'
    <2>1. stage' = [stage EXCEPT ![c] = "gone"] /\ UNCHANGED <<config, asked, fetched, answer>>
      BY <1>6 DEF Drop, Goto
    <2> QED BY <2>1, FailuresKept DEF IInv, TypeOK
  <1>7. CASE (\E c \in Calls : FlightStep(c)) \/ Invalidate \/ Change \/ Tick \/ UNCHANGED vars
    <2>1. UNCHANGED <<config, stage, asked, fetched, answer>>
      BY <1>7 DEF FlightStep, Invalidate, Change, Tick, vars, callVars
    <2> QED BY <2>1, FailuresKept
  <1> QED BY <1>1, <1>2, <1>3, <1>4, <1>5, <1>6, <1>7 DEF Next, Search, Returns

\* A failed search has a failed request behind it: its own, or with the coalescer one of
\* its client for its key; a flight that is broken up never counts as a failure.
THEOREM FailuresHaveCauses == Spec => []FailuresAreReal
  <1>1. Init => FailuresAreReal
    BY DEF Init, FailuresAreReal
  <1> QED BY <1>1, FailuresPreserved, Invariance, PTL DEF Spec

\* cached_search drives do_call by the coalescer's own specification, so that all that is
\* proved of SingleFlight holds of the flights of searches: here, that followers get their
\* leader's result and that a flight is one result for all of its calls.
THEOREM SearchDrivesCoalescer ==
  Spec => Flights!Spec /\ []Flights!FollowersShareResult /\ Flights!Coalesces
  <1>1. IInv => TypeOK
    BY DEF IInv
  <1>2. Spec => Flights!Spec
    BY <1>1, InitFlights, FlightSteps, Invariance, PTL DEF Spec, Flights!Spec
  <1>3. Flights!Spec => []Flights!FollowersShareResult /\ Flights!Coalesces
    BY FlightConstants, Flights!FollowersAgree, Flights!Implements, PTL
  <1> QED BY <1>2, <1>3, PTL
=============================================================================
