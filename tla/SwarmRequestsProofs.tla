------------------------ MODULE SwarmRequestsProofs ------------------------
(***************************************************************************)
(* Proofs about SwarmHandoffs, SwarmReviews and SwarmBudget, for any       *)
(* pollers, intakes, requests, participants, polls, calls and limits, and  *)
(* whatever the claims of the message do meanwhile: a request is worked on *)
(* once, one hand-off comes of a watch, what the author of a challenge     *)
(* sends agrees with its row, a council answers once, from every position, *)
(* and what is spent on models stays counted and within its limits.        *)
(***************************************************************************)
EXTENDS SwarmHandoffs, SwarmReviews, SwarmBudget, SwarmClaimsProofs, SequenceTheorems

-----------------------------------------------------------------------------
\* HAND-OFFS AND WATCHES

RequestsFit == Len(requests) <= MaxRequests

\* What a request went through agrees with its state.
RequestAgrees ==
    \A r \in DOMAIN requests :
        /\ requests[r].state = "pending" => requests[r].runs = 0 /\ requests[r].shown = 0
        /\ requests[r].runs <= 1 /\ requests[r].shown <= 1
        /\ requests[r].kind = "handoff" /\ requests[r].state = "done"
           => requests[r].shown = 1

\* An intake at work holds a request of its own that nobody can accept again; its
\* answer was not shown before it was delivered, and once it was. A run that failed
\* may have shown it.
Busy(i) == intake[i].step # "idle"
Works(r, step) ==
    /\ requests[r].state # "pending"
    /\ requests[r].kind = "handoff" => requests[r].state = "accepted"
    /\ step = "running" => requests[r].shown = 0
    /\ step = "delivered" => requests[r].shown = 1
WorkIsOwned ==
    /\ \A i \in Intakes : Busy(i) => /\ intake[i].id \in DOMAIN requests
                                     /\ Works(intake[i].id, intake[i].step)
    /\ \A i, j \in Intakes : Busy(i) /\ Busy(j) /\ intake[i].id = intake[j].id => i = j

\* A watch is turned into a hand-off by one poll, after its row says so.
Handing(p) == poller[p] = "handing"
Made == {r \in DOMAIN requests : requests[r].sla}
OneMaker ==
    /\ \A p \in Pollers : Handing(p) => watch.state = "escalated" /\ Made = {}
    /\ \A p, q \in Pollers : Handing(p) /\ Handing(q) => p = q
    /\ \A r, q \in Made : r = q
    /\ Made # {} => watch.state = "escalated"

HandoffsInductive ==
    /\ HandoffsTypeOK
    /\ RequestsFit
    /\ RequestAgrees
    /\ WorkIsOwned
    /\ OneMaker

LEMMA HandoffsInit == InitHandoffs => HandoffsInductive
<1> SUFFICES ASSUME InitHandoffs PROVE HandoffsInductive
  OBVIOUS
<1>1. requests \in Seq(Request) /\ Len(requests) = 0 /\ DOMAIN requests = {}
  BY EmptySeq, LenProperties DEF InitHandoffs
<1>2. HandoffsTypeOK /\ RequestsFit
  BY <1>1, HandoffsAssumption DEF InitHandoffs, HandoffsTypeOK, RequestsFit, WatchStates,
                                  PollSteps, Idle
<1>3. RequestAgrees /\ WorkIsOwned
  BY <1>1 DEF InitHandoffs, RequestAgrees, WorkIsOwned, Works, Busy, Idle
<1>4. OneMaker
  BY <1>1 DEF InitHandoffs, OneMaker, Handing, Made
<1> QED
  BY <1>2, <1>3, <1>4 DEF HandoffsInductive

-----------------------------------------------------------------------------
\* The two ways in which the requests change.

LEMMA Rewritten ==
    ASSUME requests \in Seq(Request), NEW r \in DOMAIN requests, NEW x \in Request,
           requests' = [requests EXCEPT ![r] = x]
    PROVE  /\ requests' \in Seq(Request)
           /\ Len(requests') = Len(requests)
           /\ DOMAIN requests' = DOMAIN requests
           /\ \A q \in DOMAIN requests : requests'[q] = IF q = r THEN x ELSE requests[q]
<1>1. r \in 1..Len(requests) /\ DOMAIN requests = 1..Len(requests)
  BY LenProperties
<1>2. requests' \in Seq(Request) /\ Len(requests') = Len(requests)
  BY <1>1, ExceptSeq
<1>3. DOMAIN requests' = 1..Len(requests')
  BY <1>2, LenProperties
<1>4. \A q \in 1..Len(requests) : requests'[q] = IF q = r THEN x ELSE requests[q]
  BY <1>1, ExceptSeq
<1> QED
  BY <1>1, <1>2, <1>3, <1>4

LEMMA Added ==
    ASSUME HandoffsTypeOK, NEW kind \in {"handoff", "memory"}, NEW sla \in BOOLEAN,
           Len(requests) < MaxRequests,
           requests' = Append(requests, NewRequest(kind, sla))
    PROVE  /\ requests' \in Seq(Request)
           /\ Len(requests') <= MaxRequests
           /\ DOMAIN requests' = DOMAIN requests \cup {Len(requests) + 1}
           /\ Len(requests) + 1 \notin DOMAIN requests
           /\ \A q \in DOMAIN requests : requests'[q] = requests[q]
           /\ requests'[Len(requests) + 1] = NewRequest(kind, sla)
<1> DEFINE new == NewRequest(kind, sla)
<1>1. requests \in Seq(Request) /\ new \in Request
  BY DEF HandoffsTypeOK, NewRequest, Request
<1> HIDE DEF new
<1>2. Len(requests) \in Nat /\ DOMAIN requests = 1..Len(requests)
  BY <1>1, LenProperties
<1>3. /\ requests' \in Seq(Request) /\ Len(requests') = Len(requests) + 1
      /\ \A q \in 1..Len(requests) : requests'[q] = requests[q]
      /\ requests'[Len(requests) + 1] = new
  BY <1>1, AppendProperties DEF new
<1>4. DOMAIN requests' = 1..(Len(requests) + 1)
  BY <1>3, LenProperties
<1>5. 1..(Len(requests) + 1) = 1..Len(requests) \cup {Len(requests) + 1}
  BY <1>2
<1> QED
  BY <1>2, <1>3, <1>4, <1>5, HandoffsAssumption DEF new

\* What the lemmas below know of a state.
LEMMA Shapes ==
    ASSUME HandoffsTypeOK
    PROVE  /\ \A r \in DOMAIN requests :
                /\ requests[r] \in Request
                /\ requests[r].kind \in {"handoff", "memory"}
                /\ requests[r].runs \in Nat /\ requests[r].shown \in Nat
           /\ \A i \in Intakes :
                /\ intake[i].step \in {"idle", "running", "delivered", "undelivered"}
                /\ intake[i].id \in 0..MaxRequests
<1>1. requests \in [1..Len(requests) -> Request] /\ DOMAIN requests = 1..Len(requests)
  BY LenProperties DEF HandoffsTypeOK
<1>2. \A r \in DOMAIN requests : requests[r] \in Request
  BY <1>1
<1>3. \A x \in Request : x.kind \in {"handoff", "memory"} /\ x.runs \in Nat /\ x.shown \in Nat
  BY DEF Request
<1>4. \A i \in Intakes : /\ intake[i].step \in {"idle", "running", "delivered", "undelivered"}
                         /\ intake[i].id \in 0..MaxRequests
  BY DEF HandoffsTypeOK
<1> QED
  BY <1>2, <1>3, <1>4

-----------------------------------------------------------------------------
\* The watch.

\* The row is inserted, and falls due.
LEMMA WatchKeeps ==
    ASSUME HandoffsInductive, WatchSla \/ DeadlinePasses
    PROVE  HandoffsInductive'
<1>1. UNCHANGED <<poller, requests, intake, deaths>>
  BY DEF WatchSla, DeadlinePasses
<1>2. HandoffsTypeOK'
  BY <1>1 DEF HandoffsInductive, HandoffsTypeOK, WatchSla, DeadlinePasses, WatchStates
<1>3. watch.state = "escalated" => watch'.state = "escalated"
  BY DEF WatchSla, DeadlinePasses
<1>4. Made' = Made /\ \A p \in Pollers : Handing(p)' = Handing(p)
  BY <1>1 DEF Made, Handing
<1>5. OneMaker'
  BY <1>3, <1>4 DEF HandoffsInductive, OneMaker
<1> QED
  BY <1>1, <1>2, <1>5 DEF HandoffsInductive, RequestsFit, RequestAgrees, WorkIsOwned, Works, Busy

\* The polls: one of them finds the row waiting, and hands it over.
LEMMA PollKeeps ==
    ASSUME HandoffsInductive, NEW p \in Pollers,
           Poll(p) \/ Judge(p) \/ Resolve(p) \/ PollerDies(p)
    PROVE  HandoffsInductive'
<1> USE DEF HandoffsInductive
<1>1. UNCHANGED <<requests, intake>>
  BY DEF Poll, Judge, Resolve, PollerDies
<1>2. RequestsFit' /\ RequestAgrees' /\ WorkIsOwned' /\ Made' = Made
  BY <1>1 DEF RequestsFit, RequestAgrees, WorkIsOwned, Works, Busy, Made
<1>3. HandoffsTypeOK'
  <2> USE HandoffsAssumption DEF HandoffsTypeOK, WatchStates, PollSteps, Verdicts
  <2>1. CASE Poll(p) \/ Judge(p)
    BY <1>1, <2>1 DEF Poll, Judge
  <2>2. CASE Resolve(p)
    BY <1>1, <2>2 DEF Resolve
  <2>3. CASE PollerDies(p)
    BY <1>1, <2>3 DEF PollerDies
  <2> QED
    BY <2>1, <2>2, <2>3
<1>4. OneMaker'
  <2> USE DEF HandoffsTypeOK, OneMaker, Handing
  <2>1. CASE Poll(p) \/ Judge(p) \/ PollerDies(p)
    BY <1>2, <2>1 DEF Poll, Judge, PollerDies
  <2>2. CASE Resolve(p) /\ StillWaiting
    <3>1. Made = {} /\ \A q \in Pollers : ~Handing(q)
      BY <2>2 DEF StillWaiting
    <3>2. /\ watch' = [watch EXCEPT !.state = poller[p]]
          /\ poller' = [poller EXCEPT ![p] = IF poller[p] = "escalated"
                                             THEN "handing" ELSE "idle"]
      BY <2>2 DEF Resolve
    <3> QED
      BY <1>2, <3>1, <3>2
  <2>3. CASE Resolve(p) /\ ~StillWaiting
    BY <1>2, <2>3 DEF Resolve
  <2> QED
    BY <2>1, <2>2, <2>3
<1> QED
  BY <1>2, <1>3, <1>4

\* A new request is pending and nobody's; it is the watch's only if the poll
\* that escalated it makes it.
LEMMA RequestAdded ==
    ASSUME HandoffsInductive, NEW kind \in {"handoff", "memory"}, NEW sla \in BOOLEAN,
           Len(requests) < MaxRequests,
           requests' = Append(requests, NewRequest(kind, sla)),
           UNCHANGED intake
    PROVE  /\ requests' \in Seq(Request) /\ RequestsFit' /\ RequestAgrees' /\ WorkIsOwned'
           /\ Made' = IF sla THEN Made \cup {Len(requests) + 1} ELSE Made
<1> DEFINE n == Len(requests) + 1
<1>1. /\ requests' \in Seq(Request)
      /\ Len(requests') <= MaxRequests
      /\ DOMAIN requests' = DOMAIN requests \cup {n}
      /\ n \notin DOMAIN requests
      /\ \A q \in DOMAIN requests : requests'[q] = requests[q]
      /\ requests'[n] = NewRequest(kind, sla)
  BY Added DEF HandoffsInductive
<1> HIDE DEF n
<1>2. RequestsFit'
  BY <1>1 DEF RequestsFit
<1>3. RequestAgrees'
  BY <1>1 DEF HandoffsInductive, RequestAgrees, NewRequest
<1>4. WorkIsOwned'
  BY <1>1 DEF HandoffsInductive, WorkIsOwned, Works, Busy
<1>5. Made' = IF sla THEN Made \cup {n} ELSE Made
  BY <1>1 DEF Made, NewRequest
<1> QED
  BY <1>1, <1>2, <1>3, <1>4, <1>5 DEF n

LEMMA HandOverKeeps ==
    ASSUME HandoffsInductive, NEW p \in Pollers, HandOver(p)
    PROVE  HandoffsInductive'
<1>1. /\ Handing(p) /\ Len(requests) < MaxRequests
      /\ requests' = Append(requests, NewRequest("handoff", TRUE))
      /\ poller' = [poller EXCEPT ![p] = "idle"]
      /\ UNCHANGED <<watch, intake, deaths>>
  BY DEF HandOver, Handing
<1>2. /\ requests' \in Seq(Request) /\ RequestsFit' /\ RequestAgrees' /\ WorkIsOwned'
      /\ Made' = Made \cup {Len(requests) + 1}
  BY <1>1, RequestAdded
<1>3. HandoffsTypeOK'
  BY <1>1, <1>2 DEF HandoffsInductive, HandoffsTypeOK, PollSteps
<1>4. Made = {} /\ watch.state = "escalated" /\ \A q \in Pollers : Handing(q) => q = p
  BY <1>1 DEF HandoffsInductive, OneMaker
<1>5. \A q \in Pollers : ~Handing(q)'
  BY <1>1, <1>4 DEF HandoffsInductive, HandoffsTypeOK, Handing
<1>6. OneMaker'
  BY <1>1, <1>2, <1>4, <1>5 DEF OneMaker
<1> QED
  BY <1>2, <1>3, <1>6 DEF HandoffsInductive

LEMMA AskKeeps ==
    ASSUME HandoffsInductive, NEW kind \in {"handoff", "memory"}, Ask(kind)
    PROVE  HandoffsInductive'
<1>1. /\ requests' \in Seq(Request) /\ RequestsFit' /\ RequestAgrees' /\ WorkIsOwned'
      /\ Made' = Made
  BY RequestAdded DEF Ask
<1>2. HandoffsTypeOK'
  BY <1>1 DEF HandoffsInductive, HandoffsTypeOK, Ask
<1>3. OneMaker'
  BY <1>1 DEF HandoffsInductive, OneMaker, Handing, Ask
<1> QED
  BY <1>1, <1>2, <1>3 DEF HandoffsInductive

-----------------------------------------------------------------------------
\* The intake.

\* What an intake writes to the row it holds makes no hand-off of a watch.
LEMMA RowWritten ==
    ASSUME HandoffsInductive, NEW r \in DOMAIN requests, NEW x \in Request,
           x.sla = requests[r].sla,
           requests' = [requests EXCEPT ![r] = x],
           UNCHANGED <<watch, poller>>
    PROVE  /\ requests' \in Seq(Request) /\ RequestsFit' /\ OneMaker'
           /\ DOMAIN requests' = DOMAIN requests
           /\ \A q \in DOMAIN requests : requests'[q] = IF q = r THEN x ELSE requests[q]
<1>1. /\ requests' \in Seq(Request)
      /\ Len(requests') = Len(requests)
      /\ DOMAIN requests' = DOMAIN requests
      /\ \A q \in DOMAIN requests : requests'[q] = IF q = r THEN x ELSE requests[q]
  BY Rewritten DEF HandoffsInductive, HandoffsTypeOK
<1>2. Made' = Made
  BY <1>1 DEF Made
<1>3. RequestsFit' /\ OneMaker'
  BY <1>1, <1>2 DEF HandoffsInductive, RequestsFit, OneMaker, Handing
<1> QED
  BY <1>1, <1>3

LEMMA AcceptKeeps ==
    ASSUME HandoffsInductive, NEW i \in Intakes, Accept(i)
    PROVE  HandoffsInductive'
<1> USE DEF HandoffsInductive
<1>1. PICK r \in DOMAIN requests :
        /\ Pending(r)
        /\ requests' = [requests EXCEPT
             ![r].state = IF requests[r].kind = "memory" THEN "done" ELSE "accepted",
             ![r].runs = requests[r].runs + 1]
        /\ intake' = [intake EXCEPT ![i] = [step |-> "running", id |-> r]]
  BY DEF Accept
<1>2. /\ requests[r] \in Request /\ requests[r].state = "pending"
      /\ requests[r].runs = 0 /\ requests[r].shown = 0
      /\ requests[r].kind \in {"handoff", "memory"}
  BY <1>1, Shapes DEF Pending, RequestAgrees
<1> DEFINE next == IF requests[r].kind = "memory" THEN "done" ELSE "accepted"
           n == requests[r].runs + 1
           x == [requests[r] EXCEPT !.state = next, !.runs = n]
<1>3. n = 1 /\ n \in Nat
  BY <1>2
<1>4. next \in {"done", "accepted"} /\ (next = "done" <=> requests[r].kind = "memory")
  OBVIOUS
<1>5. requests' = [requests EXCEPT ![r] = x]
  BY <1>1
<1> HIDE DEF next, n
<1>6. /\ x \in Request /\ x.sla = requests[r].sla /\ x.kind = requests[r].kind
      /\ x.state = next /\ x.runs = 1 /\ x.shown = 0
  <2>1. /\ x \in Request /\ x.sla = requests[r].sla /\ x.kind = requests[r].kind
        /\ x.state = next /\ x.runs = n /\ x.shown = requests[r].shown
    BY <1>2, <1>3, <1>4 DEF Request
  <2> HIDE DEF x
  <2> QED
    BY <1>2, <1>3, <2>1
<1> HIDE DEF x
<1>7. UNCHANGED <<watch, poller, deaths>> /\ ~Busy(i)
  BY DEF Accept, Busy, Idle
<1>8. /\ requests' \in Seq(Request) /\ RequestsFit' /\ OneMaker'
      /\ DOMAIN requests' = DOMAIN requests
      /\ \A q \in DOMAIN requests : requests'[q] = IF q = r THEN x ELSE requests[q]
  BY <1>5, <1>6, <1>7, RowWritten
<1>9. r \in 0..MaxRequests
  BY <1>1, LenProperties, HandoffsAssumption DEF HandoffsTypeOK, RequestsFit
<1>10. HandoffsTypeOK'
  BY <1>1, <1>7, <1>8, <1>9 DEF HandoffsTypeOK
<1>11. RequestAgrees'
  BY <1>2, <1>4, <1>6, <1>8 DEF RequestAgrees
<1>12. \A j \in Intakes : Busy(j) => intake[j].id # r
  BY <1>2 DEF WorkIsOwned, Works
<1>13. intake'[i] = [step |-> "running", id |-> r]
       /\ \A j \in Intakes : j # i => intake'[j] = intake[j]
  BY <1>1 DEF HandoffsTypeOK
<1>14. WorkIsOwned'
  BY <1>1, <1>2, <1>4, <1>6, <1>8, <1>12, <1>13 DEF WorkIsOwned, Works, Busy
<1> QED
  BY <1>8, <1>10, <1>11, <1>14

\* The end of a run, delivered or not, writes whether the answer was shown.
LEMMA RunEnds ==
    ASSUME HandoffsInductive, NEW i \in Intakes, intake[i].step = "running",
           NEW x \in Request, x.sla = requests[intake[i].id].sla,
           x.kind = requests[intake[i].id].kind, x.state = requests[intake[i].id].state,
           x.runs = requests[intake[i].id].runs, x.shown \in {0, 1},
           NEW end \in {"delivered", "undelivered"}, end = "delivered" => x.shown = 1,
           requests' = [requests EXCEPT ![intake[i].id] = x],
           intake' = [intake EXCEPT ![i].step = end],
           UNCHANGED <<watch, poller, deaths>>
    PROVE  HandoffsInductive'
<1> USE DEF HandoffsInductive
<1> DEFINE r == intake[i].id
<1>1. Busy(i) /\ requests' = [requests EXCEPT ![r] = x]
  BY DEF Busy
<1>2. /\ r \in DOMAIN requests /\ x.sla = requests[r].sla
      /\ x.kind = requests[r].kind /\ x.state = requests[r].state /\ x.runs = requests[r].runs
      /\ requests[r].state # "pending"
      /\ requests[r].kind = "handoff" => requests[r].state = "accepted"
  BY <1>1, Shapes DEF WorkIsOwned, Works
<1>3. \A j \in Intakes : Busy(j) /\ j # i => intake[j].id # r
  BY <1>1 DEF WorkIsOwned
<1>4. /\ intake'[i].step = end /\ intake'[i].id = r
      /\ \A j \in Intakes : j # i => intake'[j] = intake[j]
      /\ intake' \in [Intakes -> [step: {"idle", "running", "delivered", "undelivered"},
                                  id: 0..MaxRequests]]
  BY DEF HandoffsTypeOK
<1> HIDE DEF r
<1>5. /\ requests' \in Seq(Request) /\ RequestsFit' /\ OneMaker'
      /\ DOMAIN requests' = DOMAIN requests
      /\ \A q \in DOMAIN requests : requests'[q] = IF q = r THEN x ELSE requests[q]
  BY <1>1, <1>2, RowWritten
<1>6. HandoffsTypeOK'
  BY <1>4, <1>5 DEF HandoffsTypeOK
<1>7. requests'[r] = x /\ \A q \in DOMAIN requests : q # r => requests'[q] = requests[q]
  BY <1>2, <1>5
<1>8. RequestAgrees'
  <2>1. /\ x.state # "pending" /\ x.runs <= 1 /\ x.shown <= 1
        /\ ~(x.kind = "handoff" /\ x.state = "done")
    BY <1>2 DEF RequestAgrees
  <2> QED
    BY <1>5, <1>7, <2>1 DEF RequestAgrees
<1>9. WorkIsOwned'
  <2>1. ASSUME NEW j \in Intakes, Busy(j)'
        PROVE  intake'[j].id \in DOMAIN requests' /\ Works(intake[j].id, intake[j].step)'
    <3>1. CASE j = i
      <4>1. /\ x.state # "pending" /\ (x.kind = "handoff" => x.state = "accepted")
            /\ end # "running" /\ (end = "delivered" => x.shown = 1)
        BY <1>2
      <4> QED
        BY <1>2, <1>4, <1>5, <1>7, <3>1, <4>1 DEF Works
    <3>2. CASE j # i
      <4>1. intake'[j] = intake[j] /\ Busy(j)
        BY <1>4, <2>1, <3>2 DEF Busy
      <4>2. intake[j].id \in DOMAIN requests /\ requests'[intake[j].id] = requests[intake[j].id]
        BY <1>3, <1>5, <3>2, <4>1 DEF WorkIsOwned
      <4>3. Works(intake[j].id, intake[j].step)
        BY <4>1 DEF WorkIsOwned
      <4> QED
        BY <1>5, <4>1, <4>2, <4>3 DEF Works
    <3> QED
      BY <3>1, <3>2
  <2>2. ASSUME NEW j \in Intakes, NEW k \in Intakes,
               Busy(j)', Busy(k)', intake'[j].id = intake'[k].id
        PROVE  j = k
    <3>1. Busy(j) /\ Busy(k) /\ intake[j].id = intake[k].id
      BY <1>1, <1>4, <2>2 DEF Busy, r
    <3> QED
      BY <3>1 DEF WorkIsOwned
  <2> QED
    BY <2>1, <2>2 DEF WorkIsOwned
<1> QED
  BY <1>5, <1>6, <1>8, <1>9

LEMMA RunKeeps ==
    ASSUME HandoffsInductive, NEW i \in Intakes, Deliver(i) \/ RunFails(i)
    PROVE  HandoffsInductive'
<1> DEFINE r == intake[i].id
           x(n) == [requests[r] EXCEPT !.shown = n]
<1>1. /\ intake[i].step = "running" /\ UNCHANGED <<watch, poller, deaths>>
      /\ \E n \in {requests[r].shown, requests[r].shown + 1},
            end \in {"delivered", "undelivered"} :
           /\ end = "delivered" => n = requests[r].shown + 1
           /\ requests' = [requests EXCEPT ![r] = x(n)]
           /\ intake' = [intake EXCEPT ![i].step = end]
  BY Shapes DEF Deliver, RunFails, HandoffsInductive
<1>2. PICK n \in {requests[r].shown, requests[r].shown + 1},
           end \in {"delivered", "undelivered"} :
        /\ end = "delivered" => n = requests[r].shown + 1
        /\ requests' = [requests EXCEPT ![r] = x(n)]
        /\ intake' = [intake EXCEPT ![i].step = end]
  BY <1>1
<1>3. requests[r] \in Request /\ requests[r].shown = 0
  BY <1>1, Shapes DEF HandoffsInductive, WorkIsOwned, Works, Busy
<1>4. n \in {0, 1} /\ (end = "delivered" => n = 1)
  BY <1>2, <1>3
<1>5. /\ x(n) \in Request /\ x(n).sla = requests[r].sla /\ x(n).kind = requests[r].kind
      /\ x(n).state = requests[r].state /\ x(n).runs = requests[r].runs /\ x(n).shown = n
  BY <1>3, <1>4 DEF Request
<1> HIDE DEF x
<1> QED
  BY <1>1, <1>2, <1>4, <1>5, RunEnds

\* An intake that dies leaves its row as it is.
LEMMA DeathKeeps ==
    ASSUME HandoffsInductive, NEW i \in Intakes, IntakeDies(i)
    PROVE  HandoffsInductive'
<1> USE DEF HandoffsInductive
<1>1. UNCHANGED <<watch, poller, requests>>
  BY DEF IntakeDies
<1>2. RequestsFit' /\ RequestAgrees' /\ OneMaker'
  BY <1>1 DEF RequestsFit, RequestAgrees, OneMaker, Handing, Made
<1>3. HandoffsTypeOK'
  BY <1>1, HandoffsAssumption DEF HandoffsTypeOK, IntakeDies, Idle
<1>4. ~Busy(i)' /\ \A j \in Intakes : j # i => intake'[j] = intake[j]
  BY DEF HandoffsTypeOK, IntakeDies, Idle, Busy
<1>5. WorkIsOwned'
  BY <1>1, <1>4 DEF WorkIsOwned, Works, Busy
<1> QED
  BY <1>2, <1>3, <1>5

LEMMA CompleteKeeps ==
    ASSUME HandoffsInductive, NEW i \in Intakes, Complete(i)
    PROVE  HandoffsInductive'
<1> USE DEF HandoffsInductive
<1> DEFINE r == intake[i].id
           x == [requests[r] EXCEPT !.state = Outcome(i)]
<1>1. /\ intake[i].step \in {"delivered", "undelivered"} /\ Busy(i)
      /\ requests' = [requests EXCEPT ![r] = x]
      /\ intake' = [intake EXCEPT ![i] = Idle]
      /\ UNCHANGED <<watch, poller, deaths>>
  BY DEF Complete, Busy
<1>2. /\ r \in DOMAIN requests /\ requests[r] \in Request
      /\ intake[i].step = "delivered" => requests[r].shown = 1
      /\ requests[r].shown <= 1 /\ requests[r].runs <= 1
  BY <1>1, Shapes DEF WorkIsOwned, Works, RequestAgrees
<1>3. \A j \in Intakes : Busy(j) /\ j # i => intake[j].id # r
  BY <1>1 DEF WorkIsOwned, Works
<1>4. /\ ~Busy(i)' /\ \A j \in Intakes : j # i => intake'[j] = intake[j]
      /\ intake' \in [Intakes -> [step: {"idle", "running", "delivered", "undelivered"},
                                  id: 0..MaxRequests]]
  BY <1>1, HandoffsAssumption DEF HandoffsTypeOK, Idle, Busy
<1>5. /\ Outcome(i) \in {"done", "failed"}
      /\ Outcome(i) = "done" => intake[i].step = "delivered"
  BY DEF Outcome
<1> HIDE DEF r
<1>6. /\ x \in Request /\ x.sla = requests[r].sla /\ x.state = Outcome(i)
      /\ x.runs = requests[r].runs /\ x.shown = requests[r].shown
  BY <1>2, <1>5 DEF Request
<1> HIDE DEF x
<1>7. /\ requests' \in Seq(Request) /\ RequestsFit' /\ OneMaker'
      /\ DOMAIN requests' = DOMAIN requests
      /\ \A q \in DOMAIN requests : requests'[q] = IF q = r THEN x ELSE requests[q]
  BY <1>1, <1>2, <1>6, RowWritten
<1>8. HandoffsTypeOK'
  BY <1>1, <1>4, <1>7 DEF HandoffsTypeOK
<1>9. RequestAgrees'
  BY <1>2, <1>5, <1>6, <1>7 DEF RequestAgrees
<1>10. WorkIsOwned'
  BY <1>3, <1>4, <1>7 DEF WorkIsOwned, Works, Busy
<1> QED
  BY <1>7, <1>8, <1>9, <1>10

-----------------------------------------------------------------------------

LEMMA HandoffsStep == HandoffsInductive /\ HandoffStep => HandoffsInductive'
<1> SUFFICES ASSUME HandoffsInductive, HandoffStep PROVE HandoffsInductive'
  OBVIOUS
<1>1. CASE WatchSla \/ DeadlinePasses
  BY <1>1, WatchKeeps
<1>2. CASE \E p \in Pollers : Poll(p) \/ Judge(p) \/ Resolve(p) \/ HandOver(p) \/ PollerDies(p)
  BY <1>2, PollKeeps, HandOverKeeps
<1>3. CASE \E kind \in {"handoff", "memory"} : Ask(kind)
  BY <1>3, AskKeeps
<1>4. CASE \E i \in Intakes : Accept(i) \/ Deliver(i) \/ RunFails(i) \/ Complete(i) \/ IntakeDies(i)
  BY <1>4, AcceptKeeps, RunKeeps, DeathKeeps, CompleteKeeps
<1> QED
  BY <1>1, <1>2, <1>3, <1>4 DEF HandoffStep

LEMMA HandoffsFrame == HandoffsInductive /\ UNCHANGED handoffVars => HandoffsInductive'
BY DEF handoffVars, HandoffsInductive, HandoffsTypeOK, RequestsFit, RequestAgrees,
       WorkIsOwned, Works, Busy, OneMaker, Handing, Made

LEMMA MakersCount == OneMaker => EscalatedOnce
<1> SUFFICES ASSUME OneMaker PROVE EscalatedOnce
  OBVIOUS
<1> DEFINE making == {p \in Pollers : poller[p] = "handing"}
<1>1. /\ \A r, q \in Made : r = q
      /\ \A p, q \in making : p = q
      /\ making # {} => Made = {}
      /\ Made \cup making # {} => watch.state = "escalated"
  BY DEF OneMaker, Handing
<1> HIDE DEF making
<1>2. /\ Cardinality(Made) \in Nat /\ Cardinality(Made) <= 1
      /\ Cardinality(making) \in Nat /\ Cardinality(making) <= 1
  BY <1>1, AtMostOne
<1>3. Cardinality(Made) + Cardinality(making) <= 1
  <2>1. CASE making = {}
    BY <1>2, <2>1, FS_EmptySet
  <2>2. CASE Made = {}
    BY <1>2, <2>2, FS_EmptySet
  <2> QED
    BY <1>1, <2>1, <2>2
<1> QED
  BY <1>1, <1>3 DEF EscalatedOnce, Made, making

\* For any pollers, intakes and requests, and whatever the claims do: a request
\* has one owner at a time and one run, and a watch one hand-off.
THEOREM SpecHandoffsInductive == SpecHandoffs => []HandoffsInductive
<1>1. InitClaims /\ InitHandoffs => HandoffsInductive
  BY HandoffsInit
<1>2. HandoffsInductive /\ [NextHandoffs]_<<claimVars, handoffVars>> => HandoffsInductive'
  BY HandoffsStep, HandoffsFrame DEF NextHandoffs
<1> QED
  BY <1>1, <1>2, PTL DEF SpecHandoffs

\* The same, as the properties that the runs check.
THEOREM SpecTakenAndEscalatedOnce == SpecHandoffs => [](TakenOnce /\ EscalatedOnce)
<1>1. HandoffsInductive => TakenOnce /\ EscalatedOnce
  BY MakersCount DEF HandoffsInductive, RequestAgrees, TakenOnce
<1> QED
  BY <1>1, SpecHandoffsInductive, PTL

-----------------------------------------------------------------------------
\* CHALLENGES AND COUNCILS

\* Where the author stands says what its row may be: a row that was answered
\* or timed out is not written again, and a deadline that was beaten was beaten
\* by a verdict.
AuthorAgrees ==
    /\ author = "drafting" => challenge = "none" /\ used = "nothing"
    /\ challenge = "none" => author = "drafting"
    /\ author = "beaten" => challenge = "answered"
    /\ author = "done" => challenge \in {"answered", "timeout"}

\* The polls that hold the council: one at most, and only while its row says
\* that it is being synthesised.
Holding(s) == synthesis[s].step \in {"claimed", "shown", "unshown"}
OneHolder ==
    /\ \A s \in Synthesizers : Holding(s) => council = "synthesizing"
    /\ \A s, t \in Synthesizers : Holding(s) /\ Holding(t) => s = t

\* The answer is counted once: none before the claim, none while it is claimed.
AnswersCounted ==
    /\ council = "gathering" => answers = 0
    /\ \A s \in Synthesizers : /\ synthesis[s].step = "claimed" => answers = 0
                               /\ synthesis[s].step = "shown" => answers = 1

ReviewsInductive ==
    /\ ReviewsTypeOK
    /\ AuthorAgrees
    /\ OneHolder
    /\ AnswersCounted
    /\ VerdictIsUsed
    /\ CouncilAnswersOnce

LEMMA ReviewsInit == InitReviews => ReviewsInductive
<1> SUFFICES ASSUME InitReviews PROVE ReviewsInductive
  OBVIOUS
<1> USE ReviewsAssumption DEF InitReviews
<1>1. ReviewsTypeOK
  BY DEF ReviewsTypeOK
<1>2. AuthorAgrees /\ VerdictIsUsed
  BY DEF AuthorAgrees, VerdictIsUsed
<1>3. OneHolder /\ AnswersCounted /\ CouncilAnswersOnce
  BY DEF OneHolder, Holding, AnswersCounted, CouncilAnswersOnce
<1> QED
  BY <1>1, <1>2, <1>3 DEF ReviewsInductive

-----------------------------------------------------------------------------
\* The challenge.

LEMMA ChallengeTypes == ReviewsTypeOK /\ ChallengeStep => ReviewsTypeOK'
<1> SUFFICES ASSUME ReviewsTypeOK, ChallengeStep PROVE ReviewsTypeOK'
  OBVIOUS
<1> USE ReviewsAssumption DEF ReviewsTypeOK, councilVars
<1>1. CASE RequestChallenge \/ SeeVerdict \/ GiveUp \/ Timeout \/ Reread
  BY <1>1 DEF RequestChallenge, SeeVerdict, GiveUp, Timeout, Reread
<1>2. CASE AcceptChallenge \/ AnswerChallenge \/ ReviewFails
  BY <1>2 DEF AcceptChallenge, AnswerChallenge, ReviewFails
<1> QED
  BY <1>1, <1>2 DEF ChallengeStep

\* The deadline and the reviewer's answer may fall in any order: the row is
\* closed by whichever comes first, and the author learns which it was.
LEMMA ChallengeAgrees ==
    ASSUME ReviewsTypeOK, AuthorAgrees, VerdictIsUsed, ChallengeStep
    PROVE  AuthorAgrees' /\ VerdictIsUsed'
<1> USE DEF ReviewsTypeOK, AuthorAgrees, VerdictIsUsed
<1>1. CASE RequestChallenge
  BY <1>1 DEF RequestChallenge
<1>2. CASE SeeVerdict
  BY <1>2 DEF SeeVerdict
<1>3. CASE GiveUp
  BY <1>3 DEF GiveUp
<1>4. CASE Timeout
  <2>1. CASE Closable
    BY <1>4, <2>1 DEF Timeout
  <2>2. CASE ~Closable
    <3>1. challenge = "answered"
      BY <1>4, <2>2 DEF Timeout, Closable
    <3> QED
      BY <1>4, <2>2, <3>1 DEF Timeout
  <2> QED
    BY <2>1, <2>2
<1>5. CASE Reread
  BY <1>5 DEF Reread
<1>6. CASE AcceptChallenge
  BY <1>6 DEF AcceptChallenge
<1>7. CASE AnswerChallenge
  BY <1>7 DEF AnswerChallenge, Closable
<1>8. CASE ReviewFails
  BY <1>8 DEF ReviewFails
<1> QED
  BY <1>1, <1>2, <1>3, <1>4, <1>5, <1>6, <1>7, <1>8 DEF ChallengeStep

LEMMA ChallengeKeepsCouncil ==
    ASSUME ReviewsInductive, ChallengeStep
    PROVE  OneHolder' /\ AnswersCounted' /\ CouncilAnswersOnce'
<1>1. UNCHANGED councilVars
  BY DEF ChallengeStep, RequestChallenge, SeeVerdict, GiveUp, Timeout, Reread,
         AcceptChallenge, AnswerChallenge, ReviewFails
<1> QED
  BY <1>1 DEF ReviewsInductive, councilVars, OneHolder, Holding, AnswersCounted,
              CouncilAnswersOnce

-----------------------------------------------------------------------------
\* The council.

LEMMA CouncilTypes == ReviewsTypeOK /\ CouncilStep => ReviewsTypeOK'
<1> SUFFICES ASSUME ReviewsTypeOK, CouncilStep PROVE ReviewsTypeOK'
  OBVIOUS
<1> USE ReviewsAssumption DEF ReviewsTypeOK, challengeVars
<1>1. ASSUME NEW p \in Participants, Think(p) \/ SubmitPosition(p) \/ PositionFails(p)
      PROVE  ReviewsTypeOK'
  BY <1>1 DEF Think, SubmitPosition, PositionFails
<1>2. ASSUME NEW s \in Synthesizers,
             \/ ListCouncil(s) \/ Synthesize(s) \/ CompleteCouncil(s) \/ SynthesizerDies(s)
      PROVE  ReviewsTypeOK'
  BY <1>2 DEF ListCouncil, Synthesize, CompleteCouncil, SynthesizerDies
<1>3. ASSUME NEW s \in Synthesizers, ClaimSynthesis(s) PROVE ReviewsTypeOK'
  BY <1>3 DEF ClaimSynthesis
<1> QED
  BY <1>1, <1>2, <1>3 DEF CouncilStep

LEMMA CouncilKeepsChallenge ==
    ASSUME ReviewsInductive, CouncilStep
    PROVE  AuthorAgrees' /\ VerdictIsUsed'
<1>1. UNCHANGED challengeVars
  BY DEF CouncilStep, Think, SubmitPosition, PositionFails, ListCouncil, ClaimSynthesis,
         Synthesize, CompleteCouncil, SynthesizerDies
<1> QED
  BY <1>1 DEF ReviewsInductive, challengeVars, AuthorAgrees, VerdictIsUsed

\* A claim finds nobody else holding the council and reads every position:
\* as many positions as participants are all of them.
LEMMA ClaimReadsAll ==
    ASSUME ReviewsTypeOK, Ready
    PROVE  positions = Participants
<1>1. positions \in SUBSET Participants /\ IsFiniteSet(Participants)
  BY ReviewsAssumption DEF ReviewsTypeOK
<1>2. /\ Cardinality(positions) <= Cardinality(Participants)
      /\ Cardinality(positions) = Cardinality(Participants) => positions = Participants
  BY <1>1, FS_Subset
<1>3. Cardinality(positions) \in Nat /\ Cardinality(Participants) \in Nat
  BY <1>1, FS_CardinalityType, FS_Subset
<1> QED
  BY <1>2, <1>3 DEF Ready

LEMMA CouncilAgrees ==
    ASSUME ReviewsTypeOK, OneHolder, AnswersCounted, CouncilAnswersOnce, CouncilStep
    PROVE  OneHolder' /\ AnswersCounted' /\ CouncilAnswersOnce'
<1> USE DEF ReviewsTypeOK, OneHolder, Holding, AnswersCounted, CouncilAnswersOnce
<1>1. ASSUME NEW p \in Participants, Think(p) \/ SubmitPosition(p) \/ PositionFails(p)
      PROVE  OneHolder' /\ AnswersCounted' /\ CouncilAnswersOnce'
  BY <1>1 DEF Think, SubmitPosition, PositionFails
<1>2. ASSUME NEW s \in Synthesizers, ListCouncil(s)
      PROVE  OneHolder' /\ AnswersCounted' /\ CouncilAnswersOnce'
  BY <1>2 DEF ListCouncil
<1>3. ASSUME NEW s \in Synthesizers, ClaimSynthesis(s)
      PROVE  OneHolder' /\ AnswersCounted' /\ CouncilAnswersOnce'
  <2>1. CASE Ready
    <3>1. /\ council = "gathering" /\ positions = Participants
          /\ council' = "synthesizing" /\ answers' = answers
          /\ synthesis' = [synthesis EXCEPT ![s] = [step |-> "claimed", read |-> positions]]
      BY <1>3, <2>1, ClaimReadsAll DEF ClaimSynthesis, Ready
    <3> QED
      BY <3>1
  <2>2. CASE ~Ready
    BY <1>3, <2>2 DEF ClaimSynthesis
  <2> QED
    BY <2>1, <2>2
<1>4. ASSUME NEW s \in Synthesizers, Synthesize(s)
      PROVE  OneHolder' /\ AnswersCounted' /\ CouncilAnswersOnce'
  BY <1>4 DEF Synthesize
<1>5. ASSUME NEW s \in Synthesizers, CompleteCouncil(s)
      PROVE  OneHolder' /\ AnswersCounted' /\ CouncilAnswersOnce'
  BY <1>5 DEF CompleteCouncil
<1>6. ASSUME NEW s \in Synthesizers, SynthesizerDies(s)
      PROVE  OneHolder' /\ AnswersCounted' /\ CouncilAnswersOnce'
  BY <1>6 DEF SynthesizerDies
<1> QED
  BY <1>1, <1>2, <1>3, <1>4, <1>5, <1>6 DEF CouncilStep

-----------------------------------------------------------------------------

LEMMA ReviewsStep == ReviewsInductive /\ [NextReviews]_reviewVars => ReviewsInductive'
<1> SUFFICES ASSUME ReviewsInductive, [NextReviews]_reviewVars PROVE ReviewsInductive'
  OBVIOUS
<1>1. CASE ChallengeStep
  BY <1>1, ChallengeTypes, ChallengeAgrees, ChallengeKeepsCouncil DEF ReviewsInductive
<1>2. CASE CouncilStep
  BY <1>2, CouncilTypes, CouncilAgrees, CouncilKeepsChallenge DEF ReviewsInductive
<1>3. CASE UNCHANGED reviewVars
  BY <1>3 DEF reviewVars, challengeVars, councilVars, ReviewsInductive, ReviewsTypeOK,
              AuthorAgrees, OneHolder, Holding, AnswersCounted, VerdictIsUsed,
              CouncilAnswersOnce
<1> QED
  BY <1>1, <1>2, <1>3 DEF NextReviews

\* For any participants, polls and failures: the verdict that the author uses
\* is the one its row keeps, and the council has one holder and one answer.
THEOREM SpecReviewsInductive == SpecReviews => []ReviewsInductive
<1>1. InitReviews => ReviewsInductive
  BY ReviewsInit
<1>2. ReviewsInductive /\ [NextReviews]_reviewVars => ReviewsInductive'
  BY ReviewsStep
<1> QED
  BY <1>1, <1>2, PTL DEF SpecReviews

-----------------------------------------------------------------------------
\* THE BUDGET

\* The hold of a call that is under way was neither released nor settled.
HoldsStand ==
    \A c \in Calls : call[c] \in {"admitted", "asking"} => hold[c] \in {"held", "past"}

\* Only a request that was made can be in doubt, and not while it is waited for.
DoubtIsAsked ==
    \A c \in Calls : /\ \A d \in doubt[c] : d >= 1 /\ d <= tried[c]
                     /\ call[c] = "asking" => tried[c] >= 1 /\ tried[c] \notin doubt[c]
                     /\ call[c] = "new" => tried[c] = 0

BudgetInductive ==
    /\ BudgetTypeOK
    /\ HoldsStand
    /\ DoubtIsAsked
    /\ SpendIsBounded
    /\ LastBillIsCounted

-----------------------------------------------------------------------------
\* Holds and their sum.

\* The calls that hold something on an account are finitely many.
LEMMA HoldersFinite ==
    ASSUME NEW a
    PROVE  IsFiniteSet(Holders(a)) /\ Cardinality(Holders(a)) \in Nat
<1>1. IsFiniteSet(Calls)
  BY BudgetAssumption
<1>2. Holders(a) \subseteq Calls
  BY DEF Holders
<1> QED
  BY <1>1, <1>2, FS_Subset, FS_CardinalityType

\* The same after a step.
LEMMA HoldersFiniteNext ==
    ASSUME NEW a
    PROVE  IsFiniteSet(Holders(a)') /\ Cardinality(Holders(a)') \in Nat
<1>1. IsFiniteSet(Calls)
  BY BudgetAssumption
<1>2. Holders(a)' \subseteq Calls
  BY DEF Holders
<1> QED
  BY <1>1, <1>2, FS_Subset, FS_CardinalityType

\* One more holder is one more estimate.
LEMMA OneMore ==
    ASSUME NEW n \in Nat
    PROVE  Estimate * (n + 1) = Estimate * n + Estimate
BY BudgetAssumption

\* More holders hold no less.
LEMMA Monotone ==
    ASSUME NEW m \in Nat, NEW n \in Nat, m <= n
    PROVE  Estimate * m <= Estimate * n
BY BudgetAssumption

LEMMA HeldIsNat ==
    ASSUME NEW a
    PROVE  Held(a) \in Nat /\ Held(a)' \in Nat
<1>1. Cardinality(Holders(a)) \in Nat /\ Cardinality(Holders(a)') \in Nat
  BY HoldersFinite, HoldersFiniteNext
<1>2. Held(a)' = Estimate * Cardinality(Holders(a)')
  BY BudgetAssumption DEF Held
<1> QED
  BY <1>1, <1>2, BudgetAssumption DEF Held

\* A step that adds no holder adds nothing to the sum.
LEMMA HeldShrinks ==
    ASSUME NEW a, Holders(a)' \subseteq Holders(a)
    PROVE  Held(a)' <= Held(a)
<1>1. Cardinality(Holders(a)') <= Cardinality(Holders(a))
  BY HoldersFinite, FS_Subset
<1>2. Estimate * Cardinality(Holders(a)') <= Estimate * Cardinality(Holders(a))
  BY <1>1, HoldersFinite, HoldersFiniteNext, Monotone
<1> QED
  BY <1>2 DEF Held

\* A step that adds one holder adds at most one estimate.
LEMMA HeldGrows ==
    ASSUME NEW a, NEW c, Holders(a)' \subseteq Holders(a) \cup {c}
    PROVE  Held(a)' <= Held(a) + Estimate
<1> DEFINE more == Holders(a) \cup {c}
<1>1. IsFiniteSet(more) /\ Cardinality(more) <= Cardinality(Holders(a)) + 1
  BY HoldersFinite, FS_AddElement
<1>2. Cardinality(more) \in Nat /\ Cardinality(Holders(a)') <= Cardinality(more)
  BY <1>1, FS_Subset, FS_CardinalityType
<1>3. Cardinality(Holders(a)') <= Cardinality(Holders(a)) + 1
  BY <1>1, <1>2, HoldersFinite, HoldersFiniteNext
<1>4. Estimate * Cardinality(Holders(a)') <= Estimate * (Cardinality(Holders(a)) + 1)
  BY <1>3, HoldersFinite, HoldersFiniteNext, Monotone
<1>5. Estimate * (Cardinality(Holders(a)) + 1) = Estimate * Cardinality(Holders(a)) + Estimate
  BY HoldersFinite, OneMore
<1> QED
  BY <1>4, <1>5 DEF Held

\* A step that removes one holder removes its estimate.
LEMMA HeldDrops ==
    ASSUME NEW a, NEW c \in Holders(a), Holders(a)' = Holders(a) \ {c}
    PROVE  Held(a)' = Held(a) - Estimate
<1>1. Cardinality(Holders(a)') = Cardinality(Holders(a)) - 1
  BY HoldersFinite, FS_RemoveElement
<1>2. Estimate * (Cardinality(Holders(a)') + 1) = Estimate * Cardinality(Holders(a)') + Estimate
  BY HoldersFiniteNext, OneMore
<1>3. Cardinality(Holders(a)') + 1 = Cardinality(Holders(a))
  BY <1>1, HoldersFinite
<1>4. Estimate * Cardinality(Holders(a)) = Estimate * Cardinality(Holders(a)') + Estimate
  BY <1>2, <1>3
<1>5. Held(a) = Held(a)' + Estimate
  BY <1>4 DEF Held
<1> QED
  BY <1>5, HeldIsNat, BudgetAssumption

-----------------------------------------------------------------------------
\* The invariant.

LEMMA BudgetInit == InitBudget => BudgetInductive
<1> SUFFICES ASSUME InitBudget PROVE BudgetInductive
  OBVIOUS
<1> USE BudgetAssumption DEF InitBudget
<1>1. BudgetTypeOK
  BY DEF BudgetTypeOK
<1>2. HoldsStand /\ DoubtIsAsked /\ LastBillIsCounted
  BY DEF HoldsStand, DoubtIsAsked, LastBillIsCounted
<1>3. SpendIsBounded
  <2> SUFFICES ASSUME NEW a \in Accounts PROVE spent[a] + Held(a) <= Limit[a] + excess[a]
    BY DEF SpendIsBounded
  <2>1. Holders(a) = {}
    BY DEF Holders, Counts
  <2>2. Held(a) = 0
    BY <2>1, FS_EmptySet DEF Held
  <2> QED
    BY <2>2
<1> QED
  BY <1>1, <1>2, <1>3 DEF BudgetInductive

\* The actions of one call, and midnight, by kind.
LEMMA BudgetTypes == BudgetTypeOK /\ [NextBudget]_budgetVars => BudgetTypeOK'
<1> SUFFICES ASSUME BudgetTypeOK, [NextBudget]_budgetVars PROVE BudgetTypeOK'
  OBVIOUS
<1> USE BudgetAssumption DEF BudgetTypeOK
<1>1. ASSUME NEW c \in Calls, CallStep(c) PROVE BudgetTypeOK'
  <2>1. CASE Admit(c)
    BY <2>1 DEF Admit
  <2>2. CASE Refuse(c)
    BY <2>2 DEF Refuse
  <2>3. CASE Abort(c)
    BY <2>3 DEF Abort, Release
  <2>4. CASE AskProvider(c)
    BY <2>4 DEF AskProvider
  <2>5. CASE GiveUpCall(c)
    BY <2>5 DEF GiveUpCall, Keep
  <2>6. CASE Settle(c)
    <3>1. PICK price \in Prices :
            /\ spent' = [a \in Accounts |->
                           IF a \in Charged[c] THEN spent[a] + price ELSE spent[a]]
            /\ excess' = [a \in Accounts |->
                           IF a \in Charged[c] THEN excess[a] + Overrun(c, price) ELSE excess[a]]
      BY <2>6 DEF Settle
    <3>2. price \in Nat /\ Overrun(c, price) \in Nat
      BY DEF Overrun
    <3>3. spent' \in [Accounts -> Nat] /\ excess' \in [Accounts -> Nat]
      BY <3>1, <3>2
    <3> QED
      BY <3>3, <2>6 DEF Settle, Release
  <2>7. CASE EndUnknown(c)
    BY <2>7 DEF EndUnknown, Keep
  <2>8. CASE FallBack(c)
    BY <2>8 DEF FallBack
  <2>9. CASE Refused(c)
    BY <2>9 DEF Refused, Release
  <2>10. CASE CallDies(c)
    BY <2>10 DEF CallDies
  <2> QED
    BY <1>1, <2>1, <2>2, <2>3, <2>4, <2>5, <2>6, <2>7, <2>8, <2>9, <2>10 DEF CallStep
<1>2. CASE Midnight
  BY <1>2 DEF Midnight
<1>3. CASE UNCHANGED budgetVars
  BY <1>3 DEF budgetVars
<1> QED
  BY <1>1, <1>2, <1>3 DEF NextBudget

\* Holds of calls under way, and doubts, from one state to the next.
LEMMA CallsStep ==
    BudgetInductive /\ [NextBudget]_budgetVars
        => HoldsStand' /\ DoubtIsAsked' /\ LastBillIsCounted'
<1> SUFFICES ASSUME BudgetInductive, [NextBudget]_budgetVars
             PROVE  HoldsStand' /\ DoubtIsAsked' /\ LastBillIsCounted'
  OBVIOUS
<1> USE BudgetAssumption
    DEF BudgetInductive, BudgetTypeOK, HoldsStand, DoubtIsAsked, LastBillIsCounted, Counts
<1>1. ASSUME NEW c \in Calls, CallStep(c)
      PROVE  HoldsStand' /\ DoubtIsAsked' /\ LastBillIsCounted'
  <2>1. CASE Admit(c)
    BY <2>1 DEF Admit
  <2>2. CASE Refuse(c)
    BY <2>2 DEF Refuse
  <2>3. CASE Abort(c)
    BY <2>3 DEF Abort, Release
  <2>4. CASE AskProvider(c)
    BY <2>4 DEF AskProvider
  <2>5. CASE GiveUpCall(c)
    BY <2>5 DEF GiveUpCall, Keep
  <2>6. CASE Settle(c)
    BY <2>6 DEF Settle, Release
  <2>7. CASE EndUnknown(c)
    BY <2>7 DEF EndUnknown, Keep
  <2>8. CASE FallBack(c)
    BY <2>8 DEF FallBack
  <2>9. CASE Refused(c)
    BY <2>9 DEF Refused, Release
  <2>10. CASE CallDies(c)
    BY <2>10 DEF CallDies
  <2> QED
    BY <1>1, <2>1, <2>2, <2>3, <2>4, <2>5, <2>6, <2>7, <2>8, <2>9, <2>10 DEF CallStep
<1>2. CASE Midnight
  BY <1>2 DEF Midnight
<1>3. CASE UNCHANGED budgetVars
  BY <1>3 DEF budgetVars
<1> QED
  BY <1>1, <1>2, <1>3 DEF NextBudget

\* A step that takes no hold and spends nothing keeps the bound.
LEMMA BoundFrame ==
    ASSUME BudgetTypeOK, SpendIsBounded, UNCHANGED <<spent, excess>>,
           \A c \in Calls : Counts(c)' => Counts(c)
    PROVE  SpendIsBounded'
<1> SUFFICES ASSUME NEW a \in Accounts PROVE (spent[a] + Held(a) <= Limit[a] + excess[a])'
  BY DEF SpendIsBounded
<1>1. Holders(a)' \subseteq Holders(a)
  BY DEF Holders
<1>2. Held(a)' <= Held(a)
  BY <1>1, HeldShrinks
<1>3. spent[a] \in Nat /\ excess[a] \in Nat /\ Limit[a] \in Nat
  BY BudgetAssumption DEF BudgetTypeOK
<1> QED
  BY <1>2, <1>3, HeldIsNat, BudgetAssumption DEF SpendIsBounded

\* Admission leaves room for its own estimate on every account it charges.
LEMMA AdmitBound ==
    ASSUME BudgetTypeOK, SpendIsBounded, NEW c \in Calls, Admit(c)
    PROVE  SpendIsBounded'
<1> SUFFICES ASSUME NEW a \in Accounts PROVE (spent[a] + Held(a) <= Limit[a] + excess[a])'
  BY DEF SpendIsBounded
<1>1. spent[a] \in Nat /\ excess[a] \in Nat /\ Limit[a] \in Nat
  BY BudgetAssumption DEF BudgetTypeOK
<1>2. UNCHANGED <<spent, excess>> /\ hold' = [hold EXCEPT ![c] = "held"]
  BY DEF Admit
<1>3. CASE a \in Charged[c]
  <2>1. Fits(a)
    BY <1>3 DEF Admit
  <2>2. Holders(a)' \subseteq Holders(a) \cup {c}
    BY <1>2 DEF Holders, Counts, BudgetTypeOK
  <2>3. Held(a)' <= Held(a) + Estimate
    BY <2>2, HeldGrows
  <2> QED
    BY <1>1, <1>2, <2>1, <2>3, HeldIsNat, BudgetAssumption DEF Fits
<1>4. CASE a \notin Charged[c]
  <2>1. Holders(a)' \subseteq Holders(a)
    BY <1>2, <1>4 DEF Holders, Counts, BudgetTypeOK
  <2> QED
    BY <1>1, <1>2, <2>1, HeldShrinks, HeldIsNat, BudgetAssumption DEF SpendIsBounded
<1> QED
  BY <1>3, <1>4

\* Settlement trades the hold for the price and counts what exceeds it.
LEMMA SettleBound ==
    ASSUME BudgetTypeOK, SpendIsBounded, NEW c \in Calls, Settle(c)
    PROVE  SpendIsBounded'
<1> SUFFICES ASSUME NEW a \in Accounts PROVE (spent[a] + Held(a) <= Limit[a] + excess[a])'
  BY DEF SpendIsBounded
<1>1. spent[a] \in Nat /\ excess[a] \in Nat /\ Limit[a] \in Nat
  BY BudgetAssumption DEF BudgetTypeOK
<1>2. hold' = [hold EXCEPT ![c] = "none"]
  BY DEF Settle, Release
<1>3. PICK price \in Prices :
        /\ spent' = [b \in Accounts |->
                       IF b \in Charged[c] THEN spent[b] + price ELSE spent[b]]
        /\ excess' = [b \in Accounts |->
                       IF b \in Charged[c] THEN excess[b] + Overrun(c, price) ELSE excess[b]]
  BY DEF Settle
<1>4. price \in Nat /\ Estimate \in Nat
  BY BudgetAssumption
<1>5. Holders(a)' = Holders(a) \ {c}
  BY <1>2 DEF Holders, Counts, BudgetTypeOK
<1>6. CASE a \in Charged[c] /\ Counts(c)
  <2>1. Held(a)' = Held(a) - Estimate
    <3>1. c \in Holders(a)
      BY <1>6 DEF Holders
    <3> QED
      BY <1>5, <3>1, HeldDrops
  <2>2. spent'[a] = spent[a] + price
        /\ excess'[a] = excess[a] + (IF price > Estimate THEN price - Estimate ELSE 0)
    BY <1>3, <1>6 DEF Overrun
  <2> QED
    BY <1>1, <1>4, <2>1, <2>2, HeldIsNat DEF SpendIsBounded
<1>7. CASE a \in Charged[c] /\ ~Counts(c)
  <2>1. Held(a)' <= Held(a)
    BY <1>5, HeldShrinks
  <2>2. spent'[a] = spent[a] + price /\ excess'[a] = excess[a] + price
    BY <1>3, <1>7 DEF Overrun
  <2> QED
    BY <1>1, <1>4, <2>1, <2>2, HeldIsNat DEF SpendIsBounded
<1>8. CASE a \notin Charged[c]
  <2>1. Held(a)' <= Held(a)
    BY <1>5, HeldShrinks
  <2>2. spent'[a] = spent[a] /\ excess'[a] = excess[a]
    BY <1>3, <1>8
  <2> QED
    BY <1>1, <2>1, <2>2, HeldIsNat DEF SpendIsBounded
<1> QED
  BY <1>6, <1>7, <1>8

\* Midnight empties the ledger: nothing is spent and nothing held of the new day.
LEMMA MidnightBound ==
    ASSUME BudgetTypeOK, Midnight
    PROVE  SpendIsBounded'
<1> SUFFICES ASSUME NEW a \in Accounts PROVE (spent[a] + Held(a) <= Limit[a] + excess[a])'
  BY DEF SpendIsBounded
<1>1. Holders(a)' = {}
  BY DEF Holders, Counts, Midnight, BudgetTypeOK
<1>2. Held(a)' = 0
  BY <1>1, FS_EmptySet, BudgetAssumption DEF Held
<1> QED
  BY <1>2, BudgetAssumption DEF Midnight

LEMMA BoundStep == BudgetInductive /\ [NextBudget]_budgetVars => SpendIsBounded'
<1> SUFFICES ASSUME BudgetInductive, [NextBudget]_budgetVars PROVE SpendIsBounded'
  OBVIOUS
<1> USE DEF BudgetInductive
<1>1. ASSUME NEW c \in Calls, CallStep(c) PROVE SpendIsBounded'
  <2>1. CASE Admit(c)
    BY <2>1, AdmitBound
  <2>2. CASE Settle(c)
    BY <2>2, SettleBound
  <2>3. CASE Refuse(c) \/ AskProvider(c) \/ FallBack(c) \/ CallDies(c)
    <3>1. UNCHANGED <<spent, excess, hold>>
      BY <2>3 DEF Refuse, AskProvider, FallBack, CallDies
    <3> QED
      BY <3>1, BoundFrame DEF Counts
  <2>4. CASE Abort(c) \/ Refused(c)
    <3>1. UNCHANGED <<spent, excess>> /\ hold' = [hold EXCEPT ![c] = "none"]
      BY <2>4 DEF Abort, Refused, Release
    <3> QED
      BY <3>1, BoundFrame DEF Counts, BudgetTypeOK
  <2>5. CASE GiveUpCall(c) \/ EndUnknown(c)
    <3>1. /\ UNCHANGED <<spent, excess>>
          /\ hold' = [hold EXCEPT ![c] = IF hold[c] = "held" THEN "unknown" ELSE hold[c]]
      BY <2>5 DEF GiveUpCall, EndUnknown, Keep
    <3> QED
      BY <3>1, BoundFrame DEF Counts, BudgetTypeOK
  <2> QED
    BY <1>1, <2>1, <2>2, <2>3, <2>4, <2>5 DEF CallStep
<1>2. CASE Midnight
  BY <1>2, MidnightBound
<1>3. CASE UNCHANGED budgetVars
  BY <1>3, BoundFrame DEF budgetVars, Counts
<1> QED
  BY <1>1, <1>2, <1>3 DEF NextBudget

LEMMA BudgetStep == BudgetInductive /\ [NextBudget]_budgetVars => BudgetInductive'
BY BudgetTypes, CallsStep, BoundStep DEF BudgetInductive

\* For any calls, limits and prices: admission, settlement, fallback, refusal,
\* cancellation, crash and midnight keep the bound and the doubts counted.
THEOREM SpecBudgetInductive == SpecBudget => []BudgetInductive
<1>1. InitBudget => BudgetInductive
  BY BudgetInit
<1>2. BudgetInductive /\ [NextBudget]_budgetVars => BudgetInductive'
  BY BudgetStep
<1> QED
  BY <1>1, <1>2, PTL DEF SpecBudget
=============================================================================
