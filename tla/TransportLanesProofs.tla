------------------------ MODULE TransportLanesProofs ------------------------
(***************************************************************************)
(* What the receive side of the transport promises, for any set of         *)
(* producers, queues of any depth, any number of subscribers and of        *)
(* frames: the safety invariants of the Lanes run.                         *)
(***************************************************************************)
EXTENDS TransportLanes, TLAPS

USE ProducersAssumption, DepthAssumption, SubscribersAssumption, FramesAssumption

---------------------------------------------------------------------------
(* The inductive invariant *)

(* What TypeOK says, with what the steps need of the shape of each value.  *)
Flags == stopReq \in BOOLEAN /\ running \in BOOLEAN /\ failed \in BOOLEAN

Everybody == Users \cup Controllers

Data ==
  /\ stopper \in StopPoints
  /\ ppc \in [Producers -> ProducerPoints]
  /\ frames \in Seq([kind : Kinds, from : Producers])
  /\ queue \in [Lanes -> Seq(Nat \ {0})]
  /\ wpc \in [Lanes -> WorkerPoints]
  /\ wframe \in [Lanes -> Nat]
  /\ hits \in [Lanes -> SUBSET Everybody]
  /\ cur \in [Lanes -> Everybody \cup {None}]
  /\ dsub \in [Users -> Kinds \cup {"none", "gone"}]
  /\ csub \in [Controllers -> ControlStates]
  /\ since \in [Controllers -> Nat] /\ published \in [Controllers -> Nat]
  /\ inflight \in [Controllers -> Nat]
  /\ dropped \in [Lanes -> Nat] /\ offered \in [Lanes -> Nat] /\ handled \in [Lanes -> Nat]
  /\ log \in [Controllers -> Seq(Nat \ {0})]
  /\ late \in [Users -> Nat]

(* A queue is within its limit.                                            *)
WithinDepth == \A l \in Lanes : Len(queue[l]) <= Depth[l]

(* The frames of a sequence. *)
In(s) == { s[i] : i \in 1 .. Len(s) }

(* What is queued, in a worker's hand or logged has been received.         *)
Received ==
  /\ \A l \in Lanes : wframe[l] <= Len(frames) /\ \A n \in In(queue[l]) : n <= Len(frames)
  /\ \A u \in Controllers : \A n \in In(log[u]) : n <= Len(frames)

(* n is the latest frame of producer p. *)
Latest(p, n) ==
  /\ n \in 1 .. Len(frames) /\ frames[n].from = p
  /\ \A m \in n + 1 .. Len(frames) : frames[m].from # p

(* A producer that hands a frame over has one.                             *)
HasFrame ==
  \A p \in Producers :
    ppc[p] \in {"count", "control", "data"} => \E n \in 1 .. Len(frames) : Latest(p, n)

(* Where a worker is, what it holds and which claim it has.                *)
InStep ==
  /\ \A l \in Lanes : wframe[l] = 0 <=> wpc[l] \notin {"fan", "hits", "call"}
  /\ \A l \in Lanes : cur[l] = None <=> wpc[l] # "call"
  /\ \A l \in Lanes : wpc[l] \notin {"hits", "call"} => hits[l] = {}
  /\ \A l \in Lanes : hits[l] \subseteq Subscribers(l) /\ cur[l] \in Subscribers(l) \cup {None}

Claims == \A u \in Controllers : inflight[u] = IF cur["control"] = u THEN 1 ELSE 0

Lateness ==
  \A u \in Users : late[u] <= 1 /\ (late[u] = 1 => dsub[u] = "gone" /\ u \notin hits["data"])

(* How far stop() is says which threads are gone.                          *)
Joined ==
  /\ stopper \in {"wakeControl", "joinControl", "wakeData", "joinData", "clear", "drop",
                   "dropControl", "done"}
       => ppc["reader"] = "exited"
  /\ stopper \in {"wakeData", "joinData", "clear", "drop", "dropControl", "done"} => wpc["control"] = "exited"
  /\ stopper \in {"clear", "drop", "dropControl", "done"} => wpc["data"] = "exited"

(* stop() has dropped what was left in the lane. *)
Drained(l) == stopper = "done" \/ (l = "data" /\ stopper = "dropControl")
Emptied == \A l \in Lanes : Drained(l) => \A n \in In(queue[l]) : frames[n].from # "reader"

(* Which control subscriptions a worker may still hold.                    *)
Young(u) == csub[u] \in {"none", "joining"}
Held ==
  /\ \A u \in Controllers : csub[u] = "cleared" => stopper \in {"drop", "dropControl", "done"}
  /\ \A u \in Controllers : csub[u] = "gone" => cur["control"] # u
  /\ \A u \in hits["control"] : ~Young(u)

(* Nothing is logged before the subscription, nor after stop() for a new one. *)
Unlogged ==
  \A u \in Controllers :
    /\ Young(u) => log[u] = <<>>
    /\ csub[u] = "active" /\ stopper \in {"drop", "dropControl", "done"} => log[u] = <<>>

(* Nothing enters the control lane before the first subscription.          *)
Untouched ==
  (\A u \in Controllers : Young(u)) =>
     /\ queue["control"] = <<>> /\ wframe["control"] = 0
     /\ \A p \in Producers : ppc[p] # "control"

(* Frames of one producer.  f: the frames received. *)
Older(f, m, n) == f[m].from = f[n].from => m < n
Ascending(f, s) == \A i, j \in 1 .. Len(s) : i < j => Older(f, s[i], s[j])

(* The worker holds its frame for u. *)
InHand(u) ==
  \/ wpc["control"] = "fan" /\ csub[u] = "active"
  \/ u \in hits["control"]

(* The frames of a producer go through the control lane in order.          *)
Order ==
  /\ Ascending(frames, queue["control"])
  /\ wframe["control"] # 0 =>
       \A n \in In(queue["control"]) : Older(frames, wframe["control"], n)
  /\ \A u \in Controllers :
       /\ Ascending(frames, log[u])
       /\ \A m \in In(log[u]) : m > since[u]
       /\ InHand(u) => \A m \in In(log[u]) : Older(frames, m, wframe["control"])
       /\ \A m \in In(log[u]), n \in In(queue["control"]) : Older(frames, m, n)

(* A frame that has not been offered yet is nowhere in the lane.           *)
NotYet ==
  \A p \in Producers : ppc[p] \in {"count", "control"} =>
    \A n \in 1 .. Len(frames) : Latest(p, n) =>
      /\ n # wframe["control"] /\ n \notin In(queue["control"])
      /\ \A u \in Controllers : n \notin In(log[u])

(* n was given to u, or is on its way to it. *)
Meant(u, n) ==
  \/ n \in In(log[u])
  \/ InHand(u) /\ n = wframe["control"]
  \/ csub[u] = "active" /\ n \in In(queue["control"])

(* n is about to be offered. *)
Coming(n) == \E p \in Producers : ppc[p] \in {"count", "control"} /\ Latest(p, n)

(* n is lost to u, and nothing later follows. *)
Ended(u, n) ==
  /\ failed \/ csub[u] \notin {"none", "joining", "active"}
  /\ \A m \in 1 .. Len(frames) : Meant(u, m) => Older(frames, m, n)

Complete ==
  \A u \in Controllers :
    \A a, n \in 1 .. Len(frames) :
      /\ Meant(u, a) /\ a < n
      /\ frames[n].kind = "status" /\ frames[n].from = frames[a].from
      /\ n > published[u] \/ Controllers = {u}
      => Meant(u, n) \/ Coming(n) \/ Ended(u, n)

IInv ==
  /\ Flags /\ Data /\ WithinDepth /\ Received /\ HasFrame /\ InStep /\ Claims /\ Accounted
  /\ Lateness /\ Joined /\ Emptied /\ Held /\ Unlogged /\ Untouched /\ Order /\ NotYet
  /\ Complete

---------------------------------------------------------------------------
(* Sequences of frames *)

(* What is enqueued is last, and what is taken was first.                  *)
LEMMA InIs ==
  ASSUME NEW S, NEW s \in Seq(S)
  PROVE  /\ In(s) \subseteq S
         /\ In(<<>>) = {}
         /\ \A e \in S : In(Append(s, e)) = In(s) \cup {e}
         /\ s # <<>> => In(s) = {Head(s)} \cup In(Tail(s))
  <1>1. In(s) \subseteq S /\ In(<<>>) = {}
    BY DEF In
  <1>2. ASSUME NEW e \in S PROVE In(Append(s, e)) = In(s) \cup {e}
    <2>1. \A i \in 1 .. Len(Append(s, e)) :
            Append(s, e)[i] = IF i = Len(s) + 1 THEN e ELSE s[i]
      OBVIOUS
    <2>2. Len(Append(s, e)) = Len(s) + 1 /\ Len(s) \in Nat
      OBVIOUS
    <2> QED
      BY <2>1, <2>2 DEF In
  <1>3. ASSUME s # <<>> PROVE In(s) = {Head(s)} \cup In(Tail(s))
    <2>1. Len(s) \in Nat /\ Len(s) >= 1 /\ Len(Tail(s)) = Len(s) - 1 /\ Head(s) = s[1]
      BY <1>3
    <2>2. \A i \in 1 .. Len(Tail(s)) : Tail(s)[i] = s[i + 1]
      BY <1>3
    <2>3. \A i \in 1 .. Len(s) : i = 1 \/ i - 1 \in 1 .. Len(Tail(s))
      BY <2>1
    <2>4. \A i \in 1 .. Len(Tail(s)) : i + 1 \in 1 .. Len(s)
      BY <2>1
    <2>5. \A i \in 1 .. Len(Tail(s)) : i + 1 - 1 = i /\ \A j \in 1 .. Len(s) : j - 1 + 1 = j
      BY <2>1
    <2>6. In(s) \subseteq {Head(s)} \cup In(Tail(s))
      <3> SUFFICES ASSUME NEW i \in 1 .. Len(s), s[i] # Head(s) PROVE s[i] \in In(Tail(s))
        BY DEF In
      <3>1. i - 1 \in 1 .. Len(Tail(s)) /\ Tail(s)[i - 1] = s[i]
        BY <2>1, <2>2, <2>3
      <3> QED
        BY <3>1 DEF In
    <2>7. {Head(s)} \cup In(Tail(s)) \subseteq In(s)
      BY <2>1, <2>2, <2>4 DEF In
    <2> QED
      BY <2>6, <2>7
  <1> QED
    BY <1>1, <1>2, <1>3

(* Order survives an append of a frame newer than its producer's others,   *)
(* and a removal.                                                          *)
LEMMA AscendingIs ==
  ASSUME NEW f, NEW s \in Seq(Nat)
  PROVE  /\ Ascending(f, <<>>)
         /\ \A e \in Nat : Ascending(f, s) /\ (\A m \in In(s) : Older(f, m, e))
                             => Ascending(f, Append(s, e))
         /\ s # <<>> /\ Ascending(f, s) =>
              Ascending(f, Tail(s)) /\ \A m \in In(Tail(s)) : Older(f, Head(s), m)
  <1>1. Ascending(f, <<>>)
    BY DEF Ascending
  <1>2. ASSUME NEW e \in Nat, Ascending(f, s), \A m \in In(s) : Older(f, m, e)
        PROVE  Ascending(f, Append(s, e))
    <2> SUFFICES ASSUME NEW i \in 1 .. Len(Append(s, e)), NEW j \in 1 .. Len(Append(s, e)), i < j
                 PROVE  Older(f, Append(s, e)[i], Append(s, e)[j])
      BY DEF Ascending
    <2>1. i \in 1 .. Len(s) /\ Append(s, e)[i] = s[i] /\ s[i] \in In(s)
      BY DEF In
    <2>2. CASE j = Len(s) + 1
      BY <1>2, <2>1, <2>2
    <2>3. CASE j # Len(s) + 1
      <3>1. j \in 1 .. Len(s) /\ Append(s, e)[j] = s[j]
        BY <2>3
      <3> QED
        BY <1>2, <2>1, <3>1 DEF Ascending
    <2> QED
      BY <2>2, <2>3
  <1>3. ASSUME s # <<>>, Ascending(f, s)
        PROVE  Ascending(f, Tail(s)) /\ \A m \in In(Tail(s)) : Older(f, Head(s), m)
    <2>1. \A i \in 1 .. Len(Tail(s)) : i + 1 \in 1 .. Len(s) /\ Tail(s)[i] = s[i + 1]
      BY <1>3
    <2>2. Head(s) = s[1] /\ 1 \in 1 .. Len(s)
      BY <1>3
    <2>3. Ascending(f, Tail(s))
      BY <1>3, <2>1 DEF Ascending
    <2>4. \A i \in 1 .. Len(Tail(s)) : Older(f, s[1], s[i + 1])
      BY <1>3, <2>1, <2>2 DEF Ascending
    <2> QED
      BY <2>1, <2>2, <2>3, <2>4 DEF In
  <1> QED
    BY <1>1, <1>2, <1>3

(* The frame a producer hands over is its latest.                          *)
LEMMA HandingIs ==
  ASSUME Data, HasFrame, NEW p \in Producers, ppc[p] \in {"count", "control", "data"}
  PROVE  /\ Handing(p) \in 1 .. Len(frames) /\ Handing(p) \in Nat \ {0}
         /\ Latest(p, Handing(p))
         /\ \A n \in 1 .. Len(frames) : Latest(p, n) => n = Handing(p)
  <1>1. \E n \in 1 .. Len(frames) : Latest(p, n)
    BY DEF HasFrame
  <1>2. Handing(p) \in 1 .. Len(frames) /\ Latest(p, Handing(p))
    BY <1>1 DEF Handing, Latest
  <1>3. Len(frames) \in Nat
    BY DEF Data
  <1>4. ASSUME NEW n \in 1 .. Len(frames), Latest(p, n), n # Handing(p) PROVE FALSE
    BY <1>2, <1>3, <1>4 DEF Latest
  <1> QED
    BY <1>2, <1>3, <1>4

(* A received frame is appended; what was received stays.                  *)
LEMMA ReceivedIs ==
  ASSUME Data, NEW p \in Producers, Receive(p)
  PROVE  /\ Len(frames') = Len(frames) + 1 /\ Len(frames) \in Nat
         /\ frames'[Len(frames) + 1].from = p
         /\ frames' \in Seq([kind : Kinds, from : Producers])
         /\ \A n \in 1 .. Len(frames) : frames'[n] = frames[n] /\ n \in 1 .. Len(frames')
         /\ ppc'[p] \in {"count", "data"}
         /\ ppc'[p] = "count" <=> frames'[Len(frames) + 1].kind = "status"
         /\ \A q \in Producers \ {p} : ppc'[q] = ppc[q]
  <1>1. PICK k \in Streamed :
          /\ frames' = Append(frames, [kind |-> k, from |-> p])
          /\ ppc' = [ppc EXCEPT ![p] = IF k = "status" THEN "count" ELSE "data"]
    BY DEF Receive
  <1> DEFINE e == [kind |-> k, from |-> p]
  <1>2. e \in [kind : Kinds, from : Producers] /\ e.from = p /\ e.kind = k
    BY <1>1
  <1>3. frames \in Seq([kind : Kinds, from : Producers])
    BY DEF Data
  <1> HIDE DEF e
  <1>4. frames' = Append(frames, e)
    BY <1>1 DEF e
  <1>5. /\ frames' \in Seq([kind : Kinds, from : Producers])
        /\ Len(frames') = Len(frames) + 1 /\ Len(frames) \in Nat
        /\ frames'[Len(frames) + 1] = e
        /\ \A n \in 1 .. Len(frames) : frames'[n] = frames[n] /\ n \in 1 .. Len(frames')
    BY <1>2, <1>3, <1>4
  <1>6. /\ ppc'[p] = IF k = "status" THEN "count" ELSE "data"
        /\ \A q \in Producers \ {p} : ppc'[q] = ppc[q]
    BY <1>1 DEF Data
  <1> QED
    BY <1>2, <1>5, <1>6

---------------------------------------------------------------------------
(* Types *)

(* The steps, one by one. *)
Steps ==
  \/ ReaderTop \/ ReadDone \/ ReadFails
  \/ \E p \in Producers : Receive(p) \/ CountSubs(p) \/ EnqueueControl(p) \/ EnqueueData(p)
  \/ \E l \in Lanes : Check(l) \/ Park(l) \/ Snapshot(l) \/ FannedOut(l) \/ LeaveCallback(l)
                      \/ WakeWorker(l) \/ JoinWorker(l) \/ DropQueued(l)
  \/ EnterUser \/ EnterControl
  \/ \E u \in Users : Subscribe(u) \/ Unsubscribe(u)
  \/ \E u \in Controllers : SubscribeControl(u) \/ PublishControl(u) \/ EraseControl(u)
                            \/ DeactivateControl(u) \/ ControlIdle(u)
  \/ StopRequest \/ StopRunning \/ JoinReader \/ ClearSubs

(* Next, by its steps.                                                     *)
LEMMA NextIsSteps == Next <=> Steps
  <1> USE DEF ReaderStep, HandOver, WorkerStep, Unsubscribing, StopStep, Lanes
  <1>1. Next => Steps
    BY Zenon DEF Next, Steps
  <1>2. Steps => Next
    BY Zenon DEF Next, Steps
  <1> QED
    BY <1>1, <1>2

(* Every step keeps the flags Boolean.                                     *)
LEMMA FlagsStep == Flags /\ Next => Flags'
  <1> SUFFICES ASSUME Flags, Steps PROVE Flags'
    BY NextIsSteps
  <1> USE DEF Flags, threadVars, producerVars, laneVars, workerVars, subVars
  <1>1. CASE ReadFails
    BY <1>1, Zenon DEF ReadFails
  <1>2. CASE StopRequest
    BY <1>2, Zenon DEF StopRequest
  <1>3. CASE StopRunning
    BY <1>3, Zenon DEF StopRunning
  <1>4. ASSUME NEW p \in Producers, EnqueueControl(p) PROVE Flags'
    BY <1>4, Zenon DEF EnqueueControl
  <1>5. CASE ReaderTop \/ ReadDone
    BY <1>5, Zenon DEF ReaderTop, ReadDone
  <1>6. ASSUME NEW p \in Producers, Receive(p) \/ CountSubs(p) \/ EnqueueData(p) PROVE Flags'
    BY <1>6, Zenon DEF Receive, CountSubs, EnqueueData
  <1>7. ASSUME NEW l \in Lanes, Check(l) \/ Park(l) \/ Snapshot(l) \/ FannedOut(l) PROVE Flags'
    BY <1>7, Zenon DEF Check, Park, Snapshot, FannedOut
  <1>8. ASSUME NEW l \in Lanes, LeaveCallback(l) \/ WakeWorker(l) \/ JoinWorker(l) PROVE Flags'
    BY <1>8, Zenon DEF LeaveCallback, WakeWorker, JoinWorker
  <1>9. CASE EnterUser \/ EnterControl
    BY <1>9, Zenon DEF EnterUser, EnterControl
  <1>10. ASSUME NEW u \in Users, Subscribe(u) \/ Unsubscribe(u) PROVE Flags'
    BY <1>10, Zenon DEF Subscribe, Unsubscribe
  <1>11. ASSUME NEW u \in Controllers, SubscribeControl(u) \/ PublishControl(u) \/ EraseControl(u)
         PROVE  Flags'
    BY <1>11, Zenon DEF SubscribeControl, PublishControl, EraseControl
  <1>12. ASSUME NEW u \in Controllers, DeactivateControl(u) \/ ControlIdle(u) PROVE Flags'
    BY <1>12, Zenon DEF DeactivateControl, ControlIdle
  <1>13. CASE JoinReader \/ ClearSubs
    BY <1>13, Zenon DEF JoinReader, ClearSubs
  <1>14. ASSUME NEW l \in Lanes, DropQueued(l) PROVE Flags'
    BY <1>14, Zenon DEF DropQueued
  <1> QED
    BY <1>1, <1>2, <1>3, <1>4, <1>5, <1>6, <1>7, <1>8, <1>9, <1>10, <1>11, <1>12, <1>13, <1>14
    DEF Steps

(* What the subscribers are told apart by. *)
LEMMA MatchingIs ==
  ASSUME Data, NEW l \in Lanes
  PROVE  Matching(l) \subseteq Subscribers(l) /\ Subscribers(l) \subseteq Everybody
  BY DEF Matching, Subscribers, Everybody, Lanes

(* Every step keeps the types of the data.                                 *)
LEMMA DataStep == Flags /\ Data /\ HasFrame /\ Claims /\ InStep /\ Next => Data'
  <1> SUFFICES ASSUME Flags, Data, HasFrame, Claims, InStep, Steps PROVE Data'
    BY NextIsSteps
  <1> USE DEF threadVars, producerVars, laneVars, workerVars, subVars, Lanes
  <1>1. CASE ReaderTop \/ ReadDone \/ ReadFails
    BY <1>1 DEF ReaderTop, ReadDone, ReadFails, Data, ProducerPoints
  <1>2. ASSUME NEW p \in Producers, Receive(p) PROVE Data'
    <2>1. frames' \in Seq([kind : Kinds, from : Producers]) /\ ppc' \in [Producers -> ProducerPoints]
      BY <1>2, ReceivedIs DEF Receive, Data, ProducerPoints
    <2> QED
      BY <1>2, <2>1 DEF Receive, Data
  <1>3. ASSUME NEW p \in Producers, CountSubs(p) PROVE Data'
    BY <1>3 DEF CountSubs, Data, ProducerPoints
  <1>4. ASSUME NEW p \in Producers, EnqueueControl(p) PROVE Data'
    <2> USE DEF Data, ProducerPoints, WorkerPoints
    <2>1. Handing(p) \in Nat \ {0}
      BY <1>4, HandingIs DEF EnqueueControl
    <2>2. ppc' \in [Producers -> ProducerPoints] /\ offered' \in [Lanes -> Nat]
      BY <1>4 DEF EnqueueControl
    <2>3. dropped' \in [Lanes -> Nat]
      BY <1>4 DEF EnqueueControl
    <2>4. queue' \in [Lanes -> Seq(Nat \ {0})]
      <3>1. Append(queue["control"], Handing(p)) \in Seq(Nat \ {0}) /\ <<>> \in Seq(Nat \ {0})
        BY <2>1
      <3> QED
        BY <1>4, <3>1 DEF EnqueueControl
    <2>5. wpc' \in [Lanes -> WorkerPoints]
      BY <1>4 DEF EnqueueControl, Notified
    <2> QED
      BY <1>4, <2>2, <2>3, <2>4, <2>5 DEF EnqueueControl
  <1>5. ASSUME NEW p \in Producers, EnqueueData(p) PROVE Data'
    <2> USE DEF Data, ProducerPoints, WorkerPoints
    <2>1. Handing(p) \in Nat \ {0}
      BY <1>5, HandingIs DEF EnqueueData
    <2>2. ppc' \in [Producers -> ProducerPoints] /\ offered' \in [Lanes -> Nat]
          /\ dropped' \in [Lanes -> Nat]
      <3>1. ppc' = [ppc EXCEPT ![p] = "read"] /\ offered' = [offered EXCEPT !["data"] = @ + 1]
            /\ dropped' \in {dropped, [dropped EXCEPT !["data"] = @ + 1]}
        BY <1>5 DEF EnqueueData
      <3> QED
        BY <3>1
    <2> DEFINE full == Len(queue["data"]) >= Depth["data"]
               kept == IF full THEN Tail(queue["data"]) ELSE queue["data"]
    <2>3. kept \in Seq(Nat \ {0})
      BY DepthAssumption
    <2>4. queue' = [queue EXCEPT !["data"] = Append(kept, Handing(p))]
      BY <1>5 DEF EnqueueData
    <2>5. queue' \in [Lanes -> Seq(Nat \ {0})]
      <3> HIDE DEF kept
      <3>1. Append(kept, Handing(p)) \in Seq(Nat \ {0})
        BY <2>1, <2>3
      <3> QED
        BY <2>4, <3>1
    <2>6. wpc' \in [Lanes -> WorkerPoints]
      BY <1>5 DEF EnqueueData, Notified
    <2> QED
      BY <1>5, <2>2, <2>5, <2>6 DEF EnqueueData
  <1>6. ASSUME NEW l \in Lanes, Check(l) PROVE Data'
    <2> USE DEF Data, WorkerPoints
    <2>1. wpc' \in [Lanes -> WorkerPoints]
      BY <1>6 DEF Check
    <2>2. wframe' \in [Lanes -> Nat] /\ queue' \in [Lanes -> Seq(Nat \ {0})]
      <3>1. CASE ~stopReq /\ queue[l] # <<>>
        <4>1. Head(queue[l]) \in Nat /\ Tail(queue[l]) \in Seq(Nat \ {0})
          BY <3>1
        <4>2. wframe' = [wframe EXCEPT ![l] = Head(queue[l])]
              /\ queue' = [queue EXCEPT ![l] = Tail(queue[l])]
          BY <1>6, <3>1 DEF Check
        <4> QED
          BY <4>1, <4>2
      <3>2. CASE ~(~stopReq /\ queue[l] # <<>>)
        BY <1>6, <3>2 DEF Check
      <3> QED
        BY <3>1, <3>2
    <2> QED
      BY <1>6, <2>1, <2>2 DEF Check
  <1>7. ASSUME NEW l \in Lanes, Park(l) \/ Snapshot(l) \/ FannedOut(l) PROVE Data'
    <2> USE DEF Data, WorkerPoints
    <2>1. CASE Park(l)
      BY <2>1 DEF Park
    <2>2. CASE Snapshot(l)
      BY <2>2, MatchingIs DEF Snapshot
    <2>3. CASE FannedOut(l)
      <3>1. wframe' \in [Lanes -> Nat] /\ handled' \in [Lanes -> Nat]
        BY <2>3 DEF FannedOut
      <3> QED
        BY <2>3, <3>1 DEF FannedOut
    <2> QED
      BY <1>7, <2>1, <2>2, <2>3
  <1>8. ASSUME NEW l \in Lanes, LeaveCallback(l) PROVE Data'
    <2> USE DEF Data, WorkerPoints
    <2>1. inflight' \in [Controllers -> Nat]
      <3>1. CASE l = "control"
        <4>1. cur["control"] \in Controllers
          BY <1>8, <3>1 DEF LeaveCallback, InStep, Subscribers
        <4>2. inflight' = [inflight EXCEPT ![cur["control"]] = @ - 1]
              /\ inflight[cur["control"]] = 1
          BY <1>8, <3>1, <4>1 DEF LeaveCallback, Claims
        <4> QED
          BY <4>1, <4>2
      <3>2. CASE l # "control"
        BY <1>8, <3>2 DEF LeaveCallback
      <3> QED
        BY <3>1, <3>2
    <2> QED
      BY <1>8, <2>1 DEF LeaveCallback
  <1>9. ASSUME NEW l \in Lanes, WakeWorker(l) \/ JoinWorker(l) PROVE Data'
    BY <1>9 DEF WakeWorker, JoinWorker, Notified, Data, WorkerPoints, StopPoints
  <1>10. CASE EnterUser
    <2>1. PICK u \in hits["data"] :
             /\ hits' = [hits EXCEPT !["data"] = @ \ {u}]
             /\ cur' = [cur EXCEPT !["data"] = u]
             /\ late' = [late EXCEPT ![u] = IF dsub[u] = "gone" THEN @ + 1 ELSE @]
      BY <1>10 DEF EnterUser
    <2>2. u \in Users /\ u \in Everybody
      BY <2>1 DEF InStep, Subscribers, Everybody
    <2>3. late' \in [Users -> Nat] /\ cur' \in [Lanes -> Everybody \cup {None}]
      BY <2>1, <2>2 DEF Data
    <2>4. hits' \in [Lanes -> SUBSET Everybody]
      BY <2>1 DEF Data
    <2> QED
      BY <1>10, <2>3, <2>4 DEF EnterUser, Data, WorkerPoints
  <1>11. CASE EnterControl
    <2>1. PICK u \in hits["control"] :
             /\ hits' = [hits EXCEPT !["control"] = @ \ {u}]
             /\ IF ActiveFlag(u) /\ wframe["control"] > since[u]
                THEN /\ inflight' = [inflight EXCEPT ![u] = @ + 1]
                     /\ cur' = [cur EXCEPT !["control"] = u]
                     /\ log' = [log EXCEPT ![u] = Append(@, wframe["control"])]
                     /\ wpc' = [wpc EXCEPT !["control"] = "call"]
                ELSE UNCHANGED <<inflight, cur, log, wpc>>
      BY <1>11 DEF EnterControl
    <2>2. u \in Controllers /\ u \in Everybody /\ wframe["control"] \in Nat \ {0}
      BY <1>11, <2>1 DEF InStep, Subscribers, Everybody, EnterControl, Data
    <2>3. hits' \in [Lanes -> SUBSET Everybody]
      BY <2>1 DEF Data
    <2>4. CASE ActiveFlag(u) /\ wframe["control"] > since[u]
      <3>1. log' \in [Controllers -> Seq(Nat \ {0})]
        <4>1. log' = [log EXCEPT ![u] = Append(log[u], wframe["control"])]
          BY <2>1, <2>4
        <4>2. log \in [Controllers -> Seq(Nat \ {0})]
          BY DEF Data
        <4>3. Append(log[u], wframe["control"]) \in Seq(Nat \ {0})
          BY <2>2, <4>2
        <4> QED
          BY <4>1, <4>2, <4>3
      <3>2. inflight' = [inflight EXCEPT ![u] = @ + 1] /\ cur' = [cur EXCEPT !["control"] = u]
            /\ wpc' = [wpc EXCEPT !["control"] = "call"]
        BY <2>1, <2>4
      <3>3. inflight' \in [Controllers -> Nat] /\ cur' \in [Lanes -> Everybody \cup {None}]
            /\ wpc' \in [Lanes -> WorkerPoints]
        <4>1. inflight \in [Controllers -> Nat] /\ cur \in [Lanes -> Everybody \cup {None}]
              /\ wpc \in [Lanes -> WorkerPoints]
          BY DEF Data
        <4>2. inflight' \in [Controllers -> Nat]
          BY <2>2, <3>2, <4>1
        <4>3. cur' \in [Lanes -> Everybody \cup {None}]
          BY <2>2, <3>2, <4>1
        <4>4. wpc' \in [Lanes -> WorkerPoints]
          BY <3>2, <4>1 DEF WorkerPoints
        <4> QED
          BY <4>2, <4>3, <4>4
      <3> QED
        BY <1>11, <2>3, <3>1, <3>3 DEF EnterControl, Data
    <2>5. CASE ~(ActiveFlag(u) /\ wframe["control"] > since[u])
      BY <1>11, <2>1, <2>3, <2>5 DEF EnterControl, Data
    <2> QED
      BY <2>4, <2>5
  <1>12. ASSUME NEW u \in Users, Subscribe(u) \/ Unsubscribe(u) PROVE Data'
    BY <1>12 DEF Subscribe, Unsubscribe, Data
  <1>13. ASSUME NEW u \in Controllers, SubscribeControl(u) \/ PublishControl(u) PROVE Data'
    <2>1. Len(frames) \in Nat
      BY DEF Data
    <2>2. /\ csub' \in [Controllers -> ControlStates]
          /\ since' \in [Controllers -> Nat] /\ published' \in [Controllers -> Nat]
      <3> DEFINE now == Len(frames)
      <3>1. CASE SubscribeControl(u)
        <4>1. csub' = [csub EXCEPT ![u] = "joining"] /\ since' = [since EXCEPT ![u] = now]
              /\ published' = published
          BY <3>1 DEF SubscribeControl
        <4> HIDE DEF now
        <4> QED
          BY <2>1, <4>1 DEF Data, ControlStates, now
      <3>2. CASE PublishControl(u)
        <4>1. csub' = [csub EXCEPT ![u] = "active"] /\ published' = [published EXCEPT ![u] = now]
              /\ since' = since
          BY <3>2 DEF PublishControl
        <4> HIDE DEF now
        <4> QED
          BY <2>1, <4>1 DEF Data, ControlStates, now
      <3> QED
        BY <1>13, <3>1, <3>2
    <2> QED
      BY <1>13, <2>2 DEF SubscribeControl, PublishControl, Data
  <1>14. ASSUME NEW u \in Controllers,
                EraseControl(u) \/ DeactivateControl(u) \/ ControlIdle(u)
         PROVE  Data'
    BY <1>14 DEF EraseControl, DeactivateControl, ControlIdle, Data, ControlStates
  <1>15. CASE StopRequest \/ StopRunning \/ JoinReader
    BY <1>15 DEF StopRequest, StopRunning, JoinReader, Data, StopPoints
  <1>16. CASE ClearSubs
    BY <1>16 DEF ClearSubs, Data, StopPoints, ControlStates
  <1>17. ASSUME NEW l \in Lanes, DropQueued(l) PROVE Data'
    <2>1. queue' = [queue EXCEPT ![l] = <<>>] /\ <<>> \in Seq(Nat \ {0})
      BY <1>17 DEF DropQueued
    <2>2. dropped[l] + Len(queue[l]) \in Nat
      BY DEF Data
    <2>3. dropped' = [dropped EXCEPT ![l] = dropped[l] + Len(queue[l])]
      BY <1>17 DEF DropQueued
    <2>4. queue' \in [Lanes -> Seq(Nat \ {0})] /\ dropped' \in [Lanes -> Nat]
      BY <2>1, <2>2, <2>3 DEF Data
    <2> QED
      BY <1>17, <2>4 DEF DropQueued, Data, StopPoints
  <1> QED
    BY <1>1, <1>2, <1>3, <1>4, <1>5, <1>6, <1>7, <1>8, <1>9, <1>10, <1>11, <1>12, <1>13, <1>14,
       <1>15, <1>16, <1>17 DEF Steps

---------------------------------------------------------------------------
(* Who writes what *)

StopperWriters ==
  \/ StopRequest \/ StopRunning \/ JoinReader \/ ClearSubs
  \/ \E l \in Lanes : WakeWorker(l) \/ JoinWorker(l) \/ DropQueued(l)

PpcWriters ==
  \/ ReaderTop \/ ReadDone \/ ReadFails
  \/ \E p \in Producers : Receive(p) \/ CountSubs(p) \/ EnqueueControl(p) \/ EnqueueData(p)

FramesWriters ==
  \/ \E p \in Producers : Receive(p)

QueueWriters ==
  \/ \E p \in Producers : EnqueueControl(p) \/ EnqueueData(p)
  \/ \E l \in Lanes : Check(l) \/ DropQueued(l)

FailedWriters ==
  \/ \E p \in Producers : EnqueueControl(p)

WpcWriters ==
  \/ EnterUser \/ EnterControl
  \/ \E p \in Producers : EnqueueControl(p) \/ EnqueueData(p)
  \/ \E l \in Lanes : Check(l) \/ Park(l) \/ Snapshot(l) \/ FannedOut(l)
        \/ LeaveCallback(l) \/ WakeWorker(l)

WframeWriters ==
  \/ \E l \in Lanes : Check(l) \/ FannedOut(l)

HitsWriters ==
  \/ EnterUser \/ EnterControl
  \/ \E l \in Lanes : Snapshot(l)

CurWriters ==
  \/ EnterUser \/ EnterControl
  \/ \E l \in Lanes : LeaveCallback(l)

DsubWriters ==
  \/ ClearSubs
  \/ \E u \in Users : Subscribe(u) \/ Unsubscribe(u)

CsubWriters ==
  \/ ClearSubs
  \/ \E u \in Controllers : SubscribeControl(u) \/ PublishControl(u) \/ EraseControl(u)
        \/ DeactivateControl(u) \/ ControlIdle(u)

SinceWriters ==
  \/ \E u \in Controllers : SubscribeControl(u)

PublishedWriters ==
  \/ \E u \in Controllers : PublishControl(u)

InflightWriters ==
  \/ EnterControl
  \/ \E l \in Lanes : LeaveCallback(l)

DroppedOfferedWriters ==
  \/ \E p \in Producers : EnqueueControl(p) \/ EnqueueData(p)
  \/ \E l \in Lanes : DropQueued(l)

HandledWriters ==
  \/ \E l \in Lanes : FannedOut(l)

LogWriters ==
  \/ EnterControl

LateWriters ==
  \/ EnterUser

StopReqWriters ==
  \/ StopRequest

(* A variable is as it was, or one of its writers has run.                 *)
LEMMA Writers ==
  ASSUME Steps
  PROVE  /\ UNCHANGED stopper \/ StopperWriters
         /\ UNCHANGED ppc \/ PpcWriters
         /\ UNCHANGED frames \/ FramesWriters
         /\ UNCHANGED queue \/ QueueWriters
         /\ UNCHANGED failed \/ FailedWriters
         /\ UNCHANGED wpc \/ WpcWriters
         /\ UNCHANGED wframe \/ WframeWriters
         /\ UNCHANGED hits \/ HitsWriters
         /\ UNCHANGED cur \/ CurWriters
         /\ UNCHANGED dsub \/ DsubWriters
         /\ UNCHANGED csub \/ CsubWriters
         /\ UNCHANGED since \/ SinceWriters
         /\ UNCHANGED published \/ PublishedWriters
         /\ UNCHANGED inflight \/ InflightWriters
         /\ UNCHANGED <<dropped, offered>> \/ DroppedOfferedWriters
         /\ UNCHANGED handled \/ HandledWriters
         /\ UNCHANGED log \/ LogWriters
         /\ UNCHANGED late \/ LateWriters
         /\ UNCHANGED stopReq \/ StopReqWriters
  <1> USE DEF threadVars, producerVars, laneVars, workerVars, subVars
  <1>1. ASSUME ReaderTop
        PROVE  UNCHANGED <<stopReq, running, stopper, frames, queue, failed, wpc, wframe,
              hits, cur, dsub, csub, since, published, inflight, dropped, offered, handled,
                    log, late>> /\ PpcWriters
    <2>1. UNCHANGED <<stopReq, running, stopper, frames, queue, failed, wpc, wframe, hits,
          cur, dsub, csub, since, published, inflight, dropped, offered, handled, log, late>>
      BY <1>1, Zenon DEF ReaderTop
    <2>2. PpcWriters
      BY <1>1, Zenon DEF PpcWriters
    <2> QED
      BY <2>1, <2>2
  <1>2. ASSUME ReadDone
        PROVE  UNCHANGED <<stopReq, running, stopper, frames, queue, failed, wpc, wframe,
              hits, cur, dsub, csub, since, published, inflight, dropped, offered, handled,
                    log, late>> /\ PpcWriters
    <2>1. UNCHANGED <<stopReq, running, stopper, frames, queue, failed, wpc, wframe, hits,
          cur, dsub, csub, since, published, inflight, dropped, offered, handled, log, late>>
      BY <1>2, Zenon DEF ReadDone
    <2>2. PpcWriters
      BY <1>2, Zenon DEF PpcWriters
    <2> QED
      BY <2>1, <2>2
  <1>3. ASSUME ReadFails
        PROVE  UNCHANGED <<stopReq, stopper, frames, queue, failed, wpc, wframe, hits, cur,
              dsub, csub, since, published, inflight, dropped, offered, handled, log,
                    late>> /\ PpcWriters
    <2>1. UNCHANGED <<stopReq, stopper, frames, queue, failed, wpc, wframe, hits, cur, dsub,
          csub, since, published, inflight, dropped, offered, handled, log, late>>
      BY <1>3, Zenon DEF ReadFails
    <2>2. PpcWriters
      BY <1>3, Zenon DEF PpcWriters
    <2> QED
      BY <2>1, <2>2
  <1>4. ASSUME NEW p \in Producers, Receive(p)
        PROVE  UNCHANGED <<stopReq, running, stopper, queue, failed, wpc, wframe, hits, cur,
              dsub, csub, since, published, inflight, dropped, offered, handled, log,
                    late>> /\ PpcWriters /\ FramesWriters
    <2>1. UNCHANGED <<stopReq, running, stopper, queue, failed, wpc, wframe, hits, cur, dsub,
          csub, since, published, inflight, dropped, offered, handled, log, late>>
      BY <1>4, Zenon DEF Receive
    <2>2. PpcWriters /\ FramesWriters
      BY <1>4, Zenon DEF PpcWriters, FramesWriters
    <2> QED
      BY <2>1, <2>2
  <1>5. ASSUME NEW p \in Producers, CountSubs(p)
        PROVE  UNCHANGED <<stopReq, running, stopper, frames, queue, failed, wpc, wframe,
              hits, cur, dsub, csub, since, published, inflight, dropped, offered, handled,
                    log, late>> /\ PpcWriters
    <2>1. UNCHANGED <<stopReq, running, stopper, frames, queue, failed, wpc, wframe, hits,
          cur, dsub, csub, since, published, inflight, dropped, offered, handled, log, late>>
      BY <1>5, Zenon DEF CountSubs
    <2>2. PpcWriters
      BY <1>5, Zenon DEF PpcWriters
    <2> QED
      BY <2>1, <2>2
  <1>6. ASSUME NEW p \in Producers, EnqueueControl(p)
        PROVE  UNCHANGED <<stopReq, running, stopper, frames, wframe, hits, cur, dsub, csub,
              since, published, inflight, handled, log, late>> /\ PpcWriters
                    /\ QueueWriters /\ FailedWriters /\ WpcWriters /\ DroppedOfferedWriters
    <2>1. UNCHANGED <<stopReq, running, stopper, frames, wframe, hits, cur, dsub, csub, since,
          published, inflight, handled, log, late>>
      BY <1>6, Zenon DEF EnqueueControl
    <2>2. PpcWriters /\ QueueWriters /\ FailedWriters /\ WpcWriters /\ DroppedOfferedWriters
      BY <1>6, Zenon DEF PpcWriters, QueueWriters, FailedWriters, WpcWriters,
            DroppedOfferedWriters
    <2> QED
      BY <2>1, <2>2
  <1>7. ASSUME NEW p \in Producers, EnqueueData(p)
        PROVE  UNCHANGED <<stopReq, running, stopper, frames, failed, wframe, hits, cur, dsub,
              csub, since, published, inflight, handled, log, late>> /\ PpcWriters
                    /\ QueueWriters /\ WpcWriters /\ DroppedOfferedWriters
    <2>1. UNCHANGED <<stopReq, running, stopper, frames, failed, wframe, hits, cur, dsub,
          csub, since, published, inflight, handled, log, late>>
      BY <1>7, Zenon DEF EnqueueData
    <2>2. PpcWriters /\ QueueWriters /\ WpcWriters /\ DroppedOfferedWriters
      BY <1>7, Zenon DEF PpcWriters, QueueWriters, WpcWriters, DroppedOfferedWriters
    <2> QED
      BY <2>1, <2>2
  <1>8. ASSUME NEW l \in Lanes, Check(l)
        PROVE  UNCHANGED <<stopReq, running, stopper, ppc, frames, failed, hits, cur, dsub,
              csub, since, published, inflight, dropped, offered, handled, log, late>>
                    /\ QueueWriters /\ WpcWriters /\ WframeWriters
    <2>1. UNCHANGED <<stopReq, running, stopper, ppc, frames, failed, hits, cur, dsub, csub,
          since, published, inflight, dropped, offered, handled, log, late>>
      BY <1>8, Zenon DEF Check
    <2>2. QueueWriters /\ WpcWriters /\ WframeWriters
      BY <1>8, Zenon DEF QueueWriters, WpcWriters, WframeWriters
    <2> QED
      BY <2>1, <2>2
  <1>9. ASSUME NEW l \in Lanes, Park(l)
        PROVE  UNCHANGED <<stopReq, running, stopper, ppc, frames, queue, failed, wframe,
              hits, cur, dsub, csub, since, published, inflight, dropped, offered, handled,
                    log, late>> /\ WpcWriters
    <2>1. UNCHANGED <<stopReq, running, stopper, ppc, frames, queue, failed, wframe, hits,
          cur, dsub, csub, since, published, inflight, dropped, offered, handled, log, late>>
      BY <1>9, Zenon DEF Park
    <2>2. WpcWriters
      BY <1>9, Zenon DEF WpcWriters
    <2> QED
      BY <2>1, <2>2
  <1>10. ASSUME NEW l \in Lanes, Snapshot(l)
        PROVE  UNCHANGED <<stopReq, running, stopper, ppc, frames, queue, failed, wframe, cur,
              dsub, csub, since, published, inflight, dropped, offered, handled, log,
                    late>> /\ WpcWriters /\ HitsWriters
    <2>1. UNCHANGED <<stopReq, running, stopper, ppc, frames, queue, failed, wframe, cur,
          dsub, csub, since, published, inflight, dropped, offered, handled, log, late>>
      BY <1>10, Zenon DEF Snapshot
    <2>2. WpcWriters /\ HitsWriters
      BY <1>10, Zenon DEF WpcWriters, HitsWriters
    <2> QED
      BY <2>1, <2>2
  <1>11. ASSUME NEW l \in Lanes, FannedOut(l)
        PROVE  UNCHANGED <<stopReq, running, stopper, ppc, frames, queue, failed, hits, cur,
              dsub, csub, since, published, inflight, dropped, offered, log, late>>
                    /\ WpcWriters /\ WframeWriters /\ HandledWriters
    <2>1. UNCHANGED <<stopReq, running, stopper, ppc, frames, queue, failed, hits, cur, dsub,
          csub, since, published, inflight, dropped, offered, log, late>>
      BY <1>11, Zenon DEF FannedOut
    <2>2. WpcWriters /\ WframeWriters /\ HandledWriters
      BY <1>11, Zenon DEF WpcWriters, WframeWriters, HandledWriters
    <2> QED
      BY <2>1, <2>2
  <1>12. ASSUME NEW l \in Lanes, LeaveCallback(l)
        PROVE  UNCHANGED <<stopReq, running, stopper, ppc, frames, queue, failed, wframe,
              hits, dsub, csub, since, published, dropped, offered, handled, log, late>>
                    /\ WpcWriters /\ CurWriters /\ InflightWriters
    <2>1. UNCHANGED <<stopReq, running, stopper, ppc, frames, queue, failed, wframe, hits,
          dsub, csub, since, published, dropped, offered, handled, log, late>>
      BY <1>12, Zenon DEF LeaveCallback
    <2>2. WpcWriters /\ CurWriters /\ InflightWriters
      BY <1>12, Zenon DEF WpcWriters, CurWriters, InflightWriters
    <2> QED
      BY <2>1, <2>2
  <1>13. ASSUME NEW l \in Lanes, WakeWorker(l)
        PROVE  UNCHANGED <<stopReq, running, ppc, frames, queue, failed, wframe, hits, cur,
              dsub, csub, since, published, inflight, dropped, offered, handled, log,
                    late>> /\ StopperWriters /\ WpcWriters
    <2>1. UNCHANGED <<stopReq, running, ppc, frames, queue, failed, wframe, hits, cur, dsub,
          csub, since, published, inflight, dropped, offered, handled, log, late>>
      BY <1>13, Zenon DEF WakeWorker
    <2>2. StopperWriters /\ WpcWriters
      BY <1>13, Zenon DEF StopperWriters, WpcWriters
    <2> QED
      BY <2>1, <2>2
  <1>14. ASSUME NEW l \in Lanes, JoinWorker(l)
        PROVE  UNCHANGED <<stopReq, running, ppc, frames, queue, failed, wpc, wframe, hits,
              cur, dsub, csub, since, published, inflight, dropped, offered, handled, log,
                    late>> /\ StopperWriters
    <2>1. UNCHANGED <<stopReq, running, ppc, frames, queue, failed, wpc, wframe, hits, cur,
          dsub, csub, since, published, inflight, dropped, offered, handled, log, late>>
      BY <1>14, Zenon DEF JoinWorker
    <2>2. StopperWriters
      BY <1>14, Zenon DEF StopperWriters
    <2> QED
      BY <2>1, <2>2
  <1>15. ASSUME EnterUser
        PROVE  UNCHANGED <<stopReq, running, stopper, ppc, frames, queue, failed, wframe,
              dsub, csub, since, published, inflight, dropped, offered, handled, log>>
                    /\ WpcWriters /\ HitsWriters /\ CurWriters /\ LateWriters
    <2>1. UNCHANGED <<stopReq, running, stopper, ppc, frames, queue, failed, wframe, dsub,
          csub, since, published, inflight, dropped, offered, handled, log>>
      BY <1>15, Zenon DEF EnterUser
    <2>2. WpcWriters /\ HitsWriters /\ CurWriters /\ LateWriters
      BY <1>15, Zenon DEF WpcWriters, HitsWriters, CurWriters, LateWriters
    <2> QED
      BY <2>1, <2>2
  <1>16. ASSUME EnterControl
        PROVE  UNCHANGED <<stopReq, running, stopper, ppc, frames, queue, failed, wframe,
              dsub, csub, since, published, dropped, offered, handled, late>> /\ WpcWriters
                    /\ HitsWriters /\ CurWriters /\ InflightWriters /\ LogWriters
    <2>1. UNCHANGED <<stopReq, running, stopper, ppc, frames, queue, failed, wframe, dsub,
          csub, since, published, dropped, offered, handled, late>>
      BY <1>16, Zenon DEF EnterControl
    <2>2. WpcWriters /\ HitsWriters /\ CurWriters /\ InflightWriters /\ LogWriters
      BY <1>16, Zenon DEF WpcWriters, HitsWriters, CurWriters, InflightWriters, LogWriters
    <2> QED
      BY <2>1, <2>2
  <1>17. ASSUME NEW u \in Users, Subscribe(u)
        PROVE  UNCHANGED <<stopReq, running, stopper, ppc, frames, queue, failed, wpc, wframe,
              hits, cur, csub, since, published, inflight, dropped, offered, handled, log,
                    late>> /\ DsubWriters
    <2>1. UNCHANGED <<stopReq, running, stopper, ppc, frames, queue, failed, wpc, wframe,
          hits, cur, csub, since, published, inflight, dropped, offered, handled, log, late>>
      BY <1>17, Zenon DEF Subscribe
    <2>2. DsubWriters
      BY <1>17, Zenon DEF DsubWriters
    <2> QED
      BY <2>1, <2>2
  <1>18. ASSUME NEW u \in Users, Unsubscribe(u)
        PROVE  UNCHANGED <<stopReq, running, stopper, ppc, frames, queue, failed, wpc, wframe,
              hits, cur, csub, since, published, inflight, dropped, offered, handled, log,
                    late>> /\ DsubWriters
    <2>1. UNCHANGED <<stopReq, running, stopper, ppc, frames, queue, failed, wpc, wframe,
          hits, cur, csub, since, published, inflight, dropped, offered, handled, log, late>>
      BY <1>18, Zenon DEF Unsubscribe
    <2>2. DsubWriters
      BY <1>18, Zenon DEF DsubWriters
    <2> QED
      BY <2>1, <2>2
  <1>19. ASSUME NEW u \in Controllers, SubscribeControl(u)
        PROVE  UNCHANGED <<stopReq, running, stopper, ppc, frames, queue, failed, wpc, wframe,
              hits, cur, dsub, published, inflight, dropped, offered, handled, log, late>>
                    /\ CsubWriters /\ SinceWriters
    <2>1. UNCHANGED <<stopReq, running, stopper, ppc, frames, queue, failed, wpc, wframe,
          hits, cur, dsub, published, inflight, dropped, offered, handled, log, late>>
      BY <1>19, Zenon DEF SubscribeControl
    <2>2. CsubWriters /\ SinceWriters
      BY <1>19, Zenon DEF CsubWriters, SinceWriters
    <2> QED
      BY <2>1, <2>2
  <1>20. ASSUME NEW u \in Controllers, PublishControl(u)
        PROVE  UNCHANGED <<stopReq, running, stopper, ppc, frames, queue, failed, wpc, wframe,
              hits, cur, dsub, since, inflight, dropped, offered, handled, log, late>>
                    /\ CsubWriters /\ PublishedWriters
    <2>1. UNCHANGED <<stopReq, running, stopper, ppc, frames, queue, failed, wpc, wframe,
          hits, cur, dsub, since, inflight, dropped, offered, handled, log, late>>
      BY <1>20, Zenon DEF PublishControl
    <2>2. CsubWriters /\ PublishedWriters
      BY <1>20, Zenon DEF CsubWriters, PublishedWriters
    <2> QED
      BY <2>1, <2>2
  <1>21. ASSUME NEW u \in Controllers, EraseControl(u)
        PROVE  UNCHANGED <<stopReq, running, stopper, ppc, frames, queue, failed, wpc, wframe,
              hits, cur, dsub, since, published, inflight, dropped, offered, handled, log,
                    late>> /\ CsubWriters
    <2>1. UNCHANGED <<stopReq, running, stopper, ppc, frames, queue, failed, wpc, wframe,
          hits, cur, dsub, since, published, inflight, dropped, offered, handled, log, late>>
      BY <1>21, Zenon DEF EraseControl
    <2>2. CsubWriters
      BY <1>21, Zenon DEF CsubWriters
    <2> QED
      BY <2>1, <2>2
  <1>22. ASSUME NEW u \in Controllers, DeactivateControl(u)
        PROVE  UNCHANGED <<stopReq, running, stopper, ppc, frames, queue, failed, wpc, wframe,
              hits, cur, dsub, since, published, inflight, dropped, offered, handled, log,
                    late>> /\ CsubWriters
    <2>1. UNCHANGED <<stopReq, running, stopper, ppc, frames, queue, failed, wpc, wframe,
          hits, cur, dsub, since, published, inflight, dropped, offered, handled, log, late>>
      BY <1>22, Zenon DEF DeactivateControl
    <2>2. CsubWriters
      BY <1>22, Zenon DEF CsubWriters
    <2> QED
      BY <2>1, <2>2
  <1>23. ASSUME NEW u \in Controllers, ControlIdle(u)
        PROVE  UNCHANGED <<stopReq, running, stopper, ppc, frames, queue, failed, wpc, wframe,
              hits, cur, dsub, since, published, inflight, dropped, offered, handled, log,
                    late>> /\ CsubWriters
    <2>1. UNCHANGED <<stopReq, running, stopper, ppc, frames, queue, failed, wpc, wframe,
          hits, cur, dsub, since, published, inflight, dropped, offered, handled, log, late>>
      BY <1>23, Zenon DEF ControlIdle
    <2>2. CsubWriters
      BY <1>23, Zenon DEF CsubWriters
    <2> QED
      BY <2>1, <2>2
  <1>24. ASSUME StopRequest
        PROVE  UNCHANGED <<running, ppc, frames, queue, failed, wpc, wframe, hits, cur, dsub,
              csub, since, published, inflight, dropped, offered, handled, log, late>>
                    /\ StopperWriters /\ StopReqWriters
    <2>1. UNCHANGED <<running, ppc, frames, queue, failed, wpc, wframe, hits, cur, dsub, csub,
          since, published, inflight, dropped, offered, handled, log, late>>
      BY <1>24, Zenon DEF StopRequest
    <2>2. StopperWriters /\ StopReqWriters
      BY <1>24, Zenon DEF StopperWriters, StopReqWriters
    <2> QED
      BY <2>1, <2>2
  <1>25. ASSUME StopRunning
        PROVE  UNCHANGED <<stopReq, ppc, frames, queue, failed, wpc, wframe, hits, cur, dsub,
              csub, since, published, inflight, dropped, offered, handled, log, late>>
                    /\ StopperWriters
    <2>1. UNCHANGED <<stopReq, ppc, frames, queue, failed, wpc, wframe, hits, cur, dsub, csub,
          since, published, inflight, dropped, offered, handled, log, late>>
      BY <1>25, Zenon DEF StopRunning
    <2>2. StopperWriters
      BY <1>25, Zenon DEF StopperWriters
    <2> QED
      BY <2>1, <2>2
  <1>26. ASSUME JoinReader
        PROVE  UNCHANGED <<stopReq, running, ppc, frames, queue, failed, wpc, wframe, hits,
              cur, dsub, csub, since, published, inflight, dropped, offered, handled, log,
                    late>> /\ StopperWriters
    <2>1. UNCHANGED <<stopReq, running, ppc, frames, queue, failed, wpc, wframe, hits, cur,
          dsub, csub, since, published, inflight, dropped, offered, handled, log, late>>
      BY <1>26, Zenon DEF JoinReader
    <2>2. StopperWriters
      BY <1>26, Zenon DEF StopperWriters
    <2> QED
      BY <2>1, <2>2
  <1>27. ASSUME ClearSubs
        PROVE  UNCHANGED <<stopReq, running, ppc, frames, queue, failed, wpc, wframe, hits,
              cur, since, published, inflight, dropped, offered, handled, log, late>>
                    /\ StopperWriters /\ DsubWriters /\ CsubWriters
    <2>1. UNCHANGED <<stopReq, running, ppc, frames, queue, failed, wpc, wframe, hits, cur,
          since, published, inflight, dropped, offered, handled, log, late>>
      BY <1>27, Zenon DEF ClearSubs
    <2>2. StopperWriters /\ DsubWriters /\ CsubWriters
      BY <1>27, Zenon DEF StopperWriters, DsubWriters, CsubWriters
    <2> QED
      BY <2>1, <2>2
  <1>28. ASSUME NEW l \in Lanes, DropQueued(l)
        PROVE  UNCHANGED <<stopReq, running, ppc, frames, failed, wpc, wframe, hits, cur,
              dsub, csub, since, published, inflight, offered, handled, log, late>>
                    /\ StopperWriters /\ QueueWriters /\ DroppedOfferedWriters
    <2>1. UNCHANGED <<stopReq, running, ppc, frames, failed, wpc, wframe, hits, cur, dsub,
          csub, since, published, inflight, offered, handled, log, late>>
      BY <1>28, Zenon DEF DropQueued
    <2>2. StopperWriters /\ QueueWriters /\ DroppedOfferedWriters
      BY <1>28, Zenon DEF StopperWriters, QueueWriters, DroppedOfferedWriters
    <2> QED
      BY <2>1, <2>2
  <1> QED
    BY <1>1, <1>2, <1>3, <1>4, <1>5, <1>6, <1>7, <1>8, <1>9, <1>10, <1>11, <1>12, <1>13,
          <1>14, <1>15, <1>16, <1>17, <1>18, <1>19, <1>20, <1>21, <1>22, <1>23, <1>24, <1>25,
                <1>26, <1>27, <1>28, Zenon DEF Steps

---------------------------------------------------------------------------
(* Depths, received frames, the producers' frames *)

Types == Flags /\ Data /\ Data'

(* No step puts more into a queue than its depth.                          *)
LEMMA WithinDepthStep == Types /\ WithinDepth /\ Steps => WithinDepth'
  <1> SUFFICES ASSUME Types, WithinDepth, Steps PROVE WithinDepth'
    OBVIOUS
  <1> USE DEF WithinDepth, Lanes
  <1>0. /\ queue \in [Lanes -> Seq(Nat \ {0})] /\ Depth["control"] \in Nat \ {0}
        /\ Depth["data"] \in Nat \ {0}
    BY DepthAssumption DEF Types, Data
  <1>1. CASE UNCHANGED queue
    BY <1>1
  <1>2. ASSUME NEW p \in Producers, EnqueueControl(p) PROVE WithinDepth'
    <2>1. \/ queue' = queue \/ queue' = [queue EXCEPT !["control"] = <<>>]
          \/ /\ Len(queue["control"]) < Depth["control"]
             /\ queue' = [queue EXCEPT !["control"] = Append(@, Handing(p))]
      <3>1. Len(queue["control"]) \in Nat
        BY <1>0
      <3> QED
        BY <1>0, <1>2, <3>1 DEF EnqueueControl
    <2> QED
      BY <1>0, <2>1
  <1>3. ASSUME NEW p \in Producers, EnqueueData(p) PROVE WithinDepth'
    <2> DEFINE full == Len(queue["data"]) >= Depth["data"]
               kept == IF full THEN Tail(queue["data"]) ELSE queue["data"]
    <2>1. queue' = [queue EXCEPT !["data"] = Append(kept, Handing(p))]
      BY <1>3 DEF EnqueueData
    <2>2. kept \in Seq(Nat \ {0}) /\ Len(kept) + 1 <= Depth["data"]
      BY <1>0
    <2> HIDE DEF kept
    <2>3. Len(Append(kept, Handing(p))) = Len(kept) + 1
      BY <2>2
    <2> QED
      BY <1>0, <2>1, <2>2, <2>3
  <1>4. ASSUME NEW l \in Lanes, Check(l) PROVE WithinDepth'
    <2>1. queue' = queue \/ (queue[l] # <<>> /\ queue' = [queue EXCEPT ![l] = Tail(@)])
      BY <1>4 DEF Check
    <2>2. queue[l] # <<>> => Len(Tail(queue[l])) = Len(queue[l]) - 1 /\ Len(queue[l]) \in Nat
      BY <1>0
    <2> QED
      BY <1>0, <2>1, <2>2
  <1>5. ASSUME NEW l \in Lanes, DropQueued(l) PROVE WithinDepth'
    <2>1. queue' = [queue EXCEPT ![l] = <<>>] /\ Len(<<>>) = 0
      BY <1>5 DEF DropQueued
    <2> QED
      BY <1>0, <2>1
  <1> QED
    BY <1>1, <1>2, <1>3, <1>4, <1>5, Writers DEF QueueWriters

(* What the queues hold after a step. *)
LEMMA QueueIs ==
  ASSUME Data, HasFrame, Steps
  PROVE  \A l \in Lanes :
           \/ In(queue'[l]) \subseteq In(queue[l])
           \/ \E p \in Producers : /\ ppc[p] \in {"control", "data"}
                                   /\ In(queue'[l]) \subseteq In(queue[l]) \cup {Handing(p)}
  <1> USE DEF Lanes
  <1>0. queue \in [Lanes -> Seq(Nat \ {0})] /\ \A l \in Lanes : queue[l] \in Seq(Nat \ {0})
    BY DEF Data
  <1>1. CASE UNCHANGED queue
    BY <1>1
  <1>2. ASSUME NEW p \in Producers, EnqueueControl(p)
        PROVE  /\ In(queue'["data"]) = In(queue["data"])
               /\ In(queue'["control"]) \subseteq In(queue["control"]) \cup {Handing(p)}
    <2>1. \/ queue' = queue \/ queue' = [queue EXCEPT !["control"] = <<>>]
          \/ queue' = [queue EXCEPT !["control"] = Append(@, Handing(p))]
      BY <1>2 DEF EnqueueControl
    <2>2. Handing(p) \in Nat \ {0}
      BY <1>2, HandingIs DEF EnqueueControl
    <2>3. /\ In(<<>>) = {}
          /\ In(Append(queue["control"], Handing(p))) = In(queue["control"]) \cup {Handing(p)}
      <3>1. queue["control"] \in Seq(Nat \ {0})
        BY <1>0
      <3> QED
        BY <2>2, <3>1, InIs
    <2> QED
      BY <1>0, <2>1, <2>3
  <1>3. ASSUME NEW p \in Producers, EnqueueData(p)
        PROVE  /\ In(queue'["control"]) = In(queue["control"])
               /\ In(queue'["data"]) \subseteq In(queue["data"]) \cup {Handing(p)}
    <2> DEFINE full == Len(queue["data"]) >= Depth["data"]
               kept == IF full THEN Tail(queue["data"]) ELSE queue["data"]
    <2>1. queue' = [queue EXCEPT !["data"] = Append(kept, Handing(p))]
      BY <1>3 DEF EnqueueData
    <2>2. Handing(p) \in Nat \ {0}
      BY <1>3, HandingIs DEF EnqueueData
    <2>3. kept \in Seq(Nat \ {0}) /\ In(kept) \subseteq In(queue["data"])
      <3>1. CASE full
        <4>1. queue["data"] # <<>>
          BY <1>0, <3>1, DepthAssumption
        <4> QED
          BY <1>0, <3>1, <4>1, InIs
      <3>2. CASE ~full
        BY <1>0, <3>2
      <3> QED
        BY <3>1, <3>2
    <2> HIDE DEF kept
    <2>4. In(Append(kept, Handing(p))) = In(kept) \cup {Handing(p)}
      BY <2>2, <2>3, InIs
    <2> QED
      BY <1>0, <2>1, <2>3, <2>4
  <1>4. ASSUME NEW l \in Lanes, Check(l)
        PROVE  \A k \in Lanes : In(queue'[k]) \subseteq In(queue[k])
    <2>1. queue' = queue \/ (queue[l] # <<>> /\ queue' = [queue EXCEPT ![l] = Tail(@)])
      BY <1>4 DEF Check
    <2>2. queue[l] # <<>> => In(Tail(queue[l])) \subseteq In(queue[l])
      BY <1>0, InIs
    <2> QED
      BY <1>0, <2>1, <2>2
  <1>5. ASSUME NEW l \in Lanes, DropQueued(l)
        PROVE  \A k \in Lanes : In(queue'[k]) \subseteq In(queue[k])
    <2>1. queue' = [queue EXCEPT ![l] = <<>>] /\ In(<<>>) = {}
      BY <1>5 DEF DropQueued, In
    <2> QED
      BY <1>0, <2>1
  <1>6. CASE \E p \in Producers : EnqueueControl(p)
    BY <1>2, <1>6 DEF EnqueueControl
  <1>7. CASE \E p \in Producers : EnqueueData(p)
    BY <1>3, <1>7 DEF EnqueueData
  <1> QED
    BY <1>1, <1>4, <1>5, <1>6, <1>7, Writers DEF QueueWriters

(* What a worker takes was queued. *)
LEMMA TakenIs ==
  ASSUME Data, Steps
  PROVE  \A l \in Lanes : wframe'[l] \in {wframe[l], 0} \cup In(queue[l])
  <1> USE DEF Lanes
  <1>0. wframe \in [Lanes -> Nat] /\ \A l \in Lanes : queue[l] \in Seq(Nat \ {0})
    BY DEF Data
  <1>1. ASSUME NEW l \in Lanes, Check(l)
        PROVE  \A k \in Lanes : wframe'[k] \in {wframe[k]} \cup In(queue[k])
    <2>1. wframe' = wframe \/ (queue[l] # <<>> /\ wframe' = [wframe EXCEPT ![l] = Head(queue[l])])
      BY <1>1 DEF Check
    <2>2. queue[l] # <<>> => Head(queue[l]) \in In(queue[l])
      BY <1>0, InIs
    <2> QED
      BY <1>0, <2>1, <2>2
  <1>2. ASSUME NEW l \in Lanes, FannedOut(l) PROVE \A k \in Lanes : wframe'[k] \in {wframe[k], 0}
    BY <1>0, <1>2 DEF FannedOut
  <1> QED
    BY <1>1, <1>2, Writers DEF WframeWriters

(* What a callback is entered with was in the worker's hand. *)
LEMMA LoggedIs ==
  ASSUME Data, InStep, Steps
  PROVE  \A u \in Controllers :
           \/ log'[u] = log[u]
           \/ /\ log'[u] = Append(log[u], wframe["control"])
              /\ wframe["control"] \in Nat \ {0} /\ u \in hits["control"]
              /\ wpc["control"] = "hits" /\ wframe["control"] > since[u] /\ ActiveFlag(u)
              /\ EnterControl /\ hits'["control"] = hits["control"] \ {u}
              /\ wpc'["control"] = "call"
  <1>0. log \in [Controllers -> Seq(Nat \ {0})] /\ wframe \in [Lanes -> Nat]
        /\ hits \in [Lanes -> SUBSET Everybody] /\ wpc \in [Lanes -> WorkerPoints]
    BY DEF Data
  <1>1. CASE EnterControl
    <2>1. PICK v \in hits["control"] :
             /\ hits' = [hits EXCEPT !["control"] = @ \ {v}]
             /\ IF ActiveFlag(v) /\ wframe["control"] > since[v]
                THEN /\ log' = [log EXCEPT ![v] = Append(@, wframe["control"])]
                     /\ wpc' = [wpc EXCEPT !["control"] = "call"]
                ELSE log' = log
      BY <1>1 DEF EnterControl
    <2>2. wframe["control"] \in Nat \ {0} /\ wpc["control"] = "hits"
      BY <1>0, <1>1 DEF InStep, EnterControl, Lanes
    <2>3. hits'["control"] = hits["control"] \ {v}
      BY <1>0, <2>1 DEF Lanes
    <2>4. CASE ActiveFlag(v) /\ wframe["control"] > since[v]
      <3>1. log' = [log EXCEPT ![v] = Append(@, wframe["control"])] /\ wpc'["control"] = "call"
        BY <1>0, <2>1, <2>4 DEF Lanes
      <3>2. ASSUME NEW u \in Controllers, u # v PROVE log'[u] = log[u]
        BY <1>0, <3>1, <3>2
      <3>3. ASSUME NEW u \in Controllers, u = v
            PROVE  log'[u] = Append(log[u], wframe["control"])
        BY <1>0, <3>1, <3>3
      <3> QED
        BY <1>1, <2>1, <2>2, <2>3, <2>4, <3>1, <3>2, <3>3
    <2>5. CASE ~(ActiveFlag(v) /\ wframe["control"] > since[v])
      BY <2>1, <2>5
    <2> QED
      BY <2>4, <2>5
  <1> QED
    BY <1>1, Writers DEF LogWriters

(* Only received frames get into the lanes.                                *)
LEMMA ReceivedStep == Types /\ Received /\ HasFrame /\ InStep /\ Steps => Received'
  <1> SUFFICES ASSUME Types, Received, HasFrame, InStep, Steps PROVE Received'
    OBVIOUS
  <1> USE DEF Types
  <1>1. Len(frames) \in Nat /\ Len(frames') \in Nat /\ Len(frames) <= Len(frames')
    <2>1. Len(frames) \in Nat
      BY DEF Data
    <2>2. CASE UNCHANGED frames
      BY <2>1, <2>2
    <2>3. ASSUME NEW p \in Producers, Receive(p) PROVE Len(frames') = Len(frames) + 1
      BY <2>3, ReceivedIs
    <2> QED
      BY <2>1, <2>2, <2>3, Writers DEF FramesWriters
  <1>2. ASSUME NEW l \in Lanes, NEW n \in In(queue'[l]) PROVE n <= Len(frames')
    <2>0. /\ \A m \in In(queue[l]) : m \in Nat
          /\ \A p \in Producers : ppc[p] \in {"control", "data"} =>
               Handing(p) \in Nat /\ Handing(p) <= Len(frames)
      <3>1. ASSUME NEW m \in In(queue[l]) PROVE m \in Nat
        <4>1. queue[l] \in Seq(Nat \ {0})
          BY DEF Data
        <4> QED
          BY <4>1, InIs
      <3>2. ASSUME NEW p \in Producers, ppc[p] \in {"control", "data"}
            PROVE  Handing(p) \in Nat /\ Handing(p) <= Len(frames)
        BY <1>1, <3>2, HandingIs
      <3> QED
        BY <3>1, <3>2
    <2>1. n \in Nat /\ n <= Len(frames)
      <3>1. n \in In(queue[l]) \/ \E p \in Producers : ppc[p] \in {"control", "data"}
                                                    /\ n = Handing(p)
        BY QueueIs
      <3> QED
        BY <2>0, <3>1 DEF Received
    <2> QED
      BY <1>1, <2>1
  <1>3. ASSUME NEW l \in Lanes PROVE wframe'[l] <= Len(frames')
    <2>1. wframe'[l] \in Nat /\ wframe'[l] <= Len(frames)
      <3>1. wframe'[l] \in Nat
        BY DEF Data
      <3> QED
        BY <1>1, <3>1, TakenIs DEF Received
    <2> QED
      BY <1>1, <2>1
  <1>4. ASSUME NEW u \in Controllers, NEW n \in In(log'[u]) PROVE n <= Len(frames')
    <2>1. log[u] \in Seq(Nat \ {0}) /\ \A m \in In(log[u]) : m \in Nat
      BY InIs DEF Data
    <2>2. n \in In(log[u]) \cup {wframe["control"]}
      <3>1. wframe["control"] \in Nat \ {0} =>
              In(Append(log[u], wframe["control"])) = In(log[u]) \cup {wframe["control"]}
        BY <2>1, InIs
      <3> QED
        BY <3>1, LoggedIs
    <2>3. n \in Nat /\ n <= Len(frames)
      BY <2>1, <2>2 DEF Received, Data, Lanes
    <2> QED
      BY <1>1, <2>3
  <1> QED
    BY <1>2, <1>3, <1>4 DEF Received

(* The latest frame of a producer stays its latest until its next.         *)
LEMMA LatestIs ==
  ASSUME Data, Steps, NEW q \in Producers
  PROVE  \/ \A n \in Nat : Latest(q, n)' <=> Latest(q, n)
         \/ Receive(q) /\ (\A n \in Nat : Latest(q, n)' <=> n = Len(frames) + 1)
                       /\ Len(frames) + 1 \in 1 .. Len(frames')
  <1>1. CASE UNCHANGED frames
    BY <1>1 DEF Latest
  <1>2. ASSUME NEW p \in Producers, Receive(p), p # q
        PROVE  \A n \in Nat : Latest(q, n)' <=> Latest(q, n)
    <2>1. /\ Len(frames') = Len(frames) + 1 /\ Len(frames) \in Nat
          /\ frames'[Len(frames) + 1].from # q
          /\ \A n \in 1 .. Len(frames) : frames'[n] = frames[n]
      BY <1>2, ReceivedIs
    <2>2. ASSUME NEW n \in Nat, Latest(q, n) PROVE Latest(q, n)'
      BY <2>1, <2>2 DEF Latest
    <2>3. ASSUME NEW n \in Nat, Latest(q, n)' PROVE Latest(q, n)
      <3>1. n \in 1 .. Len(frames) /\ frames[n].from = q
        BY <2>1, <2>3 DEF Latest
      <3>2. ASSUME NEW m \in n + 1 .. Len(frames) PROVE frames[m].from # q
        BY <2>1, <2>3, <3>1 DEF Latest
      <3> QED
        BY <3>1, <3>2 DEF Latest
    <2> QED
      BY <2>2, <2>3
  <1>3. ASSUME Receive(q)
        PROVE  /\ \A n \in Nat : Latest(q, n)' <=> n = Len(frames) + 1
               /\ Len(frames) + 1 \in 1 .. Len(frames')
    BY <1>3, ReceivedIs DEF Latest
  <1> QED
    BY <1>1, <1>2, <1>3, Writers DEF FramesWriters

(* Who hands over what after a step. *)
LEMMA PointIs ==
  ASSUME Data, Steps, NEW q \in Producers
  PROVE  \/ Receive(q) /\ ppc'[q] \in {"count", "data"}
         \/ ppc'[q] = ppc[q]
         \/ ppc[q] \notin {"count", "control"} /\ ppc'[q] \in {"top", "read", "exited"}
         \/ ppc[q] = "count" /\ CountSubs(q) /\ ppc'[q] \in {"control", "data"}
         \/ ppc[q] = "control" /\ EnqueueControl(q) /\ ppc'[q] = "data"
  <1>0. ppc \in [Producers -> ProducerPoints]
    BY DEF Data
  <1>1. CASE ReaderTop \/ ReadDone \/ ReadFails
    BY <1>0, <1>1 DEF ReaderTop, ReadDone, ReadFails
  <1>2. ASSUME NEW p \in Producers, Receive(p)
        PROVE  ppc'[q] = ppc[q] \/ (Receive(q) /\ ppc'[q] \in {"count", "data"})
    <2>1. CASE p = q
      BY <1>2, <2>1, ReceivedIs
    <2>2. CASE p # q
      BY <1>2, <2>2, ReceivedIs
    <2> QED
      BY <2>1, <2>2
  <1>3. ASSUME NEW p \in Producers, CountSubs(p)
        PROVE  ppc'[q] = ppc[q]
               \/ (p = q /\ ppc[q] = "count" /\ ppc'[q] \in {"control", "data"})
    BY <1>0, <1>3 DEF CountSubs
  <1>4. ASSUME NEW p \in Producers, EnqueueControl(p)
        PROVE  ppc'[q] = ppc[q] \/ (p = q /\ ppc[q] = "control" /\ ppc'[q] = "data")
    BY <1>0, <1>4 DEF EnqueueControl
  <1>5. ASSUME NEW p \in Producers, EnqueueData(p) 
        PROVE  ppc'[q] = ppc[q] \/ (ppc[q] = "data" /\ ppc'[q] = "read")
    BY <1>0, <1>5 DEF EnqueueData
  <1> QED
    BY <1>1, <1>2, <1>3, <1>4, <1>5, Writers DEF PpcWriters

(* A producer that hands a frame over still has one.                       *)
LEMMA HasFrameStep == Data /\ HasFrame /\ Steps => HasFrame'
  <1> SUFFICES ASSUME Data, HasFrame, Steps, NEW q \in Producers,
                      ppc'[q] \in {"count", "control", "data"}
               PROVE  \E n \in 1 .. Len(frames') : Latest(q, n)'
    BY DEF HasFrame
  <1>1. CASE Receive(q)
    <2>1. /\ Len(frames') = Len(frames) + 1 /\ Len(frames) \in Nat
          /\ frames'[Len(frames) + 1].from = q
      BY <1>1, ReceivedIs
    <2>2. PICK n \in Nat : n = Len(frames) + 1
      BY <2>1
    <2>3. n \in 1 .. Len(frames') /\ Latest(q, n)'
      BY <2>1, <2>2 DEF Latest
    <2> QED
      BY <2>3
  <1>2. CASE ~Receive(q)
    <2>1. ppc[q] \in {"count", "control", "data"}
      BY <1>2, PointIs
    <2>2. PICK n \in 1 .. Len(frames) : Latest(q, n)
      BY <2>1 DEF HasFrame
    <2>3. Latest(q, n)'
      BY <1>2, <2>2, LatestIs
    <2> QED
      BY <2>3 DEF Latest
  <1> QED
    BY <1>1, <1>2

---------------------------------------------------------------------------
(* The workers *)

(* Every step keeps a worker's place and what it holds in agreement.       *)
LEMMA InStepStep == Types /\ InStep /\ Steps => InStep'
  <1> SUFFICES ASSUME Types, InStep, Steps PROVE InStep'
    OBVIOUS
  <1> USE DEF InStep, Lanes
  <1>0. /\ wpc \in [Lanes -> WorkerPoints] /\ wframe \in [Lanes -> Nat]
        /\ hits \in [Lanes -> SUBSET Everybody] /\ cur \in [Lanes -> Everybody \cup {None}]
        /\ \A l \in Lanes : queue[l] \in Seq(Nat \ {0})
        /\ None \notin Everybody
    BY SubscribersAssumption DEF Types, Data, Everybody
  <1>1. CASE UNCHANGED <<wpc, wframe, hits, cur>>
    BY <1>1
  <1>2. ASSUME UNCHANGED <<wframe, hits, cur>>,
               \A l \in Lanes : wpc'[l] = wpc[l]
                                \/ {wpc[l], wpc'[l]} \subseteq {"check", "parking", "parked", "exited"}
        PROVE  InStep'
    BY <1>0, <1>2
  <1>3. ASSUME NEW l \in Lanes, wpc' = Notified(l)
        PROVE  \A k \in Lanes : wpc'[k] = wpc[k]
                                \/ {wpc[k], wpc'[k]} \subseteq {"check", "parking", "parked", "exited"}
    BY <1>0, <1>3 DEF Notified
  <1>4. ASSUME NEW p \in Producers, EnqueueControl(p) \/ EnqueueData(p) PROVE InStep'
    <2>1. UNCHANGED <<wframe, hits, cur>> /\ (wpc' = wpc \/ \E l \in Lanes : wpc' = Notified(l))
      BY <1>4 DEF EnqueueControl, EnqueueData, workerVars
    <2> QED
      BY <1>1, <1>2, <1>3, <2>1
  <1>5. ASSUME NEW l \in Lanes, Park(l) \/ WakeWorker(l) PROVE InStep'
    <2>1. CASE Park(l)
      BY <1>0, <1>2, <2>1 DEF Park, workerVars
    <2>2. CASE WakeWorker(l)
      BY <1>2, <1>3, <2>2 DEF WakeWorker, workerVars
    <2> QED
      BY <1>5, <2>1, <2>2
  <1>6. ASSUME NEW l \in Lanes, Check(l) PROVE InStep'
    <2>1. wpc[l] = "check" /\ UNCHANGED <<hits, cur>>
      BY <1>6 DEF Check
    <2>2. CASE ~stopReq /\ queue[l] # <<>>
      <3>1. /\ wframe' = [wframe EXCEPT ![l] = Head(queue[l])]
            /\ wpc' = [wpc EXCEPT ![l] = "fan"]
        BY <1>6, <2>2 DEF Check
      <3>2. Head(queue[l]) \in Nat \ {0}
        BY <1>0, <2>2
      <3> QED
        BY <1>0, <2>1, <3>1, <3>2
    <2>3. CASE ~(~stopReq /\ queue[l] # <<>>)
      <3>1. wframe' = wframe /\ wpc' = [wpc EXCEPT ![l] = IF stopReq THEN "exited" ELSE "parking"]
        BY <1>6, <2>3 DEF Check
      <3> QED
        BY <1>0, <1>2, <2>1, <3>1
    <2> QED
      BY <2>2, <2>3
  <1>7. ASSUME NEW l \in Lanes, Snapshot(l) PROVE InStep'
    <2>1. Matching(l) \subseteq Subscribers(l)
      BY MatchingIs DEF Types
    <2>2. /\ wpc[l] = "fan" /\ UNCHANGED <<wframe, cur>>
          /\ hits' = [hits EXCEPT ![l] = Matching(l)] /\ wpc' = [wpc EXCEPT ![l] = "hits"]
      BY <1>7 DEF Snapshot
    <2> QED
      BY <1>0, <2>1, <2>2 DEF Subscribers
  <1>8. ASSUME NEW l \in Lanes, FannedOut(l) PROVE InStep'
    <2>1. /\ wpc[l] = "hits" /\ hits[l] = {} /\ UNCHANGED <<hits, cur>>
          /\ wframe' = [wframe EXCEPT ![l] = 0] /\ wpc' = [wpc EXCEPT ![l] = "check"]
      BY <1>8 DEF FannedOut
    <2> QED
      BY <1>0, <2>1 DEF Subscribers
  <1>9. ASSUME NEW l \in Lanes, LeaveCallback(l) PROVE InStep'
    <2>1. /\ wpc[l] = "call" /\ UNCHANGED <<hits, wframe>>
          /\ cur' = [cur EXCEPT ![l] = None] /\ wpc' = [wpc EXCEPT ![l] = "hits"]
      BY <1>9 DEF LeaveCallback
    <2> QED
      BY <1>0, <2>1 DEF Subscribers
  <1>10. CASE EnterUser
    <2>1. PICK u \in hits["data"] :
             /\ hits' = [hits EXCEPT !["data"] = @ \ {u}]
             /\ cur' = [cur EXCEPT !["data"] = u]
      BY <1>10 DEF EnterUser
    <2>2. wpc["data"] = "hits" /\ wpc' = [wpc EXCEPT !["data"] = "call"] /\ wframe' = wframe
      BY <1>10 DEF EnterUser
    <2> QED
      BY <1>0, <2>1, <2>2 DEF Subscribers, Everybody
  <1>11. CASE EnterControl
    <2>1. PICK u \in hits["control"] :
             /\ hits' = [hits EXCEPT !["control"] = @ \ {u}]
             /\ \/ cur' = [cur EXCEPT !["control"] = u] /\ wpc' = [wpc EXCEPT !["control"] = "call"]
                \/ UNCHANGED <<cur, wpc>>
      BY <1>11 DEF EnterControl
    <2>2. wpc["control"] = "hits" /\ wframe' = wframe
      BY <1>11 DEF EnterControl
    <2> QED
      BY <1>0, <2>1, <2>2 DEF Subscribers, Everybody
  <1> QED
    BY <1>1, <1>4, <1>5, <1>6, <1>7, <1>8, <1>9, <1>10, <1>11, Writers
    DEF WpcWriters, WframeWriters, HitsWriters, CurWriters

(* Every step keeps inflight the number of calls that run.                 *)
LEMMA ClaimsStep == Types /\ InStep /\ Claims /\ Steps => Claims'
  <1> SUFFICES ASSUME Types, InStep, Claims, Steps PROVE Claims'
    OBVIOUS
  <1> USE DEF Claims
  <1>0. /\ cur \in [Lanes -> Everybody \cup {None}] /\ inflight \in [Controllers -> Nat]
        /\ {"control", "data"} \subseteq Lanes
    BY DEF Types, Data, Lanes
  <1>1. CASE UNCHANGED <<cur, inflight>>
    BY <1>1
  <1>2. CASE EnterUser
    <2>1. inflight' = inflight /\ cur'["control"] = cur["control"]
      BY <1>0, <1>2 DEF EnterUser
    <2> QED
      BY <2>1
  <1>3. CASE EnterControl
    <2>1. cur["control"] = None
      BY <1>0, <1>3 DEF EnterControl, InStep
    <2>2. PICK u \in hits["control"] :
             \/ /\ cur' = [cur EXCEPT !["control"] = u]
                /\ inflight' = [inflight EXCEPT ![u] = @ + 1]
             \/ UNCHANGED <<cur, inflight>>
      BY <1>3 DEF EnterControl
    <2>3. u \in Controllers
      BY <1>0, <2>2 DEF InStep, Subscribers
    <2>4. \A v \in Controllers : inflight[v] = 0
      BY <2>1, SubscribersAssumption
    <2> QED
      BY <1>0, <2>2, <2>3, <2>4
  <1>4. ASSUME NEW l \in Lanes, LeaveCallback(l) PROVE Claims'
    <2>1. CASE l = "control"
      <3>1. cur["control"] \in Controllers
        BY <1>0, <1>4, <2>1 DEF LeaveCallback, InStep, Subscribers
      <3>2. /\ cur' = [cur EXCEPT !["control"] = None]
            /\ inflight' = [inflight EXCEPT ![cur["control"]] = @ - 1]
        BY <1>4, <2>1 DEF LeaveCallback
      <3> QED
        BY <1>0, <3>1, <3>2, SubscribersAssumption
    <2>2. CASE l # "control"
      <3>1. cur'["control"] = cur["control"] /\ inflight' = inflight
        BY <1>0, <1>4, <2>2 DEF LeaveCallback
      <3> QED
        BY <3>1
    <2> QED
      BY <2>1, <2>2
  <1> QED
    BY <1>1, <1>2, <1>3, <1>4, Writers DEF CurWriters, InflightWriters

(* One lane's account. *)
Account(l) == handled[l] + dropped[l] + Len(queue[l]) + (IF wframe[l] = 0 THEN 0 ELSE 1)

(* Every step counts the frame it moves.                                   *)
LEMMA AccountedStep == Types /\ InStep /\ Accounted /\ Steps => Accounted'
  <1> SUFFICES ASSUME Types, InStep, Accounted, Steps, NEW k \in Lanes
               PROVE  offered'[k] = Account(k)'
    BY DEF Accounted, Account
  <1> USE DEF Account
  <1>0. /\ handled \in [Lanes -> Nat] /\ dropped \in [Lanes -> Nat] /\ offered \in [Lanes -> Nat]
        /\ queue \in [Lanes -> Seq(Nat \ {0})] /\ wframe \in [Lanes -> Nat]
    BY DEF Types, Data
  <1> USE DEF Lanes
  <1>9. /\ handled[k] \in Nat /\ dropped[k] \in Nat /\ offered[k] \in Nat
        /\ queue[k] \in Seq(Nat \ {0}) /\ Len(queue[k]) \in Nat /\ wframe[k] \in Nat
    BY <1>0
  <1>10. dropped'[k] \in Nat /\ queue'[k] \in Seq(Nat \ {0}) /\ Len(queue'[k]) \in Nat
    <2>1. dropped' \in [Lanes -> Nat] /\ queue' \in [Lanes -> Seq(Nat \ {0})]
      BY DEF Types, Data
    <2>2. queue'[k] \in Seq(Nat \ {0})
      BY <2>1
    <2> QED
      BY <2>1, <2>2
  <1>1. offered[k] = Account(k)
    BY DEF Accounted
  <1>2. CASE UNCHANGED <<handled, dropped, offered, queue, wframe>>
    BY <1>1, <1>2
  <1>3. ASSUME NEW p \in Producers, EnqueueControl(p) PROVE offered'[k] = Account(k)'
    <2>1. offered' = [offered EXCEPT !["control"] = @ + 1] /\ UNCHANGED <<handled, wframe>>
      BY <1>3 DEF EnqueueControl, workerVars
    <2>2. Len(Append(queue["control"], Handing(p))) = Len(queue["control"]) + 1
      BY <1>0
    <2>3. \/ dropped' = [dropped EXCEPT !["control"] = @ + 1] /\ queue' = queue
          \/ /\ dropped' = [dropped EXCEPT !["control"] = @ + Len(queue["control"]) + 1]
             /\ queue' = [queue EXCEPT !["control"] = <<>>]
          \/ dropped' = dropped /\ queue' = [queue EXCEPT !["control"] = Append(@, Handing(p))]
      BY <1>3 DEF EnqueueControl
    <2>4. CASE k = "control"
      <3>1. offered'[k] = offered[k] + 1 /\ handled'[k] = handled[k] /\ wframe'[k] = wframe[k]
        BY <1>0, <2>1, <2>4
      <3>2. dropped'[k] + Len(queue'[k]) = dropped[k] + Len(queue[k]) + 1
        <4>1. CASE dropped' = [dropped EXCEPT !["control"] = @ + 1] /\ queue' = queue
          BY <1>0, <2>4, <4>1
        <4>2. CASE /\ dropped' = [dropped EXCEPT !["control"] = @ + Len(queue["control"]) + 1]
                   /\ queue' = [queue EXCEPT !["control"] = <<>>]
          <5>1. dropped'[k] = dropped[k] + Len(queue[k]) + 1 /\ queue'[k] = <<>>
            BY <1>0, <2>4, <4>2
          <5> QED
            BY <1>9, <5>1
        <4>3. CASE /\ dropped' = dropped
                   /\ queue' = [queue EXCEPT !["control"] = Append(@, Handing(p))]
          BY <1>0, <2>2, <2>4, <4>3
        <4> QED
          BY <2>3, <4>1, <4>2, <4>3
      <3> QED
        <4> DEFINE hand == IF wframe[k] = 0 THEN 0 ELSE 1
        <4>1. hand \in {0, 1} /\ (IF wframe'[k] = 0 THEN 0 ELSE 1) = hand
          BY <3>1
        <4>2. offered[k] = handled[k] + dropped[k] + Len(queue[k]) + hand
          BY <1>1
        <4> HIDE DEF hand
        <4>3. offered'[k] = handled'[k] + dropped'[k] + Len(queue'[k]) + hand
          <5> DEFINE h == handled[k]
                     d == dropped[k]
                     n == Len(queue[k])
                     d1 == dropped'[k]
                     n1 == Len(queue'[k])
          <5>1. /\ h \in Nat /\ d \in Nat /\ n \in Nat /\ d1 \in Nat /\ n1 \in Nat
                /\ d1 + n1 = d + n + 1 /\ hand \in {0, 1}
            BY <1>9, <1>10, <3>2, <4>1
          <5> HIDE DEF h, d, n, d1, n1
          <5>2. h + d1 + n1 + hand = h + d + n + hand + 1
            BY <5>1
          <5> QED
            BY <3>1, <4>2, <5>2, Zenon DEF h, d, n, d1, n1
        <4> QED
          BY <4>1, <4>3
    <2>5. CASE k # "control"
      <3>1. /\ offered'[k] = offered[k] /\ handled'[k] = handled[k] /\ wframe'[k] = wframe[k]
            /\ dropped'[k] = dropped[k] /\ queue'[k] = queue[k]
        BY <1>0, <2>1, <2>3, <2>5
      <3> QED
        BY <1>1, <3>1
    <2> QED
      BY <2>4, <2>5
  <1>4. ASSUME NEW p \in Producers, EnqueueData(p) PROVE offered'[k] = Account(k)'
    <2> DEFINE full == Len(queue["data"]) >= Depth["data"]
               kept == IF full THEN Tail(queue["data"]) ELSE queue["data"]
    <2>1. /\ offered' = [offered EXCEPT !["data"] = @ + 1] /\ UNCHANGED <<handled, wframe>>
          /\ queue' = [queue EXCEPT !["data"] = Append(kept, Handing(p))]
          /\ dropped' = [dropped EXCEPT !["data"] = IF full THEN @ + 1 ELSE @]
      BY <1>4 DEF EnqueueData, workerVars
    <2>2. CASE k = "data"
      <3>1. offered'[k] = offered[k] + 1 /\ handled'[k] = handled[k] /\ wframe'[k] = wframe[k]
        BY <1>0, <2>1, <2>2
      <3>2. dropped'[k] + Len(queue'[k]) = dropped[k] + Len(queue[k]) + 1
        <4>1. kept \in Seq(Nat \ {0}) /\ Len(kept) = IF full THEN Len(queue[k]) - 1 ELSE Len(queue[k])
          BY <1>0, <2>2, DepthAssumption
        <4>2. dropped'[k] = IF full THEN dropped[k] + 1 ELSE dropped[k]
          BY <1>0, <2>1, <2>2
        <4>3. Len(queue'[k]) = Len(kept) + 1
          <5> HIDE DEF kept
          <5>1. queue'[k] = Append(kept, Handing(p))
            BY <1>0, <2>1, <2>2
          <5> QED
            BY <4>1, <5>1
        <4> HIDE DEF kept
        <4>4. Len(kept) \in Nat
          BY <4>1
        <4> QED
          BY <1>9, <4>1, <4>2, <4>3, <4>4
      <3> QED
        <4> DEFINE hand == IF wframe[k] = 0 THEN 0 ELSE 1
        <4>1. hand \in {0, 1} /\ (IF wframe'[k] = 0 THEN 0 ELSE 1) = hand
          BY <3>1
        <4>2. offered[k] = handled[k] + dropped[k] + Len(queue[k]) + hand
          BY <1>1
        <4> HIDE DEF hand
        <4>3. offered'[k] = handled'[k] + dropped'[k] + Len(queue'[k]) + hand
          <5> DEFINE h == handled[k]
                     d == dropped[k]
                     n == Len(queue[k])
                     d1 == dropped'[k]
                     n1 == Len(queue'[k])
          <5>1. /\ h \in Nat /\ d \in Nat /\ n \in Nat /\ d1 \in Nat /\ n1 \in Nat
                /\ d1 + n1 = d + n + 1 /\ hand \in {0, 1}
            BY <1>9, <1>10, <3>2, <4>1
          <5> HIDE DEF h, d, n, d1, n1
          <5>2. h + d1 + n1 + hand = h + d + n + hand + 1
            BY <5>1
          <5> QED
            BY <3>1, <4>2, <5>2, Zenon DEF h, d, n, d1, n1
        <4> QED
          BY <4>1, <4>3
    <2>3. CASE k # "data"
      <3>1. /\ offered'[k] = offered[k] /\ handled'[k] = handled[k] /\ wframe'[k] = wframe[k]
            /\ dropped'[k] = dropped[k] /\ queue'[k] = queue[k]
        BY <1>0, <2>1, <2>3
      <3> QED
        BY <1>1, <3>1
    <2> QED
      BY <2>2, <2>3
  <1>5. ASSUME NEW l \in Lanes, Check(l) PROVE offered'[k] = Account(k)'
    <2>1. UNCHANGED <<offered, handled, dropped>> /\ wframe[l] = 0
      BY <1>0, <1>5 DEF Check, InStep
    <2>2. CASE ~stopReq /\ queue[l] # <<>> /\ k = l
      <3>1. wframe'[k] = Head(queue[k]) /\ queue'[k] = Tail(queue[k])
        BY <1>0, <1>5, <2>2 DEF Check
      <3>2. Head(queue[k]) # 0 /\ Len(Tail(queue[k])) = Len(queue[k]) - 1
        BY <1>0, <2>2
      <3> QED
        <4>1. Len(queue'[k]) = Len(queue[k]) - 1 /\ Len(queue[k]) > 0 /\ wframe'[k] # 0
              /\ wframe[k] = 0
          BY <1>9, <2>1, <2>2, <3>1, <3>2
        <4>2. offered'[k] = offered[k] /\ handled'[k] = handled[k] /\ dropped'[k] = dropped[k]
          BY <2>1
        <4>3. offered[k] = handled[k] + dropped[k] + Len(queue[k]) + 0
          BY <1>1, <4>1
        <4>4. offered'[k] = handled'[k] + dropped'[k] + Len(queue'[k]) + 1
          BY <1>9, <4>1, <4>2, <4>3
        <4> QED
          BY <4>1, <4>4
    <2>3. CASE ~(~stopReq /\ queue[l] # <<>> /\ k = l)
      <3>1. wframe'[k] = wframe[k] /\ queue'[k] = queue[k]
        BY <1>0, <1>5, <2>3 DEF Check
      <3> QED
        BY <1>1, <2>1, <3>1
    <2> QED
      BY <2>2, <2>3
  <1>6. ASSUME NEW l \in Lanes, FannedOut(l) PROVE offered'[k] = Account(k)'
    <2>1. /\ UNCHANGED <<offered, dropped, queue>> /\ wframe[l] # 0
          /\ handled' = [handled EXCEPT ![l] = @ + 1] /\ wframe' = [wframe EXCEPT ![l] = 0]
      BY <1>0, <1>6 DEF FannedOut, InStep, laneVars
    <2>2. offered'[k] = offered[k] /\ dropped'[k] = dropped[k] /\ queue'[k] = queue[k]
      BY <2>1
    <2>3. CASE k = l
      <3>1. handled'[k] = handled[k] + 1 /\ wframe'[k] = 0 /\ wframe[k] # 0
        BY <1>0, <2>1, <2>3
      <3> QED
        BY <1>1, <1>9, <2>2, <3>1
    <2>4. CASE k # l
      <3>1. handled'[k] = handled[k] /\ wframe'[k] = wframe[k]
        BY <1>0, <2>1, <2>4
      <3> QED
        BY <1>1, <1>9, <2>2, <3>1
    <2> QED
      BY <2>3, <2>4
  <1>7. ASSUME NEW l \in Lanes, DropQueued(l) PROVE offered'[k] = Account(k)'
    <2>1. /\ dropped' = [dropped EXCEPT ![l] = dropped[l] + Len(queue[l])]
          /\ queue' = [queue EXCEPT ![l] = <<>>] /\ Len(<<>>) = 0
          /\ UNCHANGED <<offered, handled, wframe>>
      BY <1>7 DEF DropQueued, workerVars
    <2>2. CASE k = l
      <3>1. dropped'[k] = dropped[k] + Len(queue[k]) /\ queue'[k] = <<>>
        BY <1>0, <2>1, <2>2
      <3> QED
        BY <1>1, <1>9, <2>1, <3>1
    <2>3. CASE k # l
      <3>1. dropped'[k] = dropped[k] /\ queue'[k] = queue[k]
        BY <1>0, <2>1, <2>3
      <3> QED
        BY <1>1, <1>9, <2>1, <3>1
    <2> QED
      BY <2>2, <2>3
  <1> QED
    BY <1>2, <1>3, <1>4, <1>5, <1>6, <1>7, Writers
    DEF HandledWriters, DroppedOfferedWriters, QueueWriters, WframeWriters

---------------------------------------------------------------------------
(* Subscriptions and stop() *)

(* The kind of a frame in the worker's hand is that of a frame. *)
LEMMA KindIs ==
  ASSUME Data, InStep, Received, NEW l \in Lanes, wpc[l] = "fan"
  PROVE  frames[wframe[l]].kind \in Kinds
  <1>1. wframe[l] \in 1 .. Len(frames)
    BY DEF Data, InStep, Received
  <1>2. frames \in Seq([kind : Kinds, from : Producers])
    BY DEF Data
  <1>3. \A n \in 1 .. Len(frames) : frames[n].kind \in Kinds
    <2> DEFINE S == [kind : Kinds, from : Producers]
    <2>1. \A e \in S : e.kind \in Kinds
      OBVIOUS
    <2>3. frames \in Seq(S)
      BY <1>2
    <2> HIDE DEF S
    <2>2. \A n \in 1 .. Len(frames) : frames[n] \in S
      BY <2>3
    <2> QED
      BY <2>1, <2>2
  <1> QED
    BY <1>1, <1>3

(* A second late call would need a second copy after unsubscribe().        *)
LEMMA LatenessStep == Types /\ InStep /\ Received /\ Lateness /\ Steps => Lateness'
  <1> SUFFICES ASSUME Types, InStep, Received, Lateness, Steps PROVE Lateness'
    OBVIOUS
  <1> USE DEF Lateness
  <1>0. /\ hits \in [Lanes -> SUBSET Everybody] /\ late \in [Users -> Nat]
        /\ dsub \in [Users -> Kinds \cup {"none", "gone"}] /\ "data" \in Lanes
        /\ "gone" \notin Kinds
    BY DEF Types, Data, Lanes, Kinds
  <1>1. CASE UNCHANGED <<hits, late, dsub>>
    BY <1>1
  <1>2. ASSUME NEW l \in Lanes, Snapshot(l) PROVE Lateness'
    <2>1. hits' = [hits EXCEPT ![l] = Matching(l)] /\ UNCHANGED <<late, dsub>>
      BY <1>2 DEF Snapshot, subVars
    <2>2. CASE l = "data"
      <3>1. \A u \in Matching("data") : dsub[u] # "gone"
        BY <1>0, <1>2, <2>2, KindIs DEF Matching, Snapshot, Types
      <3> QED
        BY <1>0, <2>1, <2>2, <3>1
    <2>3. CASE l # "data"
      BY <1>0, <2>1, <2>3
    <2> QED
      BY <2>2, <2>3
  <1>3. CASE EnterUser
    <2>1. PICK u \in hits["data"] :
             /\ hits' = [hits EXCEPT !["data"] = @ \ {u}]
             /\ late' = [late EXCEPT ![u] = IF dsub[u] = "gone" THEN @ + 1 ELSE @]
      BY <1>3 DEF EnterUser
    <2>2. dsub' = dsub
      BY <1>3 DEF EnterUser, subVars
    <2>3. u \in Users /\ hits'["data"] = hits["data"] \ {u}
      BY <1>0, <2>1 DEF InStep, Subscribers
    <2>4. late[u] = 0
      BY <1>0, <2>1, <2>3
    <2>5. late'[u] = (IF dsub[u] = "gone" THEN 1 ELSE 0)
      BY <1>0, <2>1, <2>3, <2>4
    <2>6. \A v \in Users : v # u => late'[v] = late[v]
      BY <1>0, <2>1, <2>3
    <2> QED
      BY <2>2, <2>3, <2>5, <2>6
  <1>4. CASE EnterControl
    <2>1. hits'["data"] = hits["data"] /\ UNCHANGED <<late, dsub>>
      BY <1>0, <1>4 DEF EnterControl, subVars
    <2> QED
      BY <2>1
  <1>5. ASSUME NEW u \in Users, Subscribe(u) PROVE Lateness'
    <2>1. dsub[u] = "none" /\ UNCHANGED <<hits, late>>
      BY <1>5 DEF Subscribe, workerVars
    <2>2. \A v \in Users : v # u => dsub'[v] = dsub[v]
      BY <1>0, <1>5 DEF Subscribe
    <2> QED
      BY <1>0, <2>1, <2>2
  <1>6. ASSUME NEW u \in Users, Unsubscribe(u) PROVE Lateness'
    <2>1. dsub' = [dsub EXCEPT ![u] = "gone"] /\ UNCHANGED <<hits, late>>
      BY <1>6 DEF Unsubscribe, workerVars
    <2> QED
      BY <1>0, <2>1
  <1>7. CASE ClearSubs
    <2>1. \A u \in Users : dsub[u] = "gone" => dsub'[u] = "gone"
      BY <1>0, <1>7 DEF ClearSubs
    <2>2. UNCHANGED <<hits, late>>
      BY <1>7 DEF ClearSubs, workerVars
    <2> QED
      BY <2>1, <2>2
  <1> QED
    BY <1>1, <1>2, <1>3, <1>4, <1>5, <1>6, <1>7, Writers DEF HitsWriters, LateWriters, DsubWriters

(* A thread that is gone stays gone. *)
LEMMA GoneStays ==
  ASSUME Types, Steps
  PROVE  /\ \A l \in Lanes : wpc[l] = "exited" => wpc'[l] = "exited"
         /\ ppc["reader"] = "exited" => ppc'["reader"] = "exited"
  <1>0. /\ wpc \in [Lanes -> WorkerPoints] /\ ppc \in [Producers -> ProducerPoints]
        /\ {"control", "data"} \subseteq Lanes
    BY DEF Types, Data, Lanes
  <1>1. ASSUME NEW l \in Lanes PROVE Notified(l) # wpc => Notified(l) = [wpc EXCEPT ![l] = "check"]
                                                          /\ wpc[l] = "parked"
    BY <1>0 DEF Notified
  <1>2. ASSUME \E p \in Producers : EnqueueControl(p) \/ EnqueueData(p)
        PROVE  wpc' = wpc \/ \E l \in Lanes : wpc' = Notified(l)
    BY <1>0, <1>2 DEF EnqueueControl, EnqueueData
  <1>3. ASSUME NEW l \in Lanes, WakeWorker(l) PROVE wpc' = Notified(l)
    BY <1>3 DEF WakeWorker
  <1>4. ASSUME NEW l \in Lanes,
               Check(l) \/ Park(l) \/ Snapshot(l) \/ FannedOut(l) \/ LeaveCallback(l)
        PROVE  wpc[l] # "exited" /\ \E x \in WorkerPoints : wpc' = [wpc EXCEPT ![l] = x]
    BY <1>4 DEF Check, Park, Snapshot, FannedOut, LeaveCallback, WorkerPoints
  <1>5. ASSUME EnterUser \/ EnterControl
        PROVE  \E l \in Lanes : wpc[l] # "exited" /\ wpc' \in {wpc, [wpc EXCEPT ![l] = "call"]}
    BY <1>0, <1>5 DEF EnterUser, EnterControl
  <1>6. \A l \in Lanes : wpc[l] = "exited" => wpc'[l] = "exited"
    BY <1>0, <1>1, <1>2, <1>3, <1>4, <1>5, Writers DEF WpcWriters
  <1>7. ppc["reader"] = "exited" => ppc'["reader"] = "exited"
    <2>1. CASE ReaderTop \/ ReadDone \/ ReadFails
      BY <1>0, <2>1 DEF ReaderTop, ReadDone, ReadFails
    <2>2. ASSUME NEW p \in Producers,
                 Receive(p) \/ CountSubs(p) \/ EnqueueControl(p) \/ EnqueueData(p)
          PROVE  ppc[p] # "exited" /\ \E x \in ProducerPoints : ppc' = [ppc EXCEPT ![p] = x]
      BY <2>2 DEF Receive, CountSubs, EnqueueControl, EnqueueData, ProducerPoints
    <2> QED
      BY <1>0, <2>1, <2>2, Writers DEF PpcWriters
  <1> QED
    BY <1>6, <1>7

(* stop() goes on only when the thread it joins is gone.                   *)
LEMMA JoinedStep == Types /\ Joined /\ Steps => Joined'
  <1> SUFFICES ASSUME Types, Joined, Steps PROVE Joined'
    OBVIOUS
  <1> USE GoneStays DEF Joined, Lanes
  <1>1. CASE UNCHANGED stopper
    BY <1>1
  <1>2. CASE StopRequest
    BY <1>2 DEF StopRequest
  <1>3. CASE StopRunning
    BY <1>3 DEF StopRunning
  <1>4. CASE JoinReader
    BY <1>4 DEF JoinReader
  <1>5. ASSUME NEW l \in Lanes, WakeWorker(l) PROVE Joined'
    BY <1>5 DEF WakeWorker
  <1>6. ASSUME NEW l \in Lanes, JoinWorker(l) PROVE Joined'
    BY <1>6 DEF JoinWorker
  <1>7. CASE ClearSubs
    BY <1>7 DEF ClearSubs
  <1>8. ASSUME NEW l \in Lanes, DropQueued(l) PROVE Joined'
    BY <1>8 DEF DropQueued
  <1> QED
    BY <1>1, <1>2, <1>3, <1>4, <1>5, <1>6, <1>7, <1>8, Writers DEF StopperWriters

(* What has been received stays as it was.                                 *)
LEMMA FramesStay ==
  ASSUME Data, Steps, NEW n \in 1 .. Len(frames)
  PROVE  frames'[n] = frames[n] /\ n \in 1 .. Len(frames')
  BY ReceivedIs, Writers DEF FramesWriters

(* After the final drain nothing of the reader's comes in.                 *)
LEMMA EmptiedStep == Types /\ HasFrame /\ Received /\ Joined /\ Emptied /\ Steps => Emptied'
  <1> SUFFICES ASSUME Types, HasFrame, Received, Joined, Emptied, Steps, NEW l \in Lanes, Drained(l)',
                      NEW n \in In(queue'[l])
               PROVE  frames'[n].from # "reader"
    BY DEF Emptied
  <1>0. Len(frames) \in Nat /\ \A m \in In(queue[l]) : m \in Nat \ {0}
    BY InIs DEF Types, Data
  <1>1. Drained(l) \/ DropQueued(l)
    BY Writers
    DEF Lanes, Drained, DropQueued, StopperWriters, StopRequest, StopRunning, JoinReader, WakeWorker, JoinWorker, ClearSubs
  <1>2. CASE DropQueued(l)
    <2>1. queue'[l] = <<>>
      BY <1>2 DEF DropQueued, Types, Data
    <2> QED
      BY <2>1 DEF In
  <1>3. CASE Drained(l)
    <2>1. ASSUME n \in In(queue[l]) PROVE frames'[n].from # "reader"
      <3>1. n \in 1 .. Len(frames)
        BY <1>0, <2>1 DEF Received
      <3> QED
        BY <1>3, <2>1, <3>1, FramesStay DEF Emptied, Types
    <2>2. ASSUME NEW p \in Producers, ppc[p] \in {"control", "data"}, n = Handing(p)
          PROVE  frames'[n].from # "reader"
      <3>1. p # "reader"
        BY <1>3, <2>2 DEF Joined, Drained
      <3>2. n \in 1 .. Len(frames) /\ frames[n].from = p
        BY <2>2, HandingIs DEF Latest, Types
      <3> QED
        BY <3>1, <3>2, FramesStay DEF Types
    <2> QED
      BY <2>1, <2>2, QueueIs DEF Types
  <1> QED
    BY <1>1, <1>2, <1>3

(* Every step keeps the worker's copies to subscriptions that were active. *)
LEMMA HeldStep ==
  Types /\ InStep /\ Claims /\ Joined /\ Held /\ Steps => Held'
  <1> SUFFICES ASSUME Types, InStep, Claims, Joined, Held, Steps PROVE Held'
    OBVIOUS
  <1> USE DEF Held, Young
  <1>0. /\ csub \in [Controllers -> ControlStates] /\ hits \in [Lanes -> SUBSET Everybody]
        /\ cur \in [Lanes -> Everybody \cup {None}] /\ {"control", "data"} \subseteq Lanes
        /\ hits["control"] \subseteq Controllers /\ None \notin Controllers
    BY SubscribersAssumption DEF Types, Data, Lanes, InStep, Subscribers
  <1>1. CASE UNCHANGED <<csub, hits, cur>>
    <2>1. stopper \in {"drop", "dropControl", "done"} => stopper' \in {"drop", "dropControl", "done"}
      BY Writers
      DEF StopperWriters, StopRequest, StopRunning, JoinReader, WakeWorker, JoinWorker, ClearSubs,
          DropQueued
    <2> QED
      BY <1>1, <2>1
  <1>2. ASSUME NEW l \in Lanes, Snapshot(l) PROVE Held'
    <2>1. hits' = [hits EXCEPT ![l] = Matching(l)] /\ UNCHANGED <<csub, cur, stopper>>
      BY <1>2 DEF Snapshot, subVars, threadVars
    <2>2. hits'["control"] = hits["control"] \/ \A u \in hits'["control"] : csub[u] = "active"
      BY <1>0, <2>1 DEF Matching
    <2> QED
      BY <2>1, <2>2
  <1>3. CASE EnterUser
    <2>1. /\ hits'["control"] = hits["control"] /\ cur'["control"] = cur["control"]
          /\ UNCHANGED <<csub, stopper>>
      BY <1>0, <1>3 DEF EnterUser, subVars, threadVars
    <2> QED
      BY <2>1
  <1>4. CASE EnterControl
    <2>1. PICK u \in hits["control"] :
             /\ hits' = [hits EXCEPT !["control"] = @ \ {u}]
             /\ \/ ActiveFlag(u) /\ cur' = [cur EXCEPT !["control"] = u]
                \/ cur' = cur
      BY <1>4 DEF EnterControl
    <2>2. UNCHANGED <<csub, stopper>> /\ hits'["control"] \subseteq hits["control"]
      BY <1>0, <1>4, <2>1 DEF EnterControl, subVars, threadVars
    <2>3. cur'["control"] = cur["control"] \/ (cur'["control"] = u /\ csub[u] # "gone")
      BY <1>0, <2>1 DEF ActiveFlag
    <2> QED
      BY <2>2, <2>3
  <1>5. ASSUME NEW l \in Lanes, LeaveCallback(l) PROVE Held'
    <2>1. UNCHANGED <<csub, hits, stopper>> /\ cur'["control"] \in {cur["control"], None}
      BY <1>0, <1>5 DEF LeaveCallback, subVars, threadVars
    <2> QED
      BY <1>0, <2>1
  <1>6. ASSUME NEW u \in Controllers, SubscribeControl(u) \/ PublishControl(u) PROVE Held'
    <2>1. /\ UNCHANGED <<hits, cur, stopper>> /\ Young(u)
          /\ csub' \in {[csub EXCEPT ![u] = "joining"], [csub EXCEPT ![u] = "active"]}
      BY <1>6 DEF SubscribeControl, PublishControl, workerVars, threadVars
    <2>2. u \notin hits["control"]
      BY <2>1
    <2> QED
      BY <1>0, <2>1, <2>2
  <1>7. ASSUME NEW u \in Controllers, EraseControl(u) PROVE Held'
    <2>1. UNCHANGED <<hits, cur, stopper>>
      BY <1>7 DEF EraseControl, workerVars, threadVars
    <2>2. CASE csub[u] = "active"
      <3>1. csub' = [csub EXCEPT ![u] = "leaving"]
        BY <1>7, <2>2 DEF EraseControl
      <3> QED
        BY <1>0, <2>1, <3>1
    <2>3. CASE csub[u] = "cleared"
      <3>1. csub' = [csub EXCEPT ![u] = "gone"]
        BY <1>7, <2>3 DEF EraseControl
      <3>2. cur["control"] = None
        BY <1>0, <2>3 DEF Joined, InStep
      <3> QED
        BY <1>0, <2>1, <3>1, <3>2
    <2> QED
      BY <1>7, <2>2, <2>3 DEF EraseControl
  <1>8. ASSUME NEW u \in Controllers, DeactivateControl(u) PROVE Held'
    <2>1. UNCHANGED <<hits, cur, stopper>> /\ csub' = [csub EXCEPT ![u] = "waiting"]
      BY <1>8 DEF DeactivateControl, workerVars, threadVars
    <2> QED
      BY <1>0, <2>1
  <1>9. ASSUME NEW u \in Controllers, ControlIdle(u) PROVE Held'
    <2>1. UNCHANGED <<hits, cur, stopper>> /\ csub' = [csub EXCEPT ![u] = "gone"]
      BY <1>9 DEF ControlIdle, workerVars, threadVars
    <2>2. cur["control"] # u
      BY <1>9 DEF ControlIdle, Claims
    <2> QED
      BY <1>0, <2>1, <2>2
  <1>10. CASE ClearSubs
    <2>1. /\ UNCHANGED <<hits, cur>> /\ stopper' = "drop"
          /\ csub' = [u \in Controllers |-> IF csub[u] = "active" THEN "cleared" ELSE csub[u]]
      BY <1>10 DEF ClearSubs, workerVars
    <2> QED
      BY <1>0, <2>1
  <1> QED
    BY <1>1, <1>2, <1>3, <1>4, <1>5, <1>6, <1>7, <1>8, <1>9, <1>10, Writers
    DEF CsubWriters, HitsWriters, CurWriters

(* A subscription that was published or lost its list does not become new  *)
(* again; the logs grow only for one that a worker holds.                  *)
LEMMA SubscriptionIs ==
  ASSUME Types, Steps, NEW u \in Controllers
  PROVE  \/ csub'[u] = csub[u]
         \/ Young(u) /\ Young(u)'
         \/ PublishControl(u) /\ csub'[u] = "active"
         \/ ~Young(u) /\ ~Young(u)' /\ csub'[u] # "active"
  <1> USE DEF Young
  <1>0. csub \in [Controllers -> ControlStates]
    BY DEF Types, Data
  <1>1. ASSUME NEW v \in Controllers, SubscribeControl(v)
        PROVE  csub'[u] = csub[u] \/ (Young(u) /\ Young(u)')
    BY <1>0, <1>1 DEF SubscribeControl
  <1>2. ASSUME NEW v \in Controllers, PublishControl(v)
        PROVE  csub'[u] = csub[u] \/ (PublishControl(u) /\ csub'[u] = "active")
    <2>1. CASE u = v
      BY <1>0, <1>2, <2>1 DEF PublishControl
    <2>2. CASE u # v
      BY <1>0, <1>2, <2>2 DEF PublishControl
    <2> QED
      BY <2>1, <2>2
  <1>3. ASSUME NEW v \in Controllers, EraseControl(v) \/ DeactivateControl(v) \/ ControlIdle(v)
        PROVE  csub'[u] = csub[u] \/ (~Young(u) /\ ~Young(u)' /\ csub'[u] # "active")
    BY <1>0, <1>3 DEF EraseControl, DeactivateControl, ControlIdle
  <1>4. ASSUME ClearSubs
        PROVE  csub'[u] = csub[u] \/ (~Young(u) /\ ~Young(u)' /\ csub'[u] # "active")
    BY <1>0, <1>4 DEF ClearSubs
  <1> QED
    BY <1>1, <1>2, <1>3, <1>4, Writers DEF CsubWriters

(* A callback that is new, or subscribed after the end, is not entered.    *)
LEMMA UnloggedStep == Types /\ InStep /\ Joined /\ Held /\ Unlogged /\ Steps => Unlogged'
  <1> SUFFICES ASSUME Types, InStep, Joined, Held, Unlogged, Steps, NEW u \in Controllers,
                      Young(u)' \/ (csub'[u] = "active" /\ stopper' \in {"drop", "dropControl", "done"})
               PROVE  log'[u] = <<>>
    BY DEF Unlogged, Young
  <1>1. log'[u] = log[u] \/ (~Young(u) /\ stopper \notin {"drop", "dropControl", "done"} /\ csub'[u] = csub[u]
                             /\ stopper' = stopper)
    <2>1. ASSUME EnterControl PROVE csub' = csub /\ stopper' = stopper
      BY <2>1 DEF EnterControl, subVars, threadVars
    <2> QED
      BY <2>1, LoggedIs DEF Types, Held, Joined
  <1>2. log'[u] = log[u]
    BY <1>1 DEF Young
  <1>3. CASE Young(u)'
    BY <1>2, <1>3, SubscriptionIs DEF Unlogged, Young
  <1>4. CASE csub'[u] = "active" /\ stopper' \in {"drop", "dropControl", "done"}
    <2>1. stopper \in {"drop", "dropControl", "done"} \/ ClearSubs
      BY <1>4, Writers
      DEF StopperWriters, StopRequest, StopRunning, JoinReader, WakeWorker, JoinWorker, DropQueued
    <2>2. csub[u] = "active" \/ Young(u)
      BY <1>4, SubscriptionIs DEF Young, PublishControl
    <2>3. CASE ClearSubs
      BY <1>2, <1>4, <2>2, <2>3 DEF ClearSubs, Unlogged
    <2> QED
      BY <1>2, <2>1, <2>2, <2>3 DEF Unlogged
  <1> QED
    BY <1>3, <1>4

(* Before the first subscription no frame enters the control lane.         *)
LEMMA UntouchedStep == Types /\ Untouched /\ Steps => Untouched'
  <1> SUFFICES ASSUME Types, Untouched, Steps, \A u \in Controllers : Young(u)'
               PROVE  /\ queue'["control"] = <<>> /\ wframe'["control"] = 0
                      /\ \A p \in Producers : ppc'[p] # "control"
    BY DEF Untouched
  <1>0. /\ queue \in [Lanes -> Seq(Nat \ {0})] /\ wframe \in [Lanes -> Nat]
        /\ ppc \in [Producers -> ProducerPoints] /\ {"control", "data"} \subseteq Lanes
    BY DEF Types, Data, Lanes
  <1>1. \A u \in Controllers : Young(u)
    BY SubscriptionIs DEF Young
  <1>2. /\ queue["control"] = <<>> /\ wframe["control"] = 0
        /\ \A p \in Producers : ppc[p] # "control"
    BY <1>1 DEF Untouched
  <1>3. \A p \in Producers : ppc'[p] # "control"
    <2> SUFFICES ASSUME NEW p \in Producers, ppc'[p] = "control" PROVE FALSE
      OBVIOUS
    <2>1. ppc[p] = "count" /\ CountSubs(p)
      BY <1>2, PointIs DEF Types
    <2> QED
      BY <1>0, <1>1, <2>1 DEF CountSubs, Young
  <1>4. queue'["control"] = <<>>
    <2>1. ASSUME NEW p \in Producers, EnqueueControl(p) PROVE FALSE
      BY <1>2, <2>1 DEF EnqueueControl
    <2>2. ASSUME NEW p \in Producers, EnqueueData(p) PROVE queue'["control"] = queue["control"]
      BY <1>0, <2>2 DEF EnqueueData
    <2>3. ASSUME NEW l \in Lanes, Check(l) PROVE queue'["control"] = queue["control"]
      BY <1>0, <1>2, <2>3 DEF Check
    <2>4. ASSUME NEW l \in Lanes, DropQueued(l)
          PROVE  queue'["control"] \in {queue["control"], <<>>}
      BY <1>0, <2>4 DEF DropQueued
    <2> QED
      BY <1>2, <2>1, <2>2, <2>3, <2>4, Writers DEF QueueWriters
  <1>5. wframe'["control"] = 0
    BY <1>0, <1>2, TakenIs DEF Types, In
  <1> QED
    BY <1>3, <1>4, <1>5

---------------------------------------------------------------------------
(* The control lane *)

ControlQueue == queue["control"]
ControlFrame == wframe["control"]

(* What a step does to the frames in the control lane.                     *)
Still ==
  /\ ControlQueue' = ControlQueue /\ ControlFrame' = ControlFrame /\ log' = log
  /\ \A u \in Controllers :
       /\ log[u] = <<>> \/ since'[u] = since[u]
       /\ PublishControl(u) \/ (InHand(u)' => InHand(u))
Waited == \A u \in Controllers : since'[u] = since[u] /\ (InHand(u)' => InHand(u))
Added ==
  /\ \E p \in Producers : EnqueueControl(p) /\ ControlQueue' = Append(ControlQueue, Handing(p))
  /\ ~failed /\ failed' = failed
  /\ ControlFrame' = ControlFrame /\ log' = log /\ Waited
Cleared ==
  /\ ControlQueue' = <<>> /\ ControlFrame' = ControlFrame /\ log' = log /\ Waited
  /\ failed' = TRUE \/ DropQueued("control")
Taken ==
  /\ Check("control") /\ ControlQueue # <<>>
  /\ ControlFrame' = Head(ControlQueue) /\ ControlQueue' = Tail(ControlQueue)
  /\ log' = log /\ since' = since
  /\ ControlFrame = 0 /\ csub' = csub
  /\ \A u \in Controllers : InHand(u)' <=> csub[u] = "active"
Entered ==
  /\ ControlQueue' = ControlQueue /\ ControlFrame' = ControlFrame /\ since' = since
  /\ ControlFrame \in Nat \ {0}
  /\ \E u \in Controllers :
       /\ log' = [log EXCEPT ![u] = Append(@, ControlFrame)]
       /\ InHand(u) /\ ~InHand(u)' /\ ControlFrame > since[u]
       /\ \A v \in Controllers \ {u} : InHand(v)' => InHand(v)
Finished ==
  /\ ControlQueue' = ControlQueue /\ ControlFrame' = 0 /\ log' = log /\ since' = since
  /\ \A u \in Controllers : ~InHand(u)'

(* A step does one of six things to the control lane.                      *)
LEMMA ControlFlow ==
  ASSUME Types, InStep, Held, Unlogged, Steps
  PROVE  Still \/ Added \/ Cleared \/ Taken \/ Entered \/ Finished
  <1> USE DEF ControlQueue, ControlFrame, threadVars, producerVars, laneVars, workerVars, subVars
  <1>0. /\ queue \in [Lanes -> Seq(Nat \ {0})] /\ wframe \in [Lanes -> Nat]
        /\ wpc \in [Lanes -> WorkerPoints] /\ hits \in [Lanes -> SUBSET Everybody]
        /\ csub \in [Controllers -> ControlStates] /\ since \in [Controllers -> Nat]
        /\ "control" \in Lanes /\ "data" \in Lanes
    BY DEF Types, Data, Lanes
  <1>1. ASSUME UNCHANGED <<queue, wframe, log, since, csub, hits>>,
               wpc'["control"] = "fan" => wpc["control"] = "fan"
        PROVE  Still
    BY <1>1 DEF Still, InHand
  <1>2. ASSUME NEW l \in Lanes, wpc' = Notified(l)
        PROVE  wpc'["control"] = "fan" <=> wpc["control"] = "fan"
    BY <1>0, <1>2 DEF Notified
  <1>3. CASE ReaderTop \/ ReadDone \/ ReadFails
    BY <1>1, <1>3 DEF ReaderTop, ReadDone, ReadFails
  <1>4. ASSUME NEW p \in Producers, Receive(p) \/ CountSubs(p) PROVE Still
    BY <1>1, <1>4 DEF Receive, CountSubs
  <1>5. ASSUME NEW p \in Producers, EnqueueControl(p) PROVE Still \/ Cleared \/ Added
    <2>1. UNCHANGED <<wframe, log, since, csub, hits>>
      BY <1>5 DEF EnqueueControl
    <2>2. wpc'["control"] = "fan" <=> wpc["control"] = "fan"
      BY <1>0, <1>2, <1>5 DEF EnqueueControl
    <2>3. Waited
      BY <2>1, <2>2 DEF Waited, InHand
    <2>4. CASE queue' = queue
      BY <1>1, <2>1, <2>2, <2>4
    <2>5. CASE queue' = [queue EXCEPT !["control"] = <<>>] /\ failed' = TRUE
      BY <1>0, <2>1, <2>3, <2>5 DEF Cleared
    <2>6. CASE /\ queue' = [queue EXCEPT !["control"] = Append(@, Handing(p))]
               /\ ~failed /\ failed' = failed
      BY <1>0, <1>5, <2>1, <2>3, <2>6 DEF Added
    <2> QED
      BY <1>5, <2>4, <2>5, <2>6 DEF EnqueueControl
  <1>6. ASSUME NEW p \in Producers, EnqueueData(p) PROVE Still
    <2>1. UNCHANGED <<wframe, log, since, csub, hits>> /\ queue'["control"] = queue["control"]
      BY <1>0, <1>6 DEF EnqueueData
    <2>2. wpc'["control"] = "fan" <=> wpc["control"] = "fan"
      BY <1>0, <1>2, <1>6 DEF EnqueueData
    <2> QED
      BY <2>1, <2>2 DEF Still, InHand
  <1>7. ASSUME Check("control") PROVE Still \/ Taken
    <2>1. CASE ~stopReq /\ queue["control"] # <<>>
      <3>1. /\ wframe'["control"] = Head(queue["control"])
            /\ queue'["control"] = Tail(queue["control"])
            /\ wpc["control"] = "check" /\ wpc'["control"] = "fan"
            /\ UNCHANGED <<log, since, csub, hits>>
        BY <1>0, <1>7, <2>1 DEF Check
      <3>2. hits["control"] = {} /\ wframe["control"] = 0
        BY <1>0, <3>1 DEF InStep
      <3> QED
        BY <1>7, <2>1, <3>1, <3>2 DEF Taken, InHand
    <2>2. CASE ~(~stopReq /\ queue["control"] # <<>>)
      <3>1. /\ UNCHANGED <<queue, wframe, log, since, csub, hits>>
            /\ wpc'["control"] # "fan"
        BY <1>0, <1>7, <2>2 DEF Check
      <3> QED
        BY <1>1, <3>1
    <2> QED
      BY <2>1, <2>2
  <1>8. ASSUME Check("data") PROVE Still
    <2>1. /\ queue'["control"] = queue["control"] /\ wframe'["control"] = wframe["control"]
          /\ wpc'["control"] = wpc["control"] /\ UNCHANGED <<log, since, csub, hits>>
      BY <1>0, <1>8 DEF Check
    <2> QED
      BY <2>1 DEF Still, InHand
  <1>9. ASSUME NEW l \in Lanes, Park(l) \/ LeaveCallback(l) PROVE Still
    <2>1. UNCHANGED <<queue, wframe, log, since, csub, hits>>
      BY <1>9 DEF Park, LeaveCallback
    <2>2. wpc'["control"] = "fan" => wpc["control"] = "fan"
      BY <1>0, <1>9 DEF Park, LeaveCallback
    <2> QED
      BY <1>1, <2>1, <2>2
  <1>10. ASSUME Snapshot("control") PROVE Still
    <2>1. /\ UNCHANGED <<queue, wframe, log, since, csub>> /\ wpc["control"] = "fan"
          /\ wpc'["control"] = "hits"
          /\ hits'["control"] = { u \in Controllers : csub[u] = "active" }
      BY <1>0, <1>10 DEF Snapshot, Matching
    <2> QED
      BY <2>1 DEF Still, InHand
  <1>11. ASSUME Snapshot("data") PROVE Still
    <2>1. /\ UNCHANGED <<queue, wframe, log, since, csub>> /\ wpc'["control"] = wpc["control"]
          /\ hits'["control"] = hits["control"]
      BY <1>0, <1>11 DEF Snapshot
    <2> QED
      BY <2>1 DEF Still, InHand
  <1>12. ASSUME FannedOut("control") PROVE Finished
    <2>1. /\ UNCHANGED <<queue, log, since, hits>> /\ wframe'["control"] = 0
          /\ wpc'["control"] = "check" /\ hits["control"] = {}
      BY <1>0, <1>12 DEF FannedOut
    <2> QED
      BY <2>1 DEF Finished, InHand
  <1>13. ASSUME FannedOut("data") PROVE Still
    <2>1. /\ UNCHANGED <<queue, log, since, csub, hits>> /\ wframe'["control"] = wframe["control"]
          /\ wpc'["control"] = wpc["control"]
      BY <1>0, <1>13 DEF FannedOut
    <2> QED
      BY <2>1 DEF Still, InHand
  <1>14. ASSUME NEW l \in Lanes, WakeWorker(l) \/ JoinWorker(l) PROVE Still
    <2>1. CASE WakeWorker(l)
      BY <1>1, <1>2, <2>1 DEF WakeWorker
    <2>2. CASE JoinWorker(l)
      BY <1>1, <2>2 DEF JoinWorker
    <2> QED
      BY <1>14, <2>1, <2>2
  <1>15. CASE EnterUser
    <2>1. /\ UNCHANGED <<queue, wframe, log, since, csub>>
          /\ hits'["control"] = hits["control"] /\ wpc'["control"] = wpc["control"]
      BY <1>0, <1>15 DEF EnterUser
    <2> QED
      BY <2>1 DEF Still, InHand
  <1>16. CASE EnterControl
    <2>1. PICK u \in hits["control"] :
             /\ hits' = [hits EXCEPT !["control"] = @ \ {u}]
             /\ IF ActiveFlag(u) /\ wframe["control"] > since[u]
                THEN /\ log' = [log EXCEPT ![u] = Append(@, wframe["control"])]
                     /\ wpc' = [wpc EXCEPT !["control"] = "call"]
                ELSE UNCHANGED <<log, wpc>>
      BY <1>16 DEF EnterControl
    <2>2. /\ UNCHANGED <<queue, wframe, since, csub>> /\ wpc["control"] = "hits"
          /\ wframe["control"] \in Nat \ {0} /\ u \in Controllers
          /\ hits'["control"] = hits["control"] \ {u}
      BY <1>0, <1>16, <2>1 DEF EnterControl, InStep, Subscribers
    <2>3. CASE ActiveFlag(u) /\ wframe["control"] > since[u]
      <3>1. /\ log' = [log EXCEPT ![u] = Append(@, wframe["control"])]
            /\ wpc'["control"] = "call"
        BY <1>0, <2>1, <2>3
      <3> QED
        BY <2>2, <2>3, <3>1 DEF Entered, InHand
    <2>4. CASE ~(ActiveFlag(u) /\ wframe["control"] > since[u])
      BY <2>1, <2>2, <2>4 DEF Still, InHand
    <2> QED
      BY <2>3, <2>4
  <1>17. ASSUME NEW u \in Users, Subscribe(u) \/ Unsubscribe(u) PROVE Still
    BY <1>1, <1>17 DEF Subscribe, Unsubscribe
  <1>18. ASSUME NEW u \in Controllers, SubscribeControl(u) PROVE Still
    <2>1. /\ UNCHANGED <<queue, wframe, log, hits, wpc>> /\ log[u] = <<>>
          /\ csub' = [csub EXCEPT ![u] = "joining"]
          /\ \A v \in Controllers : v # u => since'[v] = since[v]
      BY <1>0, <1>18 DEF SubscribeControl, Unlogged, Young
    <2> QED
      BY <1>0, <2>1 DEF Still, InHand
  <1>19. ASSUME NEW u \in Controllers, PublishControl(u) PROVE Still
    <2>1. /\ UNCHANGED <<queue, wframe, log, hits, wpc, since>> /\ log[u] = <<>>
          /\ csub' = [csub EXCEPT ![u] = "active"]
      BY <1>0, <1>19 DEF PublishControl, Unlogged, Young
    <2> QED
      BY <1>0, <1>19, <2>1 DEF Still, InHand
  <1>20. ASSUME NEW u \in Controllers,
                EraseControl(u) \/ DeactivateControl(u) \/ ControlIdle(u)
         PROVE  Still
    <2>1. /\ UNCHANGED <<queue, wframe, log, hits, wpc, since>>
          /\ \A v \in Controllers : csub'[v] = "active" => csub[v] = "active"
      BY <1>0, <1>20 DEF EraseControl, DeactivateControl, ControlIdle
    <2> QED
      BY <2>1 DEF Still, InHand
  <1>21. CASE StopRequest \/ StopRunning \/ JoinReader
    BY <1>1, <1>21 DEF StopRequest, StopRunning, JoinReader
  <1>22. CASE ClearSubs
    <2>1. /\ UNCHANGED <<queue, wframe, log, hits, wpc, since>>
          /\ \A v \in Controllers : csub'[v] = "active" => csub[v] = "active"
      BY <1>0, <1>22 DEF ClearSubs
    <2> QED
      BY <2>1 DEF Still, InHand
  <1>23. ASSUME NEW l \in Lanes, DropQueued(l)
         PROVE  Still \/ Cleared
    <2>1. UNCHANGED <<wframe, log, hits, wpc, since, csub>> /\ queue' = [queue EXCEPT ![l] = <<>>]
      BY <1>0, <1>23 DEF DropQueued
    <2>2. CASE l = "control"
      BY <1>0, <1>23, <2>1, <2>2 DEF Cleared, Waited, InHand
    <2>3. CASE l # "control"
      BY <1>0, <2>1, <2>3 DEF Still, InHand
    <2> QED
      BY <2>2, <2>3
  <1>24. \A l \in Lanes : l = "control" \/ l = "data"
    BY DEF Lanes
  <1> QED
    BY <1>3, <1>4, <1>5, <1>6, <1>7, <1>8, <1>9, <1>10, <1>11, <1>12, <1>13, <1>14, <1>15, <1>16,
       <1>17, <1>18, <1>19, <1>20, <1>21, <1>22, <1>23, <1>24, Zenon DEF Steps

(* Frames in the lane and in the logs, all of them received. *)
LEMMA LaneIs ==
  ASSUME Types, Received
  PROVE  /\ ControlQueue \in Seq(Nat) /\ ControlQueue \in Seq(Nat \ {0})
         /\ In(ControlQueue) \subseteq 1 .. Len(frames)
         /\ ControlFrame \in 0 .. Len(frames) /\ ControlFrame \in Nat
         /\ Len(frames) \in Nat
         /\ \A u \in Controllers : /\ log[u] \in Seq(Nat) /\ In(log[u]) \subseteq 1 .. Len(frames)
                                   /\ since[u] \in Nat
  <1>1. /\ queue["control"] \in Seq(Nat \ {0}) /\ wframe["control"] \in Nat
        /\ Len(frames) \in Nat
    BY DEF Types, Data, Lanes
  <1>2. \A n \in In(queue["control"]) : n \in Nat \ {0} /\ n <= Len(frames)
    BY <1>1, InIs DEF Received, Lanes
  <1>3. ASSUME NEW u \in Controllers
        PROVE  /\ log[u] \in Seq(Nat \ {0}) /\ since[u] \in Nat
               /\ \A n \in In(log[u]) : n \in Nat \ {0} /\ n <= Len(frames)
    <2>1. log[u] \in Seq(Nat \ {0}) /\ since[u] \in Nat
      BY DEF Types, Data
    <2> QED
      BY <2>1, InIs DEF Received
  <1>4. wframe["control"] <= Len(frames)
    BY DEF Received, Lanes
  <1>5. \A s \in Seq(Nat \ {0}) : s \in Seq(Nat)
    OBVIOUS
  <1>6. In(queue["control"]) \subseteq 1 .. Len(frames)
    BY <1>1, <1>2
  <1>7. wframe["control"] \in 0 .. Len(frames)
    BY <1>1, <1>4
  <1>8. ASSUME NEW u \in Controllers
        PROVE  log[u] \in Seq(Nat) /\ In(log[u]) \subseteq 1 .. Len(frames) /\ since[u] \in Nat
    <2>1. ASSUME NEW n \in In(log[u]) PROVE n \in 1 .. Len(frames)
      <3>1. n \in Nat \ {0} /\ n <= Len(frames)
        BY <1>3
      <3> QED
        BY <1>1, <3>1
    <2> QED
      BY <1>3, <1>5, <2>1
  <1>9. queue["control"] \in Seq(Nat)
    BY <1>1, <1>5
  <1> QED
    BY <1>1, <1>6, <1>7, <1>8, <1>9, Zenon DEF ControlQueue, ControlFrame

(* The order of frames that have been received does not change.            *)
LEMMA OlderStays ==
  ASSUME Data, Steps
  PROVE  /\ \A m, n \in 1 .. Len(frames) : Older(frames', m, n) <=> Older(frames, m, n)
         /\ \A s \in Seq(Nat) : In(s) \subseteq 1 .. Len(frames) /\ Ascending(frames, s)
                                  => Ascending(frames', s)
  <1>1. ASSUME NEW m \in 1 .. Len(frames), NEW n \in 1 .. Len(frames)
        PROVE  Older(frames', m, n) <=> Older(frames, m, n)
    BY FramesStay DEF Older
  <1>2. ASSUME NEW s \in Seq(Nat), In(s) \subseteq 1 .. Len(frames), Ascending(frames, s)
        PROVE  Ascending(frames', s)
    <2>1. \A i \in 1 .. Len(s) : s[i] \in 1 .. Len(frames)
      BY <1>2 DEF In
    <2> QED
      BY <1>1, <1>2, <2>1 DEF Ascending
  <1> QED
    BY <1>1, <1>2

(* The order within the lane after a step, by the frames received before.  *)
OrderIn(f, q, w, logs, newest, inhand) ==
  /\ Ascending(f, q)
  /\ w # 0 => \A n \in In(q) : Older(f, w, n)
  /\ \A u \in Controllers :
       /\ Ascending(f, logs[u])
       /\ \A m \in In(logs[u]) : m > newest[u]
       /\ u \in inhand => \A m \in In(logs[u]) : Older(f, m, w)
       /\ \A m \in In(logs[u]), n \in In(q) : Older(f, m, n)

InHands == { u \in Controllers : InHand(u) }

(* Order, in terms of the lane's contents.                                 *)
LEMMA OrderIs ==
  Order <=> OrderIn(frames, ControlQueue, ControlFrame, log, since, InHands)
  BY DEF Order, OrderIn, ControlQueue, ControlFrame, InHands

(* A step keeps the order of the frames received before it.                *)
LEMMA OrderFlow ==
  ASSUME Types, Received, HasFrame, InStep, Held, Unlogged, Order, NotYet, Steps
  PROVE  OrderIn(frames, ControlQueue', ControlFrame', log', since', InHands')
  <1> DEFINE after == OrderIn(frames, ControlQueue', ControlFrame', log', since', InHands')
  <1> USE DEF OrderIn
  <1>0. OrderIn(frames, ControlQueue, ControlFrame, log, since, InHands)
    BY OrderIs
  <1>1. /\ ControlQueue \in Seq(Nat) /\ ControlQueue \in Seq(Nat \ {0})
        /\ In(ControlQueue) \subseteq 1 .. Len(frames)
        /\ ControlFrame \in 0 .. Len(frames) /\ ControlFrame \in Nat
        /\ Len(frames) \in Nat
        /\ \A u \in Controllers : /\ log[u] \in Seq(Nat) /\ In(log[u]) \subseteq 1 .. Len(frames)
                                  /\ since[u] \in Nat
    BY LaneIs
  <1>2. In(<<>>) = {} /\ Ascending(frames, <<>>)
    BY DEF In, Ascending
  <1>3. CASE Still
    <2>1. \A u \in Controllers : log[u] # <<>> => since'[u] = since[u]
                                                  /\ (u \in InHands' => u \in InHands)
      BY <1>3 DEF Still, InHands, Unlogged, Young, PublishControl
    <2>2. \A u \in Controllers : log[u] = <<>> => In(log[u]) = {}
      BY <1>2
    <2> QED
      BY <1>0, <1>3, <2>1, <2>2 DEF Still
  <1>4. CASE Added
    <2>1. PICK p \in Producers : EnqueueControl(p) /\ ControlQueue' = Append(ControlQueue, Handing(p))
      BY <1>4 DEF Added
    <2> DEFINE h == Handing(p)
    <2>2. ppc[p] = "control"
      BY <2>1 DEF EnqueueControl
    <2>3. h \in 1 .. Len(frames) /\ Latest(p, h)
      BY <2>2, HandingIs DEF Types
    <2>4. /\ h # ControlFrame /\ h \notin In(ControlQueue)
          /\ \A u \in Controllers : h \notin In(log[u])
      BY <2>2, <2>3 DEF NotYet, ControlFrame, ControlQueue
    <2> HIDE DEF h
    <2>5. \A m \in 1 .. Len(frames) : m # h => Older(frames, m, h)
      BY <1>1, <2>3 DEF Older, Latest
    <2>6. /\ In(ControlQueue') = In(ControlQueue) \cup {h}
          /\ Ascending(frames, ControlQueue')
      <3>1. h \in Nat
        BY <1>1, <2>3
      <3>2. In(Append(ControlQueue, h)) = In(ControlQueue) \cup {h}
        BY <1>1, <3>1, InIs
      <3>3. Ascending(frames, Append(ControlQueue, h))
        BY <1>0, <1>1, <2>4, <2>5, <3>1, AscendingIs
      <3> QED
        BY <2>1, <3>2, <3>3 DEF h
    <2>7. ControlFrame # 0 => Older(frames, ControlFrame, h)
      BY <1>1, <2>4, <2>5
    <2>8. \A u \in Controllers : \A m \in In(log[u]) : Older(frames, m, h)
      BY <1>1, <2>4, <2>5
    <2>9. /\ ControlFrame' = ControlFrame /\ log' = log
          /\ \A u \in Controllers : since'[u] = since[u] /\ (u \in InHands' => u \in InHands)
      BY <1>4 DEF Added, Waited, InHands
    <2> QED
      BY <1>0, <2>6, <2>7, <2>8, <2>9
  <1>5. CASE Cleared
    <2>1. \A u \in Controllers : since'[u] = since[u] /\ (u \in InHands' => u \in InHands)
      BY <1>5 DEF Cleared, Waited, InHands
    <2> QED
      BY <1>0, <1>2, <1>5, <2>1 DEF Cleared
  <1>6. CASE Taken
    <2>1. /\ ControlFrame' = Head(ControlQueue) /\ ControlQueue' = Tail(ControlQueue)
          /\ log' = log /\ since' = since /\ ControlQueue # <<>>
      BY <1>6 DEF Taken
    <2>2. In(ControlQueue) = {Head(ControlQueue)} \cup In(Tail(ControlQueue))
      BY <1>1, <2>1, InIs
    <2>3. /\ Ascending(frames, Tail(ControlQueue))
          /\ \A m \in In(Tail(ControlQueue)) : Older(frames, Head(ControlQueue), m)
      BY <1>0, <1>1, <2>1, AscendingIs
    <2> QED
      BY <1>0, <2>1, <2>2, <2>3
  <1>7. CASE Entered
    <2>1. PICK u \in Controllers :
             /\ log' = [log EXCEPT ![u] = Append(@, ControlFrame)]
             /\ InHand(u) /\ ~InHand(u)' /\ ControlFrame > since[u]
             /\ \A v \in Controllers \ {u} : InHand(v)' => InHand(v)
      BY <1>7 DEF Entered
    <2>2. /\ ControlQueue' = ControlQueue /\ ControlFrame' = ControlFrame /\ since' = since
          /\ ControlFrame # 0
      BY <1>7 DEF Entered
    <2>3. /\ log'[u] = Append(log[u], ControlFrame)
          /\ \A v \in Controllers \ {u} : log'[v] = log[v]
      BY <2>1 DEF Types, Data
    <2>4. /\ In(log'[u]) = In(log[u]) \cup {ControlFrame}
          /\ Ascending(frames, log'[u])
      <3>1. \A m \in In(log[u]) : Older(frames, m, ControlFrame)
        BY <1>0, <2>1 DEF InHands
      <3>2. log[u] \in Seq(Nat) /\ ControlFrame \in Nat
        BY <1>1
      <3>3. In(Append(log[u], ControlFrame)) = In(log[u]) \cup {ControlFrame}
        BY <3>2, InIs
      <3>4. Ascending(frames, Append(log[u], ControlFrame))
        BY <1>0, <3>1, <3>2, AscendingIs
      <3> QED
        BY <2>3, <3>3, <3>4
    <2>5. u \notin InHands' /\ \A v \in Controllers \ {u} : v \in InHands' => v \in InHands
      BY <2>1 DEF InHands
    <2>6. /\ Ascending(frames, log'[u]) /\ \A m \in In(log'[u]) : m > since[u]
          /\ \A m \in In(log'[u]), n \in In(ControlQueue) : Older(frames, m, n)
      BY <1>0, <2>1, <2>2, <2>4
    <2> QED
      BY <1>0, <2>2, <2>3, <2>5, <2>6
  <1>8. CASE Finished
    <2>1. InHands' = {}
      BY <1>8 DEF Finished, InHands
    <2> QED
      BY <1>0, <1>8, <2>1 DEF Finished
  <1> QED
    BY <1>3, <1>4, <1>5, <1>6, <1>7, <1>8, ControlFlow

(* What is in the lane after a step had been received before it. *)
LEMMA FlowReceived ==
  ASSUME Types, Received, HasFrame, InStep, Steps
  PROVE  /\ In(ControlQueue') \subseteq 1 .. Len(frames) /\ ControlFrame' \in 0 .. Len(frames)
         /\ \A u \in Controllers : In(log'[u]) \subseteq 1 .. Len(frames)
         /\ ControlQueue' \in Seq(Nat) /\ \A u \in Controllers : log'[u] \in Seq(Nat)
  <1>1. /\ ControlQueue \in Seq(Nat) /\ ControlQueue \in Seq(Nat \ {0})
        /\ In(ControlQueue) \subseteq 1 .. Len(frames)
        /\ ControlFrame \in 0 .. Len(frames) /\ ControlFrame \in Nat
        /\ Len(frames) \in Nat
        /\ \A u \in Controllers : /\ log[u] \in Seq(Nat) /\ In(log[u]) \subseteq 1 .. Len(frames)
    BY LaneIs
  <1>2. In(ControlQueue') \subseteq 1 .. Len(frames)
    <2>1. \A p \in Producers : ppc[p] \in {"control", "data"} => Handing(p) \in 1 .. Len(frames)
      BY HandingIs DEF Types
    <2> QED
      BY <1>1, <2>1, QueueIs DEF ControlQueue, Types, Lanes
  <1>3. ControlFrame' \in 0 .. Len(frames)
    <2>1. ControlFrame' \in {ControlFrame, 0} \cup In(ControlQueue)
      BY TakenIs DEF ControlQueue, ControlFrame, Types, Lanes
    <2> QED
      BY <1>1, <2>1
  <1>4. ASSUME NEW u \in Controllers PROVE In(log'[u]) \subseteq 1 .. Len(frames)
    <2>1. CASE log'[u] = log[u]
      BY <1>1, <2>1
    <2>2. CASE log'[u] = Append(log[u], ControlFrame) /\ ControlFrame \in Nat \ {0}
      <3>1. In(Append(log[u], ControlFrame)) = In(log[u]) \cup {ControlFrame}
        BY <1>1, InIs
      <3> QED
        BY <1>1, <2>2, <3>1
    <2> QED
      BY <2>1, <2>2, LoggedIs DEF ControlFrame, Types
  <1>5. ControlQueue' \in Seq(Nat) /\ \A u \in Controllers : log'[u] \in Seq(Nat)
    <2>1. queue' \in [Lanes -> Seq(Nat \ {0})] /\ log' \in [Controllers -> Seq(Nat \ {0})]
      BY DEF Types, Data
    <2>2. \A s \in Seq(Nat \ {0}) : s \in Seq(Nat)
      OBVIOUS
    <2>3. queue'["control"] \in Seq(Nat \ {0})
          /\ \A u \in Controllers : log'[u] \in Seq(Nat \ {0})
      BY <2>1 DEF Lanes
    <2> QED
      BY <2>2, <2>3 DEF ControlQueue
  <1> QED
    BY <1>2, <1>3, <1>4, <1>5

(* Every step keeps the order in the lane and in the logs.                 *)
LEMMA OrderStep ==
  Types /\ Received /\ HasFrame /\ InStep /\ Held /\ Unlogged /\ Order /\ NotYet /\ InStep' /\ Steps
    => Order'
  <1> SUFFICES ASSUME Types, Received, HasFrame, InStep, Held, Unlogged, Order, NotYet, InStep',
                      Steps
               PROVE  Order'
    OBVIOUS
  <1>1. OrderIn(frames, ControlQueue', ControlFrame', log', since', InHands')
    BY OrderFlow
  <1>2. /\ In(ControlQueue') \subseteq 1 .. Len(frames) /\ ControlFrame' \in 0 .. Len(frames)
        /\ \A u \in Controllers : In(log'[u]) \subseteq 1 .. Len(frames)
        /\ ControlQueue' \in Seq(Nat) /\ \A u \in Controllers : log'[u] \in Seq(Nat)
    BY FlowReceived
  <1>3. Data
    BY DEF Types
  <1>4. \A u \in InHands' : ControlFrame' # 0
    BY DEF InHands, InHand, InStep, ControlFrame, Lanes
  <1>5. /\ Ascending(frames', ControlQueue')
        /\ \A u \in Controllers : Ascending(frames', log'[u])
    BY <1>1, <1>2, <1>3, OlderStays DEF OrderIn
  <1>6. ControlFrame' # 0 => \A n \in In(ControlQueue') : Older(frames', ControlFrame', n)
    BY <1>1, <1>2, <1>3, OlderStays DEF OrderIn
  <1>7. \A u \in Controllers :
          /\ \A m \in In(log'[u]) : m > since'[u]
          /\ u \in InHands' => \A m \in In(log'[u]) : Older(frames', m, ControlFrame')
          /\ \A m \in In(log'[u]), n \in In(ControlQueue') : Older(frames', m, n)
    <2> SUFFICES ASSUME NEW u \in Controllers
                 PROVE  /\ \A m \in In(log'[u]) : m > since'[u]
                        /\ u \in InHands' => \A m \in In(log'[u]) : Older(frames', m, ControlFrame')
                        /\ \A m \in In(log'[u]), n \in In(ControlQueue') : Older(frames', m, n)
      OBVIOUS
    <2>1. \A m \in In(log'[u]) : m > since'[u]
      BY <1>1 DEF OrderIn
    <2>2. ASSUME u \in InHands', NEW m \in In(log'[u]) PROVE Older(frames', m, ControlFrame')
      <3>1. Older(frames, m, ControlFrame')
        BY <1>1, <2>2 DEF OrderIn
      <3>2. m \in 1 .. Len(frames) /\ ControlFrame' \in 1 .. Len(frames)
        BY <1>2, <1>4, <2>2, LaneIs
      <3> QED
        BY <1>3, <3>1, <3>2, OlderStays
    <2>3. ASSUME NEW m \in In(log'[u]), NEW n \in In(ControlQueue') PROVE Older(frames', m, n)
      <3>1. Older(frames, m, n)
        BY <1>1 DEF OrderIn
      <3> QED
        BY <1>2, <1>3, <3>1, OlderStays
    <2> QED
      BY <2>1, <2>2, <2>3
  <1>8. OrderIn(frames', ControlQueue', ControlFrame', log', since', InHands')
    BY <1>5, <1>6, <1>7 DEF OrderIn
  <1> QED
    BY <1>8, OrderIs DEF Order, OrderIn, ControlQueue, ControlFrame, InHands

(* Every step keeps a frame that is to be offered out of the lane.         *)
LEMMA NotYetStep ==
  Types /\ Received /\ HasFrame /\ InStep /\ Held /\ Unlogged /\ NotYet /\ Steps => NotYet'
  <1> SUFFICES ASSUME Types, Received, HasFrame, InStep, Held, Unlogged, NotYet, Steps,
                      NEW p \in Producers, ppc'[p] \in {"count", "control"},
                      NEW n \in 1 .. Len(frames'), Latest(p, n)'
               PROVE  /\ n # ControlFrame' /\ n \notin In(ControlQueue')
                      /\ \A u \in Controllers : n \notin In(log'[u])
    BY DEF NotYet, ControlFrame, ControlQueue
  <1>1. /\ In(ControlQueue') \subseteq 1 .. Len(frames) /\ ControlFrame' \in 0 .. Len(frames)
        /\ \A u \in Controllers : In(log'[u]) \subseteq 1 .. Len(frames)
        /\ Len(frames) \in Nat
    BY FlowReceived, LaneIs
  <1>2. CASE n = Len(frames) + 1
    BY <1>1, <1>2
  <1>3. CASE n # Len(frames) + 1
    <2>1. Latest(p, n) /\ ~(Receive(p) /\ ~Latest(p, n))
      BY <1>3, LatestIs DEF Types
    <2>2. ~Receive(p)
      <3> SUFFICES ASSUME Receive(p) PROVE FALSE
        OBVIOUS
      <3>1. frames'[Len(frames) + 1].from = p /\ Len(frames') = Len(frames) + 1
        BY ReceivedIs DEF Types
      <3> QED
        BY <1>1, <1>3, <3>1 DEF Latest
    <2>3. ppc[p] \in {"count", "control"} /\ ~EnqueueControl(p)
      <3>1. ppc[p] \in {"count", "control"}
        BY <2>2, PointIs DEF Types
      <3>2. EnqueueControl(p) => ppc'[p] = "data"
        BY DEF EnqueueControl, Types, Data
      <3> QED
        BY <3>1, <3>2
    <2>4. n \in 1 .. Len(frames)
      BY <2>1 DEF Latest
    <2>5. /\ n # ControlFrame /\ n \notin In(ControlQueue)
          /\ \A u \in Controllers : n \notin In(log[u])
      BY <2>1, <2>3, <2>4 DEF NotYet, ControlFrame, ControlQueue
    <2>6. n \notin In(ControlQueue')
      <3>1. ASSUME NEW q \in Producers, EnqueueControl(q) PROVE n # Handing(q)
        <4>1. Latest(q, Handing(q))
          BY <3>1, HandingIs DEF EnqueueControl, Types
        <4> QED
          BY <2>1, <2>3, <3>1, <4>1 DEF Latest
      <3>2. ASSUME Added PROVE n \notin In(ControlQueue')
        <4>1. PICK q \in Producers :
                 EnqueueControl(q) /\ ControlQueue' = Append(ControlQueue, Handing(q))
          BY <3>2 DEF Added
        <4>2. Handing(q) \in Nat \ {0}
          BY <4>1, HandingIs DEF EnqueueControl, Types
        <4>3. In(Append(ControlQueue, Handing(q))) = In(ControlQueue) \cup {Handing(q)}
          <5>1. ControlQueue \in Seq(Nat \ {0})
            BY LaneIs
          <5> QED
            BY <4>2, <5>1, InIs
        <4> QED
          BY <2>5, <3>1, <4>1, <4>3
      <3>3. ASSUME Taken PROVE In(ControlQueue') \subseteq In(ControlQueue)
        BY <3>3, LaneIs, InIs DEF Taken
      <3>4. ASSUME Cleared PROVE In(ControlQueue') = {}
        BY <3>4 DEF Cleared, In
      <3> QED
        BY <2>5, <3>2, <3>3, <3>4, ControlFlow DEF Still, Entered, Finished
    <2>7. n # ControlFrame'
      <3>1. ControlFrame' \in {ControlFrame, 0} \cup In(ControlQueue)
        BY TakenIs DEF ControlQueue, ControlFrame, Types, Lanes
      <3> QED
        BY <2>4, <2>5, <3>1
    <2>8. ASSUME NEW u \in Controllers PROVE n \notin In(log'[u])
      <3>1. CASE log'[u] = log[u]
        BY <2>5, <3>1
      <3>2. CASE log'[u] = Append(log[u], ControlFrame) /\ ControlFrame \in Nat \ {0}
        <4>1. log[u] \in Seq(Nat) /\ ControlFrame \in Nat
          BY LaneIs
        <4>2. In(Append(log[u], ControlFrame)) = In(log[u]) \cup {ControlFrame}
          BY <4>1, InIs
        <4> QED
          BY <2>5, <3>2, <4>2
      <3> QED
        BY <3>1, <3>2, LoggedIs DEF ControlFrame, Types
    <2> QED
      BY <2>6, <2>7, <2>8
  <1> QED
    BY <1>2, <1>3

---------------------------------------------------------------------------
(* Nothing is missing between the samples a controller is given *)

(* What is meant for u after a step was so before, or is being enqueued.   *)
LEMMA MeantBack ==
  ASSUME Types, Received, HasFrame, InStep, Held, Unlogged, Steps,
         NEW u \in Controllers, ~PublishControl(u), NEW m, Meant(u, m)'
  PROVE  \/ Meant(u, m)
         \/ \E p \in Producers : EnqueueControl(p) /\ m = Handing(p) /\ csub[u] = "active"
                                 /\ ~failed /\ failed' = failed
  <1>0. /\ ControlQueue \in Seq(Nat) /\ \A v \in Controllers : log[v] \in Seq(Nat)
        /\ ControlFrame \in Nat
    BY LaneIs
  <1>1. csub'[u] = "active" => csub[u] = "active"
    BY SubscriptionIs DEF Young
  <1>2. \/ m \in In(log'[u])
        \/ InHand(u)' /\ m = ControlFrame'
        \/ csub'[u] = "active" /\ m \in In(ControlQueue')
    BY DEF Meant, ControlQueue, ControlFrame
  <1> DEFINE before == \/ m \in In(log[u])
                       \/ InHand(u) /\ m = ControlFrame
                       \/ csub[u] = "active" /\ m \in In(ControlQueue)
  <1>3. before => Meant(u, m)
    BY DEF Meant, ControlQueue, ControlFrame
  <1>4. CASE Still
    BY <1>1, <1>2, <1>3, <1>4 DEF Still
  <1>5. CASE Added
    <2>1. PICK p \in Producers : EnqueueControl(p) /\ ControlQueue' = Append(ControlQueue, Handing(p))
      BY <1>5 DEF Added
    <2>2. Handing(p) \in Nat
      BY <2>1, HandingIs DEF EnqueueControl, Types
    <2>3. In(Append(ControlQueue, Handing(p))) = In(ControlQueue) \cup {Handing(p)}
      BY <1>0, <2>2, InIs
    <2>4. log' = log /\ ControlFrame' = ControlFrame /\ (InHand(u)' => InHand(u))
          /\ ~failed /\ failed' = failed
      BY <1>5 DEF Added, Waited
    <2> QED
      BY <1>1, <1>2, <1>3, <2>1, <2>3, <2>4
  <1>6. CASE Cleared
    <2>1. In(ControlQueue') = {}
      BY <1>6 DEF Cleared, In
    <2> QED
      BY <1>2, <1>3, <1>6, <2>1 DEF Cleared, Waited
  <1>7. CASE Taken
    <2>1. In(ControlQueue) = {Head(ControlQueue)} \cup In(Tail(ControlQueue))
      BY <1>0, <1>7, InIs DEF Taken
    <2> QED
      BY <1>1, <1>2, <1>3, <1>7, <2>1 DEF Taken
  <1>8. CASE Entered
    <2>1. PICK v \in Controllers :
             /\ log' = [log EXCEPT ![v] = Append(@, ControlFrame)]
             /\ InHand(v) /\ ~InHand(v)'
             /\ \A w \in Controllers \ {v} : InHand(w)' => InHand(w)
      BY <1>8 DEF Entered
    <2>2. ControlFrame' = ControlFrame /\ ControlQueue' = ControlQueue
      BY <1>8 DEF Entered
    <2>3. log'[u] = log[u] \/ (u = v /\ log'[u] = Append(log[u], ControlFrame))
      BY <2>1 DEF Types, Data
    <2>4. In(Append(log[u], ControlFrame)) = In(log[u]) \cup {ControlFrame}
      <3>1. log[u] \in Seq(Nat) /\ ControlFrame \in Nat
        BY <1>0
      <3> QED
        BY <3>1, InIs
    <2> QED
      BY <1>1, <1>2, <1>3, <2>1, <2>2, <2>3, <2>4
  <1>9. CASE Finished
    BY <1>1, <1>2, <1>3, <1>9 DEF Finished
  <1> QED
    BY <1>4, <1>5, <1>6, <1>7, <1>8, <1>9, ControlFlow

(* What becomes of the frame the worker holds for u.                       *)
LEMMA HandForth ==
  ASSUME Types, InStep, Held, Steps, NEW u \in Controllers, InHand(u)
  PROVE  \/ InHand(u)' /\ ControlFrame' = ControlFrame
         \/ ControlFrame \in In(log'[u])
         \/ ~InHand(u)' /\ log' = log /\ csub'[u] \notin {"none", "joining", "active"}
         \/ EnterControl /\ ControlFrame <= since[u] /\ UNCHANGED <<log, csub, queue>>
  <1> USE DEF InHand, ControlFrame
  <1>0. /\ wframe \in [Lanes -> Nat] /\ log \in [Controllers -> Seq(Nat \ {0})]
        /\ wpc \in [Lanes -> WorkerPoints] /\ hits \in [Lanes -> SUBSET Everybody]
        /\ csub \in [Controllers -> ControlStates] /\ since \in [Controllers -> Nat]
        /\ "control" \in Lanes /\ "data" \in Lanes /\ \A l \in Lanes : l = "control" \/ l = "data"
    BY DEF Types, Data, Lanes
  <1> DEFINE done == \/ InHand(u)' /\ ControlFrame' = ControlFrame
                     \/ ControlFrame \in In(log'[u])
                     \/ ~InHand(u)' /\ log' = log /\ csub'[u] \notin {"none", "joining", "active"}
                     \/ EnterControl /\ ControlFrame <= since[u] /\ UNCHANGED <<log, csub, queue>>
  <1>1. ASSUME wpc'["control"] = wpc["control"], hits'["control"] = hits["control"],
               UNCHANGED csub, wframe'["control"] = wframe["control"]
        PROVE  done
    BY <1>1
  <1>2. \/ wpc["control"] = "fan" /\ csub[u] = "active" /\ hits["control"] = {}
        \/ wpc["control"] \in {"hits", "call"} /\ u \in hits["control"]
    BY DEF InStep, Lanes
  <1>3. ASSUME NEW l \in Lanes, wpc' = Notified(l) PROVE wpc'["control"] = wpc["control"]
    BY <1>0, <1>2, <1>3 DEF Notified
  <1>4. CASE EnterUser
    <2>1. /\ hits'["control"] = hits["control"] /\ wpc'["control"] = wpc["control"]
          /\ UNCHANGED <<csub, wframe>>
      BY <1>0, <1>4 DEF EnterUser, subVars
    <2> QED
      BY <1>1, <2>1
  <1>5. CASE EnterControl
    <2>1. PICK v \in hits["control"] :
             /\ hits' = [hits EXCEPT !["control"] = @ \ {v}]
             /\ IF ActiveFlag(v) /\ wframe["control"] > since[v]
                THEN /\ log' = [log EXCEPT ![v] = Append(@, wframe["control"])]
                     /\ wpc' = [wpc EXCEPT !["control"] = "call"]
                ELSE UNCHANGED <<log, wpc>>
      BY <1>5 DEF EnterControl
    <2>2. /\ UNCHANGED <<queue, wframe, csub>> /\ wpc["control"] = "hits"
          /\ hits'["control"] = hits["control"] \ {v} /\ u \in hits["control"]
      BY <1>0, <1>2, <1>5, <2>1 DEF EnterControl, laneVars, subVars
    <2>3. CASE v # u
      BY <2>2, <2>3
    <2>4. CASE v = u /\ ActiveFlag(u) /\ wframe["control"] > since[u]
      <3>1. log'[u] = Append(log[u], wframe["control"])
        BY <1>0, <2>1, <2>4
      <3>2. log[u] \in Seq(Nat) /\ wframe["control"] \in Nat
        <4>1. log[u] \in Seq(Nat \ {0})
          BY <1>0
        <4> QED
          BY <1>0, <4>1
      <3>3. In(Append(log[u], wframe["control"])) = In(log[u]) \cup {wframe["control"]}
        BY <3>2, InIs
      <3> QED
        BY <3>1, <3>3
    <2>5. CASE v = u /\ ~ActiveFlag(u)
      <3>1. csub[u] \notin {"none", "joining", "active"}
        BY <2>2, <2>5 DEF Held, Young, ActiveFlag
      <3>2. UNCHANGED <<log, wpc>> /\ u \notin hits'["control"]
        BY <2>1, <2>2, <2>5
      <3> QED
        BY <2>2, <3>1, <3>2
    <2>6. CASE v = u /\ ~(wframe["control"] > since[u])
      <3>1. wframe["control"] <= since[u]
        BY <1>0, <2>6
      <3> QED
        BY <1>5, <2>1, <2>2, <2>6, <3>1
    <2> QED
      BY <2>3, <2>4, <2>5, <2>6
  <1>6. ASSUME NEW p \in Producers, EnqueueControl(p) \/ EnqueueData(p) PROVE done
    <2>1. wpc' = wpc \/ \E l \in Lanes : wpc' = Notified(l)
      BY <1>0, <1>6 DEF EnqueueControl, EnqueueData
    <2>2. UNCHANGED <<hits, csub, wframe>>
      BY <1>6 DEF EnqueueControl, EnqueueData, workerVars, subVars
    <2> QED
      BY <1>1, <1>3, <2>1, <2>2
  <1>7. ASSUME NEW l \in Lanes,
               Check(l) \/ Park(l) \/ FannedOut(l) \/ WakeWorker(l)
        PROVE  done
    <2>1. wpc'["control"] = wpc["control"] /\ wframe'["control"] = wframe["control"]
          /\ UNCHANGED <<hits, csub>>
      <3>1. CASE Check(l)
        BY <1>0, <1>2, <3>1 DEF Check, subVars
      <3>2. CASE Park(l)
        BY <1>0, <1>2, <3>2 DEF Park, workerVars, subVars
      <3>3. CASE FannedOut(l)
        BY <1>0, <1>2, <3>3 DEF FannedOut, subVars
      <3>4. CASE WakeWorker(l)
        BY <1>3, <3>4 DEF WakeWorker, workerVars, subVars
      <3> QED
        BY <1>7, <3>1, <3>2, <3>3, <3>4
    <2> QED
      BY <1>1, <2>1
  <1>8. ASSUME NEW l \in Lanes, Snapshot(l) PROVE done
    <2>1. CASE l = "data"
      <3>1. wpc'["control"] = wpc["control"] /\ hits'["control"] = hits["control"]
            /\ UNCHANGED <<csub, wframe>>
        BY <1>0, <1>8, <2>1 DEF Snapshot, subVars
      <3> QED
        BY <1>1, <3>1
    <2>2. CASE l = "control"
      <3>1. wpc["control"] = "fan" /\ wframe' = wframe
            /\ hits'["control"] = { v \in Controllers : csub[v] = "active" }
        BY <1>0, <1>8, <2>2 DEF Snapshot, Matching
      <3> QED
        BY <1>2, <3>1
    <2> QED
      BY <1>0, <2>1, <2>2
  <1>9. ASSUME NEW l \in Lanes, LeaveCallback(l) PROVE done
    <2>1. UNCHANGED <<csub, wframe, hits>> /\ (wpc["control"] = "fan" => wpc'["control"] = "fan")
      BY <1>0, <1>9 DEF LeaveCallback, subVars
    <2> QED
      BY <1>2, <2>1
  <1>10. CASE CsubWriters
    <2>1. UNCHANGED <<wpc, wframe, hits, log>>
      BY <1>10
      DEF CsubWriters, SubscribeControl, PublishControl, EraseControl, DeactivateControl,
          ControlIdle, ClearSubs, workerVars
    <2>2. ~Young(u)
      BY <1>2 DEF Held, Young
    <2>3. csub'[u] = csub[u] \/ csub'[u] \notin {"none", "joining", "active"}
      BY <2>2, SubscriptionIs DEF Young, PublishControl
    <2> QED
      BY <1>2, <2>1, <2>3
  <1> QED
    BY <1>1, <1>4, <1>5, <1>6, <1>7, <1>8, <1>9, <1>10, Writers
    DEF WpcWriters, HitsWriters, WframeWriters

(* Nothing is meant for a new subscription.                                *)
LEMMA YoungIs ==
  ASSUME InStep, Held, Unlogged, NEW u \in Controllers, NEW m, Meant(u, m)
  PROVE  ~Young(u)
  BY DEF Meant, InHand, Held, Unlogged, Young, In

(* What becomes of a frame that is meant for u, if an earlier one of its   *)
(* producer is.                                                            *)
LEMMA MeantForth ==
  ASSUME Types, Received, HasFrame, InStep, Joined, Held, Unlogged, Order, Order', Steps,
         NEW u \in Controllers, ~PublishControl(u),
         NEW a \in 1 .. Len(frames), NEW n \in 1 .. Len(frames), a < n,
         frames[a].from = frames[n].from,
         Meant(u, a), Meant(u, a)', Meant(u, n)
  PROVE  Meant(u, n)' \/ Ended(u, n)'
  <1>0. /\ ControlQueue \in Seq(Nat) /\ In(ControlQueue) \subseteq 1 .. Len(frames)
        /\ \A v \in Controllers : log[v] \in Seq(Nat) /\ In(log[v]) \subseteq 1 .. Len(frames)
        /\ ControlFrame \in 0 .. Len(frames) /\ Len(frames) \in Nat /\ since[u] \in Nat
    BY LaneIs
  <1>1. \/ n \in In(log[u])
        \/ InHand(u) /\ n = ControlFrame
        \/ csub[u] = "active" /\ n \in In(ControlQueue)
    BY DEF Meant, ControlQueue, ControlFrame
  <1>2. /\ n \in In(log'[u]) => Meant(u, n)'
        /\ InHand(u)' /\ n = ControlFrame' => Meant(u, n)'
        /\ csub'[u] = "active" /\ n \in In(ControlQueue') => Meant(u, n)'
    BY DEF Meant, ControlQueue, ControlFrame
  <1>3. ASSUME NEW m, Meant(u, m)'
        PROVE  \/ m \in In(log'[u])
               \/ InHand(u)' /\ m = ControlFrame'
               \/ csub'[u] = "active" /\ m \in In(ControlQueue')
    BY <1>3 DEF Meant, ControlQueue, ControlFrame
  <1>4. \A m \in 1 .. Len(frames) : Older(frames, m, n) => Older(frames', m, n)
    BY OlderStays DEF Types
  <1>5. CASE n \in In(log[u])
    <2>1. log'[u] = log[u] \/ In(log'[u]) = In(log[u]) \cup {ControlFrame}
      <3>1. log[u] \in Seq(Nat) /\ ControlFrame \in Nat
        BY <1>0
      <3>2. In(Append(log[u], ControlFrame)) = In(log[u]) \cup {ControlFrame}
        BY <3>1, InIs
      <3> QED
        BY <3>2, LoggedIs DEF Types, ControlFrame
    <2> QED
      BY <1>2, <1>5, <2>1
  <1>6. CASE InHand(u) /\ n = ControlFrame
    <2>1. CASE ~InHand(u)' /\ log' = log /\ csub'[u] \notin {"none", "joining", "active"}
      <3>1. ASSUME NEW m \in 1 .. Len(frames'), Meant(u, m)' PROVE Older(frames', m, n)
        <4>1. m \in In(log[u])
          BY <1>3, <2>1, <3>1
        <4>2. Older(frames, m, n)
          BY <1>6, <4>1 DEF Order, ControlFrame
        <4> QED
          BY <1>0, <1>4, <4>1, <4>2
      <3> QED
        BY <2>1, <3>1 DEF Ended
    <2>2. CASE ControlFrame <= since[u]
      <3>1. ASSUME a \in In(log[u]) PROVE FALSE
        <4>1. a > since[u]
          BY <3>1 DEF Order
        <4> QED
          BY <1>0, <1>6, <2>2, <4>1
      <3>2. ASSUME a \in In(ControlQueue) PROVE FALSE
        <4>1. Older(frames, ControlFrame, a)
          BY <1>6, <3>2 DEF Order, ControlQueue, ControlFrame
        <4> QED
          BY <1>6, <4>1 DEF Older
      <3>3. a # ControlFrame
        BY <1>6
      <3> QED
        BY <3>1, <3>2, <3>3 DEF Meant, ControlQueue, ControlFrame
    <2> QED
      BY <1>2, <1>6, <2>1, <2>2, HandForth
  <1>7. CASE csub[u] = "active" /\ n \in In(ControlQueue)
    <2>1. CASE n \in In(ControlQueue') /\ csub'[u] = "active"
      BY <1>2, <2>1
    <2>2. CASE n \in In(ControlQueue') /\ csub'[u] # "active"
      <3>1. csub'[u] \notin {"none", "joining", "active"}
        BY <1>7, <2>2, SubscriptionIs DEF Young
      <3>2. ASSUME NEW m \in 1 .. Len(frames'), Meant(u, m)' PROVE Older(frames', m, n)
        <4>1. m \in In(log'[u]) \/ (InHand(u)' /\ m = ControlFrame')
          BY <1>3, <2>2, <3>2
        <4>2. m \in In(log'[u]) => Older(frames', m, n)
          BY <2>2 DEF Order, ControlQueue
        <4>3. m = ControlFrame' => Older(frames', m, n)
          BY <2>2, <3>2 DEF Order, ControlQueue, ControlFrame
        <4> QED
          BY <4>1, <4>2, <4>3
      <3> QED
        BY <3>1, <3>2 DEF Ended
    <2>3. CASE Cleared
      <3>1. In(ControlQueue') = {} /\ log' = log /\ ControlFrame' = ControlFrame
            /\ (InHand(u)' => InHand(u)) /\ (failed' = TRUE \/ DropQueued("control"))
        BY <2>3 DEF Cleared, Waited, In
      <3>2. CASE failed' = TRUE
        <4>1. ASSUME NEW m \in 1 .. Len(frames'), Meant(u, m)' PROVE Older(frames', m, n)
          <5>1. m \in In(log[u]) \/ (InHand(u) /\ m = ControlFrame)
            BY <1>3, <3>1, <4>1
          <5>2. m \in In(log[u]) => m \in 1 .. Len(frames) /\ Older(frames, m, n)
            BY <1>0, <1>7 DEF Order, ControlQueue
          <5>3. m = ControlFrame /\ m # 0 => m \in 1 .. Len(frames) /\ Older(frames, m, n)
            BY <1>0, <1>7 DEF Order, ControlQueue, ControlFrame
          <5>4. m # 0
            BY <4>1
          <5> QED
            BY <1>4, <5>1, <5>2, <5>3, <5>4
        <4> QED
          BY <3>2, <4>1 DEF Ended
      <3>3. CASE DropQueued("control")
        <4>1. stopper = "dropControl" /\ csub' = csub /\ UNCHANGED <<hits, wpc>>
          BY <3>3 DEF DropQueued, workerVars, subVars
        <4>2. wpc["control"] = "exited" /\ hits["control"] = {}
          BY <4>1 DEF Joined, InStep, Lanes
        <4>3. ~InHand(u)'
          BY <4>1, <4>2 DEF InHand
        <4>4. In(log'[u]) = {}
          BY <1>7, <3>1, <4>1 DEF Unlogged, In
        <4>5. FALSE
          BY <1>3, <3>1, <4>3, <4>4
        <4> QED
          BY <4>5
      <3> QED
        BY <3>1, <3>2, <3>3
    <2>4. CASE Taken
      <3>1. In(ControlQueue) = {Head(ControlQueue)} \cup In(Tail(ControlQueue))
        BY <1>0, <2>4, InIs DEF Taken
      <3> QED
        BY <1>2, <1>7, <2>4, <3>1 DEF Taken
    <2>5. CASE Added
      <3>1. PICK p \in Producers :
               EnqueueControl(p) /\ ControlQueue' = Append(ControlQueue, Handing(p))
        BY <2>5 DEF Added
      <3>2. Handing(p) \in Nat
        BY <3>1, HandingIs DEF EnqueueControl, Types
      <3>3. In(Append(ControlQueue, Handing(p))) = In(ControlQueue) \cup {Handing(p)}
        BY <1>0, <3>2, InIs
      <3> QED
        BY <1>7, <2>1, <2>2, <3>1, <3>3
    <2> QED
      BY <1>7, <2>1, <2>2, <2>3, <2>4, <2>5, ControlFlow DEF Still, Entered, Finished
  <1> QED
    BY <1>1, <1>5, <1>6, <1>7

(* What becomes of a frame about to be offered.                            *)
LEMMA ComingForth ==
  ASSUME Types, Received, HasFrame, InStep, Held, Unlogged, NotYet, Steps,
         NEW u \in Controllers, ~PublishControl(u), ~Young(u),
         NEW n \in 1 .. Len(frames), Coming(n)
  PROVE  Meant(u, n)' \/ Coming(n)' \/ Ended(u, n)'
  <1>0. /\ In(ControlQueue) \subseteq 1 .. Len(frames) /\ ControlQueue \in Seq(Nat)
        /\ \A v \in Controllers : In(log[v]) \subseteq 1 .. Len(frames)
        /\ ControlFrame \in 0 .. Len(frames) /\ Len(frames) \in Nat
    BY LaneIs
  <1>1. PICK p \in Producers : ppc[p] \in {"count", "control"} /\ Latest(p, n)
    BY DEF Coming
  <1>2. ~Receive(p)
    BY <1>1 DEF Receive
  <1>3. Latest(p, n)'
    <2>1. n \in Nat
      BY <1>0
    <2> QED
      BY <1>1, <1>2, <2>1, LatestIs DEF Types
  <1>4. CASE ppc'[p] \in {"count", "control"}
    BY <1>3, <1>4 DEF Coming
  <1>5. ASSUME NEW m \in 1 .. Len(frames), Meant(u, m) PROVE Older(frames, m, n)
    <2>1. m # n
      BY <1>1, <1>5 DEF NotYet, Meant
    <2> QED
      BY <1>0, <1>1, <2>1 DEF Latest, Older
  <1>6. ASSUME UNCHANGED frames, failed' = TRUE \/ csub[u] # "active",
               csub'[u] = csub[u]
        PROVE  Ended(u, n)'
    <2>1. ASSUME NEW m \in 1 .. Len(frames), Meant(u, m)' PROVE Older(frames, m, n)
      BY <1>5, <1>6, <2>1, MeantBack
    <2>2. failed' = TRUE \/ csub'[u] \notin {"none", "joining", "active"}
      BY <1>6 DEF Young
    <2> QED
      BY <1>6, <2>1, <2>2 DEF Ended
  <1>7. CASE CountSubs(p) /\ ppc'[p] = "data"
    <2>1. csub[u] # "active" /\ UNCHANGED <<frames, csub>>
      BY <1>7 DEF CountSubs, subVars, Types, Data
    <2> QED
      BY <1>6, <2>1
  <1>8. CASE EnqueueControl(p)
    <2>1. UNCHANGED <<frames, csub>>
      BY <1>8 DEF EnqueueControl, subVars
    <2>2. CASE failed' = TRUE \/ csub[u] # "active"
      BY <1>6, <2>1, <2>2
    <2>3. CASE ~(failed' = TRUE) /\ csub[u] = "active"
      <3>1. ControlQueue' = Append(ControlQueue, Handing(p))
        BY <1>8, <2>3 DEF EnqueueControl, ControlQueue, Types, Flags, Data, Lanes
      <3>2. n = Handing(p)
        BY <1>1, HandingIs DEF Types
      <3>3. n \in Nat
        BY <1>0
      <3>4. In(Append(ControlQueue, n)) = In(ControlQueue) \cup {n}
        BY <1>0, <3>3, InIs
      <3>5. csub'[u] = "active" /\ n \in In(queue'["control"])
        BY <2>1, <2>3, <3>1, <3>2, <3>4 DEF ControlQueue
      <3> QED
        BY <3>5 DEF Meant
    <2> QED
      BY <2>2, <2>3
  <1> QED
    BY <1>1, <1>2, <1>4, <1>7, <1>8, PointIs DEF Types

(* What is lost stays lost. *)
LEMMA EndedForth ==
  ASSUME Types, Received, HasFrame, InStep, Held, Unlogged, Steps,
         NEW u \in Controllers, ~PublishControl(u), NEW n \in 1 .. Len(frames), Ended(u, n)
  PROVE  Ended(u, n)'
  <1>1. failed \/ csub[u] \notin {"none", "joining", "active"}
    BY DEF Ended
  <1>2. failed' \/ csub'[u] \notin {"none", "joining", "active"}
    <2>1. failed => failed'
      BY Writers DEF FailedWriters, EnqueueControl
    <2>2. csub[u] \notin {"none", "joining", "active"}
            => csub'[u] \notin {"none", "joining", "active"}
      BY SubscriptionIs DEF Young
    <2> QED
      BY <1>1, <2>1, <2>2
  <1>3. ASSUME NEW m \in 1 .. Len(frames'), Meant(u, m)' PROVE Older(frames', m, n)
    <2>1. m \in 1 .. Len(frames)
      <3>1. m \in In(log'[u]) \/ m = ControlFrame' \/ m \in In(ControlQueue')
        BY <1>3 DEF Meant, ControlQueue, ControlFrame
      <3>2. ControlFrame' \in 0 .. Len(frames) /\ Len(frames) \in Nat
        BY FlowReceived, LaneIs
      <3>3. m # 0
        BY <1>3
      <3> QED
        BY <3>1, <3>2, <3>3, FlowReceived
    <2>2. Meant(u, m)
      BY <1>1, <1>3, MeantBack
    <2>3. Older(frames, m, n)
      BY <2>1, <2>2 DEF Ended
    <2> QED
      BY <2>1, <2>3, OlderStays DEF Types
  <1> QED
    BY <1>2, <1>3 DEF Ended

(* Every step keeps the samples that are meant for a controller complete.  *)
LEMMA CompleteStep ==
  Types /\ Received /\ HasFrame /\ InStep /\ Joined /\ Held /\ Unlogged /\ Untouched /\ Order
        /\ Order' /\ NotYet /\ Complete /\ Steps
    => Complete'
  <1> SUFFICES ASSUME Types, Received, HasFrame, InStep, Joined, Held, Unlogged, Untouched, Order,
                      Order', NotYet, Complete, Steps,
                      NEW u \in Controllers,
                      NEW a \in 1 .. Len(frames'), NEW n \in 1 .. Len(frames'),
                      Meant(u, a)', a < n, frames'[n].kind = "status",
                      frames'[n].from = frames'[a].from,
                      n > published'[u] \/ Controllers = {u}
               PROVE  Meant(u, n)' \/ Coming(n)' \/ Ended(u, n)'
    BY DEF Complete
  <1>0. Len(frames) \in Nat /\ Data
    BY LaneIs DEF Types
  <1>1. CASE n \notin 1 .. Len(frames)
    <2>1. PICK p \in Producers : Receive(p)
      BY <1>1, Writers DEF FramesWriters
    <2>2. n = Len(frames) + 1 /\ frames'[n].from = p /\ ppc'[p] = "count"
      BY <1>0, <1>1, <2>1, ReceivedIs
    <2>3. Latest(p, n)'
      BY <1>0, <2>1, <2>2, ReceivedIs DEF Latest
    <2> QED
      BY <2>2, <2>3 DEF Coming
  <1>2. CASE n \in 1 .. Len(frames) /\ ~PublishControl(u)
    <2>1. a \in 1 .. Len(frames) /\ n \in 1 .. Len(frames)
      BY <1>0, <1>2
    <2>2. /\ frames[n].kind = "status" /\ frames[n].from = frames[a].from
      BY <1>0, <2>1, FramesStay
    <2>3. published'[u] = published[u]
      BY <1>2, Writers DEF PublishedWriters, PublishControl, Types, Data
    <2>4. Meant(u, a)
      <3>1. ASSUME NEW p \in Producers, EnqueueControl(p), a = Handing(p) PROVE FALSE
        <4>1. Latest(p, a)
          BY <1>0, <3>1, HandingIs DEF EnqueueControl
        <4> QED
          BY <1>0, <2>1, <2>2, <4>1 DEF Latest
      <3> QED
        BY <1>2, <3>1, MeantBack
    <2>5. Meant(u, n) \/ Coming(n) \/ Ended(u, n)
      BY <2>1, <2>2, <2>3, <2>4 DEF Complete
    <2>6. ~Young(u)
      BY <2>4, YoungIs
    <2>7. CASE Meant(u, n)
      BY <1>2, <2>1, <2>2, <2>4, <2>7, MeantForth
    <2>8. CASE Coming(n)
      BY <1>2, <2>1, <2>6, <2>8, ComingForth
    <2>9. CASE Ended(u, n)
      BY <1>2, <2>1, <2>9, EndedForth
    <2> QED
      BY <2>5, <2>7, <2>8, <2>9
  <1>3. CASE n \in 1 .. Len(frames) /\ PublishControl(u)
    <2>1. /\ Young(u) /\ published'[u] = Len(frames)
          /\ UNCHANGED <<log, queue, wframe, hits, frames>>
      BY <1>0, <1>3 DEF PublishControl, Young, laneVars, workerVars, producerVars, Data
    <2>2. Controllers = {u}
      BY <1>0, <1>3, <2>1
    <2>3. queue["control"] = <<>> /\ wframe["control"] = 0
      BY <2>1, <2>2 DEF Untouched
    <2>4. log[u] = <<>> /\ In(<<>>) = {}
      BY <2>1 DEF Unlogged, In
    <2>5. a = 0
      BY <2>1, <2>3, <2>4 DEF Meant
    <2> QED
      BY <1>0, <2>5
  <1> QED
    BY <1>1, <1>2, <1>3

---------------------------------------------------------------------------
(* The theorems *)

(* The inductive invariant holds at the start. *)
LEMMA InitHolds == Init => IInv
  <1> SUFFICES ASSUME Init PROVE IInv
    OBVIOUS
  <1> USE DEF Init
  <1>1. Flags /\ Data /\ Lateness /\ Claims
    <2>1. Flags
      BY DEF Flags
    <2>2. /\ <<>> \in Seq(Nat \ {0}) /\ <<>> \in Seq([kind : Kinds, from : Producers])
          /\ 0 \in Nat
      OBVIOUS
    <2>3. Data
      BY <2>2 DEF Data, StopPoints, ProducerPoints, WorkerPoints, ControlStates, Lanes, Everybody
    <2>4. Lateness /\ Claims
      BY DEF Lateness, Claims, Lanes
    <2> QED
      BY <2>1, <2>3, <2>4
  <1>2. In(<<>>) = {} /\ \A f : Ascending(f, <<>>)
    BY DEF In, Ascending
  <1>3. WithinDepth
    BY DEF WithinDepth
  <1>4. Received /\ HasFrame /\ NotYet
    BY <1>2 DEF Received, HasFrame, NotYet
  <1>5. InStep
    BY DEF InStep
  <1>6. Accounted
    BY DEF Accounted
  <1>7. Joined /\ Emptied /\ Held /\ Unlogged
    BY DEF Joined, Emptied, Drained, Held, Unlogged, Lanes
  <1>8. Untouched
    BY DEF Untouched, Lanes
  <1>9. Order
    BY <1>2 DEF Order, Lanes, InHand
  <1>10. Complete
    BY DEF Complete
  <1> QED
    BY <1>1, <1>3, <1>4, <1>5, <1>6, <1>7, <1>8, <1>9, <1>10 DEF IInv

(* It is kept by every step. *)
LEMMA StepHolds == IInv /\ [Next]_vars => IInv'
  <1> SUFFICES ASSUME IInv, [Next]_vars PROVE IInv'
    OBVIOUS
  <1>0. /\ Flags /\ Data /\ WithinDepth /\ Received /\ HasFrame /\ InStep /\ Claims /\ Accounted
        /\ Lateness /\ Joined /\ Emptied /\ Held /\ Unlogged /\ Untouched /\ Order /\ NotYet
        /\ Complete
    BY DEF IInv
  <1>1. CASE UNCHANGED vars
    <2> USE <1>0, <1>1 DEF vars
    <2>1. Flags' /\ Data' /\ WithinDepth'
      BY DEF Flags, Data, WithinDepth
    <2>2. Received' /\ HasFrame' /\ InStep' /\ Claims'
      BY DEF Received, HasFrame, InStep, Claims, Latest
    <2>3. Accounted' /\ Lateness' /\ Joined' /\ Emptied'
      BY DEF Accounted, Lateness, Joined, Emptied, Drained
    <2>4. Held' /\ Unlogged' /\ Untouched'
      BY DEF Held, Unlogged, Untouched, Young
    <2>5. Order' /\ NotYet'
      BY DEF Order, NotYet, InHand, Latest
    <2>6. Complete'
      BY DEF Complete, Meant, Coming, Ended, InHand, Latest
    <2> QED
      BY <2>1, <2>2, <2>3, <2>4, <2>5, <2>6 DEF IInv
  <1>2. CASE Next
    <2>0. Steps
      BY <1>2, NextIsSteps
    <2>1. Flags' /\ Data'
      BY <1>0, <1>2, FlagsStep, DataStep
    <2>2. Types
      BY <1>0, <2>1 DEF Types
    <2>3. InStep'
      BY <1>0, <2>0, <2>2, InStepStep
    <2>4. Order'
      BY <1>0, <2>0, <2>2, <2>3, OrderStep
    <2>5. WithinDepth' /\ Received' /\ HasFrame' /\ Claims' /\ Accounted'
      BY <1>0, <2>0, <2>2, WithinDepthStep, ReceivedStep, HasFrameStep, ClaimsStep, AccountedStep
    <2>6. Lateness' /\ Joined' /\ Emptied' /\ Held'
      BY <1>0, <2>0, <2>2, LatenessStep, JoinedStep, EmptiedStep, HeldStep
    <2>7. Unlogged' /\ Untouched' /\ NotYet' /\ Complete'
      BY <1>0, <2>0, <2>2, <2>4, UnloggedStep, UntouchedStep, NotYetStep, CompleteStep
    <2> QED
      BY <2>1, <2>3, <2>4, <2>5, <2>6, <2>7 DEF IInv
  <1> QED
    BY <1>1, <1>2

(* The inductive invariant holds of every behaviour.                       *)
THEOREM Invariant == Spec => []IInv
  BY InitHolds, StepHolds, PTL DEF Spec

(* Every variable stays in its type, no queue outgrows its depth, and a    *)
(* controller's callback is never claimed twice (ControlSub::inflight).    *)
THEOREM TypesHold == Spec => []TypeOK
  <1>1. IInv => TypeOK
    <2> SUFFICES ASSUME IInv PROVE TypeOK
      OBVIOUS
    <2>1. Flags /\ Data /\ WithinDepth /\ InStep /\ Claims
      BY DEF IInv
    <2>2. inflight \in [Controllers -> 0 .. 1]
      BY <2>1 DEF Data, Claims
    <2>3. \A l \in Lanes : hits[l] \subseteq Subscribers(l) /\ cur[l] \in Subscribers(l) \cup {None}
      BY <2>1 DEF InStep
    <2>4. \A l \in Lanes : Len(queue[l]) <= Depth[l]
      BY <2>1 DEF WithinDepth
    <2>5. stopReq \in BOOLEAN /\ running \in BOOLEAN /\ failed \in BOOLEAN
      BY <2>1 DEF Flags
    <2> QED
      BY <2>1, <2>2, <2>3, <2>4, <2>5 DEF TypeOK, Data
  <1> QED
    BY <1>1, Invariant, PTL

(* Every frame given to a lane is queued, in hand, fanned out or counted   *)
(* as dropped, exactly once: enqueue_data_(), enqueue_control_(), the      *)
(* worker loops and the final drain of stop().                             *)
THEOREM AccountedHolds == Spec => []Accounted
  <1>1. IInv => Accounted
    BY DEF IInv
  <1> QED
    BY <1>1, Invariant, PTL

(* unsubscribe() of a user callback leaves at most one late call.          *)
THEOREM AtMostOneLateHolds == Spec => []AtMostOneLate
  <1>1. IInv => AtMostOneLate
    BY DEF IInv, Lateness, AtMostOneLate
  <1> QED
    BY <1>1, Invariant, PTL

(* After unsubscribe_control_() the controller is not called and may be    *)
(* destroyed; after stop() nobody is.                                      *)
THEOREM GoneMeansQuietHolds == Spec => []GoneMeansQuiet
  <1>1. IInv => UnsubscribedIsQuiet
    BY DEF IInv, Held, Claims, UnsubscribedIsQuiet
  <1>2. IInv => StopSettles
    <2> SUFFICES ASSUME IInv, stopper = "done", NEW l \in Lanes
                 PROVE  /\ hits[l] = {} /\ cur[l] = None
                        /\ \A i \in 1 .. Len(queue[l]) : frames[queue[l][i]].from # "reader"
      BY DEF StopSettles
    <2>1. wpc[l] = "exited"
      BY DEF IInv, Joined, Lanes
    <2>2. hits[l] = {} /\ cur[l] = None
      BY <2>1 DEF IInv, InStep
    <2>3. \A i \in 1 .. Len(queue[l]) : frames[queue[l][i]].from # "reader"
      BY DEF IInv, Emptied, Drained, In
    <2> QED
      BY <2>2, <2>3
  <1> QED
    BY <1>1, <1>2, Invariant, PTL DEF GoneMeansQuiet

(* Between two samples of a producer that a controller was given, it was   *)
(* given every one: enqueue_control_() closes the lane at the first loss.  *)
THEOREM NoSilentGapHolds == Spec => []NoSilentGap
  <1>1. IInv => NoSilentGap
    <2> SUFFICES ASSUME IInv PROVE NoSilentGap
      OBVIOUS
    <2> USE DEF NoSilentGap
    <2> TAKE u \in Controllers
    <2> TAKE i, j \in 1 .. Len(log[u])
    <2> TAKE n \in log[u][i] .. log[u][j]
    <2> HAVE /\ frames[n].kind = "status"
             /\ frames[n].from = frames[log[u][i]].from
             /\ frames[n].from = frames[log[u][j]].from
             /\ n > published[u] \/ Controllers = {u}
    <2> DEFINE a == log[u][i]
               b == log[u][j]
    <2>0. /\ Received /\ Order /\ NotYet /\ Complete /\ Data
      BY DEF IInv
    <2>1. a \in Nat \ {0} /\ b \in Nat \ {0} /\ a \in In(log[u]) /\ b \in In(log[u])
      BY <2>0 DEF Data, In
    <2>2. /\ Len(frames) \in Nat /\ a <= Len(frames) /\ b <= Len(frames)
          /\ log[u] \in Seq(Nat \ {0}) /\ Len(log[u]) \in Nat
      BY <2>0, <2>1 DEF Received, Data
    <2>3. Meant(u, a) /\ Meant(u, b)
      BY <2>1 DEF Meant
    <2> HIDE DEF a, b
    <2>4. a \in 1 .. Len(frames) /\ b \in 1 .. Len(frames) /\ n \in 1 .. Len(frames)
          /\ a <= n /\ n <= b
      BY <2>1, <2>2 DEF a, b
    <2>5. ASSUME NEW k \in 1 .. Len(log[u]), log[u][k] = n PROVE k \in i .. j
      <3>1. \A x, y \in 1 .. Len(log[u]) : x < y => Older(frames, log[u][x], log[u][y])
        BY <2>0 DEF Order, Ascending
      <3>2. ASSUME k < i PROVE FALSE
        <4>1. Older(frames, n, a)
          BY <2>5, <3>1, <3>2 DEF a
        <4>2. n < a
          BY <4>1 DEF Older, a
        <4> QED
          BY <2>4, <4>2
      <3>3. ASSUME j < k PROVE FALSE
        <4>1. Older(frames, b, n)
          BY <2>5, <3>1, <3>3 DEF b
        <4>2. b < n
          BY <4>1 DEF Older, b
        <4> QED
          BY <2>4, <4>2
      <3> QED
        BY <2>2, <3>2, <3>3
    <2>6. n \in In(log[u])
      <3>1. CASE n = a \/ n = b
        BY <2>1, <3>1
      <3>2. CASE a < n /\ n < b
        <4>1. Meant(u, n) \/ Coming(n) \/ Ended(u, n)
          BY <2>0, <2>3, <2>4, <3>2 DEF Complete, a
        <4>2. ASSUME Coming(n) PROVE FALSE
          <5>1. PICK p \in Producers : Latest(p, n)
            BY <4>2 DEF Coming
          <5>2. b \in n + 1 .. Len(frames)
            BY <2>2, <2>4, <3>2
          <5>3. frames[n].from = p /\ frames[b].from # p
            BY <5>1, <5>2 DEF Latest
          <5> QED
            BY <5>3 DEF b
        <4>3. ASSUME Ended(u, n) PROVE FALSE
          <5>1. Older(frames, b, n)
            BY <2>3, <2>4, <4>3 DEF Ended
          <5> QED
            BY <2>4, <3>2, <5>1 DEF Older, b
        <4>4. ASSUME InHand(u), n = wframe["control"] PROVE FALSE
          <5>1. Older(frames, b, n)
            BY <2>0, <2>1, <4>4 DEF Order
          <5> QED
            BY <2>4, <3>2, <5>1 DEF Older, b
        <4>5. ASSUME n \in In(queue["control"]) PROVE FALSE
          <5>1. Older(frames, b, n)
            BY <2>0, <2>1, <4>5 DEF Order
          <5> QED
            BY <2>4, <3>2, <5>1 DEF Older, b
        <4> QED
          BY <4>1, <4>2, <4>3, <4>4, <4>5 DEF Meant
      <3> QED
        BY <2>4, <3>1, <3>2
    <2> QED
      BY <2>5, <2>6 DEF In
  <1> QED
    BY <1>1, Invariant, PTL
=============================================================================
