--------------------------- MODULE ExchangeProofs ---------------------------
(***************************************************************************)
(* What the polled mode promises, for either gripper, any number of        *)
(* sessions, exchanges, retries, targets and records, and lines of any     *)
(* capacity that lose frames: the safety properties of the Exchange run.   *)
(***************************************************************************)
EXTENDS Exchange, FiniteSetTheorems, TLAPS

USE KindsAssumption, BoundsAssumption

---------------------------------------------------------------------------
(* The line *)

(* What is sent goes behind the rest, or is lost; the line stays within    *)
(* its capacity.                                                           *)
LEMMA SentIs ==
  ASSUME NEW S, NEW line \in Seq(S), NEW f \in S, Len(line) <= LinkCap
  PROVE  /\ Sent(line, f) \in Seq(S)
         /\ Len(Sent(line, f)) <= LinkCap
         /\ \A i \in 1 .. Len(Sent(line, f)) :
              \/ i \in 1 .. Len(line) /\ Sent(line, f)[i] = line[i]
              \/ i = Len(line) + 1 /\ Sent(line, f)[i] = f
  <1>1. CASE linkUp /\ Len(line) < LinkCap
    BY <1>1 DEF Sent
  <1>2. CASE ~(linkUp /\ Len(line) < LinkCap)
    BY <1>2 DEF Sent
  <1> QED
    BY <1>1, <1>2

(* What is received or lost is taken from the front.                       *)
LEMMA TailIs ==
  ASSUME NEW S, NEW line \in Seq(S), line # <<>>
  PROVE  /\ Tail(line) \in Seq(S) /\ Head(line) \in S /\ Head(line) = line[1]
         /\ Len(Tail(line)) = Len(line) - 1
         /\ \A i \in 1 .. Len(Tail(line)) : /\ i + 1 \in 1 .. Len(line)
                                            /\ Tail(line)[i] = line[i + 1]
         /\ 1 \in 1 .. Len(line)
  OBVIOUS

---------------------------------------------------------------------------
(* The records of a reply *)

(* Records that follow each other in number are injected in that order,    *)
(* each of them once.                                                      *)
LEMMA InOrderIs ==
  ASSUME NEW a \in Nat, NEW b \in Nat
  PROVE  LET s == InOrder(a + 1 .. b) IN
         /\ s \in Seq(a + 1 .. b)
         /\ \A i, j \in 1 .. Len(s) : i < j => s[i] < s[j]
  <1> DEFINE R == a + 1 .. b
             n == Cardinality(R)
             Sorted(s) == \A i, j \in DOMAIN s : i < j => s[i] < s[j]
  <1>1. n = IF a + 1 > b THEN 0 ELSE b - a
    BY FS_Interval
  <1>2. \E s \in [1 .. n -> R] : Sorted(s)
    <2>1. n \in Nat /\ \A i \in 1 .. n : a + i \in R
      BY <1>1
    <2>2. [i \in 1 .. n |-> a + i] \in [1 .. n -> R]
      BY <2>1
    <2>3. Sorted([i \in 1 .. n |-> a + i])
      BY <2>1
    <2> QED
      BY <2>2, <2>3
  <1>3. InOrder(R) \in [1 .. n -> R] /\ Sorted(InOrder(R))
    BY <1>2 DEF InOrder
  <1>4. InOrder(R) \in Seq(R) /\ Len(InOrder(R)) = n
    BY <1>1, <1>3
  <1> QED
    BY <1>1, <1>3, <1>4

---------------------------------------------------------------------------
(* Types *)

(* The type invariant in parts: the flags, the host's side, and what is on *)
(* the line and in the MCU.                                                *)
Flags ==
  hushed \in BOOLEAN /\ halfDuplex \in BOOLEAN /\ stop \in BOOLEAN /\ linkUp \in BOOLEAN

Host ==
  /\ kind \in Kinds /\ session \in 0 .. MaxSessions /\ owner \in OwnerPoints
  /\ answer \in {"none", "ok", "nack"} /\ router \in 0 .. MaxSessions
  /\ worker \in WorkerPoints /\ cur \in Polls /\ attempt \in 0 .. MaxRetries /\ ack \in Replies
  /\ pending \in 0 .. MaxTargets /\ caller \in CallerPoints /\ copied \in 0 .. MaxSessions
  /\ issued \in 0 .. MaxTargets /\ newest \in 0 .. MaxTargets /\ settled \in 0 .. MaxTargets
  /\ count \in 0 .. MaxExchanges

Device ==
  /\ toMcu \in Seq(Frames) /\ Len(toMcu) <= LinkCap
  /\ fromMcu \in Seq(Replies) /\ Len(fromMcu) <= LinkCap
  /\ mode \in {"idle", "push", "polled"} /\ cache \in Replies
  /\ handed \in 0 .. MaxRecords

(* What the records are told apart by; delivered needs to know more of     *)
(* them.                                                                   *)
Traces == via \in [Records -> 0 .. MaxExchanges] /\ delivered \in Seq(Records)

Types == Flags /\ Host /\ Device

(* TypeOK by its parts.                                                    *)
LEMMA TypeParts == TypeOK <=> Types /\ Traces
  <1>1. {hushed, halfDuplex, stop, linkUp} \subseteq BOOLEAN <=> Flags
    BY SMT DEF Flags
  <1> QED
    BY <1>1, Zenon DEF TypeOK, Types, Host, Device, Traces

(* What the requests, polls and targets of the host are.                   *)
LEMMA FrameIs ==
  ASSUME Host, NEW op \in {"poll", "target", "quiet", "probe", "arm", "push", "rearm", "hush"}
  PROVE  /\ Frame(op) \in Frames /\ Frame(op).op = op /\ Frame(op).session = session
         /\ [Frame(op) EXCEPT !.poll = cur] \in Frames
         /\ [Frame(op) EXCEPT !.poll.target = issued] \in Frames
         /\ session < MaxSessions => [Frame(op) EXCEPT !.session = session + 1] \in Frames
  <1>1. NoPoll \in Polls /\ [NoPoll EXCEPT !.target = issued] \in Polls
    <2>1. NoPoll \in Polls
      BY DEF NoPoll, Polls
    <2> QED
      BY <2>1 DEF Host, Polls
  <1>2. cur \in Polls /\ session \in 0 .. MaxSessions
    BY DEF Host
  <1>3. \A p \in Polls, n \in 0 .. MaxSessions : [op |-> op, poll |-> p, session |-> n] \in Frames
    BY DEF Frames
  <1>4. [Frame(op) EXCEPT !.poll = cur] = [op |-> op, poll |-> cur, session |-> session]
    BY DEF Frame
  <1>5. [Frame(op) EXCEPT !.poll.target = issued]
          = [op |-> op, poll |-> [NoPoll EXCEPT !.target = issued], session |-> session]
    BY DEF Frame
  <1>6. [Frame(op) EXCEPT !.session = session + 1]
          = [op |-> op, poll |-> NoPoll, session |-> session + 1]
    BY DEF Frame
  <1> QED
    BY <1>1, <1>2, <1>3, <1>4, <1>5, <1>6 DEF Frame

(* Sending something to the MCU changes nothing else on that side.         *)
LEMMA SendingKeeps ==
  ASSUME Device, NEW f \in Frames, toMcu' = Sent(toMcu, f),
         UNCHANGED <<fromMcu, mode, cache, handed>>
  PROVE  Device'
  BY SentIs DEF Device

(* A request of the owner.                                                 *)
Requests == {"quiet", "probe", "arm", "push", "hush"}

(* A request that waits for an acknowledgment puts its frame on the wire.  *)
LEMMA AskSends ==
  ASSUME Host, NEW p \in DOMAIN RequestAt, Ask(p)
  PROVE  /\ owner' = p /\ answer' = "none"
         /\ toMcu' = Sent(toMcu, Frame(RequestAt[p]))
         /\ RequestAt[p] \in Requests /\ Frame(RequestAt[p]) \in Frames
         /\ Frame(RequestAt[p]).op = RequestAt[p] /\ Frame(RequestAt[p]).session = session
  <1>1. RequestAt[p] \in Requests
    BY DEF RequestAt, Requests
  <1> QED
    BY <1>1, FrameIs DEF Ask, Requests

(* The owner's steps keep the types,                                       *)
LEMMA TypesOfOwner ==
  ASSUME Types, StartExchange \/ AskAgain \/ Arm \/ FallBack \/ FallenBack \/ StartFails \/ StartWorker \/ Route \/ Unroute \/ RaiseStop \/ Join \/ Hush \/ StopDone
  PROVE  Types'
  <1> USE DEF Types, ownerVars, workVars, targetVars, mcuVars, statVars
  <1>1. CASE StartExchange
    <2> USE <1>1 DEF StartExchange
    <2>1. Flags'
      BY Zenon DEF Flags
    <2>2. Host'
      BY SMT DEF Host, OwnerPoints, RequestAt, WorkerPoints, CallerPoints
    <2>3. Device'
      BY FrameIs, SendingKeeps
    <2> QED
      BY <2>1, <2>2, <2>3
  <1>2. CASE AskAgain
    <2> USE <1>2 DEF AskAgain
    <2>0. PICK p \in DOMAIN RequestAt : Ask(p)
      BY SMT
    <2>1. Flags'
      BY Zenon DEF Flags
    <2>2. Host'
      BY <2>0, AskSends DEF Host, OwnerPoints, RequestAt, WorkerPoints, CallerPoints
    <2>3. Device'
      BY <2>0, AskSends, SendingKeeps
    <2> QED
      BY <2>1, <2>2, <2>3
  <1>3. CASE Arm
    <2> USE <1>3 DEF Arm
    <2>0. PICK p \in DOMAIN RequestAt : Ask(p)
      BY SMT DEF RequestAt
    <2>1. Flags'
      BY Zenon DEF Flags
    <2>2. Host'
      BY <2>0, AskSends DEF Host, OwnerPoints, RequestAt, WorkerPoints, CallerPoints
    <2>3. Device'
      BY <2>0, AskSends, SendingKeeps
    <2> QED
      BY <2>1, <2>2, <2>3
  <1>4. CASE FallBack
    <2> USE <1>4 DEF FallBack
    <2>0. PICK p \in DOMAIN RequestAt : Ask(p)
      BY SMT DEF RequestAt
    <2>1. Flags'
      BY Zenon DEF Flags
    <2>2. Host'
      BY <2>0, AskSends DEF Host, OwnerPoints, RequestAt, WorkerPoints, CallerPoints
    <2>3. Device'
      BY <2>0, AskSends, SendingKeeps
    <2> QED
      BY <2>1, <2>2, <2>3
  <1>5. CASE FallenBack
    <2> USE <1>5 DEF FallenBack
    <2>1. Flags'
      BY Zenon DEF Flags
    <2>2. Host'
      BY SMT DEF Host, OwnerPoints, RequestAt, WorkerPoints, CallerPoints
    <2>3. Device'
      BY SMT DEF Device
    <2> QED
      BY <2>1, <2>2, <2>3
  <1>6. CASE StartFails
    <2> USE <1>6 DEF StartFails
    <2>1. Flags'
      BY Zenon DEF Flags
    <2>2. Host'
      BY SMT DEF Host, OwnerPoints, RequestAt, WorkerPoints, CallerPoints
    <2>3. Device'
      BY SMT DEF Device
    <2> QED
      BY <2>1, <2>2, <2>3
  <1>7. CASE StartWorker
    <2> USE <1>7 DEF StartWorker
    <2>1. Flags'
      BY Zenon DEF Flags
    <2>2. Host'
      BY SMT DEF Host, OwnerPoints, RequestAt, WorkerPoints, CallerPoints
    <2>3. Device'
      BY SMT DEF Device
    <2> QED
      BY <2>1, <2>2, <2>3
  <1>8. CASE Route
    <2> USE <1>8 DEF Route
    <2>1. Flags'
      BY Zenon DEF Flags
    <2>2. Host'
      BY SMT DEF Host, OwnerPoints, RequestAt, WorkerPoints, CallerPoints
    <2>3. Device'
      BY SMT DEF Device
    <2> QED
      BY <2>1, <2>2, <2>3
  <1>9. CASE Unroute
    <2> USE <1>9 DEF Unroute
    <2>1. Flags'
      BY Zenon DEF Flags
    <2>2. Host'
      BY SMT DEF Host, OwnerPoints, RequestAt, WorkerPoints, CallerPoints
    <2>3. Device'
      BY SMT DEF Device
    <2> QED
      BY <2>1, <2>2, <2>3
  <1>10. CASE RaiseStop
    <2> USE <1>10 DEF RaiseStop
    <2>1. Flags'
      BY Zenon DEF Flags
    <2>2. Host'
      BY SMT DEF Host, OwnerPoints, RequestAt, WorkerPoints, CallerPoints
    <2>3. Device'
      BY SMT DEF Device
    <2> QED
      BY <2>1, <2>2, <2>3
  <1>11. CASE Join
    <2> USE <1>11 DEF Join
    <2>1. Flags'
      BY Zenon DEF Flags
    <2>2. Host'
      BY SMT DEF Host, OwnerPoints, RequestAt, WorkerPoints, CallerPoints
    <2>3. Device'
      BY SMT DEF Device
    <2> QED
      BY <2>1, <2>2, <2>3
  <1>12. CASE Hush
    <2> USE <1>12 DEF Hush
    <2>0. PICK p \in DOMAIN RequestAt : Ask(p)
      BY SMT DEF RequestAt
    <2>1. Flags'
      BY Zenon DEF Flags
    <2>2. Host'
      BY <2>0, AskSends DEF Host, OwnerPoints, RequestAt, WorkerPoints, CallerPoints
    <2>3. Device'
      BY <2>0, AskSends, SendingKeeps
    <2> QED
      BY <2>1, <2>2, <2>3
  <1>13. CASE StopDone
    <2> USE <1>13 DEF StopDone
    <2>1. Flags'
      BY Zenon DEF Flags
    <2>2. Host'
      BY SMT DEF Host, OwnerPoints, RequestAt, WorkerPoints, CallerPoints
    <2>3. Device'
      BY SMT DEF Device
    <2> QED
      BY <2>1, <2>2, <2>3
  <1> QED
    BY <1>1, <1>2, <1>3, <1>4, <1>5, <1>6, <1>7, <1>8, <1>9, <1>10, <1>11, <1>12, <1>13

(* as do those of a caller,                                                *)
LEMMA TypesOfCaller ==
  ASSUME Types, Submit \/ SubmitRouted \/ SubmitTurn \/ SubmitWrite \/ SubmitThrows
  PROVE  Types'
  <1> USE DEF Types, ownerVars, workVars, targetVars, mcuVars, statVars
  <1>1. CASE Submit
    <2> USE <1>1 DEF Submit
    <2>1. Flags'
      BY Zenon DEF Flags
    <2>2. Host'
      BY SMT DEF Host, OwnerPoints, RequestAt, WorkerPoints, CallerPoints
    <2>3. Device'
      BY SMT DEF Device
    <2> QED
      BY <2>1, <2>2, <2>3
  <1>2. CASE SubmitRouted
    <2> USE <1>2 DEF SubmitRouted
    <2>1. Flags'
      BY Zenon DEF Flags
    <2>2. Host'
      BY SMT DEF Host, OwnerPoints, RequestAt, WorkerPoints, CallerPoints
    <2>3. Device'
      BY SMT DEF Device
    <2> QED
      BY <2>1, <2>2, <2>3
  <1>3. CASE SubmitTurn
    <2> USE <1>3 DEF SubmitTurn
    <2>1. Flags'
      BY Zenon DEF Flags
    <2>2. Host'
      BY SMT DEF Host, OwnerPoints, RequestAt, WorkerPoints, CallerPoints
    <2>3. Device'
      BY SMT DEF Device
    <2> QED
      BY <2>1, <2>2, <2>3
  <1>4. CASE SubmitWrite
    <2> USE <1>4 DEF SubmitWrite
    <2>1. Flags'
      BY Zenon DEF Flags
    <2>2. Host'
      BY SMT DEF Host, OwnerPoints, RequestAt, WorkerPoints, CallerPoints
    <2>3. Device'
      BY FrameIs, SendingKeeps
    <2> QED
      BY <2>1, <2>2, <2>3
  <1>5. CASE SubmitThrows
    <2> USE <1>5 DEF SubmitThrows
    <2>1. Flags'
      BY Zenon DEF Flags
    <2>2. Host'
      BY SMT DEF Host, OwnerPoints, RequestAt, WorkerPoints, CallerPoints
    <2>3. Device'
      BY SMT DEF Device
    <2> QED
      BY <2>1, <2>2, <2>3
  <1> QED
    BY <1>1, <1>2, <1>3, <1>4, <1>5

(* of the worker and the transport's reader,                               *)
LEMMA TypesOfWorker ==
  ASSUME Types, WorkerExits \/ Take \/ Write \/ SendThrows \/ Timeout \/ Fold \/ Rearm \/ Reply
  PROVE  Types'
  <1> USE DEF Types, ownerVars, workVars, targetVars, mcuVars, statVars
  <1>1. CASE WorkerExits
    <2> USE <1>1 DEF WorkerExits
    <2>1. Flags'
      BY Zenon DEF Flags
    <2>2. Host'
      BY SMT DEF Host, OwnerPoints, RequestAt, WorkerPoints, CallerPoints
    <2>3. Device'
      BY SMT DEF Device
    <2> QED
      BY <2>1, <2>2, <2>3
  <1>2. CASE Take
    <2> USE <1>2 DEF Take
    <2>0. PICK tel \in BOOLEAN : cur' = [n |-> count + 1, target |-> pending, tel |-> tel]
      BY Zenon
    <2>a. cur' \in Polls /\ count + 1 \in 0 .. MaxExchanges
      BY <2>0, SMT DEF Polls, Host
    <2>b. NoReply \in Replies
      BY DEF NoReply, Replies
    <2>1. Flags'
      BY Zenon DEF Flags
    <2>2. Host'
      BY <2>a, <2>b, SMT DEF Host, OwnerPoints, RequestAt, WorkerPoints, CallerPoints
    <2>3. Device'
      BY SMT DEF Device
    <2> QED
      BY <2>1, <2>2, <2>3
  <1>3. CASE Write
    <2> USE <1>3 DEF Write
    <2>1. Flags'
      BY Zenon DEF Flags
    <2>2. Host'
      BY SMT DEF Host, OwnerPoints, RequestAt, WorkerPoints, CallerPoints
    <2>3. Device'
      BY FrameIs, SendingKeeps
    <2> QED
      BY <2>1, <2>2, <2>3
  <1>4. CASE SendThrows
    <2> USE <1>4 DEF SendThrows
    <2>a. NoReply \in Replies
      BY DEF NoReply, Replies
    <2>0. NoReply \in Replies /\ Broken \in Replies
      BY <2>a DEF Broken, Replies
    <2>1. Flags'
      BY Zenon DEF Flags
    <2>2. Host'
      BY <2>0, SMT DEF Host, OwnerPoints, RequestAt, WorkerPoints, CallerPoints
    <2>3. Device'
      BY SMT DEF Device
    <2> QED
      BY <2>1, <2>2, <2>3
  <1>5. CASE Timeout
    <2> USE <1>5 DEF Timeout
    <2>1. Flags'
      BY Zenon DEF Flags
    <2>2. Host'
      BY SMT DEF Host, OwnerPoints, RequestAt, WorkerPoints, CallerPoints
    <2>3. Device'
      BY SMT DEF Device
    <2> QED
      BY <2>1, <2>2, <2>3
  <1>6. CASE Fold
    <2> USE <1>6 DEF Fold
    <2>0. NoReply \in Replies /\ NoPoll \in Polls /\ cur.target \in 0 .. MaxTargets
      BY DEF NoReply, Replies, NoPoll, Polls, Host
    <2>a. pending' \in 0 .. MaxTargets /\ settled' \in 0 .. MaxTargets
      BY <2>0, SMT DEF Unanswered, Host
    <2>b. worker' \in {"wait", "exited", "rearm"}
      BY Zenon
    <2>1. Flags'
      BY Zenon DEF Flags
    <2>2. Host'
      BY <2>0, <2>a, <2>b, SMT DEF Host, OwnerPoints, RequestAt, WorkerPoints, CallerPoints
    <2>3. Device'
      BY SMT DEF Device
    <2> QED
      BY <2>1, <2>2, <2>3
  <1>7. CASE Rearm
    <2> USE <1>7 DEF Rearm
    <2>1. Flags'
      BY Zenon DEF Flags
    <2>2. Host'
      BY SMT DEF Host, OwnerPoints, RequestAt, WorkerPoints, CallerPoints
    <2>3. Device'
      BY FrameIs, SendingKeeps
    <2> QED
      BY <2>1, <2>2, <2>3
  <1>8. CASE Reply
    <2> USE <1>8 DEF Reply
    <2>0. Head(fromMcu) \in Replies /\ Tail(fromMcu) \in Seq(Replies)
          /\ Len(Tail(fromMcu)) <= LinkCap
      BY TailIs DEF Device
    <2>1. Flags'
      BY Zenon DEF Flags
    <2>2. Host'
      BY <2>0, SMT DEF Host, OwnerPoints, RequestAt, WorkerPoints, CallerPoints
    <2>3. Device'
      BY <2>0, SMT DEF Device
    <2> QED
      BY <2>1, <2>2, <2>3
  <1> QED
    BY <1>1, <1>2, <1>3, <1>4, <1>5, <1>6, <1>7, <1>8

(* The MCU's answer to a poll.                                             *)
LEMMA PollTypes ==
  ASSUME Device, NEW p \in Polls, McuPoll(p)
  PROVE  /\ cache' \in Replies /\ handed' \in 0 .. MaxRecords
         /\ fromMcu' \in Seq(Replies) /\ Len(fromMcu') <= LinkCap
  <1>1. cache' \in Replies /\ handed' \in 0 .. MaxRecords
    <2>1. CASE UNCHANGED <<cache, handed>>
      BY <2>1 DEF Device
    <2>2. CASE cache' = [NoReply EXCEPT !.n = p.n, !.nack = TRUE] /\ UNCHANGED handed
      BY <2>2 DEF Device, NoReply, Replies, Polls
    <2>3. CASE \E k \in 0 .. Batch :
                 /\ handed + k <= MaxRecords
                 /\ cache' = [n |-> p.n, nack |-> FALSE, polled |-> mode = "polled",
                              recs |-> handed + 1 .. handed + k]
                 /\ handed' = handed + k
      <3> PICK k \in 0 .. Batch :
                 /\ handed + k <= MaxRecords
                 /\ cache' = [n |-> p.n, nack |-> FALSE, polled |-> mode = "polled",
                              recs |-> handed + 1 .. handed + k]
                 /\ handed' = handed + k
        BY <2>3
      <3>1. p.n \in 0 .. MaxExchanges /\ (mode = "polled") \in BOOLEAN
        BY DEF Polls
      <3>2. handed + 1 .. handed + k \in SUBSET Records
        BY DEF Device, Records
      <3> QED
        BY <3>1, <3>2 DEF Replies, Device
    <2> QED
      BY <2>1, <2>2, <2>3 DEF McuPoll
  <1> QED
    BY <1>1, SentIs DEF McuPoll, Device

(* of the MCU and of the line.                                             *)
LEMMA TypesOfDevice ==
  ASSUME Types, McuHandles \/ LeaseExpires \/ LoseFrame \/ LinkDrops
  PROVE  Types'
  <1> USE DEF Types, ownerVars, workVars, targetVars, mcuVars, statVars
  <1>1. CASE McuHandles
    <2> USE <1>1 DEF McuHandles
    <2>0. PICK f \in Frames : f = Head(toMcu)
      BY TailIs DEF Device
    <2>a. answer' \in {"none", "ok", "nack"} /\ mode' \in {"idle", "push", "polled"}
      <3>1. \A a \in {"ok", "nack"} : Answered(f, a) => answer' \in {"none", "ok", "nack"}
        BY Zenon DEF Answered, Host
      <3>2. CASE McuStream(f)
        BY <3>1, <3>2, Zenon DEF McuStream, Device
      <3>3. CASE UNCHANGED <<answer, mode>>
        BY <3>3 DEF Host, Device
      <3> QED
        BY <2>0, <3>2, <3>3, Zenon
    <2>b. \/ f.op = "poll" /\ McuPoll(f.poll)
          \/ UNCHANGED <<fromMcu, cache, handed>>
      BY <2>0, Zenon
    <2>c. /\ cache' \in Replies /\ handed' \in 0 .. MaxRecords
          /\ fromMcu' \in Seq(Replies) /\ Len(fromMcu') <= LinkCap
      BY <2>b, PollTypes DEF Frames, Device
    <2>d. toMcu' \in Seq(Frames) /\ Len(toMcu') <= LinkCap
      BY TailIs DEF Device
    <2>1. Flags'
      BY Zenon DEF Flags
    <2>2. Host'
      BY <2>a, SMT DEF Host
    <2>3. Device'
      BY <2>a, <2>c, <2>d, SMT DEF Device
    <2> QED
      BY <2>1, <2>2, <2>3
  <1>2. CASE LeaseExpires
    <2> USE <1>2 DEF LeaseExpires
    <2>1. Flags'
      BY Zenon DEF Flags
    <2>2. Host'
      BY SMT DEF Host, OwnerPoints, RequestAt, WorkerPoints, CallerPoints
    <2>3. Device'
      BY SMT DEF Device
    <2> QED
      BY <2>1, <2>2, <2>3
  <1>3. CASE LoseFrame
    <2> USE <1>3 DEF LoseFrame
    <2>1. Flags'
      BY Zenon DEF Flags
    <2>2. Host'
      BY SMT DEF Host, OwnerPoints, RequestAt, WorkerPoints, CallerPoints
    <2>3. Device'
      <3>1. /\ \/ toMcu' = toMcu
               \/ toMcu # <<>> /\ toMcu' = Tail(toMcu)
            /\ \/ fromMcu' = fromMcu
               \/ fromMcu # <<>> /\ fromMcu' = Tail(fromMcu)
        BY Zenon
      <3>2. toMcu # <<>> => Tail(toMcu) \in Seq(Frames) /\ Len(Tail(toMcu)) <= LinkCap
        BY TailIs DEF Device
      <3>3. fromMcu # <<>> => Tail(fromMcu) \in Seq(Replies) /\ Len(Tail(fromMcu)) <= LinkCap
        BY TailIs DEF Device
      <3> QED
        BY <3>1, <3>2, <3>3 DEF Device
    <2> QED
      BY <2>1, <2>2, <2>3
  <1>4. CASE LinkDrops
    <2> USE <1>4 DEF LinkDrops
    <2>1. Flags'
      BY Zenon DEF Flags
    <2>2. Host'
      BY SMT DEF Host, OwnerPoints, RequestAt, WorkerPoints, CallerPoints
    <2>3. Device'
      BY SMT DEF Device
    <2> QED
      BY <2>1, <2>2, <2>3
  <1> QED
    BY <1>1, <1>2, <1>3, <1>4

(* They hold to begin with, and through every step.                        *)
LEMMA TypesInit == Init => Types
  <1> SUFFICES ASSUME Init PROVE Types
    OBVIOUS
  <1>1. NoPoll \in Polls /\ NoReply \in Replies
    BY DEF NoPoll, Polls, NoReply, Replies
  <1>2. Flags
    BY Zenon DEF Init, Flags
  <1>3. Host
    BY <1>1, SMT DEF Init, Host, OwnerPoints, WorkerPoints, CallerPoints
  <1>4. Device
    BY <1>1, SMT DEF Init, Device
  <1> QED
    BY <1>2, <1>3, <1>4 DEF Types

(* Every step keeps the types.                                             *)
LEMMA TypesStep == Types /\ [Next]_vars => Types'
  <1>1. Types /\ Next => Types'
    BY TypesOfOwner, TypesOfCaller, TypesOfWorker, TypesOfDevice
       DEF Next, OwnerStep, CallerStep, WorkerStep
  <1>2. Types /\ UNCHANGED vars => Types'
    BY DEF Types, Flags, Host, Device, vars, ownerVars, workVars, targetVars, mcuVars, statVars
  <1> QED
    BY <1>1, <1>2

---------------------------------------------------------------------------
(* The newest target *)

(* The worker is at an exchange; the owner has no worker.                  *)
Busy == {"write", "await", "fold"}
AtRest == {"off", "quieting", "probing", "arming", "starting", "pushing", "joined", "hushing"}

(* The exchange under way is the last one begun, and between two there is  *)
(* none; run_() is over when the owner goes on after Join.                 *)
Working ==
  /\ worker \notin Busy => cur = NoPoll
  /\ worker \in Busy => cur.n = count /\ count # 0
  /\ owner \in AtRest => worker = "none"

(* The mailbox holds the newest target or nothing; the exchange under way  *)
(* carries one that is newer than every target answered, and the newest if *)
(* the mailbox is empty; and the target of a caller on its way to the      *)
(* exchange is newer than all of these.                                    *)
Mailbox ==
  /\ worker = "none" => pending = 0
  /\ pending # 0 => pending = newest /\ settled < pending /\ cur.target < pending
  /\ cur.target # 0 => settled < cur.target /\ cur.target <= newest
  /\ cur.target # 0 /\ pending = 0 => cur.target = newest
  /\ settled <= issued /\ newest <= issued
  /\ caller = "copied" => newest < issued /\ settled < issued
  /\ worker \notin {"none", "exited"} /\ newest # 0 =>
       pending = newest \/ cur.target = newest \/ settled = newest

(* All steps but six leave the targets where they are, and the worker in   *)
(* its exchange or out of it.                                              *)
OwnerMoves ==
  \/ StartExchange \/ AskAgain \/ Arm \/ FallBack \/ FallenBack \/ StartFails
  \/ Route \/ Unroute \/ RaiseStop \/ Hush \/ StopDone
CallerMoves == SubmitTurn \/ SubmitWrite \/ SubmitThrows
WorkerMoves == WorkerExits \/ Write \/ SendThrows \/ Timeout \/ Rearm \/ Reply
DeviceMoves == McuHandles \/ LeaseExpires \/ LoseFrame \/ LinkDrops

Bystanding ==
  /\ UNCHANGED <<pending, newest, issued, settled, count, cur>>
  /\ caller' = "copied" => caller = "copied"
  /\ worker' \in Busy <=> worker \in Busy
  /\ worker' = "none" <=> worker = "none"
  /\ worker = "exited" => worker' = "exited"
  /\ owner' \in AtRest => owner \in AtRest

(* What a step of one party leaves as it was for the others.               *)
LEMMA Bystanders ==
  OwnerMoves \/ CallerMoves \/ WorkerMoves \/ DeviceMoves => Bystanding
  <1> USE DEF ownerVars, workVars, targetVars, mcuVars, statVars
  <1>1. OwnerMoves => /\ UNCHANGED <<pending, newest, issued, settled, count, cur, caller, worker>>
                      /\ owner' \in AtRest => owner \in AtRest
    <2>1. CASE StartExchange \/ FallenBack \/ StartFails \/ StopDone
      BY <2>1 DEF StartExchange, FallenBack, StartFails, StopDone, AtRest
    <2>2. CASE AskAgain \/ Arm \/ FallBack \/ Hush
      BY <2>2 DEF AskAgain, Arm, FallBack, Hush, Ask, AtRest
    <2>3. CASE Route \/ Unroute \/ RaiseStop
      BY <2>3 DEF Route, Unroute, RaiseStop, AtRest
    <2> QED
      BY <2>1, <2>2, <2>3 DEF OwnerMoves
  <1>2. CallerMoves => /\ UNCHANGED <<pending, newest, issued, settled, count, cur, worker, owner>>
                       /\ caller' # "copied"
    BY DEF CallerMoves, SubmitTurn, SubmitWrite, SubmitThrows
  <1>3. WorkerMoves => /\ UNCHANGED <<pending, newest, issued, settled, count, cur, caller, owner>>
                       /\ worker' \in Busy <=> worker \in Busy
                       /\ worker' = "none" <=> worker = "none"
                       /\ worker = "exited" => worker' = "exited"
    BY DEF WorkerMoves, WorkerExits, Write, SendThrows, Timeout, Rearm, Reply, Busy
  <1>4. DeviceMoves =>
          UNCHANGED <<pending, newest, issued, settled, count, cur, caller, worker, owner>>
    BY Zenon DEF DeviceMoves, McuHandles, LeaseExpires, LoseFrame, LinkDrops
  <1> QED
    BY <1>1, <1>2, <1>3, <1>4 DEF Bystanding

(* Every step is one of a party's, or one of the six that touch a target.  *)
LEMMA NextCases ==
  Next => \/ OwnerMoves \/ CallerMoves \/ WorkerMoves \/ DeviceMoves
          \/ StartWorker \/ Join \/ Submit \/ SubmitRouted \/ Take \/ Fold
  BY DEF Next, OwnerStep, CallerStep, WorkerStep, OwnerMoves, CallerMoves, WorkerMoves, DeviceMoves

(* Every step keeps the worker's place and its exchange in agreement.      *)
LEMMA WorkingStep == Types /\ Working /\ Next => Working'
  <1> SUFFICES ASSUME Types, Working, Next PROVE Working'
    OBVIOUS
  <1> USE DEF Working, Busy, AtRest, ownerVars, workVars, targetVars, mcuVars, statVars
  <1>1. CASE Bystanding
    BY <1>1 DEF Bystanding
  <1>2. CASE StartWorker
    BY <1>2 DEF StartWorker
  <1>3. CASE Join
    BY <1>3 DEF Join
  <1>4. CASE Submit
    BY <1>4 DEF Submit
  <1>5. CASE SubmitRouted
    BY <1>5 DEF SubmitRouted
  <1>6. CASE Take
    BY <1>6 DEF Take, Types, Host
  <1>7. CASE Fold
    BY <1>7 DEF Fold
  <1> QED
    BY <1>1, <1>2, <1>3, <1>4, <1>5, <1>6, <1>7, NextCases, Bystanders

(* Every step keeps the mailbox: a newer target replaces the older one.    *)
LEMMA MailboxStep == Types /\ Working /\ Mailbox /\ Next => Mailbox'
  <1> SUFFICES ASSUME Types, Working, Mailbox, Next PROVE Mailbox'
    OBVIOUS
  <1> USE DEF Mailbox, ownerVars, workVars, targetVars, mcuVars, statVars
  <1>0. /\ pending \in Nat /\ newest \in Nat /\ settled \in Nat /\ issued \in Nat
        /\ cur.target \in Nat
    BY DEF Types, Host, Polls
  <1>1. CASE Bystanding
    BY <1>1 DEF Bystanding
  <1>2. CASE StartWorker
    BY <1>0, <1>2 DEF StartWorker, Working, NoPoll, AtRest, Busy
  <1>3. CASE Join
    BY <1>0, <1>3 DEF Join, Working, NoPoll, Busy
  <1>4. CASE Submit
    BY <1>0, <1>4 DEF Submit
  <1>5. CASE SubmitRouted
    BY <1>0, <1>5 DEF SubmitRouted
  <1>6. CASE Take
    BY <1>0, <1>6 DEF Take, Working, NoPoll, Busy
  <1>7. CASE Fold
    BY <1>0, <1>7 DEF Fold, Unanswered, Working, NoPoll, Busy
  <1> QED
    BY <1>1, <1>2, <1>3, <1>4, <1>5, <1>6, <1>7, NextCases, Bystanders

---------------------------------------------------------------------------
(* Polls, replies and records *)

(* Polls are on their way in the order of their numbers, none older than   *)
(* the one the MCU answered last; so that one is not forgotten while it    *)
(* may be repeated.                                                        *)
PollsInOrder ==
  /\ cache.n <= count
  /\ \A i \in 1 .. Len(toMcu) : toMcu[i].op = "poll" =>
       /\ toMcu[i].poll.n \in 1 .. count /\ cache.n <= toMcu[i].poll.n
       /\ \A j \in 1 .. Len(toMcu) :
            i <= j /\ toMcu[j].op = "poll" => toMcu[i].poll.n <= toMcu[j].poll.n

(* A reply on its way to the host is to an older poll, or is the MCU's     *)
(* last; and so the reply that an exchange was answered with is the last.  *)
RepliesAreCached ==
  /\ \A i \in 1 .. Len(fromMcu) :
       /\ 1 <= fromMcu[i].n /\ fromMcu[i].n <= cache.n
       /\ fromMcu[i].n = cache.n => fromMcu[i] = cache
  /\ worker = "fold" /\ Good => ack = cache /\ cache.n = cur.n
  /\ worker \in {"write", "await"} => ack = NoReply

(* What the host's requests and targets do to the line, and nothing else.  *)
Raising == {"arm", "push", "rearm"}

HostSends ==
  /\ UNCHANGED <<fromMcu, cache, count, cur, ack, via, handed, delivered, mode>>
  /\ worker' = worker \/ (worker = "rearm" /\ worker' = "wait")
  /\ \/ toMcu' = toMcu
     \/ \E f \in Frames :
          /\ toMcu' = Sent(toMcu, f)
          /\ f.op # "poll" /\ f.session = session'
          /\ f.op = "hush" => owner' = "hushing"
          /\ f.op \in Raising => owner' \in {"arming", "starting"} \/ worker = "rearm"

(* What the steps of the host that are no poll put on the wire.            *)
LEMMA HostStep ==
  ASSUME Types, OwnerMoves \/ CallerMoves \/ Rearm
  PROVE  HostSends
  <1> USE DEF Types, ownerVars, workVars, targetVars, mcuVars, statVars
  <1>1. CASE AskAgain \/ Arm \/ FallBack \/ Hush
    <2>1. /\ UNCHANGED <<session, fromMcu, cache, count, cur, ack, via, handed, delivered, mode,
                         worker>>
          /\ \E p \in DOMAIN RequestAt : Ask(p)
      BY <1>1 DEF AskAgain, Arm, FallBack, Hush, RequestAt
    <2>2. PICK p \in DOMAIN RequestAt : Ask(p)
      BY <2>1
    <2>3. RequestAt[p] = "hush" => p = "hushing"
      BY DEF RequestAt
    <2>4. RequestAt[p] \in Raising => p \in {"arming", "starting"}
      BY DEF RequestAt, Raising
    <2>5. RequestAt[p] # "poll"
      BY DEF RequestAt
    <2> QED
      BY <2>1, <2>2, <2>3, <2>4, <2>5, AskSends DEF HostSends
  <1>2. CASE StartExchange
    <2> DEFINE f == [Frame("quiet") EXCEPT !.session = session + 1]
    <2>1. f \in Frames /\ f.op = "quiet" /\ f.session = session + 1
      BY <1>2, FrameIs DEF StartExchange, Frame, Host
    <2>2. /\ UNCHANGED <<fromMcu, cache, count, cur, ack, via, handed, delivered, mode, worker>>
          /\ toMcu' = Sent(toMcu, f) /\ session' = session + 1
      BY <1>2 DEF StartExchange
    <2> QED
      BY <2>1, <2>2 DEF HostSends, Raising
  <1>3. CASE FallenBack \/ StartFails \/ Route \/ Unroute \/ RaiseStop \/ StopDone
    BY <1>3, Zenon DEF FallenBack, StartFails, Route, Unroute, RaiseStop, StopDone, HostSends
  <1>4. CASE SubmitTurn \/ SubmitThrows
    BY <1>4, Zenon DEF SubmitTurn, SubmitThrows, HostSends
  <1>5. CASE SubmitWrite
    <2> DEFINE f == [Frame("target") EXCEPT !.poll.target = issued]
    <2>1. f \in Frames /\ f.op = "target" /\ f.session = session
      BY FrameIs DEF Frame
    <2>2. /\ UNCHANGED <<session, fromMcu, cache, count, cur, ack, via, handed, delivered, mode,
                         worker>>
          /\ toMcu' = Sent(toMcu, f)
      BY <1>5 DEF SubmitWrite
    <2> QED
      BY <2>1, <2>2 DEF HostSends, Raising
  <1>6. CASE Rearm
    <2>1. Frame("rearm") \in Frames /\ Frame("rearm").op = "rearm" /\ Frame("rearm").session = session
      BY FrameIs
    <2>2. /\ UNCHANGED <<session, fromMcu, cache, count, cur, ack, via, handed, delivered, mode>>
          /\ worker = "rearm" /\ worker' = "wait"
          /\ toMcu' = Sent(toMcu, Frame("rearm"))
      BY <1>6 DEF Rearm
    <2> QED
      BY <2>1, <2>2 DEF HostSends, Raising
  <1> QED
    BY <1>1, <1>2, <1>3, <1>4, <1>5, <1>6 DEF OwnerMoves, CallerMoves

(* What the MCU does with a poll: it is a repetition, and gets the last    *)
(* answer again, or it gets a new one with the next records, or a NACK.    *)
LEMMA PollIs ==
  ASSUME Types, NEW p \in Polls, McuPoll(p)
  PROVE  /\ fromMcu' = Sent(fromMcu, cache') /\ cache' \in Replies
         /\ \/ cache.n = p.n /\ UNCHANGED <<cache, handed, via>>
            \/ /\ cache.n # p.n /\ cache'.n = p.n
               /\ \/ cache'.nack /\ cache'.recs = {} /\ UNCHANGED <<handed, via>>
                  \/ /\ handed' \in Nat /\ handed <= handed' /\ handed' <= MaxRecords
                     /\ cache'.recs = handed + 1 .. handed'
                     /\ ~cache'.nack
                     /\ via' = [r \in Records |-> IF r \in cache'.recs /\ p.n = cur.n
                                                  THEN p.n ELSE via[r]]
  <1>1. cache' \in Replies /\ fromMcu' = Sent(fromMcu, cache')
    BY PollTypes DEF McuPoll, Types
  <1>2. CASE cache.n = p.n /\ UNCHANGED <<cache, handed, via>>
    BY <1>1, <1>2
  <1>3. CASE /\ cache.n # p.n
             /\ cache' = [NoReply EXCEPT !.n = p.n, !.nack = TRUE]
             /\ UNCHANGED <<handed, via>>
    <2>1. cache'.n = p.n /\ cache'.nack /\ cache'.recs = {}
      BY <1>3 DEF NoReply
    <2> QED
      BY <1>1, <1>3, <2>1
  <1>4. ASSUME cache.n # p.n, NEW k \in 0 .. Batch, handed + k <= MaxRecords,
               cache' = [n |-> p.n, nack |-> FALSE, polled |-> mode = "polled",
                         recs |-> handed + 1 .. handed + k],
               handed' = handed + k,
               via' = [r \in Records |-> IF r \in handed + 1 .. handed + k /\ p.n = cur.n
                                         THEN p.n ELSE via[r]]
        PROVE  /\ cache'.n = p.n /\ ~cache'.nack
               /\ handed' \in Nat /\ handed <= handed' /\ handed' <= MaxRecords
               /\ cache'.recs = handed + 1 .. handed'
               /\ via' = [r \in Records |-> IF r \in cache'.recs /\ p.n = cur.n
                                            THEN p.n ELSE via[r]]
    <2>1. handed \in Nat
      BY DEF Types, Device
    <2>2. cache'.n = p.n /\ ~cache'.nack /\ cache'.recs = handed + 1 .. handed'
      BY <1>4
    <2> QED
      BY <1>4, <2>1, <2>2
  <1> QED
    BY <1>1, <1>2, <1>3, <1>4 DEF McuPoll

(* Nothing is on the line at the start.                                    *)
LEMMA LineInit == Init => PollsInOrder /\ RepliesAreCached
  BY DEF Init, PollsInOrder, RepliesAreCached, NoReply

(* Nothing on the line, and no reply, changes.                             *)
LineStays ==
  /\ UNCHANGED <<toMcu, fromMcu, cache, count, cur, ack, via, handed, delivered, mode>>
  /\ worker' = worker \/ worker' \notin Busy

(* The steps that leave the line alone.                                    *)
LEMMA QuietStep ==
  WorkerExits \/ StartWorker \/ Join \/ Submit \/ SubmitRouted => LineStays
  <1> USE DEF LineStays, Busy, workVars, mcuVars, statVars
  <1>1. WorkerExits \/ StartWorker \/ Join => LineStays
    BY DEF WorkerExits, StartWorker, Join
  <1>2. Submit \/ SubmitRouted => LineStays
    BY Zenon DEF Submit, SubmitRouted
  <1> QED
    BY <1>1, <1>2

(* Polls overtake neither each other nor the MCU's answers.                *)
LEMMA PollsStep == Types /\ Working /\ PollsInOrder /\ Next => PollsInOrder'
  <1> SUFFICES ASSUME Types, Working, PollsInOrder, Next PROVE PollsInOrder'
    OBVIOUS
  <1> USE DEF PollsInOrder
  <1>0. /\ count \in Nat /\ cache.n \in Nat
        /\ toMcu \in Seq(Frames) /\ Len(toMcu) <= LinkCap /\ \A f \in Frames : f.poll \in Polls
        /\ \A p \in Polls : p.n \in Nat
    BY DEF Types, Host, Device, Replies, Frames, Polls
  <1>1. CASE HostSends
    <2>1. CASE toMcu' = toMcu
      BY <1>1, <2>1 DEF HostSends
    <2>2. CASE toMcu' # toMcu
      <3> PICK f \in Frames : toMcu' = Sent(toMcu, f) /\ f.op # "poll"
        BY <1>1, <2>2 DEF HostSends
      <3>1. \A i \in 1 .. Len(toMcu') :
              \/ i \in 1 .. Len(toMcu) /\ toMcu'[i] = toMcu[i]
              \/ i = Len(toMcu) + 1 /\ toMcu'[i] = f
        BY <1>0, SentIs
      <3>2. cache' = cache /\ count' = count
        BY <1>1 DEF HostSends
      <3>3. \A i \in 1 .. Len(toMcu') : toMcu'[i].op = "poll" =>
              i \in 1 .. Len(toMcu) /\ toMcu'[i] = toMcu[i]
        BY <3>1
      <3>4. \A i \in 1 .. Len(toMcu') : toMcu'[i].op = "poll" => toMcu[i].op = "poll"
        BY <3>3
      <3> QED
        BY <3>2, <3>3, <3>4
    <2> QED
      BY <2>1, <2>2
  <1>2. CASE LineStays \/ SendThrows \/ Timeout \/ Fold \/ Reply \/ LeaseExpires
    BY <1>2 DEF LineStays, SendThrows, Timeout, Fold, Reply, LeaseExpires, statVars, mcuVars
  <1>3. CASE Take
    <2>1. count' = count + 1 /\ UNCHANGED <<toMcu, cache>>
      BY <1>3 DEF Take, mcuVars
    <2> QED
      BY <1>0, <2>1
  <1>4. CASE Write
    <2> DEFINE f == [Frame("poll") EXCEPT !.poll = cur]
    <2>1. f \in Frames /\ f.op = "poll" /\ f.poll = cur
      BY FrameIs DEF Frame, Types
    <2>2. toMcu' = Sent(toMcu, f) /\ cache' = cache /\ count' = count
      BY <1>4 DEF Write, mcuVars, statVars
    <2>3. \A i \in 1 .. Len(toMcu') :
            \/ i \in 1 .. Len(toMcu) /\ toMcu'[i] = toMcu[i]
            \/ i = Len(toMcu) + 1 /\ toMcu'[i] = f
      BY <1>0, <2>1, <2>2, SentIs
    <2>4. cur.n = count /\ count # 0
      BY <1>4 DEF Write, Working, Busy
    <2> HIDE DEF f
    <2>5. \A i \in 1 .. Len(toMcu') : toMcu'[i].op = "poll" =>
            toMcu'[i].poll.n \in 1 .. count /\ cache.n <= toMcu'[i].poll.n
      BY <1>0, <2>1, <2>3, <2>4
    <2>6. \A i, j \in 1 .. Len(toMcu') :
            i <= j /\ toMcu'[i].op = "poll" /\ toMcu'[j].op = "poll" =>
              toMcu'[i].poll.n <= toMcu'[j].poll.n
      <3> TAKE i, j \in 1 .. Len(toMcu')
      <3>1. CASE j \in 1 .. Len(toMcu) /\ toMcu'[j] = toMcu[j]
        <4>1. i <= j => i \in 1 .. Len(toMcu) /\ toMcu'[i] = toMcu[i]
          BY <1>0, <2>3, <3>1
        <4> QED
          BY <3>1, <4>1
      <3>2. CASE toMcu'[j] = f
        BY <1>0, <2>1, <2>4, <2>5, <3>2
      <3> QED
        BY <2>3, <3>1, <3>2
    <2> QED
      BY <2>2, <2>5, <2>6
  <1>5. CASE McuHandles \/ LoseFrame \/ LinkDrops
    <2>0. UNCHANGED count /\ (toMcu' = toMcu \/ toMcu' = <<>> \/ (toMcu # <<>> /\ toMcu' = Tail(toMcu)))
      BY <1>5, Zenon DEF McuHandles, LoseFrame, LinkDrops, statVars
    <2>1. \A i \in 1 .. Len(toMcu') :
            \/ toMcu'[i] = toMcu[i] /\ i \in 1 .. Len(toMcu) /\ toMcu' = toMcu
            \/ toMcu'[i] = toMcu[i + 1] /\ i + 1 \in 1 .. Len(toMcu) /\ toMcu # <<>>
      <3>1. CASE toMcu' = toMcu
        BY <3>1
      <3>2. CASE toMcu' = <<>>
        BY <3>2
      <3>3. CASE toMcu # <<>> /\ toMcu' = Tail(toMcu)
        BY <1>0, <3>3, TailIs
      <3> QED
        BY <2>0, <3>1, <3>2, <3>3
    <2>2. cache' = cache \/ (/\ toMcu # <<>> /\ toMcu[1].op = "poll"
                             /\ cache'.n = toMcu[1].poll.n)
      <3>1. CASE LoseFrame \/ LinkDrops
        BY <3>1 DEF LoseFrame, LinkDrops, mcuVars
      <3>2. CASE McuHandles
        <4>1. \/ UNCHANGED cache
              \/ Head(toMcu).op = "poll" /\ McuPoll(Head(toMcu).poll)
          BY <3>2, Zenon DEF McuHandles
        <4>2. toMcu # <<>> /\ Head(toMcu) \in Frames /\ Head(toMcu) = toMcu[1]
          BY <1>0, <3>2, TailIs DEF McuHandles
        <4> QED
          BY <1>0, <4>1, <4>2, PollIs
      <3> QED
        BY <1>5, <3>1, <3>2
    <2>3. toMcu # <<>> => 1 \in 1 .. Len(toMcu)
      BY <1>0, TailIs
    <2>4. toMcu' = toMcu => cache' = cache
      <3>1. CASE LoseFrame \/ LinkDrops
        BY <3>1 DEF LoseFrame, LinkDrops, mcuVars
      <3>2. CASE McuHandles
        <4>1. toMcu # <<>> /\ toMcu' = Tail(toMcu)
          BY <3>2 DEF McuHandles
        <4> QED
          BY <1>0, <4>1, TailIs
      <3> QED
        BY <1>5, <3>1, <3>2
    <2>5. cache'.n <= count
      BY <2>2, <2>3
    <2>6. CASE toMcu' = toMcu
      BY <2>0, <2>4, <2>6
    <2>7. CASE toMcu' # toMcu
      <3>1. \A i \in 1 .. Len(toMcu') :
              toMcu'[i] = toMcu[i + 1] /\ i + 1 \in 1 .. Len(toMcu) /\ toMcu # <<>>
        BY <2>1, <2>7
      <3>2. \A i \in 1 .. Len(toMcu') : toMcu'[i].op = "poll" =>
              toMcu'[i].poll.n \in 1 .. count /\ cache'.n <= toMcu'[i].poll.n
        BY <2>2, <2>3, <3>1
      <3>3. \A i, j \in 1 .. Len(toMcu') :
              i <= j /\ toMcu'[i].op = "poll" /\ toMcu'[j].op = "poll" =>
                toMcu'[i].poll.n <= toMcu'[j].poll.n
        BY <3>1
      <3> QED
        BY <2>0, <2>5, <3>2, <3>3
    <2> QED
      BY <2>6, <2>7
  <1> QED
    BY <1>1, <1>2, <1>3, <1>4, <1>5, NextCases, HostStep, QuietStep DEF WorkerMoves, DeviceMoves

(* A reply that an exchange takes is the one the MCU remembers.            *)
LEMMA RepliesStep == Types /\ Working /\ PollsInOrder /\ RepliesAreCached /\ Next => RepliesAreCached'
  <1> SUFFICES ASSUME Types, Working, PollsInOrder, RepliesAreCached, Next PROVE RepliesAreCached'
    OBVIOUS
  <1> DEFINE OnLine == \A i \in 1 .. Len(fromMcu) :
                         /\ 1 <= fromMcu[i].n /\ fromMcu[i].n <= cache.n
                         /\ fromMcu[i].n = cache.n => fromMcu[i] = cache
             Taken == /\ worker = "fold" /\ Good => ack = cache /\ cache.n = cur.n
                      /\ worker \in {"write", "await"} => ack = NoReply
  <1>0. /\ count \in Nat /\ cache.n \in Nat /\ OnLine /\ Taken
        /\ fromMcu \in Seq(Replies) /\ Len(fromMcu) <= LinkCap
        /\ cache \in Replies /\ \A r \in Replies : r.n \in Nat
        /\ cur.n \in Nat
    BY DEF Types, Host, Device, Replies, Polls, RepliesAreCached
  <1>1. CASE HostSends \/ LineStays
    <2>1. /\ UNCHANGED <<fromMcu, cache, cur, ack>>
          /\ worker' = worker \/ worker' \notin Busy
      BY <1>1 DEF HostSends, LineStays, Busy
    <2> QED
      BY <1>0, <2>1 DEF RepliesAreCached, Good, Busy
  <1>2. CASE Take \/ Fold
    <2>1. UNCHANGED <<fromMcu, cache>> /\ ack' = NoReply
      BY <1>2 DEF Take, Fold, mcuVars
    <2> QED
      BY <1>0, <2>1 DEF RepliesAreCached, Good
  <1>3. CASE Write \/ Timeout
    <2>1. UNCHANGED <<fromMcu, cache, ack>> /\ worker \in {"write", "await"}
      BY <1>3 DEF Write, Timeout, mcuVars
    <2> QED
      BY <1>0, <2>1 DEF RepliesAreCached, Good
  <1>4. CASE SendThrows
    <2>1. UNCHANGED <<fromMcu, cache>> /\ worker' = "fold" /\ ack' \in {NoReply, Broken}
      BY <1>4 DEF SendThrows, mcuVars
    <2>2. ~Good'
      BY <2>1 DEF Good, Broken, NoReply
    <2> QED
      BY <1>0, <2>1, <2>2 DEF RepliesAreCached
  <1>5. CASE Reply
    <2>1. /\ fromMcu # <<>> /\ fromMcu' = Tail(fromMcu) /\ UNCHANGED <<cache, cur>>
          /\ \/ UNCHANGED <<ack, worker>>
             \/ worker = "await" /\ worker' = "fold" /\ ack' = fromMcu[1] /\ fromMcu[1].n = cur.n
      BY <1>0, <1>5, TailIs DEF Reply, mcuVars
    <2>2. OnLine'
      BY <1>0, <2>1, TailIs
    <2>3. fromMcu[1].n <= cache.n /\ (fromMcu[1].n = cache.n => fromMcu[1] = cache)
      BY <1>0, <2>1, TailIs
    <2>4. worker = "await" => cache.n <= cur.n
      BY DEF Working, Busy, PollsInOrder
    <2>5. Taken'
      <3>1. CASE UNCHANGED <<ack, worker>>
        BY <1>0, <2>1, <3>1 DEF Good
      <3>2. CASE worker = "await" /\ worker' = "fold" /\ ack' = fromMcu[1] /\ fromMcu[1].n = cur.n
        <4>1. cache.n = cur.n /\ ack' = cache
          BY <1>0, <2>3, <2>4, <3>2
        <4> QED
          BY <2>1, <3>2, <4>1
      <3> QED
        BY <2>1, <3>1, <3>2
    <2> QED
      BY <2>2, <2>5 DEF RepliesAreCached
  <1>6. CASE LeaseExpires \/ LoseFrame \/ LinkDrops
    <2>1. /\ UNCHANGED <<cache, cur, ack, worker>>
          /\ \/ fromMcu' = fromMcu \/ fromMcu' = <<>>
             \/ fromMcu # <<>> /\ fromMcu' = Tail(fromMcu)
      BY <1>6, Zenon DEF LeaseExpires, LoseFrame, LinkDrops, mcuVars, workVars
    <2>2. OnLine'
      <3>1. CASE fromMcu' = fromMcu
        BY <1>0, <2>1, <3>1
      <3>2. CASE fromMcu' = <<>>
        BY <3>2
      <3>3. CASE fromMcu # <<>> /\ fromMcu' = Tail(fromMcu)
        BY <1>0, <2>1, <3>3, TailIs
      <3> QED
        BY <2>1, <3>1, <3>2, <3>3
    <2> QED
      BY <1>0, <2>1, <2>2 DEF RepliesAreCached, Good
  <1>7. CASE McuHandles
    <2>1. UNCHANGED <<cur, ack, worker>>
      BY <1>7 DEF McuHandles, workVars
    <2>2. CASE UNCHANGED <<fromMcu, cache>>
      BY <1>0, <2>1, <2>2 DEF RepliesAreCached, Good
    <2>3. CASE Head(toMcu).op = "poll" /\ McuPoll(Head(toMcu).poll)
      <3> DEFINE p == Head(toMcu).poll
      <3>1. /\ p \in Polls /\ p.n \in 1 .. count /\ cache.n <= p.n
        <4>1. toMcu \in Seq(Frames) /\ toMcu # <<>>
          BY <1>7 DEF McuHandles, Types, Device
        <4>2. Head(toMcu) = toMcu[1] /\ 1 \in 1 .. Len(toMcu) /\ Head(toMcu) \in Frames
          BY <4>1, TailIs
        <4> QED
          BY <2>3, <4>2 DEF PollsInOrder, Frames
      <3> HIDE DEF p
      <3>2. /\ fromMcu' = Sent(fromMcu, cache') /\ cache' \in Replies
            /\ cache'.n = p.n /\ (cache'.n = cache.n => cache' = cache)
        BY <2>3, <3>1, PollIs DEF p
      <3>3. \A i \in 1 .. Len(fromMcu') :
              \/ i \in 1 .. Len(fromMcu) /\ fromMcu'[i] = fromMcu[i]
              \/ fromMcu'[i] = cache'
        BY <1>0, <3>2, SentIs
      <3>4. OnLine'
        BY <1>0, <3>1, <3>2, <3>3
      <3>5. worker = "fold" /\ Good => cache' = cache
        <4>1. worker = "fold" => p.n <= cur.n
          BY <3>1 DEF Working, Busy
        <4> QED
          BY <1>0, <3>1, <3>2, <4>1 DEF Polls
      <3>6. Taken'
        BY <1>0, <2>1, <3>5 DEF Good
      <3> QED
        BY <3>4, <3>6 DEF RepliesAreCached
    <2> QED
      BY <1>7, <2>2, <2>3 DEF McuHandles
  <1> QED
    BY <1>1, <1>2, <1>3, <1>4, <1>5, <1>6, <1>7, NextCases, HostStep, QuietStep
       DEF WorkerMoves, DeviceMoves

(* A record handed out to the exchange under way is in the reply that the  *)
(* MCU remembers for it.                                                   *)
Replayable ==
  /\ via \in [Records -> 0 .. MaxExchanges]
  /\ \A r \in Records : via[r] # 0 =>
       via[r] = cur.n /\ cache.n = cur.n /\ r \in cache.recs /\ ~cache.nack

(* The records of a reply follow each other, and those of an answer that   *)
(* the exchange under way may still get come after all that were injected. *)
Deliveries ==
  /\ delivered \in Seq(Records)
  /\ \E a, b \in Nat : cache.recs = a + 1 .. b
  /\ \A r \in cache.recs : r <= handed
  /\ \A i \in 1 .. Len(delivered) : delivered[i] <= handed
  /\ cur.n # 0 /\ cache.n = cur.n =>
       \A i \in 1 .. Len(delivered), r \in cache.recs : delivered[i] < r
  /\ DeliveredInOrder

(* A poll that reaches the MCU is not newer than the last, and not older   *)
(* than the one answered last.                                             *)
LEMMA PollAtMcu ==
  ASSUME Types, PollsInOrder, McuHandles
  PROVE  \/ UNCHANGED <<fromMcu, cache, handed, via>>
         \/ /\ Head(toMcu).poll \in Polls /\ McuPoll(Head(toMcu).poll)
            /\ Head(toMcu).poll.n \in 1 .. count /\ cache.n <= Head(toMcu).poll.n
  <1>1. toMcu \in Seq(Frames) /\ toMcu # <<>>
    BY DEF McuHandles, Types, Device
  <1>2. Head(toMcu) = toMcu[1] /\ 1 \in 1 .. Len(toMcu) /\ Head(toMcu) \in Frames
    BY <1>1, TailIs
  <1>3. \/ UNCHANGED <<fromMcu, cache, handed, via>>
        \/ Head(toMcu).op = "poll" /\ McuPoll(Head(toMcu).poll)
    BY Zenon DEF McuHandles
  <1> QED
    BY <1>2, <1>3 DEF PollsInOrder, Frames

(* Records a lost reply may have carried are still in the reply kept.      *)
LEMMA ReplayableStep ==
  Types /\ Working /\ PollsInOrder /\ RepliesAreCached /\ Replayable /\ Next => Replayable'
  <1> SUFFICES ASSUME Types, Working, PollsInOrder, RepliesAreCached, Replayable, Next
               PROVE  Replayable'
    OBVIOUS
  <1>0. /\ count \in Nat /\ cache.n \in Nat /\ cur.n \in 0 .. MaxExchanges
        /\ \A p \in Polls : p.n \in 0 .. MaxExchanges
        /\ cur.n # 0 => worker \in Busy /\ cur.n = count
    BY DEF Types, Host, Device, Replies, Polls, Working, NoPoll
  <1>1. CASE HostSends \/ LineStays
    BY <1>1 DEF HostSends, LineStays, Replayable
  <1>2. CASE Write \/ Timeout \/ SendThrows \/ Reply \/ LeaseExpires \/ LoseFrame \/ LinkDrops
    BY <1>2, Zenon DEF Write, Timeout, SendThrows, Reply, LeaseExpires, LoseFrame, LinkDrops,
       workVars, mcuVars, Replayable
  <1>3. CASE Take
    <2>1. worker = "wait" /\ UNCHANGED <<via, cache>>
      BY <1>3 DEF Take, mcuVars
    <2>2. \A r \in Records : via[r] = 0
      BY <1>0, <2>1 DEF Replayable, Busy
    <2> QED
      BY <2>1, <2>2 DEF Replayable
  <1>4. CASE Fold
    <2>1. /\ worker = "fold" /\ cache' = cache
          /\ via' = [r \in Records |-> IF via[r] = cur.n /\ (~Good \/ r \in ack.recs) THEN 0 ELSE via[r]]
      BY <1>4 DEF Fold
    <2>2. Good => ack = cache
      BY <2>1 DEF RepliesAreCached
    <2>3. \A r \in Records : via'[r] = 0
      BY <1>0, <2>1, <2>2 DEF Replayable
    <2>4. via' \in [Records -> 0 .. MaxExchanges]
      BY <2>1 DEF Replayable
    <2> QED
      BY <2>3, <2>4 DEF Replayable
  <1>5. CASE McuHandles
    <2>1. cur' = cur
      BY <1>5 DEF McuHandles, workVars
    <2>2. CASE UNCHANGED <<fromMcu, cache, handed, via>>
      BY <2>1, <2>2 DEF Replayable
    <2>3. CASE /\ Head(toMcu).poll \in Polls /\ McuPoll(Head(toMcu).poll)
               /\ Head(toMcu).poll.n \in 1 .. count /\ cache.n <= Head(toMcu).poll.n
      <3> DEFINE p == Head(toMcu).poll
      <3>1. p \in Polls /\ McuPoll(p) /\ p.n \in 1 .. count /\ cache.n <= p.n
        BY <2>3
      <3> HIDE DEF p
      <3>2. CASE UNCHANGED <<cache, handed, via>>
        BY <2>1, <3>2 DEF Replayable
      <3>3. CASE cache.n # p.n
        <4>1. \A r \in Records : via[r] = 0
          BY <1>0, <3>1, <3>3 DEF Replayable
        <4>2. \/ UNCHANGED via
              \/ /\ cache'.n = p.n /\ ~cache'.nack
                 /\ via' = [r \in Records |-> IF r \in cache'.recs /\ p.n = cur.n
                                              THEN p.n ELSE via[r]]
          BY <3>1, <3>3, PollIs
        <4> QED
          BY <1>0, <2>1, <3>1, <4>1, <4>2 DEF Replayable
      <3> QED
        BY <3>1, <3>2, <3>3, PollIs
    <2> QED
      BY <1>5, <2>2, <2>3, PollAtMcu
  <1> QED
    BY <1>1, <1>2, <1>3, <1>4, <1>5, NextCases, HostStep, QuietStep DEF WorkerMoves, DeviceMoves

(* Every step keeps each record delivered at most once, in order.          *)
LEMMA DeliveriesStep ==
  Types /\ Working /\ PollsInOrder /\ RepliesAreCached /\ Deliveries /\ Next => Deliveries'
  <1> SUFFICES ASSUME Types, Working, PollsInOrder, RepliesAreCached, Deliveries, Next
               PROVE  Deliveries'
    OBVIOUS
  <1>0. /\ count \in Nat /\ cache.n \in Nat /\ cur.n \in Nat /\ handed \in Nat
        /\ cache.n <= count
        /\ cur.n # 0 => worker \in Busy /\ cur.n = count
        /\ cache.recs \subseteq Records /\ Records \subseteq Nat
    BY DEF Types, Host, Device, Replies, Polls, Working, NoPoll, Records, PollsInOrder
  <1>1. CASE HostSends \/ LineStays
    BY <1>1 DEF HostSends, LineStays, Deliveries, DeliveredInOrder
  <1>2. CASE Write \/ Timeout \/ SendThrows \/ Reply \/ LeaseExpires \/ LoseFrame \/ LinkDrops
    <2>1. UNCHANGED <<cur, cache, handed, delivered>>
      BY <1>2, Zenon DEF Write, Timeout, SendThrows, Reply, LeaseExpires, LoseFrame, LinkDrops,
         workVars, mcuVars, statVars
    <2> QED
      BY <2>1 DEF Deliveries, DeliveredInOrder
  <1>3. CASE Take
    <2>1. UNCHANGED <<cache, handed, delivered>> /\ cur'.n = count + 1
      BY <1>3 DEF Take, mcuVars
    <2> QED
      BY <1>0, <2>1 DEF Deliveries, DeliveredInOrder
  <1>4. CASE Fold
    <2>1. /\ worker = "fold" /\ UNCHANGED <<cache, handed>> /\ cur'.n = 0
          /\ delivered' = IF Good THEN delivered \o InOrder(ack.recs) ELSE delivered
      BY <1>4 DEF Fold, NoPoll
    <2>2. CASE ~Good
      BY <2>1, <2>2 DEF Deliveries, DeliveredInOrder
    <2>3. CASE Good
      <3>1. ack = cache /\ cache.n = cur.n /\ cur.n # 0
        BY <2>1, <2>3 DEF RepliesAreCached, Working, Busy
      <3>2. PICK a \in Nat, b \in Nat : cache.recs = a + 1 .. b
        BY DEF Deliveries
      <3> DEFINE s == InOrder(a + 1 .. b)
      <3>3. s \in Seq(a + 1 .. b) /\ \A i, j \in 1 .. Len(s) : i < j => s[i] < s[j]
        BY InOrderIs
      <3>4. delivered' = delivered \o s
        BY <2>1, <2>3, <3>1, <3>2
      <3> HIDE DEF s
      <3>5. /\ delivered \in Seq(Records) /\ s \in Seq(Records)
            /\ \A i \in 1 .. Len(s) : s[i] \in cache.recs
        BY <1>0, <3>2, <3>3 DEF Deliveries
      <3>6. /\ delivered' \in Seq(Records) /\ Len(delivered') = Len(delivered) + Len(s)
            /\ \A i \in 1 .. Len(delivered') :
                 \/ i \in 1 .. Len(delivered) /\ delivered'[i] = delivered[i]
                 \/ i - Len(delivered) \in 1 .. Len(s) /\ delivered'[i] = s[i - Len(delivered)]
        BY <3>4, <3>5
      <3>7. \A i \in 1 .. Len(delivered') : delivered'[i] <= handed
        BY <3>5, <3>6 DEF Deliveries
      <3>8. ASSUME NEW i \in 1 .. Len(delivered'), NEW j \in 1 .. Len(delivered'), i < j
            PROVE  delivered'[i] < delivered'[j]
        <4>1. CASE j \in 1 .. Len(delivered)
          BY <3>5, <3>6, <3>8, <4>1 DEF Deliveries, DeliveredInOrder
        <4>2. CASE i \in 1 .. Len(delivered) /\ j \notin 1 .. Len(delivered)
          <5>1. delivered'[j] \in cache.recs /\ delivered'[i] = delivered[i]
            <6>1. delivered'[i] = delivered[i]
              BY <3>6, <4>2
            <6>2. j - Len(delivered) \in 1 .. Len(s) /\ delivered'[j] = s[j - Len(delivered)]
              BY <3>6, <4>2
            <6> QED
              BY <3>5, <6>1, <6>2
          <5> QED
            BY <3>1, <4>2, <5>1 DEF Deliveries
        <4>3. CASE i \notin 1 .. Len(delivered) /\ j \notin 1 .. Len(delivered)
          <5>1. /\ i - Len(delivered) \in 1 .. Len(s) /\ delivered'[i] = s[i - Len(delivered)]
                /\ j - Len(delivered) \in 1 .. Len(s) /\ delivered'[j] = s[j - Len(delivered)]
            BY <3>6, <4>3
          <5>2. i - Len(delivered) < j - Len(delivered)
            BY <3>5, <3>8
          <5> QED
            BY <3>3, <5>1, <5>2
        <4> QED
          BY <3>5, <3>6, <3>8, <4>1, <4>2, <4>3
      <3> QED
        BY <2>1, <3>2, <3>6, <3>7, <3>8 DEF Deliveries, DeliveredInOrder
    <2> QED
      BY <2>2, <2>3
  <1>5. CASE McuHandles
    <2>1. UNCHANGED <<cur, delivered>>
      BY <1>5 DEF McuHandles, workVars, statVars
    <2>2. CASE UNCHANGED <<fromMcu, cache, handed, via>>
      BY <2>1, <2>2 DEF Deliveries, DeliveredInOrder
    <2>3. CASE /\ Head(toMcu).poll \in Polls /\ McuPoll(Head(toMcu).poll)
               /\ Head(toMcu).poll.n \in 1 .. count /\ cache.n <= Head(toMcu).poll.n
      <3>1. CASE UNCHANGED <<cache, handed, via>>
        BY <2>1, <3>1 DEF Deliveries, DeliveredInOrder
      <3>2. CASE cache'.recs = {} /\ UNCHANGED handed
        <4>1. cache'.recs = 0 + 1 .. 0
          BY <3>2
        <4> QED
          BY <2>1, <3>2, <4>1 DEF Deliveries, DeliveredInOrder
      <3>3. CASE /\ handed' \in Nat /\ handed <= handed'
                 /\ cache'.recs = handed + 1 .. handed'
        <4>1. \A i \in 1 .. Len(delivered) : delivered[i] \in Nat
          <5>1. delivered \in Seq(Records)
            BY DEF Deliveries
          <5>2. \A i \in 1 .. Len(delivered) : delivered[i] \in Records
            BY ONLY <5>1
          <5> QED
            BY <1>0, <5>2
        <4>2. \A i \in 1 .. Len(delivered), r \in cache'.recs : delivered[i] < r
          BY <1>0, <3>3, <4>1 DEF Deliveries
        <4>3. \A i \in 1 .. Len(delivered) : delivered[i] <= handed'
          BY <1>0, <3>3, <4>1 DEF Deliveries
        <4>4. \E a, b \in Nat : cache'.recs = a + 1 .. b
          BY <1>0, <3>3
        <4>5. \A r \in cache'.recs : r <= handed'
          BY <1>0, <3>3
        <4> QED
          BY <2>1, <4>2, <4>3, <4>4, <4>5 DEF Deliveries, DeliveredInOrder
      <3> QED
        BY <2>3, <3>1, <3>2, <3>3, PollIs
    <2> QED
      BY <1>5, <2>2, <2>3, PollAtMcu
  <1> QED
    BY <1>1, <1>2, <1>3, <1>4, <1>5, NextCases, HostStep, QuietStep DEF WorkerMoves, DeviceMoves

---------------------------------------------------------------------------
(* Stopping *)

NothingRaises == \A j \in 1 .. Len(toMcu) : toMcu[j].op \notin Raising

(* Behind the StopStream that ends a session no request wakes the MCU      *)
(* again, and when it was answered there is none on the line at all.       *)
Hushing ==
  /\ hushed => owner = "off"
  /\ \A i \in 1 .. Len(toMcu) : toMcu[i].session <= session
  /\ \A i \in 1 .. Len(toMcu) : toMcu[i].op = "hush" /\ toMcu[i].session = session =>
       /\ owner \in {"hushing", "off"}
       /\ \A j \in 1 .. Len(toMcu) : i <= j => toMcu[j].op \notin Raising
  /\ (owner = "hushing" /\ answer = "ok") \/ hushed => mode = "idle" /\ NothingRaises

(* A frame that is not a StopStream of this session's end, and wakes the   *)
(* MCU only while no such StopStream is on its way, or the StopStream      *)
(* itself: it goes behind the rest.                                        *)
LEMMA FrameAdded ==
  ASSUME Types, Hushing, NEW f \in Frames, toMcu' = Sent(toMcu, f), session' \in Nat,
         session <= session', f.session = session',
         f.op = "hush" => owner' = "hushing",
         f.op \in Raising => owner' \notin {"hushing", "off"},
         session' = session => (owner \in {"hushing", "off"} => owner' \in {"hushing", "off"})
  PROVE  /\ \A i \in 1 .. Len(toMcu') : toMcu'[i].session <= session'
         /\ \A i \in 1 .. Len(toMcu') : toMcu'[i].op = "hush" /\ toMcu'[i].session = session' =>
              /\ owner' \in {"hushing", "off"}
              /\ \A j \in 1 .. Len(toMcu') : i <= j => toMcu'[j].op \notin Raising
         /\ f.op \notin Raising /\ NothingRaises => NothingRaises'
  <1>1. \A i \in 1 .. Len(toMcu') :
          \/ i \in 1 .. Len(toMcu) /\ toMcu'[i] = toMcu[i]
          \/ i = Len(toMcu) + 1 /\ toMcu'[i] = f
    BY SentIs DEF Types, Device
  <1>2. session \in Nat /\ \A i \in 1 .. Len(toMcu) : toMcu[i].session \in Nat
    <2>1. toMcu \in Seq(Frames)
      BY DEF Types, Device
    <2>2. \A x \in Frames : x.session \in Nat
      BY DEF Frames
    <2> QED
      BY <2>1, <2>2 DEF Types, Host
  <1>3. \A i \in 1 .. Len(toMcu') : toMcu'[i].session <= session'
    BY <1>1, <1>2 DEF Hushing
  <1>4. f.op \notin Raising /\ NothingRaises => NothingRaises'
    BY <1>1 DEF NothingRaises
  <1>5. ASSUME NEW i \in 1 .. Len(toMcu'), toMcu'[i].op = "hush", toMcu'[i].session = session'
        PROVE  /\ owner' \in {"hushing", "off"}
               /\ \A j \in 1 .. Len(toMcu') : i <= j => toMcu'[j].op \notin Raising
    <2>1. CASE i \in 1 .. Len(toMcu) /\ toMcu'[i] = toMcu[i]
      <3>1. session' = session /\ owner \in {"hushing", "off"}
        BY <1>2, <1>5, <2>1 DEF Hushing
      <3>2. \A j \in 1 .. Len(toMcu) : i <= j => toMcu[j].op \notin Raising
        BY <1>5, <2>1, <3>1 DEF Hushing
      <3>3. owner' \in {"hushing", "off"} /\ f.op \notin Raising
        BY <3>1
      <3> QED
        BY <1>1, <3>2, <3>3
    <2>2. CASE i = Len(toMcu) + 1 /\ toMcu'[i] = f
      <3>1. owner' = "hushing" /\ f.op \notin Raising
        BY <1>5, <2>2
      <3>2. \A j \in 1 .. Len(toMcu') : i <= j => toMcu'[j] = f
        <4>1. Len(toMcu) \in Nat
          BY DEF Types, Device
        <4> QED
          BY <1>1, <2>2, <4>1
      <3> QED
        BY <3>1, <3>2
    <2> QED
      BY <1>1, <2>1, <2>2
  <1> QED
    BY <1>3, <1>4, <1>5

(* The requests of a start, and of a stop,                                 *)
LEMMA HushingOfOwner ==
  ASSUME Types, Working, Hushing, OwnerMoves
  PROVE  Hushing'
  <1> USE DEF ownerVars, workVars, targetVars, mcuVars, statVars
  <1>0. session \in Nat /\ mode' = mode
    BY HostStep DEF Types, Host, HostSends
  <1>1. CASE StartExchange
    <2> DEFINE f == [Frame("quiet") EXCEPT !.session = session + 1]
    <2>1. f \in Frames /\ f.op = "quiet" /\ f.session = session + 1
      BY <1>1, FrameIs DEF StartExchange, Frame, Types, Host
    <2>2. /\ toMcu' = Sent(toMcu, f) /\ session' = session + 1 /\ ~hushed'
          /\ owner' = "quieting"
      BY <1>1 DEF StartExchange
    <2> HIDE DEF f
    <2>3. /\ \A i \in 1 .. Len(toMcu') : toMcu'[i].session <= session'
          /\ \A i \in 1 .. Len(toMcu') : toMcu'[i].op = "hush" /\ toMcu'[i].session = session' =>
               /\ owner' \in {"hushing", "off"}
               /\ \A j \in 1 .. Len(toMcu') : i <= j => toMcu'[j].op \notin Raising
      BY <1>0, <2>1, <2>2, FrameAdded DEF Raising
    <2> QED
      BY <2>2, <2>3 DEF Hushing
  <1>2. CASE AskAgain \/ Arm \/ FallBack \/ Hush
    <2>1. /\ UNCHANGED <<session, hushed>>
          /\ \E p \in DOMAIN RequestAt :
               Ask(p) /\ (p = "hushing" <=> (owner \in {"joined", "pushing", "hushing"}))
          /\ owner # "off"
          /\ owner = "hushing" => answer = "none"
      BY <1>2 DEF AskAgain, Arm, FallBack, Hush, RequestAt
    <2>2. PICK p \in DOMAIN RequestAt :
               Ask(p) /\ (p = "hushing" <=> (owner \in {"joined", "pushing", "hushing"}))
      BY <2>1
    <2> DEFINE f == Frame(RequestAt[p])
    <2>3. /\ owner' = p /\ answer' = "none" /\ toMcu' = Sent(toMcu, f)
          /\ f \in Frames /\ f.op = RequestAt[p] /\ f.session = session
      BY <2>2, AskSends DEF Types
    <2>4. (RequestAt[p] = "hush" <=> p = "hushing") /\ p # "off"
      BY DEF RequestAt
    <2>5. RequestAt[p] \in Raising => p # "hushing"
      BY <2>4 DEF Raising
    <2> HIDE DEF f
    <2>6. /\ \A i \in 1 .. Len(toMcu') : toMcu'[i].session <= session'
          /\ \A i \in 1 .. Len(toMcu') : toMcu'[i].op = "hush" /\ toMcu'[i].session = session' =>
               /\ owner' \in {"hushing", "off"}
               /\ \A j \in 1 .. Len(toMcu') : i <= j => toMcu'[j].op \notin Raising
      BY <1>0, <2>1, <2>2, <2>3, <2>4, <2>5, FrameAdded
    <2>7. ~hushed
      BY <2>1 DEF Hushing
    <2> QED
      BY <2>1, <2>3, <2>6, <2>7 DEF Hushing
  <1>3. CASE FallenBack \/ Route \/ Unroute \/ RaiseStop
    <2>1. /\ UNCHANGED <<session, hushed, toMcu>>
          /\ owner \notin {"hushing", "off"} /\ owner' \notin {"hushing", "off"}
      BY <1>3 DEF FallenBack, Route, Unroute, RaiseStop
    <2> QED
      BY <2>1 DEF Hushing
  <1>4. CASE StartFails
    <2>1. /\ UNCHANGED <<session, hushed, toMcu>> /\ owner' = "off"
          /\ owner \notin {"hushing", "off"}
      BY <1>4 DEF StartFails
    <2> QED
      BY <2>1 DEF Hushing
  <1>5. CASE StopDone
    <2>1. /\ UNCHANGED <<session, toMcu>> /\ owner' = "off" /\ owner = "hushing"
          /\ hushed' => answer = "ok"
      BY <1>5 DEF StopDone
    <2> QED
      BY <1>0, <2>1 DEF Hushing, NothingRaises
  <1> QED
    BY <1>1, <1>2, <1>3, <1>4, <1>5 DEF OwnerMoves

(* Once the stop is acknowledged no frame on its way raises a stream.      *)
LEMMA HushingStep == Types /\ Working /\ Hushing /\ Next => Hushing'
  <1> SUFFICES ASSUME Types, Working, Hushing, Next PROVE Hushing'
    OBVIOUS
  <1> USE DEF ownerVars, workVars, targetVars, mcuVars, statVars
  <1>0. session \in Nat /\ toMcu \in Seq(Frames)
    BY DEF Types, Host, Device
  <1>1. CASE OwnerMoves
    BY <1>1, HushingOfOwner
  <1>2. CASE CallerMoves \/ Rearm
    <2>1. UNCHANGED <<session, owner, answer, hushed, mode>> /\ (Rearm => worker = "rearm")
      BY <1>2 DEF CallerMoves, SubmitTurn, SubmitWrite, SubmitThrows, Rearm
    <2>2. CASE toMcu' = toMcu
      BY <2>1, <2>2 DEF Hushing, NothingRaises
    <2>3. CASE toMcu' # toMcu
      <3>1. PICK f \in Frames :
              /\ toMcu' = Sent(toMcu, f)
              /\ f.session = session
              /\ f.op = "hush" => owner' = "hushing"
              /\ f.op \in Raising => owner' \in {"arming", "starting"} \/ worker = "rearm"
        BY <1>2, <2>1, <2>3, HostStep DEF HostSends
      <3>2. f.op \in Raising => owner \notin {"hushing", "off"}
        BY <2>1, <3>1 DEF Working, AtRest
      <3>3. /\ \A i \in 1 .. Len(toMcu') : toMcu'[i].session <= session'
            /\ \A i \in 1 .. Len(toMcu') : toMcu'[i].op = "hush" /\ toMcu'[i].session = session' =>
                 /\ owner' \in {"hushing", "off"}
                 /\ \A j \in 1 .. Len(toMcu') : i <= j => toMcu'[j].op \notin Raising
            /\ f.op \notin Raising /\ NothingRaises => NothingRaises'
        BY <1>0, <2>1, <3>1, <3>2, FrameAdded
      <3> QED
        BY <2>1, <3>2, <3>3 DEF Hushing
    <2> QED
      BY <2>2, <2>3
  <1>3. CASE Write
    <2> DEFINE f == [Frame("poll") EXCEPT !.poll = cur]
    <2>1. f \in Frames /\ f.op = "poll" /\ f.session = session
      BY FrameIs DEF Frame, Types
    <2>2. toMcu' = Sent(toMcu, f) /\ UNCHANGED <<session, owner, answer, hushed, mode>>
      BY <1>3 DEF Write
    <2> HIDE DEF f
    <2>3. /\ \A i \in 1 .. Len(toMcu') : toMcu'[i].session <= session'
          /\ \A i \in 1 .. Len(toMcu') : toMcu'[i].op = "hush" /\ toMcu'[i].session = session' =>
               /\ owner' \in {"hushing", "off"}
               /\ \A j \in 1 .. Len(toMcu') : i <= j => toMcu'[j].op \notin Raising
          /\ NothingRaises => NothingRaises'
      BY <1>0, <2>1, <2>2, FrameAdded DEF Raising
    <2> QED
      BY <2>2, <2>3 DEF Hushing
  <1>4. CASE WorkerExits \/ SendThrows \/ Timeout \/ Reply \/ Take \/ Fold \/ Submit \/ SubmitRouted
    <2>1. UNCHANGED <<session, owner, answer, hushed, mode, toMcu>>
      BY <1>4, Zenon DEF WorkerExits, SendThrows, Timeout, Reply, Take, Fold, Submit, SubmitRouted
    <2> QED
      BY <2>1 DEF Hushing, NothingRaises
  <1>5. CASE StartWorker \/ Join
    <2>1. /\ UNCHANGED <<session, hushed, mode, toMcu>>
          /\ owner \notin {"hushing", "off"} /\ owner' \notin {"hushing", "off"}
      BY <1>5 DEF StartWorker, Join
    <2> QED
      BY <2>1 DEF Hushing
  <1>6. CASE LeaseExpires
    <2>1. mode = "polled" /\ UNCHANGED <<session, owner, answer, hushed, toMcu>>
      BY <1>6 DEF LeaseExpires
    <2> QED
      BY <2>1 DEF Hushing
  <1>7. CASE McuHandles \/ LoseFrame \/ LinkDrops
    <2>1. /\ UNCHANGED <<session, owner, hushed>>
          /\ toMcu' = toMcu \/ toMcu' = <<>> \/ (toMcu # <<>> /\ toMcu' = Tail(toMcu))
      BY <1>7, Zenon DEF McuHandles, LoseFrame, LinkDrops
    <2>2. \/ toMcu' = toMcu
          \/ \A i \in 1 .. Len(toMcu') : toMcu'[i] = toMcu[i + 1] /\ i + 1 \in 1 .. Len(toMcu)
      <3>1. CASE toMcu' = <<>>
        BY <3>1
      <3>2. CASE toMcu # <<>> /\ toMcu' = Tail(toMcu)
        BY <1>0, <3>2, TailIs
      <3> QED
        BY <2>1, <3>1, <3>2
    <2>3. /\ \A i \in 1 .. Len(toMcu') : toMcu'[i].session <= session'
          /\ \A i \in 1 .. Len(toMcu') : toMcu'[i].op = "hush" /\ toMcu'[i].session = session' =>
               /\ owner' \in {"hushing", "off"}
               /\ \A j \in 1 .. Len(toMcu') : i <= j => toMcu'[j].op \notin Raising
          /\ NothingRaises => NothingRaises'
      BY <2>1, <2>2 DEF Hushing, NothingRaises
    <2>4. CASE UNCHANGED <<answer, mode>>
      BY <2>1, <2>3, <2>4 DEF Hushing
    <2>5. CASE McuHandles /\ ~UNCHANGED <<answer, mode>>
      <3>1. /\ McuStream(Head(toMcu)) /\ toMcu # <<>> /\ toMcu' = Tail(toMcu)
        BY <2>5, Zenon DEF McuHandles
      <3>2. Head(toMcu) = toMcu[1] /\ 1 \in 1 .. Len(toMcu)
        BY <1>0, <3>1, TailIs
      <3> DEFINE f == toMcu[1]
      <3>3. /\ answer' = answer \/ (answer' # "ok" /\ mode' = mode)
               \/ (answer' = "ok" /\ owner \in DOMAIN RequestAt /\ f.op = RequestAt[owner]
                   /\ f.session = session)
            /\ f.op \notin Raising => mode' \in {"idle", mode}
            /\ f.op = "hush" => mode' = "idle" \/ (mode' = mode /\ answer' # "ok")
               \/ (mode' = mode /\ answer' = answer)
        BY <3>1, <3>2 DEF McuStream, Answered, Raising
      <3>4. ASSUME (owner = "hushing" /\ answer = "ok") \/ hushed, answer' = answer
            PROVE  mode' = "idle" /\ NothingRaises'
        BY <2>3, <3>2, <3>3, <3>4 DEF Hushing, NothingRaises
      <3>5. ASSUME owner = "hushing", answer' = "ok", answer # "ok"
            PROVE  mode' = "idle" /\ NothingRaises'
        <4>1. f.op = "hush" /\ f.session = session
          BY <3>3, <3>5 DEF RequestAt
        <4>2. mode' = "idle"
          BY <3>3, <3>5, <4>1
        <4>3. \A j \in 1 .. Len(toMcu) : 1 <= j => toMcu[j].op \notin Raising
          BY <3>2, <4>1 DEF Hushing
        <4>4. NothingRaises
          BY <4>3 DEF NothingRaises
        <4> QED
          BY <2>3, <4>2, <4>4
      <3>6. ASSUME hushed
            PROVE  mode' = "idle" /\ NothingRaises'
        <4>1. mode = "idle" /\ NothingRaises
          BY <3>6 DEF Hushing
        <4>2. f.op \notin Raising
          BY <3>2, <4>1 DEF NothingRaises
        <4> QED
          BY <2>3, <3>3, <4>1, <4>2
      <3> QED
        BY <2>1, <2>3, <3>4, <3>5, <3>6 DEF Hushing
    <2>6. LoseFrame \/ LinkDrops => UNCHANGED <<answer, mode>>
      BY DEF LoseFrame, LinkDrops
    <2> QED
      BY <1>7, <2>4, <2>5, <2>6
  <1> QED
    BY <1>1, <1>2, <1>3, <1>4, <1>5, <1>6, <1>7, NextCases DEF WorkerMoves, DeviceMoves

---------------------------------------------------------------------------
(* The results *)

(* The inductive invariant.                                                *)
IInv ==
  /\ Types /\ Working /\ Mailbox
  /\ PollsInOrder /\ RepliesAreCached /\ Replayable /\ Deliveries
  /\ Hushing

(* The inductive invariant holds of every behaviour.                       *)
LEMMA Invariant == Spec => []IInv
  <1>1. Init => IInv
    <2> SUFFICES ASSUME Init PROVE IInv
      OBVIOUS
    <2>1. Types
      BY TypesInit
    <2>2. Working /\ Mailbox
      BY DEF Init, Working, Mailbox, NoPoll, Busy
    <2>3. PollsInOrder /\ RepliesAreCached
      BY LineInit
    <2>4. Replayable
      BY DEF Init, Replayable
    <2>5. Deliveries
      <3>1. cache.recs = 0 + 1 .. 0 /\ delivered = <<>> /\ handed = 0
        BY DEF Init, NoReply
      <3> QED
        BY <3>1 DEF Deliveries, DeliveredInOrder
    <2>6. Hushing
      BY DEF Init, Hushing, NothingRaises
    <2> QED
      BY <2>1, <2>2, <2>3, <2>4, <2>5, <2>6 DEF IInv
  <1>2. IInv /\ [Next]_vars => IInv'
    <2>1. IInv /\ Next => IInv'
      BY TypesStep, WorkingStep, MailboxStep, PollsStep, RepliesStep, ReplayableStep,
         DeliveriesStep, HushingStep DEF IInv
    <2>2. IInv /\ UNCHANGED vars => IInv'
      <3> SUFFICES ASSUME IInv, UNCHANGED vars PROVE IInv'
        OBVIOUS
      <3> USE DEF IInv, vars, ownerVars, workVars, targetVars, mcuVars, statVars
      <3>1. Types'
        BY TypesStep
      <3>2. Working' /\ Mailbox'
        BY DEF Working, Mailbox
      <3>3. PollsInOrder' /\ RepliesAreCached'
        BY DEF PollsInOrder, RepliesAreCached, Good
      <3>4. Replayable' /\ Deliveries'
        BY DEF Replayable, Deliveries, DeliveredInOrder
      <3>5. Hushing'
        BY DEF Hushing, NothingRaises
      <3> QED
        BY <3>1, <3>2, <3>3, <3>4, <3>5
    <2> QED
      BY <2>1, <2>2
  <1> QED
    BY <1>1, <1>2, PTL DEF Spec

(* Every variable stays in its type.                                       *)
THEOREM TypesHold == Spec => []TypeOK
  <1>1. IInv => TypeOK
    BY TypeParts DEF IInv, Traces, Replayable, Deliveries
  <1> QED
    BY <1>1, Invariant, PTL

(* The newest target that a running exchange accepted is in its mailbox,   *)
(* under way, or answered.                                                 *)
THEOREM NewestNotLostHolds == Spec => []NewestNotLost
  <1>1. IInv => NewestNotLost
    BY DEF IInv, NewestNotLost, Mailbox, Working, NoPoll, Busy
  <1> QED
    BY <1>1, Invariant, PTL

(* No target goes out that is not newer than every target answered.        *)
THEOREM AnsweredNotResentHolds == Spec => AnsweredNotResent
  <1> DEFINE Forwards == worker = "wait" /\ worker' = "write" /\ cur'.target # 0 => cur'.target > settled
  <1>1. IInv /\ [Next]_vars => Forwards
    <2> SUFFICES ASSUME IInv, [Next]_vars, worker = "wait", worker' = "write", cur'.target # 0
                 PROVE  cur'.target > settled
      OBVIOUS
    <2>1. Take
      BY NextCases, Bystanders
         DEF Bystanding, Busy, vars, workVars, StartWorker, Join, Submit, SubmitRouted, Fold
    <2>2. cur'.target = pending
      BY <2>1 DEF Take
    <2>3. pending \in Nat /\ settled \in Nat
      BY DEF IInv, Types, Host
    <2> QED
      BY <2>2, <2>3 DEF IInv, Mailbox
  <1> QED
    BY <1>1, Invariant, PTL DEF Spec, AnsweredNotResent

(* A record handed out to an exchange that is under way is delivered by    *)
(* it, unless it fails, whatever polls and replies are lost or repeated.   *)
THEOREM NoSilentLossHolds == Spec => []NoSilentLoss
  <1>1. IInv => NoSilentLoss
    BY DEF IInv, NoSilentLoss, Replayable, Working, NoPoll, Busy
  <1> QED
    BY <1>1, Invariant, PTL

(* Subscribers see the records of polls once each and in order.            *)
THEOREM DeliveredInOrderHolds == Spec => []DeliveredInOrder
  <1>1. IInv => DeliveredInOrder
    BY DEF IInv, Deliveries
  <1> QED
    BY <1>1, Invariant, PTL

(* A stop that was answered leaves the MCU idle until the next start.      *)
THEOREM StoppedStaysStoppedHolds == Spec => []StoppedStaysStopped
  <1>1. IInv => StoppedStaysStopped
    BY DEF IInv, Hushing, StoppedStaysStopped
  <1> QED
    BY <1>1, Invariant, PTL
=============================================================================
