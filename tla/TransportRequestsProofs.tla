---------------------- MODULE TransportRequestsProofs ----------------------
(***************************************************************************)
(* Theorems about TransportRequests, for every set of senders, sequence    *)
(* space, retry bound and link capacity.                                   *)
(***************************************************************************)
EXTENDS TransportRequests, TLAPS

USE SendersAssumption, NumSeqsAssumption, RetriesAssumption, LinkAssumption,
    ModesAssumption

(* A remainder is a sequence number: next_seq_ wraps.                      *)
LEMMA ModSeqs == ASSUME NEW n \in Nat PROVE n % NumSeqs \in Seqs
  BY DEF Seqs

(* The values locals start from are of their types.                        *)
LEMMA IdleTypes == NoCall \in Calls /\ NoFuture \in Futures /\ Waiting \in Futures
  BY DEF NoCall, Calls, Seqs, Modes, NoFuture, Waiting, Futures

(* Dropping a future keeps the futures and the reader's hand in type.      *)
LEMMA DropFutureTypes ==
  ASSUME TypeOK, NEW s \in Senders, DropFuture(s)
  PROVE  fut' \in [Senders -> Futures] /\ hand' \in Hands \cup {NoHand}
  <1>1. fut' \in [Senders -> Futures]
    BY IdleTypes DEF TypeOK, DropFuture
  <1>2. CASE hand \in Hands
    BY <1>1, <1>2 DEF DropFuture, Hands
  <1>3. CASE hand = NoHand
    BY <1>1, <1>3 DEF DropFuture, NoHand
  <1> QED
    BY <1>1, <1>2, <1>3 DEF TypeOK

(* No step of any thread, of the reader or of the link leaves the types.   *)
LEMMA TypeStep == TypeOK /\ [Next]_vars => TypeOK'
  <1> SUFFICES ASSUME TypeOK, [Next]_vars PROVE TypeOK'
    OBVIOUS
  <1> USE DEF TypeOK, modeVars, seqVars, linkVars
  <1> USE IdleTypes
  <1>1. ASSUME NEW s \in Senders, StartCall(s) PROVE TypeOK'
    BY <1>1 DEF StartCall, Calls, Modes, Points, Seqs
  <1>2. ASSUME NEW s \in Senders, ReserveStopped(s) PROVE TypeOK'
    BY <1>2 DEF ReserveStopped, Leave, Points
  <1>3. ASSUME NEW s \in Senders, ReserveBusy(s) PROVE TypeOK'
    BY <1>3 DEF ReserveBusy, Leave, Points
  <1>4. ASSUME NEW s \in Senders, ReserveNew(s) PROVE TypeOK'
    <2>1. PICK q \in Seqs :
            /\ nextSeq' = (q + 1) % NumSeqs
            /\ call' = [call EXCEPT ![s].seq = q, ![s].held = (call[s].mode # "NoAck")]
            /\ reserved' \subseteq reserved \cup {q}
            /\ pending' \in {pending, [pending EXCEPT ![q] = s]}
            /\ fut' \in {fut, [fut EXCEPT ![s] = Waiting]}
            /\ toMcu' \subseteq toMcu /\ fromMcu' \subseteq fromMcu
      BY <1>4 DEF ReserveNew, Forget, NextAfter
    <2>2. nextSeq' \in Seqs
      BY <2>1, ModSeqs DEF Seqs
    <2>3. call' \in [Senders -> Calls]
      BY <2>1 DEF Calls
    <2> QED
      BY <1>4, <2>1, <2>2, <2>3 DEF ReserveNew, Points
  <1>5. ASSUME NEW s \in Senders, ReserveAgain(s) PROVE TypeOK'
    BY <1>5 DEF ReserveAgain, Points, Calls
  <1>6. ASSUME NEW s \in Senders, ReadHalfDuplex(s) \/ TakeTurn(s) PROVE TypeOK'
    BY <1>6 DEF ReadHalfDuplex, TakeTurn, Points
  <1>7. ASSUME NEW s \in Senders, TurnTimeout(s) PROVE TypeOK'
    BY <1>7 DEF TurnTimeout, Leave, Points
  <1>8. ASSUME NEW s \in Senders, Write(s) PROVE TypeOK'
    <2> DEFINE f == [seq |-> call[s].seq, cmd |-> call[s].cmd,
                     needAck |-> (call[s].mode # "NoAck"), origin |-> s]
    <2>1. toMcu' \in {toMcu, toMcu \cup {f}}
      BY <1>8 DEF Write, Sent
    <2>2. f \in Requests
      BY DEF Requests, Calls
    <2>3. pc' \in [Senders -> Points] /\ call' \in [Senders -> Calls] /\ turn' \in Senders \cup {None}
      BY <1>8 DEF Write, ReleaseTurn, Points
    <2> QED
      BY <1>8, <2>1, <2>2, <2>3 DEF Write
  <1>9. ASSUME NEW s \in Senders, WriteFails(s) PROVE TypeOK'
    BY <1>9 DEF WriteFails, Leave, Points, ReleaseTurn
  <1>10. ASSUME NEW s \in Senders, Answered(s) PROVE TypeOK'
    BY <1>10 DEF Answered, Leave, Points, ReleaseTurn
  <1>11. ASSUME NEW s \in Senders, WaitTimeout(s) PROVE TypeOK'
    BY <1>11 DEF WaitTimeout, Points, ReleaseTurn
  <1>12. ASSUME NEW s \in Senders, Expire(s) PROVE TypeOK'
    <2>1. DropFuture(s)
      BY <1>12 DEF Expire
    <2>2. pc' \in [Senders -> Points] /\ pending' \in [Seqs -> Senders \cup {None}]
      BY <1>12 DEF Expire, Leave, Points
    <2> QED
      BY <1>12, <2>1, <2>2, DropFutureTypes DEF Expire
  <1>13. ASSUME NEW s \in Senders, Retry(s) PROVE TypeOK'
    <2>2. call' \in [Senders -> Calls]
      <3>1. CASE call[s].mode = "NewSeq"
        <4>1. call' = [call EXCEPT ![s].held = FALSE, ![s].attempt = call[s].attempt + 1]
          BY <1>13, <3>1 DEF Retry
        <4> QED
          BY <4>1 DEF Calls
      <3>2. CASE call[s].mode # "NewSeq"
        <4>1. call' = [call EXCEPT ![s].attempt = call[s].attempt + 1]
          BY <1>13, <3>2 DEF Retry
        <4> QED
          BY <4>1 DEF Calls
      <3> QED
        BY <3>1, <3>2
    <2> QED
      BY <1>13, <2>2 DEF Retry, Release, Points
  <1>14. ASSUME NEW s \in Senders, Finish(s) PROVE TypeOK'
    <2>1. DropFuture(s)
      BY <1>14 DEF Finish
    <2>2. toMcu' \subseteq Requests /\ fromMcu' \subseteq Responses
      BY <1>14 DEF Finish, Disowned, Requests, Responses
    <2> QED
      BY <1>14, <2>1, <2>2, DropFutureTypes DEF Finish, Release, Points
  <1>15. CASE MatchAck
    BY <1>15 DEF MatchAck, Accepts, Hands, Responses, ReplyForms
  <1>16. CASE ResolvePromise
    BY <1>16 DEF ResolvePromise, Hands, NoHand, Futures, Answers
  <1>17. CASE ReadFails
    BY <1>17 DEF ReadFails
  <1>18. CASE ReaderFailsPending
    BY <1>18 DEF ReaderFailsPending, FailPending, Futures, Answers
  <1>19. CASE StopBegin \/ ReaderStops \/ SetHalfDuplex
    BY <1>19 DEF StopBegin, ReaderStops, SetHalfDuplex
  <1>20. CASE StopEnd
    BY <1>20 DEF StopEnd, FailPending, Futures, Answers
  <1>21. CASE McuHandles
    BY <1>21 DEF McuHandles, Sent, Requests, Responses, ReplyForms
  <1>22. CASE LoseFrame
    BY <1>22 DEF LoseFrame
  <1>23. CASE UNCHANGED vars
    BY <1>23 DEF vars
  <1> QED
    BY <1>1, <1>2, <1>3, <1>4, <1>5, <1>6, <1>7, <1>8, <1>9, <1>10, <1>11, <1>12, <1>13,
       <1>14, <1>15, <1>16, <1>17, <1>18, <1>19, <1>20, <1>21, <1>22, <1>23
       DEF Next, SenderStep, ReaderStep

(* TypeOK holds in every reachable state (the type invariant the run       *)
(* checks), for all values of the constants.                               *)
THEOREM TypeCorrect == Spec => []TypeOK
  <1>1. Init => TypeOK
    <2>1. 0 \in Seqs
      BY DEF Seqs
    <2>2. "idle" \in Points
      BY DEF Points
    <2> QED
      BY <2>1, <2>2, IdleTypes DEF Init, TypeOK
  <1> QED
    BY <1>1, TypeStep, PTL DEF Spec

---------------------------------------------------------------------------
(* RequestsConsistent is inductive.  The lemmas that follow treat the      *)
(* actions that change who owns a slot or a promise; QuietStep treats the  *)
(* rest.                                                                   *)

(* A new call owns nothing yet.                                            *)
LEMMA StartCallOwned ==
  ASSUME TypeOK, TypeOK', RequestsConsistent, NEW s \in Senders, StartCall(s)
  PROVE  OwnedByPoint'
  <1> USE DEF modeVars, seqVars, linkVars, RequestsConsistent
  <1> SUFFICES ASSUME NEW t \in Senders PROVE OwnedAt(t)'
    BY DEF OwnedByPoint
  <1>1. CASE t = s
    BY <1>1 DEF StartCall, OwnedByPoint, OwnedAt, RetriesOf, TypeOK, Calls, NoFuture
  <1>2. CASE t # s
    BY <1>2 DEF StartCall, OwnedByPoint, OwnedAt, RetriesOf, TypeOK, Calls
  <1> QED
    BY <1>1, <1>2

(* The slot drawn is a free one, so ownership stays exclusive.             *)
LEMMA ReserveNewSlots ==
  ASSUME TypeOK, TypeOK', RequestsConsistent, NEW s \in Senders, ReserveNew(s)
  PROVE  SeqExclusive' /\ PendingOwned'
  <1> USE DEF modeVars, seqVars, linkVars, RequestsConsistent
  <1>1. PICK q \in Seqs :
          /\ q \notin reserved
          /\ call' = [call EXCEPT ![s].seq = q, ![s].held = (call[s].mode # "NoAck")]
          /\ reserved' = IF call[s].mode # "NoAck" THEN reserved \cup {q} ELSE reserved
          /\ pending' = IF call[s].mode # "NoAck" THEN [pending EXCEPT ![q] = s] ELSE pending
          /\ fut' = IF call[s].mode # "NoAck" THEN [fut EXCEPT ![s] = Waiting] ELSE fut
    BY DEF ReserveNew, FirstFree
  <1>2. \A t \in Senders : t # s => call'[t] = call[t] /\ fut'[t] = fut[t] /\ pc'[t] = pc[t]
    BY <1>1 DEF ReserveNew, TypeOK
  <1>3. ~call[s].held /\ fut[s] = NoFuture /\ pc'[s] = "turn"
    BY DEF ReserveNew, TypeOK, OwnedByPoint, OwnedAt
  <1>4. \A p \in Seqs : pending[p] # s
    BY <1>3 DEF PendingOwned
  <1>5. CASE call[s].mode = "NoAck"
    <2>1. ~call'[s].held /\ reserved' = reserved /\ pending' = pending /\ fut' = fut
      BY <1>1, <1>5 DEF TypeOK, Calls
    <2>2. SeqExclusive'
      <3>1. \A t \in Senders : call'[t].held => t # s /\ call[t].held /\ call'[t].seq = call[t].seq
        BY <1>2, <2>1
      <3>2. \A t \in Senders : call[t].held => t # s /\ call'[t].held /\ call'[t].seq = call[t].seq
        BY <1>2, <1>3
      <3> QED
        BY <2>1, <3>1, <3>2 DEF SeqExclusive
    <2>3. PendingOwned'
      <3>1. hand' = hand /\ fut'[s].state = "none"
        BY <1>3, <2>1 DEF ReserveNew, NoFuture
      <3>2. \A p \in Seqs : pending[p] # None => pending[p] \in Senders \ {s}
        BY <1>4 DEF PendingOwned, TypeOK
      <3>3. ASSUME NEW p \in Seqs, pending'[p] # None
            PROVE  LET u == pending'[p] IN
                     /\ call'[u].held /\ call'[u].seq = p
                     /\ pc'[u] \in {"turn", "lock", "write", "wait", "expire", "finish"}
                     /\ fut'[u].state = "waiting"
        BY <1>2, <2>1, <3>2, <3>3 DEF PendingOwned
      <3>4. ASSUME NEW t \in Senders, pc'[t] \in {"turn", "lock", "write", "wait"},
                   fut'[t].state = "waiting"
            PROVE  pending'[call'[t].seq] = t \/ hand'.owner = t
        BY <1>2, <2>1, <3>1, <3>4 DEF PendingOwned
      <3> QED
        BY <3>3, <3>4 DEF PendingOwned
    <2> QED
      BY <2>2, <2>3
  <1>6. CASE call[s].mode # "NoAck"
    <2>1. /\ call'[s].held /\ call'[s].seq = q /\ reserved' = reserved \cup {q}
          /\ pending' = [pending EXCEPT ![q] = s] /\ fut'[s] = Waiting
      BY <1>1, <1>6 DEF TypeOK, Calls
    <2>2. \A t \in Senders : call[t].held => t # s /\ call[t].seq # q
      BY <1>1, <1>3 DEF SeqExclusive
    <2>3. SeqExclusive'
      <3>1. \A t \in Senders : t = s \/ call'[t] = call[t]
        BY <1>2
      <3>2. \A p \in reserved' : p = q \/ \E t \in Senders : call'[t].held /\ call'[t].seq = p
        BY <1>2, <2>1, <2>2 DEF SeqExclusive
      <3>3. \A t \in Senders : call'[t].held => call'[t].seq \in reserved'
        BY <1>2, <2>1, <3>1 DEF SeqExclusive
      <3>4. ASSUME NEW t \in Senders, NEW u \in Senders, t # u, call'[t].held, call'[u].held
            PROVE  call'[t].seq # call'[u].seq
        BY <2>1, <2>2, <3>1, <3>4 DEF SeqExclusive
      <3> QED
        BY <2>1, <3>2, <3>3, <3>4 DEF SeqExclusive
    <2>4. PendingOwned'
      <3>1. hand' = hand /\ \A p \in Seqs : p # q => pending'[p] = pending[p]
        BY <2>1 DEF ReserveNew, TypeOK
      <3>2. pending'[q] = s
        BY <2>1 DEF TypeOK
      <3>3. \A p \in Seqs : pending[p] # None => pending[p] \in Senders \ {s} /\ p # q
        BY <1>4, <2>2 DEF PendingOwned, TypeOK
      <3>4. ASSUME NEW p \in Seqs, pending'[p] # None
            PROVE  LET u == pending'[p] IN
                     /\ call'[u].held /\ call'[u].seq = p
                     /\ pc'[u] \in {"turn", "lock", "write", "wait", "expire", "finish"}
                     /\ fut'[u].state = "waiting"
        <4>1. CASE p = q
          BY <1>3, <2>1, <3>2, <4>1 DEF Waiting
        <4>2. CASE p # q
          BY <1>2, <3>1, <3>3, <3>4, <4>2 DEF PendingOwned
        <4> QED
          BY <4>1, <4>2
      <3>5. ASSUME NEW t \in Senders, pc'[t] \in {"turn", "lock", "write", "wait"},
                   fut'[t].state = "waiting"
            PROVE  pending'[call'[t].seq] = t \/ hand'.owner = t
        <4>1. CASE t = s
          BY <2>1, <3>2, <4>1
        <4>2. CASE t # s
          BY <1>2, <3>1, <3>3, <3>5, <4>2 DEF PendingOwned, TypeOK, Calls
        <4> QED
          BY <4>1, <4>2
      <3> QED
        BY <3>4, <3>5 DEF PendingOwned
    <2> QED
      BY <2>3, <2>4
  <1> QED
    BY <1>5, <1>6

(* Writing a request keeps the invariant: the frame carries the number of  *)
(* its own call; a no-ACK call ends here.                                  *)
LEMMA WriteStep ==
  ASSUME TypeOK, TypeOK', RequestsConsistent, NEW s \in Senders, Write(s)
  PROVE  RequestsConsistent'
  <1> USE DEF modeVars, seqVars, linkVars, RequestsConsistent
  <1>1. CASE call[s].mode = "NoAck"
    <2>1. /\ ~call[s].held /\ fut[s] = NoFuture
          /\ pc' = [pc EXCEPT ![s] = "idle"] /\ call' = [call EXCEPT ![s] = NoCall]
          /\ toMcu' \in {toMcu, toMcu \cup {[seq |-> call[s].seq, cmd |-> call[s].cmd,
                                            needAck |-> FALSE, origin |-> s]}}
      BY <1>1 DEF Write, Sent, OwnedByPoint, OwnedAt
    <2>2. \A t \in Senders : t # s => call'[t] = call[t] /\ pc'[t] = pc[t]
      BY <2>1 DEF TypeOK
    <2>3. call'[s] = NoCall /\ pc'[s] = "idle"
      BY <2>1 DEF TypeOK
    <2>4. \A t \in Senders : call[t].held <=> call'[t].held
      BY <2>1, <2>2, <2>3 DEF NoCall
    <2>5. UNCHANGED <<modeVars, seqVars, hand, fut, fromMcu>>
      BY DEF Write
    <2>6. SeqExclusive' /\ PendingOwned'
      BY <2>1, <2>2, <2>3, <2>4, <2>5 DEF SeqExclusive, PendingOwned, TypeOK
    <2>7. AnswerIsOwn' 
      BY <2>1, <2>2, <2>3, <2>5 DEF AnswerIsOwn, NoFuture
    <2>8. TurnNotLeaked' /\ ReaderGone'
      BY <1>1, <2>5 DEF TurnNotLeaked, ReaderGone, Write, ReleaseTurn, TypeOK
    <2>9. DeadReaderWakesCallers'
      BY <2>2, <2>3, <2>5 DEF DeadReaderWakesCallers
    <2>10. OwnedByPoint'
      <3> SUFFICES ASSUME NEW t \in Senders PROVE OwnedAt(t)'
        BY DEF OwnedByPoint
      <3>1. CASE t = s
        BY <2>1, <2>3, <2>5, <3>1 DEF OwnedByPoint, OwnedAt, RetriesOf, NoCall
      <3>2. CASE t # s
        BY <2>2, <2>5, <3>2 DEF OwnedByPoint, OwnedAt, RetriesOf
      <3> QED
        BY <3>1, <3>2
    <2>11. LinkOwned'
      BY <2>1, <2>2, <2>4, <2>5 DEF LinkOwned
    <2> QED
      BY <2>6, <2>7, <2>8, <2>9, <2>10, <2>11
  <1>2. CASE call[s].mode # "NoAck"
    <2> DEFINE f == [seq |-> call[s].seq, cmd |-> call[s].cmd, needAck |-> TRUE, origin |-> s]
    <2>1. /\ call[s].held /\ pc[s] = "write"
          /\ pc' = [pc EXCEPT ![s] = "wait"] /\ toMcu' \in {toMcu, toMcu \cup {f}}
          /\ UNCHANGED <<modeVars, seqVars, hand, fut, fromMcu, call, turn>>
      BY <1>2 DEF Write, Sent, OwnedByPoint, OwnedAt
    <2>2. SeqExclusive' /\ AnswerIsOwn' /\ ReaderGone'
      BY <2>1 DEF SeqExclusive, AnswerIsOwn, ReaderGone
    <2>3. PendingOwned'
      <3>1. fut[s].state = "waiting" => pending[call[s].seq] = s \/ hand.owner = s
        BY <2>1 DEF PendingOwned
      <3> QED
        BY <2>1, <3>1 DEF PendingOwned, TypeOK
    <2>4. TurnNotLeaked'
      BY <2>1 DEF TurnNotLeaked, TypeOK
    <2>5. DeadReaderWakesCallers'
      BY <2>1, <2>3 DEF DeadReaderWakesCallers, PendingOwned, ReaderGone, NoHand, TypeOK, Calls
    <2>6. OwnedByPoint'
      BY <2>1 DEF OwnedByPoint, OwnedAt, RetriesOf, TypeOK
    <2>7. LinkOwned'
      <3> SUFFICES ASSUME NEW t \in Senders, call[t].held, NEW g \in toMcu', g.needAck,
                          g.seq = call[t].seq
                   PROVE  g.origin = t /\ g.cmd = call[t].cmd
        BY <2>1 DEF LinkOwned
      <3>1. CASE g \in toMcu
        BY <3>1 DEF LinkOwned
      <3>2. CASE g = f
        BY <2>1, <3>2 DEF SeqExclusive
      <3> QED
        BY <2>1, <3>1, <3>2
    <2> QED
      BY <2>2, <2>3, <2>4, <2>5, <2>6, <2>7
  <1> QED
    BY <1>1, <1>2

(* A timed-out attempt erases its own entry only.                          *)
LEMMA ExpireSlots ==
  ASSUME TypeOK, TypeOK', RequestsConsistent, NEW s \in Senders, Expire(s)
  PROVE  PendingOwned' /\ OwnedByPoint'
  <1> USE DEF modeVars, seqVars, linkVars, RequestsConsistent
  <1>1. \A t \in Senders : t # s => pc'[t] = pc[t] /\ fut'[t] = fut[t]
    BY DEF Expire, Leave, DropFuture, TypeOK
  <1>2. /\ pc[s] = "expire" /\ pc'[s] \in {"sleep", "finish"} /\ fut'[s] = NoFuture
        /\ pc'[s] = "sleep" => call[s].attempt < RetriesOf(s)
        /\ call' = call /\ call[s].held
    BY DEF Expire, Leave, DropFuture, TypeOK, OwnedByPoint, OwnedAt
  <1>3. \A q \in Seqs : pending'[q] = IF pending[q] = s THEN None ELSE pending[q]
    BY DEF Expire, TypeOK, PendingOwned
  <1>4. hand'.owner = IF hand.owner = s THEN None ELSE hand.owner
    BY DEF Expire, DropFuture
  <1>5. hand.owner # s => hand' = hand
    BY DEF Expire, DropFuture
  <1>6. PendingOwned'
    <2>1. ASSUME NEW q \in Seqs, pending'[q] # None
          PROVE  LET t == pending'[q] IN
                   /\ call'[t].held /\ call'[t].seq = q
                   /\ pc'[t] \in {"turn", "lock", "write", "wait", "expire", "finish"}
                   /\ fut'[t].state = "waiting"
      <3>1. pending'[q] = pending[q] /\ pending[q] \in Senders \ {s}
        BY <1>3, <2>1 DEF TypeOK
      <3> QED
        BY <1>1, <1>2, <2>1, <3>1 DEF PendingOwned
    <2>2. ASSUME NEW t \in Senders, pc'[t] \in {"turn", "lock", "write", "wait"},
                 fut'[t].state = "waiting"
          PROVE  pending'[call'[t].seq] = t \/ hand'.owner = t
      <3>1. t # s
        BY <1>2, <2>2
      <3>2. call[t].seq \in Seqs
        BY DEF TypeOK, Calls
      <3> QED
        BY <1>1, <1>2, <1>3, <1>4, <2>2, <3>1, <3>2 DEF PendingOwned
    <2> QED
      BY <2>1, <2>2 DEF PendingOwned
  <1>7. OwnedByPoint'
    <2> SUFFICES ASSUME NEW t \in Senders PROVE OwnedAt(t)'
      BY DEF OwnedByPoint
    <2>1. OwnedAt(t) /\ RetriesOf(t)' = RetriesOf(t) /\ call[t].seq \in Seqs
      BY <1>2 DEF OwnedByPoint, RetriesOf, TypeOK, Calls
    <2>2. CASE t = s
      BY <1>2, <1>4, <2>1, <2>2 DEF OwnedAt
    <2>3. CASE t # s
      BY <1>1, <1>2, <1>3, <1>4, <1>5, <2>1, <2>3 DEF OwnedAt
    <2> QED
      BY <2>2, <2>3
  <1> QED
    BY <1>6, <1>7

(* A retry keeps its slot, or under NewSeq gives up its own.                *)
LEMMA RetrySlots ==
  ASSUME TypeOK, TypeOK', RequestsConsistent, NEW s \in Senders, Retry(s)
  PROVE  SeqExclusive' /\ PendingOwned' /\ OwnedByPoint' /\ LinkOwned'
  <1> USE DEF modeVars, seqVars, linkVars, RequestsConsistent
  <1>1. /\ pc[s] = "sleep" /\ call[s].held /\ fut[s] = NoFuture /\ hand.owner # s
        /\ call[s].attempt < RetriesOf(s) /\ call[s].mode # "NoAck"
    BY DEF Retry, OwnedByPoint, OwnedAt, NoFuture
  <1>2. \A q \in Seqs : pending[q] # s
    BY <1>1 DEF PendingOwned
  <1>3. pending' = pending
    BY <1>2 DEF Retry, Release, TypeOK, Calls
  <1>4. /\ \A t \in Senders : t # s => call'[t] = call[t] /\ pc'[t] = pc[t]
        /\ pc'[s] = "reserve" /\ UNCHANGED <<nextSeq, hand, fut, toMcu, fromMcu>>
        /\ call'[s].attempt = call[s].attempt + 1 /\ call'[s].mode = call[s].mode
        /\ call'[s].seq = call[s].seq /\ call'[s].cmd = call[s].cmd
        /\ call'[s].held = (call[s].mode # "NewSeq")
    <2>1. CASE call[s].mode = "NewSeq"
      <3>1. call' = [call EXCEPT ![s].held = FALSE, ![s].attempt = call[s].attempt + 1]
        BY <2>1 DEF Retry
      <3> QED
        BY <2>1, <3>1 DEF Retry, TypeOK, Calls
    <2>2. CASE call[s].mode # "NewSeq"
      <3>1. call' = [call EXCEPT ![s].attempt = call[s].attempt + 1]
        BY <2>2 DEF Retry
      <3> QED
        BY <1>1, <2>2, <3>1 DEF Retry, TypeOK, Calls
    <2> QED
      BY <2>1, <2>2
  <1>5. reserved' = IF call[s].mode = "NewSeq" THEN reserved \ {call[s].seq} ELSE reserved
    BY <1>1 DEF Retry, Release
  <1>6. SeqExclusive'
    <2>1. ASSUME NEW t \in Senders, call'[t].held
          PROVE  call[t].held /\ call'[t].seq = call[t].seq /\ (t = s => call[s].mode # "NewSeq")
      BY <1>1, <1>4, <2>1
    <2>2. ASSUME NEW t \in Senders, NEW u \in Senders, t # u, call'[t].held, call'[u].held
          PROVE  call'[t].seq # call'[u].seq
      BY <2>1, <2>2 DEF SeqExclusive
    <2>3. ASSUME NEW t \in Senders, call'[t].held
          PROVE  call'[t].seq \in reserved'
      BY <1>1, <1>5, <2>1, <2>3 DEF SeqExclusive
    <2>4. ASSUME NEW q \in reserved'
          PROVE  \E t \in Senders : call'[t].held /\ call'[t].seq = q
      <3>1. PICK t \in Senders : call[t].held /\ call[t].seq = q
        BY <1>5, <2>4 DEF SeqExclusive
      <3>2. t = s => call[s].mode # "NewSeq"
        BY <1>5, <2>4, <3>1
      <3> QED
        BY <1>4, <3>1, <3>2
    <2> QED
      BY <2>2, <2>3, <2>4 DEF SeqExclusive
  <1>7. PendingOwned'
    <2>1. ASSUME NEW q \in Seqs, pending'[q] # None
          PROVE  LET t == pending'[q] IN
                   /\ call'[t].held /\ call'[t].seq = q
                   /\ pc'[t] \in {"turn", "lock", "write", "wait", "expire", "finish"}
                   /\ fut'[t].state = "waiting"
      <3>1. pending[q] \in Senders \ {s}
        BY <1>2, <1>3, <2>1 DEF TypeOK
      <3> QED
        BY <1>3, <1>4, <2>1, <3>1 DEF PendingOwned
    <2>2. ASSUME NEW t \in Senders, pc'[t] \in {"turn", "lock", "write", "wait"},
                 fut'[t].state = "waiting"
          PROVE  pending'[call'[t].seq] = t \/ hand'.owner = t
      BY <1>3, <1>4, <2>2 DEF PendingOwned
    <2> QED
      BY <2>1, <2>2 DEF PendingOwned
  <1>8. OwnedByPoint'
    <2> SUFFICES ASSUME NEW t \in Senders PROVE OwnedAt(t)'
      BY DEF OwnedByPoint
    <2>1. OwnedAt(t)
      BY DEF OwnedByPoint
    <2>2. CASE t = s
      <3>1. call[s].attempt \in Nat /\ RetriesOf(s) \in Nat /\ RetriesOf(s)' = RetriesOf(s)
        BY <1>4 DEF RetriesOf, TypeOK, Calls
      <3> QED
        BY <1>1, <1>4, <2>2, <3>1 DEF OwnedAt
    <2>3. CASE t # s
      BY <1>3, <1>4, <2>1, <2>3 DEF OwnedAt, RetriesOf
    <2> QED
      BY <2>2, <2>3
  <1>9. LinkOwned'
    <2>1. ASSUME NEW t \in Senders, call'[t].held
          PROVE  call[t].held /\ call'[t].seq = call[t].seq /\ call'[t].cmd = call[t].cmd
      BY <1>1, <1>4, <2>1
    <2> QED
      BY <1>4, <2>1 DEF LinkOwned
  <1> QED
    BY <1>6, <1>7, <1>8, <1>9

(* A call that ends gives up its slot and disowns its frames.              *)
LEMMA FinishSlots ==
  ASSUME TypeOK, TypeOK', RequestsConsistent, NEW s \in Senders, Finish(s)
  PROVE  OwnedByPoint' /\ LinkOwned'
  <1> USE DEF modeVars, seqVars, linkVars, RequestsConsistent
  <1>1. /\ call' = [call EXCEPT ![s] = NoCall] /\ pc' = [pc EXCEPT ![s] = "idle"]
        /\ fut' = [fut EXCEPT ![s] = NoFuture]
        /\ hand'.owner = IF hand.owner = s THEN None ELSE hand.owner
        /\ hand.owner # s => hand' = hand
    BY DEF Finish, DropFuture
  <1>2. /\ \A t \in Senders : t # s => call'[t] = call[t] /\ pc'[t] = pc[t] /\ fut'[t] = fut[t]
        /\ call'[s] = NoCall /\ pc'[s] = "idle" /\ fut'[s] = NoFuture
    BY <1>1 DEF TypeOK
  <1>3. \A q \in Seqs : pending'[q] \in {pending[q], None}
    BY DEF Finish, Release, TypeOK, Calls
  <1>4. OwnedByPoint'
    <2> SUFFICES ASSUME NEW t \in Senders PROVE OwnedAt(t)'
      BY DEF OwnedByPoint
    <2>1. OwnedAt(t) /\ call[t].seq \in Seqs
      BY DEF OwnedByPoint, TypeOK, Calls
    <2>2. CASE t = s
      BY <1>1, <1>2, <2>2 DEF OwnedAt, RetriesOf, NoCall
    <2>3. CASE t # s
      BY <1>1, <1>2, <1>3, <2>1, <2>3 DEF OwnedAt, RetriesOf
    <2> QED
      BY <2>2, <2>3
  <1>5. LinkOwned'
    <2> SUFFICES ASSUME NEW t \in Senders, call'[t].held
                 PROVE  /\ \A f \in toMcu' : f.needAck /\ f.seq = call'[t].seq
                                               => f.origin = t /\ f.cmd = call'[t].cmd
                        /\ \A r \in fromMcu' : r.seq = call'[t].seq
                                               => r.origin = t /\ r.cmd = call'[t].cmd
      BY DEF LinkOwned
    <2>1. t # s /\ call'[t] = call[t] /\ call[t].held
      <3>1. t # s
        BY <1>2 DEF NoCall
      <3>2. call'[t] = call[t]
        BY <1>2, <3>1
      <3> QED
        BY <3>1, <3>2
    <2>2. ASSUME NEW f \in toMcu', f.needAck, f.seq = call[t].seq
          PROVE  f.origin = t /\ f.cmd = call[t].cmd
      <3>1. PICK g \in toMcu : f = IF g.origin = s THEN [g EXCEPT !.origin = Old] ELSE g
        BY DEF Finish, Disowned
      <3>2. g \in Requests
        BY DEF TypeOK
      <3>3. g.needAck /\ f.seq = g.seq
        <4>1. CASE g.origin = s
          <5>1. f = [g EXCEPT !.origin = Old]
            BY <3>1, <4>1
          <5> QED
            BY <2>2, <3>2, <5>1 DEF Requests
        <4>2. CASE g.origin # s
          BY <2>2, <3>1, <4>2
        <4> QED
          BY <4>1, <4>2
      <3>4. g.origin = t /\ g.cmd = call[t].cmd
        <4>1. \A h \in toMcu : h.needAck /\ h.seq = call[t].seq => h.origin = t /\ h.cmd = call[t].cmd
          BY <2>1 DEF LinkOwned
        <4> QED
          BY <2>2, <3>3, <4>1
      <3> QED
        BY <2>1, <3>1, <3>4
    <2>3. ASSUME NEW r \in fromMcu', r.seq = call[t].seq
          PROVE  r.origin = t /\ r.cmd = call[t].cmd
      <3>1. PICK g \in fromMcu : r = IF g.origin = s THEN [g EXCEPT !.origin = Old] ELSE g
        BY DEF Finish, Disowned
      <3>2. g \in Responses
        BY DEF TypeOK
      <3>3. r.seq = g.seq
        <4>1. CASE g.origin = s
          <5>1. r = [g EXCEPT !.origin = Old]
            BY <3>1, <4>1
          <5> QED
            BY <3>2, <5>1 DEF Responses
        <4>2. CASE g.origin # s
          BY <3>1, <4>2
        <4> QED
          BY <4>1, <4>2
      <3>4. g.origin = t /\ g.cmd = call[t].cmd
        <4>1. \A h \in fromMcu : h.seq = call[t].seq => h.origin = t /\ h.cmd = call[t].cmd
          BY <2>1 DEF LinkOwned
        <4> QED
          BY <2>3, <3>3, <4>1
      <3> QED
        BY <2>1, <3>1, <3>4
    <2> QED
      BY <2>1, <2>2, <2>3
  <1> QED
    BY <1>4, <1>5

(* The reader moves a promise from the map to its hand.                    *)
LEMMA MatchPending ==
  ASSUME TypeOK, TypeOK', RequestsConsistent, MatchAck
  PROVE  PendingOwned'
  <1> USE DEF modeVars, seqVars, linkVars, RequestsConsistent
  <1>1. PICK r \in fromMcu :
          \/ UNCHANGED <<hand, pending>>
          \/ /\ hand'.owner = pending[r.seq] /\ pending[r.seq] # None
             /\ pending' = [pending EXCEPT ![r.seq] = None]
    BY DEF MatchAck, Accepts
  <1>2. UNCHANGED <<pc, call, fut>> /\ hand.owner = None /\ r.seq \in Seqs
    BY DEF MatchAck, NoHand, TypeOK, Responses
  <1>3. CASE UNCHANGED <<hand, pending>>
    BY <1>2, <1>3 DEF PendingOwned
  <1>4. CASE /\ hand'.owner = pending[r.seq] /\ pending[r.seq] # None
             /\ pending' = [pending EXCEPT ![r.seq] = None]
    BY <1>2, <1>4 DEF PendingOwned, TypeOK, Calls
  <1> QED
    BY <1>1, <1>3, <1>4

(* Resolving the promise in hand.                                          *)
LEMMA ResolveOwned ==
  ASSUME TypeOK, TypeOK', RequestsConsistent, ResolvePromise
  PROVE  OwnedByPoint'
  <1> USE DEF modeVars, seqVars, linkVars, RequestsConsistent
  <1>1. hand'.owner = None /\ UNCHANGED <<pc, call, pending>>
    BY DEF ResolvePromise, NoHand
  <1> SUFFICES ASSUME NEW t \in Senders PROVE OwnedAt(t)'
    BY DEF OwnedByPoint
  <1>2. OwnedAt(t) /\ RetriesOf(t)' = RetriesOf(t)
    BY <1>1 DEF OwnedByPoint, RetriesOf
  <1>3. CASE t = hand.owner
    <2>1. fut[t].state = "waiting" /\ fut[t] # NoFuture
      BY <1>2, <1>3 DEF OwnedAt, NoFuture
    <2>2. fut'[t].state \in {"ok", "nack"}
      BY <1>3 DEF ResolvePromise, NoHand, Hands, TypeOK
    <2> QED
      BY <1>1, <1>2, <1>3, <2>1, <2>2 DEF OwnedAt
  <1>4. CASE t # hand.owner
    <2>1. fut'[t] = fut[t]
      BY <1>4 DEF ResolvePromise, TypeOK
    <2> QED
      BY <1>1, <1>2, <2>1 DEF OwnedAt
  <1> QED
    BY <1>3, <1>4

(* fail_pending_() leaves nobody waiting.                                  *)
LEMMA FailPendingWakes ==
  ASSUME TypeOK, TypeOK', RequestsConsistent, FailPending,
         hand = NoHand, UNCHANGED <<hand, pc, call>>
  PROVE  /\ PendingOwned' /\ OwnedByPoint'
         /\ \A t \in Senders : pc[t] = "wait" => fut'[t].state # "waiting"
  <1> USE DEF modeVars, seqVars, linkVars, RequestsConsistent
  <1>1. /\ \A q \in Seqs : pending'[q] = None
        /\ \A t \in Senders : IF \E q \in Seqs : pending[q] = t THEN fut'[t].state = "io"
                              ELSE fut'[t] = fut[t]
    BY DEF FailPending
  <1>2. ASSUME NEW t \in Senders, pc[t] \in {"turn", "lock", "write", "wait"}
        PROVE  fut'[t].state # "waiting"
    <2>1. CASE \E q \in Seqs : pending[q] = t
      BY <1>1, <2>1
    <2>2. CASE ~ \E q \in Seqs : pending[q] = t
      BY <1>1, <1>2, <2>2 DEF PendingOwned, NoHand, TypeOK, Calls
    <2> QED
      BY <2>1, <2>2
  <1>3. PendingOwned'
    BY <1>1, <1>2 DEF PendingOwned
  <1>4. OwnedByPoint'
    <2> SUFFICES ASSUME NEW t \in Senders PROVE OwnedAt(t)'
      BY DEF OwnedByPoint
    <2>1. OwnedAt(t) /\ RetriesOf(t)' = RetriesOf(t) /\ hand'.owner # t
      BY DEF OwnedByPoint, RetriesOf, NoHand
    <2>2. CASE \E q \in Seqs : pending[q] = t
      BY <1>1, <2>1, <2>2 DEF OwnedAt, PendingOwned
    <2>3. CASE ~ \E q \in Seqs : pending[q] = t
      BY <1>1, <2>1, <2>3 DEF OwnedAt
    <2> QED
      BY <2>2, <2>3
  <1> QED
    BY <1>2, <1>3, <1>4

(* What the reservation leaves alone, conjunct by conjunct.                 *)
LEMMA ReserveNewStep ==
  ASSUME TypeOK, TypeOK', RequestsConsistent, NEW s \in Senders, ReserveNew(s)
  PROVE  RequestsConsistent'
  <1> USE DEF modeVars, RequestsConsistent
  <1>1. SeqExclusive' /\ PendingOwned'
    BY ReserveNewSlots
  <1>2. AnswerIsOwn'
    BY DEF ReserveNew, AnswerIsOwn, OwnedByPoint, OwnedAt, TypeOK, Calls, Waiting, NoFuture
  <1>3. TurnNotLeaked' /\ ReaderGone'
    BY DEF ReserveNew, TurnNotLeaked, ReaderGone, TypeOK
  <1>4. DeadReaderWakesCallers'
    BY DEF ReserveNew, DeadReaderWakesCallers, ReaderGone
  <1>5. OwnedByPoint'
    BY DEF ReserveNew, OwnedByPoint, OwnedAt, RetriesOf, PendingOwned, SeqExclusive, FirstFree,
           TypeOK, Calls, Waiting, NoFuture
  <1>6. LinkOwned'
    BY DEF ReserveNew, Forget, LinkOwned, TypeOK, Calls
  <1> QED
    BY <1>1, <1>2, <1>3, <1>4, <1>5, <1>6

(* A timed-out attempt leaves the inductive invariant intact.              *)
LEMMA ExpireStep ==
  ASSUME TypeOK, TypeOK', RequestsConsistent, NEW s \in Senders, Expire(s)
  PROVE  RequestsConsistent'
  <1> USE DEF modeVars, linkVars, RequestsConsistent
  <1>1. SeqExclusive' /\ AnswerIsOwn' /\ TurnNotLeaked' /\ DeadReaderWakesCallers' /\ LinkOwned'
        /\ ReaderGone'
    BY DEF Expire, Leave, DropFuture, SeqExclusive, AnswerIsOwn, TurnNotLeaked,
           DeadReaderWakesCallers, LinkOwned, ReaderGone, TypeOK, NoHand, NoFuture
  <1> QED
    BY <1>1, ExpireSlots

(* So does the next attempt, in either retry mode.                         *)
LEMMA RetryStep ==
  ASSUME TypeOK, TypeOK', RequestsConsistent, NEW s \in Senders, Retry(s)
  PROVE  RequestsConsistent'
  <1> USE DEF modeVars, RequestsConsistent
  <1>1. AnswerIsOwn'
    BY DEF Retry, AnswerIsOwn, OwnedByPoint, OwnedAt, TypeOK, Calls, NoFuture
  <1>2. TurnNotLeaked' /\ ReaderGone'
    BY DEF Retry, TurnNotLeaked, ReaderGone, TypeOK
  <1>3. DeadReaderWakesCallers'
    BY DEF Retry, Release, DeadReaderWakesCallers, TypeOK
  <1> QED
    BY <1>1, <1>2, <1>3, RetrySlots

(* And so does release() at the end of a call.                             *)
LEMMA FinishStep ==
  ASSUME TypeOK, TypeOK', RequestsConsistent, NEW s \in Senders, Finish(s)
  PROVE  RequestsConsistent'
  <1> USE DEF modeVars, RequestsConsistent
  <1>1. SeqExclusive'
    BY DEF Finish, Release, SeqExclusive, TypeOK, Calls, NoCall
  <1>2. PendingOwned'
    BY DEF Finish, Release, DropFuture, PendingOwned, TypeOK, Calls, NoCall, NoFuture
  <1>3. AnswerIsOwn'
    BY DEF Finish, DropFuture, AnswerIsOwn, TypeOK, NoFuture
  <1>4. TurnNotLeaked'
    BY DEF Finish, TurnNotLeaked, TypeOK
  <1>5. DeadReaderWakesCallers'
    BY DEF Finish, Release, DropFuture, DeadReaderWakesCallers, TypeOK
  <1>6. ReaderGone'
    BY DEF Finish, DropFuture, ReaderGone, NoHand
  <1> QED
    BY <1>1, <1>2, <1>3, <1>4, <1>5, <1>6, FinishSlots

(* The steps that disturb little: one leaf for each action.                *)
LEMMA QuietStep ==
  ASSUME TypeOK, TypeOK', RequestsConsistent,
         \/ \E s \in Senders : \/ StartCall(s) \/ ReserveStopped(s) \/ ReserveBusy(s)
                               \/ ReserveAgain(s) \/ ReadHalfDuplex(s) \/ TakeTurn(s) \/ TurnTimeout(s)
                               \/ WriteFails(s) \/ Answered(s) \/ WaitTimeout(s)
         \/ MatchAck \/ ResolvePromise \/ ReadFails \/ ReaderStops
         \/ StopBegin \/ SetHalfDuplex \/ McuHandles \/ LoseFrame
  PROVE  RequestsConsistent'
  <1> USE DEF RequestsConsistent, SeqExclusive, PendingOwned, AnswerIsOwn, TurnNotLeaked,
              DeadReaderWakesCallers, LinkOwned, ReaderGone, modeVars, seqVars, linkVars
  <1>1. ASSUME NEW s \in Senders, StartCall(s) PROVE RequestsConsistent'
    <2>1. OwnedByPoint'
      BY <1>1, StartCallOwned
    <2> QED
      BY <1>1, <2>1 DEF StartCall, OwnedByPoint, OwnedAt, NoFuture
  <1>2. ASSUME NEW s \in Senders, ReserveStopped(s) PROVE RequestsConsistent'
    BY <1>2 DEF ReserveStopped, Leave, OwnedByPoint, OwnedAt, RetriesOf
  <1>3. ASSUME NEW s \in Senders, ReserveBusy(s) PROVE RequestsConsistent'
    BY <1>3 DEF ReserveBusy, Leave, OwnedByPoint, OwnedAt, RetriesOf
  <1>4. ASSUME NEW s \in Senders, ReserveAgain(s) PROVE RequestsConsistent'
    BY <1>4 DEF ReserveAgain, OwnedByPoint, OwnedAt, RetriesOf, TypeOK, NoFuture, Waiting
  <1>5. ASSUME NEW s \in Senders, ReadHalfDuplex(s) \/ TakeTurn(s) PROVE RequestsConsistent'
    BY <1>5 DEF ReadHalfDuplex, TakeTurn, OwnedByPoint, OwnedAt, RetriesOf, TypeOK
  <1>6. ASSUME NEW s \in Senders, TurnTimeout(s) PROVE RequestsConsistent'
    BY <1>6 DEF TurnTimeout, Leave, OwnedByPoint, OwnedAt, RetriesOf
  <1>7. ASSUME NEW s \in Senders, WriteFails(s) PROVE RequestsConsistent'
    BY <1>7 DEF WriteFails, Leave, ReleaseTurn, OwnedByPoint, OwnedAt, RetriesOf
  <1>8. ASSUME NEW s \in Senders, Answered(s) PROVE RequestsConsistent'
    BY <1>8 DEF Answered, Leave, ReleaseTurn, OwnedByPoint, OwnedAt, RetriesOf
  <1>9. ASSUME NEW s \in Senders, WaitTimeout(s) PROVE RequestsConsistent'
    BY <1>9 DEF WaitTimeout, ReleaseTurn, OwnedByPoint, OwnedAt, RetriesOf
  <1>10. CASE MatchAck
    <2>1. PendingOwned'
      BY <1>10, MatchPending
    <2> QED
      BY <1>10, <2>1 DEF MatchAck, OwnedByPoint, OwnedAt, RetriesOf, TypeOK, Responses
  <1>11. CASE ResolvePromise
    <2>1. OwnedByPoint'
      BY <1>11, ResolveOwned
    <2> QED
      BY <1>11, <2>1 DEF ResolvePromise, OwnedByPoint, OwnedAt, TypeOK, Hands
  <1>12. CASE ReadFails
    BY <1>12 DEF ReadFails, OwnedByPoint, OwnedAt, RetriesOf
  <1>13. CASE ReaderStops
    BY <1>13 DEF ReaderStops, OwnedByPoint, OwnedAt, RetriesOf, TypeOK
  <1>14. CASE StopBegin
    BY <1>14 DEF StopBegin, OwnedByPoint, OwnedAt, RetriesOf
  <1>15. CASE SetHalfDuplex
    BY <1>15 DEF SetHalfDuplex, OwnedByPoint, OwnedAt, RetriesOf
  <1>16. CASE McuHandles
    BY <1>16 DEF McuHandles, Sent, OwnedByPoint, OwnedAt, RetriesOf
  <1>17. CASE LoseFrame
    BY <1>17 DEF LoseFrame, OwnedByPoint, OwnedAt, RetriesOf
  <1> QED
    BY <1>1, <1>2, <1>3, <1>4, <1>5, <1>6, <1>7, <1>8, <1>9, <1>10, <1>11, <1>12, <1>13,
       <1>14, <1>15, <1>16, <1>17

(* The two places that fail every pending promise.                         *)
LEMMA FailingStep ==
  ASSUME TypeOK, TypeOK', RequestsConsistent, ReaderFailsPending \/ StopEnd
  PROVE  RequestsConsistent'
  <1> USE DEF RequestsConsistent, linkVars
  <1>1. FailPending /\ hand = NoHand /\ UNCHANGED <<hand, pc, call>>
    BY DEF ReaderFailsPending, StopEnd, ReaderGone
  <1>2. /\ PendingOwned' /\ OwnedByPoint'
        /\ \A t \in Senders : pc[t] = "wait" => fut'[t].state # "waiting"
    BY <1>1, FailPendingWakes
  <1>3. DeadReaderWakesCallers'
    BY <1>1, <1>2 DEF FailPending, DeadReaderWakesCallers
  <1>4. SeqExclusive' /\ AnswerIsOwn' /\ TurnNotLeaked' /\ LinkOwned' /\ ReaderGone'
    BY DEF ReaderFailsPending, StopEnd, FailPending, SeqExclusive, AnswerIsOwn, TurnNotLeaked,
           LinkOwned, ReaderGone
  <1> QED
    BY <1>2, <1>3, <1>4

(* The inductive invariant is preserved by every step.                     *)
LEMMA ConsistentStep ==
  ASSUME TypeOK, TypeOK', RequestsConsistent, [Next]_vars
  PROVE  RequestsConsistent'
  <1>1. CASE UNCHANGED vars
    BY <1>1 DEF vars, RequestsConsistent, SeqExclusive, PendingOwned, AnswerIsOwn, TurnNotLeaked,
                DeadReaderWakesCallers, OwnedByPoint, OwnedAt, RetriesOf, LinkOwned, ReaderGone
  <1>2. CASE Next
    BY <1>2, ReserveNewStep, WriteStep, ExpireStep, RetryStep, FinishStep, QuietStep, FailingStep
       DEF Next, SenderStep, ReaderStep
  <1> QED
    BY <1>1, <1>2

(* The inductive invariant holds on a transport just opened.               *)
LEMMA ConsistentInit == Init => RequestsConsistent
  BY DEF Init, RequestsConsistent, SeqExclusive, PendingOwned, AnswerIsOwn, TurnNotLeaked,
         DeadReaderWakesCallers, OwnedByPoint, OwnedAt, RetriesOf, LinkOwned, ReaderGone,
         NoCall, NoFuture, NoHand, Seqs

(* The inductive invariant holds in every reachable state.                 *)
THEOREM RequestsSafe == Spec => []RequestsConsistent
  <1>1. Init /\ TypeOK => RequestsConsistent
    BY ConsistentInit
  <1>2. TypeOK /\ TypeOK' /\ RequestsConsistent /\ [Next]_vars => RequestsConsistent'
    BY ConsistentStep
  <1> QED
    BY <1>1, <1>2, TypeCorrect, PTL DEF Spec

(* No two calls in progress ever own one sequence number, and no slot is   *)
(* leaked, for any number of threads, retries and sequence numbers.        *)
THEOREM SeqNeverShared == Spec => []SeqExclusive
  <1>1. RequestsConsistent => SeqExclusive
    BY DEF RequestsConsistent
  <1> QED
    BY <1>1, RequestsSafe, PTL

(* A registered promise always belongs to a live attempt of the call that  *)
(* owns its slot.                                                          *)
THEOREM PromisesOwned == Spec => []PendingOwned
  <1>1. RequestsConsistent => PendingOwned
    BY DEF RequestsConsistent
  <1> QED
    BY <1>1, RequestsSafe, PTL

(* No call ever returns the answer to another call's request.              *)
THEOREM AnswersMatch == Spec => []AnswerIsOwn
  <1>1. RequestsConsistent => AnswerIsOwn
    BY DEF RequestsConsistent
  <1> QED
    BY <1>1, RequestsSafe, PTL

(* The half-duplex turn is released on every path out of send_cmd().       *)
THEOREM TurnReleased == Spec => []TurnNotLeaked
  <1>1. RequestsConsistent => TurnNotLeaked
    BY DEF RequestsConsistent
  <1> QED
    BY <1>1, RequestsSafe, PTL

(* A dead reader leaves nobody waiting for an answer.                      *)
THEOREM NobodyWaitsOnDeadReader == Spec => []DeadReaderWakesCallers
  <1>1. RequestsConsistent => DeadReaderWakesCallers
    BY DEF RequestsConsistent
  <1> QED
    BY <1>1, RequestsSafe, PTL

(* A step never overwrites a registered promise of another attempt.        *)
LEMMA OverwriteStep ==
  ASSUME TypeOK, RequestsConsistent, [Next]_vars, NEW q \in Seqs, pending[q] # None
  PROVE  pending'[q] \in {pending[q], None}
  <1> USE DEF modeVars, seqVars, linkVars, RequestsConsistent
  <1>1. ASSUME NEW s \in Senders, ReserveNew(s) PROVE pending'[q] \in {pending[q], None}
    <2>1. PICK p \in Seqs : p \notin reserved /\ pending' \in {pending, [pending EXCEPT ![p] = s]}
      BY <1>1 DEF ReserveNew, FirstFree
    <2>2. q \in reserved
      BY DEF PendingOwned, SeqExclusive, TypeOK
    <2> QED
      BY <2>1, <2>2 DEF TypeOK
  <1>2. ASSUME NEW s \in Senders, ReserveAgain(s) PROVE pending'[q] \in {pending[q], None}
    <2>1. call[s].seq = q => pending[q] = s
      <3>1. pending[q] \in Senders /\ call[pending[q]].held /\ call[pending[q]].seq = q
        BY DEF PendingOwned, TypeOK
      <3> QED
        BY <1>2, <3>1 DEF SeqExclusive, ReserveAgain
    <2> QED
      BY <1>2, <2>1 DEF ReserveAgain, TypeOK
  <1>3. ASSUME NEW s \in Senders,
               \/ StartCall(s) \/ ReserveStopped(s) \/ ReserveBusy(s) \/ ReadHalfDuplex(s) \/ TakeTurn(s)
               \/ TurnTimeout(s) \/ Write(s) \/ WriteFails(s) \/ Answered(s) \/ WaitTimeout(s)
        PROVE  pending'[q] \in {pending[q], None}
    BY <1>3 DEF StartCall, ReserveStopped, ReserveBusy, ReadHalfDuplex, TakeTurn, TurnTimeout,
                Write, WriteFails, Answered, WaitTimeout
  <1>4. ASSUME NEW s \in Senders, Expire(s) \/ Retry(s) \/ Finish(s)
        PROVE  pending'[q] \in {pending[q], None}
    BY <1>4 DEF Expire, Retry, Finish, Release, TypeOK
  <1>5. CASE MatchAck \/ ReaderFailsPending \/ StopEnd
    BY <1>5 DEF MatchAck, ReaderFailsPending, StopEnd, FailPending, TypeOK
  <1>6. CASE \/ ResolvePromise \/ ReadFails \/ ReaderStops \/ StopBegin \/ SetHalfDuplex
             \/ McuHandles \/ LoseFrame \/ UNCHANGED vars
    BY <1>6 DEF ResolvePromise, ReadFails, ReaderStops, StopBegin, SetHalfDuplex, McuHandles,
                LoseFrame, vars
  <1> QED
    BY <1>1, <1>2, <1>3, <1>4, <1>5, <1>6 DEF Next, SenderStep, ReaderStep

(* "Never overwrite another promise" (transport.cpp) holds of every step.  *)
THEOREM NeverOverwritten == Spec => NeverOverwritePromise
  <1>1. TypeOK /\ RequestsConsistent /\ [Next]_vars
          => [\A q \in Seqs : pending[q] # None => pending'[q] \in {pending[q], None}]_vars
    BY OverwriteStep
  <1> QED
    BY <1>1, TypeCorrect, RequestsSafe, PTL DEF Spec, NeverOverwritePromise
============================================================================
