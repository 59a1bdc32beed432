------------------------------ MODULE Exchange ------------------------------
(***************************************************************************)
(* The polled (half-duplex) mode: FollowerExchange and LeaderExchange, the *)
(* start and stop of a session by FollowerGripper and LeaderGripper, and   *)
(* Motor::submit_(), which hands targets to a running follower exchange or *)
(* writes them directly.                                                   *)
(*                                                                         *)
(* In polled mode the MCU holds what it would have pushed (records, here   *)
(* numbered in the order it hands them out) until a poll fetches them.  A  *)
(* poll keeps its sequence number through its retries, and the MCU answers *)
(* a repeated request with the reply it gave before.  The line is a FIFO in each      *)
(* direction that may lose frames.                                         *)
(*                                                                         *)
(* A definition whose comment begins with "Mutant" is used by no other: it *)
(* stands for a plausible mistake in the definition after it, and shows    *)
(* that a property of the runs would notice.                               *)
(***************************************************************************)
EXTENDS Integers, Sequences, FiniteSets

CONSTANTS
  Kinds,         (* sessions checked, a subset of AllKinds                 *)
  MaxRetries,    (* Config::max_retries of the transport                   *)
  Batch,         (* records that fit in one reply                          *)
  LinkCap,       (* bound: frames under way in one direction               *)
  MaxSessions,   (* bound: calls of start_exchange()                       *)
  MaxExchanges,  (* bound: exchanges of a behaviour                        *)
  MaxTargets,    (* bound: targets submitted                               *)
  MaxRecords     (* bound: records the MCU hands out                       *)

AllKinds == {"follower", "leader"}
ASSUME KindsAssumption == Kinds \subseteq AllKinds
ASSUME BoundsAssumption ==
  /\ MaxRetries \in Nat /\ LinkCap \in Nat /\ MaxSessions \in Nat
  /\ Batch \in Nat \ {0}
  /\ MaxExchanges \in Nat /\ MaxTargets \in Nat /\ MaxRecords \in Nat

VARIABLES
  kind,        (* which gripper this is                                    *)
  session,     (* start_exchange() calls so far                            *)
  owner,       (* how far start_exchange() or stop_streaming() is          *)
  answer,      (* to the request the owner waits for: none, ok, nack       *)
  hushed,      (* history: the StopStream of the last stop was answered    *)
  halfDuplex,  (* Transport::half_duplex_                                  *)
  router,      (* Motor::router_: the session it leads to, or 0            *)
  stop,        (* stop_ of the exchange                                    *)
  worker,      (* run_() of the exchange; "none": there is no exchange     *)
  cur,         (* the exchange it is at: number, target or 0, telemetry    *)
  attempt,     (* how often send_cmd() has retried it                      *)
  ack,         (* what send_cmd() came back with                           *)
  pending,     (* pending_, or 0                                           *)
  caller,      (* the thread in Motor::submit_()                           *)
  copied,      (* the router it copied                                     *)
  issued,      (* targets submitted so far; a target is its number         *)
  newest,      (* history: the newest target the exchange accepted         *)
  settled,     (* history: the newest target whose exchange was answered   *)
  count,       (* exchanges so far                                         *)
  toMcu,       (* frames to the MCU                                        *)
  fromMcu,     (* replies to polls                                         *)
  mode,        (* the MCU: "idle", "push", "polled"                        *)
  cache,       (* the MCU's last reply to a poll                           *)
  handed,      (* records handed out so far                                *)
  via,         (* history: the exchange that a record was handed out to    *)
               (* and that is not over, or 0                               *)
  delivered,   (* history: records injected into the data lanes            *)
  linkUp       (* Transport::is_running()                                  *)

ownerVars  == <<session, owner, answer, hushed, halfDuplex, router>>
workVars   == <<worker, cur, attempt, ack>>
targetVars == <<caller, copied, issued, newest>>
mcuVars    == <<mode, cache, handed, via>>
statVars   == <<settled, count, delivered>>
vars == <<kind, ownerVars, stop, workVars, pending, targetVars, statVars, toMcu, fromMcu,
          mcuVars, linkUp>>

(* The request the owner waits for at each point where it waits for one.   *)
RequestAt == [quieting |-> "quiet", probing |-> "probe", arming |-> "arm",
              starting |-> "push", hushing |-> "hush"]
OwnerPoints == DOMAIN RequestAt \cup
               {"off", "routing", "on", "pushing", "stopping", "joining", "joined"}
WorkerPoints == {"none", "wait", "write", "await", "fold", "rearm", "exited"}
CallerPoints == {"idle", "copied", "direct", "turn", "bare"}

Records == 1 .. MaxRecords
Polls == [n : 0 .. MaxExchanges, target : 0 .. MaxTargets, tel : BOOLEAN]
NoPoll == [n |-> 0, target |-> 0, tel |-> FALSE]

(* A frame to the MCU: a poll; a target on its own; or a request about the *)
(* stream, of a session: StopStream ("quiet", "hush"), LeaderExchange as a *)
(* probe, StartStream polled ("arm", "rearm") or not ("push").             *)
Frame(op) == [op |-> op, poll |-> NoPoll, session |-> session]
Frames == [op : {"poll", "target", "quiet", "probe", "arm", "push", "rearm", "hush"},
           poll : Polls, session : 0 .. MaxSessions]

(* A reply to poll n: a NACK, or the records handed out and whether the    *)
(* MCU is in polled mode.  NoReply: TimeoutError.  Broken: IoError.        *)
Replies == [n : 0 .. MaxExchanges, nack : BOOLEAN, polled : BOOLEAN, recs : SUBSET Records]
NoReply == [n |-> 0, nack |-> FALSE, polled |-> FALSE, recs |-> {}]
Broken == [NoReply EXCEPT !.nack = TRUE]

(* A frame put on a full line is lost; so is one put on a dead line.       *)
Sent(line, f) == IF linkUp /\ Len(line) < LinkCap THEN Append(line, f) ELSE line

---------------------------------------------------------------------------
Init ==
  /\ kind \in Kinds
  /\ session = 0 /\ owner = "off" /\ answer = "none" /\ hushed = FALSE
  /\ halfDuplex = FALSE /\ router = 0 /\ stop = FALSE
  /\ worker = "none" /\ cur = NoPoll /\ attempt = 0 /\ ack = NoReply
  /\ pending = 0 /\ caller = "idle" /\ copied = 0 /\ issued = 0 /\ newest = 0 /\ settled = 0
  /\ count = 0
  /\ toMcu = <<>> /\ fromMcu = <<>>
  /\ mode = "idle" /\ cache = NoReply /\ handed = 0
  /\ via = [r \in Records |-> 0]
  /\ delivered = <<>>
  /\ linkUp = TRUE

---------------------------------------------------------------------------
(* start_exchange() and stop_streaming(), on the owner's thread            *)

(* The owner writes the request of point p and waits for its answer.       *)
Ask(p) ==
  /\ owner' = p /\ answer' = "none"
  /\ toMcu' = Sent(toMcu, Frame(RequestAt[p]))

(* start_exchange() on a gripper that is not streaming: StopStream first.  *)
StartExchange ==
  /\ owner = "off" /\ session < MaxSessions
  /\ session' = session + 1
  /\ owner' = "quieting" /\ answer' = "none" /\ hushed' = FALSE
  /\ toMcu' = Sent(toMcu, [Frame("quiet") EXCEPT !.session = session + 1])
  /\ UNCHANGED <<kind, halfDuplex, router, stop, workVars, pending, targetVars, statVars,
                 fromMcu, mcuVars, linkUp>>

(* send_cmd() retries a request of the owner.                              *)
AskAgain ==
  /\ owner \in DOMAIN RequestAt /\ answer = "none"
  /\ Len(toMcu) < LinkCap
  /\ Ask(owner)
  /\ UNCHANGED <<kind, session, hushed, halfDuplex, router, stop, workVars, pending, targetVars,
                 statVars, fromMcu, mcuVars, linkUp>>

(* A leader is probed, once StopStream was answered or not; StartStream in *)
(* polled mode comes next, for a leader when the probe was acknowledged.   *)
Arm ==
  /\ \/ owner = "quieting" /\ Ask(IF kind = "leader" THEN "probing" ELSE "arming")
     \/ owner = "probing" /\ answer = "ok" /\ Ask("arming")
  /\ UNCHANGED <<kind, session, hushed, halfDuplex, router, stop, workVars, pending, targetVars,
                 statVars, fromMcu, mcuVars, linkUp>>

(* A leader that refuses the probe or the polled mode: start_streaming().  *)
FallBack ==
  /\ kind = "leader"
  /\ owner \in {"probing", "arming"} /\ answer = "nack"
  /\ Ask("starting")
  /\ UNCHANGED <<kind, session, hushed, halfDuplex, router, stop, workVars, pending, targetVars,
                 statVars, fromMcu, mcuVars, linkUp>>

FallenBack ==
  /\ owner = "starting" /\ answer = "ok"
  /\ answer' = "none"
  /\ owner' = "pushing"
  /\ UNCHANGED <<kind, session, hushed, halfDuplex, router, stop, workVars, pending,
                 targetVars, statVars, toMcu, fromMcu, mcuVars, linkUp>>

(* No answer, or a refusal that has no way out: throw.                     *)
StartFails ==
  /\ owner \in {"probing", "arming", "starting"} /\ answer # "ok"
  /\ answer' = "none"
  /\ owner' = "off"
  /\ UNCHANGED <<kind, session, hushed, halfDuplex, router, stop, workVars, pending,
                 targetVars, statVars, toMcu, fromMcu, mcuVars, linkUp>>

(* StartStream is acknowledged: half duplex, then a new exchange object,   *)
(* whose constructor starts run_().                                        *)
StartWorker ==
  /\ owner = "arming" /\ answer = "ok"
  /\ halfDuplex' = TRUE
  /\ worker' = "wait" /\ stop' = FALSE /\ newest' = 0
  /\ answer' = "none"
  /\ owner' = IF kind = "follower" THEN "routing" ELSE "on"
  /\ UNCHANGED <<kind, session, hushed, router, cur, attempt, ack, pending, caller, copied,
                 issued, statVars, toMcu, fromMcu, mcuVars, linkUp>>

(* set_target_router_(): from now on Motor::submit_() goes to the exchange.*)
Route ==
  /\ owner = "routing"
  /\ router' = session
  /\ owner' = "on"
  /\ UNCHANGED <<kind, session, answer, hushed, halfDuplex, stop, workVars, pending, targetVars,
                 statVars, toMcu, fromMcu, mcuVars, linkUp>>

(* stop_exchange_(): the router goes first.                                *)
Unroute ==
  /\ owner = "on"
  /\ router' = 0
  /\ owner' = "stopping"
  /\ UNCHANGED <<kind, session, answer, hushed, halfDuplex, stop, workVars, pending, targetVars,
                 statVars, toMcu, fromMcu, mcuVars, linkUp>>

(* FollowerExchange::stop(), LeaderExchange::stop(): the flag, under mu_.  *)
RaiseStop ==
  /\ owner = "stopping"
  /\ stop' = TRUE
  /\ owner' = "joining"
  /\ UNCHANGED <<kind, session, answer, hushed, halfDuplex, router, workVars, pending, targetVars,
                 statVars, toMcu, fromMcu, mcuVars, linkUp>>

(* Mutant: the worker is not waited for.                                   *)
JoinDetached ==
  /\ owner = "joining"
  /\ owner' = "joined"
  /\ UNCHANGED <<kind, session, answer, hushed, halfDuplex, router, stop, workVars, pending,
                 targetVars, statVars, toMcu, fromMcu, mcuVars, linkUp>>

(* stop(): the worker is joined; the exchange object is given up.          *)
Join ==
  /\ owner = "joining"
  /\ worker = "exited"
  /\ worker' = "none" /\ pending' = 0
  /\ owner' = "joined"
  /\ UNCHANGED <<kind, session, answer, hushed, halfDuplex, router, stop, cur, attempt, ack,
                 targetVars, statVars, toMcu, fromMcu, mcuVars, linkUp>>

(* stop_exchange_(): full duplex again.  stop_streaming(): StopStream.     *)
Hush ==
  /\ owner \in {"joined", "pushing"}
  /\ halfDuplex' = FALSE
  /\ Ask("hushing")
  /\ UNCHANGED <<kind, session, hushed, router, stop, workVars, pending, targetVars, statVars,
                 fromMcu, mcuVars, linkUp>>

(* Answered or not, stop_streaming() returns.                              *)
StopDone ==
  /\ owner = "hushing"
  /\ hushed' = (answer = "ok")
  /\ answer' = "none"
  /\ owner' = "off"
  /\ UNCHANGED <<kind, session, halfDuplex, router, stop, workVars, pending, targetVars,
                 statVars, toMcu, fromMcu, mcuVars, linkUp>>

---------------------------------------------------------------------------
(* Motor::submit_() on a caller's thread *)

(* The router is copied under its mutex, and used after it.                *)
Submit ==
  /\ kind = "follower"
  /\ caller = "idle" /\ issued < MaxTargets
  /\ issued' = issued + 1
  /\ copied' = router
  /\ caller' = IF router = 0 THEN "direct" ELSE "copied"
  /\ UNCHANGED <<kind, ownerVars, stop, workVars, pending, newest, statVars, toMcu, fromMcu,
                 mcuVars, linkUp>>

(* FollowerExchange::submit(): the newest target wins; ignored once the    *)
(* exchange is stopping or gone.  A dead link is not noticed.              *)
SubmitRouted ==
  /\ caller = "copied"
  /\ caller' = "idle" /\ copied' = 0
  /\ IF copied # session \/ worker = "none" \/ stop
     THEN UNCHANGED <<pending, newest>>
     ELSE pending' = issued /\ newest' = issued
  /\ UNCHANGED <<kind, ownerVars, stop, workVars, issued, statVars, toMcu, fromMcu,
                 mcuVars, linkUp>>

(* send_cmd_no_ack(), half_duplex_turn_(): the flag is read; the turn, if  *)
(* one is needed, is taken when nobody has it.                             *)
SubmitTurn ==
  /\ caller = "direct"
  /\ halfDuplex => worker # "await"
  /\ caller' = IF halfDuplex THEN "turn" ELSE "bare"
  /\ UNCHANGED <<kind, ownerVars, stop, workVars, pending, copied, issued, newest, statVars,
                 toMcu, fromMcu, mcuVars, linkUp>>

(* send_cmd_no_ack(): write, or throw on a dead link; no answer is awaited.*)
SubmitWrite ==
  /\ caller \in {"turn", "bare"}
  /\ caller' = "idle"
  /\ toMcu' = Sent(toMcu, [Frame("target") EXCEPT !.poll.target = issued])
  /\ UNCHANGED <<kind, ownerVars, stop, workVars, pending, copied, issued, newest, statVars,
                 fromMcu, mcuVars, linkUp>>

(* No turn in time, or a dead link: the caller is told.                    *)
SubmitThrows ==
  /\ caller = "direct"
  /\ ~linkUp \/ (halfDuplex /\ worker = "await")
  /\ caller' = "idle"
  /\ UNCHANGED <<kind, ownerVars, stop, workVars, pending, copied, issued, newest, statVars,
                 toMcu, fromMcu, mcuVars, linkUp>>

---------------------------------------------------------------------------
(* run_() of the exchange *)

(* Mutant: the worker empties its mailbox before it looks at the flag.     *)
WorkerExitsIdle ==
  /\ worker = "wait"
  /\ stop /\ pending = 0
  /\ worker' = "exited"
  /\ UNCHANGED <<kind, ownerVars, stop, cur, attempt, ack, pending, targetVars, statVars, toMcu,
                 fromMcu, mcuVars, linkUp>>

(* The flag is looked at first, whatever the mailbox holds.                *)
WorkerExits ==
  /\ worker = "wait"
  /\ stop
  /\ worker' = "exited"
  /\ UNCHANGED <<kind, ownerVars, stop, cur, attempt, ack, pending, targetVars, statVars, toMcu,
                 fromMcu, mcuVars, linkUp>>

(* Mutant: the mailbox is moved from and not reset.                        *)
TakeKeepsPending ==
  /\ worker = "wait"
  /\ ~stop
  /\ count < MaxExchanges
  /\ \E tel \in BOOLEAN :
       /\ kind = "leader" \/ pending = 0 => tel
       /\ cur' = [n |-> count + 1, target |-> pending, tel |-> tel]
  /\ count' = count + 1
  /\ attempt' = 0 /\ ack' = NoReply
  /\ worker' = "write"
  /\ UNCHANGED <<kind, ownerVars, stop, pending, targetVars, settled, delivered, toMcu,
                 fromMcu, mcuVars, linkUp>>

(* Woken by the tick (a telemetry exchange) or by a target, or both; the   *)
(* mailbox is emptied.  A leader exchange is always telemetry.             *)
Take ==
  /\ worker = "wait"
  /\ ~stop
  /\ count < MaxExchanges
  /\ \E tel \in BOOLEAN :
       /\ kind = "leader" \/ pending = 0 => tel
       /\ cur' = [n |-> count + 1, target |-> pending, tel |-> tel]
  /\ count' = count + 1
  /\ pending' = 0
  /\ attempt' = 0 /\ ack' = NoReply
  /\ worker' = "write"
  /\ UNCHANGED <<kind, ownerVars, stop, targetVars, settled, delivered, toMcu, fromMcu,
                 mcuVars, linkUp>>

(* send_cmd(): the turn is taken, and an attempt written.                  *)
Write ==
  /\ worker = "write"
  /\ linkUp
  /\ caller # "turn"
  /\ toMcu' = Sent(toMcu, [Frame("poll") EXCEPT !.poll = cur])
  /\ worker' = "await"
  /\ UNCHANGED <<kind, ownerVars, stop, cur, attempt, ack, pending, targetVars, statVars, fromMcu,
                 mcuVars, linkUp>>

(* send_cmd() throws: no turn in time, no free number, or a dead link.     *)
SendThrows ==
  /\ worker = "write" \/ (worker = "await" /\ ~linkUp)
  /\ worker' = "fold"
  /\ ack' = IF linkUp THEN NoReply ELSE Broken
  /\ UNCHANGED <<kind, ownerVars, stop, cur, attempt, pending, targetVars, statVars, toMcu,
                 fromMcu, mcuVars, linkUp>>

(* Mutant: a retry is a new request (RetryMode::NewSeq).                   *)
TimeoutNewSeq ==
  /\ worker = "await"
  /\ IF attempt < MaxRetries /\ count < MaxExchanges
     THEN /\ worker' = "write" /\ attempt' = attempt + 1
          /\ cur' = [cur EXCEPT !.n = count + 1] /\ count' = count + 1
     ELSE worker' = "fold" /\ UNCHANGED <<attempt, cur, count>>
  /\ UNCHANGED <<kind, ownerVars, stop, ack, pending, targetVars, settled, delivered,
                 toMcu, fromMcu, mcuVars, linkUp>>

(* send_cmd(): the wait times out; a retry is the same request             *)
(* (RetryMode::SameSeq), and after the last one it throws.                 *)
Timeout ==
  /\ worker = "await"
  /\ IF attempt < MaxRetries
     THEN worker' = "write" /\ attempt' = attempt + 1
     ELSE worker' = "fold" /\ UNCHANGED attempt
  /\ UNCHANGED <<kind, ownerVars, stop, cur, ack, pending, targetVars, statVars, toMcu, fromMcu,
                 mcuVars, linkUp>>

(* The records of a reply, oldest first.                                   *)
InOrder(recs) ==
  CHOOSE s \in [1 .. Cardinality(recs) -> recs] : \A i, j \in DOMAIN s : i < j => s[i] < s[j]

(* The exchange was answered with records.  A NACK is thrown by send_cmd().*)
Good == ack # NoReply /\ ~ack.nack

(* ++stats_.timeouts: the leader counts NACKs apart, the follower does not.*)
CountedTimeout == ~Good /\ (kind = "leader" /\ ack.nack => ack = Broken)

(* Mutant: an unanswered target goes back even over a newer one.           *)
UnansweredOverwrites == IF Good \/ cur.target = 0 THEN pending ELSE cur.target

(* What is in the mailbox afterwards: an unanswered target goes back       *)
(* unless a newer one is there.                                            *)
Unanswered == IF Good \/ cur.target = 0 \/ pending # 0 THEN pending ELSE cur.target

(* The records of a reply are injected; then, under mu_, the exchange is   *)
(* counted, an unanswered target put back, and the worker ends if it found *)
(* the link down (the follower looks after a NACK, too).  A leader that    *)
(* left the polled mode is armed again, at most once in a while.           *)
Fold ==
  /\ worker = "fold"
  /\ delivered' = IF Good THEN delivered \o InOrder(ack.recs) ELSE delivered
  /\ settled' = IF Good /\ cur.target # 0 THEN cur.target ELSE settled
  /\ via' = [r \in Records |-> IF via[r] = cur.n /\ (~Good \/ r \in ack.recs) THEN 0 ELSE via[r]]
  /\ pending' = Unanswered
  /\ \/ ack # Broken /\ worker' = "wait"
     \/ ack = Broken /\ worker' = "exited"
     \/ kind = "follower" /\ ack.nack /\ ~linkUp /\ worker' = "exited"
     \/ kind = "leader" /\ Good /\ ~ack.polled /\ worker' = "rearm"
  /\ cur' = NoPoll /\ attempt' = 0 /\ ack' = NoReply
  /\ UNCHANGED <<kind, ownerVars, stop, targetVars, count, toMcu, fromMcu, mode, cache, handed,
                 linkUp>>

(* rearm_(), without mu_: StartStream in polled mode, answered or not.     *)
Rearm ==
  /\ worker = "rearm"
  /\ worker' = "wait"
  /\ toMcu' = Sent(toMcu, Frame("rearm"))
  /\ UNCHANGED <<kind, ownerVars, stop, cur, attempt, ack, pending, targetVars, statVars, fromMcu,
                 mcuVars, linkUp>>

---------------------------------------------------------------------------
(* The transport's reader *)

(* Mutant: the number of a reply is not looked at.                         *)
ReplyUnmatched ==
  /\ linkUp
  /\ fromMcu # <<>>
  /\ fromMcu' = Tail(fromMcu)
  /\ IF worker = "await"
     THEN ack' = Head(fromMcu) /\ worker' = "fold"
     ELSE UNCHANGED <<ack, worker>>
  /\ UNCHANGED <<kind, ownerVars, stop, cur, attempt, pending, targetVars, statVars, toMcu,
                 mcuVars, linkUp>>

(* A reply to the attempt that waits is handed over; any other is a stray. *)
Reply ==
  /\ linkUp
  /\ fromMcu # <<>>
  /\ fromMcu' = Tail(fromMcu)
  /\ IF worker = "await" /\ Head(fromMcu).n = cur.n
     THEN ack' = Head(fromMcu) /\ worker' = "fold"
     ELSE UNCHANGED <<ack, worker>>
  /\ UNCHANGED <<kind, ownerVars, stop, cur, attempt, pending, targetVars, statVars, toMcu,
                 mcuVars, linkUp>>

---------------------------------------------------------------------------
(* External: the MCU, as the fake devices of the tests play it *)

(* A poll: the last request repeated gets the last reply; any other a      *)
(* NACK, or the next records, as many as there are (none outside polled    *)
(* mode, where they are pushed or dropped instead).                        *)
McuPoll(p) ==
  /\ \/ cache.n = p.n /\ UNCHANGED <<cache, handed, via>>
     \/ /\ cache.n # p.n
        /\ cache' = [NoReply EXCEPT !.n = p.n, !.nack = TRUE]
        /\ UNCHANGED <<handed, via>>
     \/ /\ cache.n # p.n
        /\ \E k \in IF p.tel /\ mode = "polled" THEN 0 .. Batch ELSE {0} :
           LET recs == handed + 1 .. handed + k IN
           /\ handed + k <= MaxRecords
           /\ cache' = [n |-> p.n, nack |-> FALSE, polled |-> mode = "polled", recs |-> recs]
           /\ handed' = handed + k
           /\ via' = [r \in Records |-> IF r \in recs /\ p.n = cur.n THEN p.n ELSE via[r]]
  /\ fromMcu' = Sent(fromMcu, cache')

(* The answer reaches the owner, if it still waits for it.                 *)
Answered(f, a) ==
  \/ UNCHANGED answer
  \/ /\ linkUp
     /\ owner \in DOMAIN RequestAt /\ f.op = RequestAt[owner] /\ f.session = session
     /\ answer = "none" /\ answer' = a

(* A probe or a StartStream may be refused.                                *)
McuStream(f) ==
  \/ /\ f.op \in {"probe", "arm", "push", "rearm"}
     /\ Answered(f, "nack")
     /\ UNCHANGED mode
  \/ /\ Answered(f, "ok")
     /\ mode' = CASE f.op \in {"arm", "rearm"} -> "polled"
                  [] f.op = "push" -> "push"
                  [] f.op = "probe" -> mode
                  [] OTHER -> "idle"

McuHandles ==
  /\ toMcu # <<>>
  /\ toMcu' = Tail(toMcu)
  /\ LET f == Head(toMcu) IN
     \/ /\ f.op = "poll"
        /\ McuPoll(f.poll)
        /\ UNCHANGED <<answer, mode>>
     \/ /\ f.op = "target"
        /\ UNCHANGED <<answer, fromMcu, mode, cache, handed, via>>
     \/ /\ f.op \notin {"poll", "target"}
        /\ McuStream(f)
        /\ UNCHANGED <<fromMcu, cache, handed, via>>
  /\ UNCHANGED <<kind, session, owner, hushed, halfDuplex, router, stop, workVars, pending,
                 targetVars, statVars, linkUp>>

(* The leader's lease runs out, as no poll came for a second: it pushes.   *)
LeaseExpires ==
  /\ linkUp /\ kind = "leader" /\ mode = "polled"
  /\ mode' = "push"
  /\ UNCHANGED <<kind, ownerVars, stop, workVars, pending, targetVars, statVars, toMcu, fromMcu,
                 cache, handed, via, linkUp>>

LoseFrame ==
  /\ \/ toMcu # <<>> /\ toMcu' = Tail(toMcu) /\ UNCHANGED fromMcu
     \/ fromMcu # <<>> /\ fromMcu' = Tail(fromMcu) /\ UNCHANGED toMcu
  /\ UNCHANGED <<kind, ownerVars, stop, workVars, pending, targetVars, statVars, mcuVars, linkUp>>

LinkDrops ==
  /\ linkUp
  /\ linkUp' = FALSE
  /\ toMcu' = <<>> /\ fromMcu' = <<>>
  /\ UNCHANGED <<kind, ownerVars, stop, workVars, pending, targetVars, statVars, mcuVars>>

---------------------------------------------------------------------------
OwnerStep ==
  \/ Arm \/ FallBack \/ FallenBack \/ StartFails \/ StartWorker \/ Route
  \/ RaiseStop \/ Join \/ (owner = "joined" /\ Hush) \/ StopDone
CallerStep == SubmitRouted \/ SubmitTurn \/ SubmitWrite \/ SubmitThrows
WorkerStep ==
  WorkerExits \/ Take \/ Write \/ SendThrows \/ Timeout \/ Fold \/ Rearm

Next ==
  \/ StartExchange \/ AskAgain \/ Unroute \/ OwnerStep \/ Hush
  \/ Submit \/ CallerStep
  \/ WorkerStep \/ Reply
  \/ McuHandles \/ LeaseExpires \/ LoseFrame \/ LinkDrops

Spec == Init /\ [][Next]_vars

(* The worker and a start or stop under way go on; their waits are timed.  *)
(* Nothing is assumed of the MCU, the line, or callers.                    *)
FairSpec == Spec /\ WF_vars(WorkerStep) /\ WF_vars(OwnerStep)

---------------------------------------------------------------------------
(* Properties *)

(* Every variable stays in its type; the bounds of the retries and of the  *)
(* two lines are part of it.                                               *)
TypeOK ==
  /\ kind \in Kinds /\ session \in 0 .. MaxSessions /\ owner \in OwnerPoints
  /\ answer \in {"none", "ok", "nack"} /\ router \in 0 .. MaxSessions
  /\ {hushed, halfDuplex, stop, linkUp} \subseteq BOOLEAN
  /\ worker \in WorkerPoints /\ cur \in Polls /\ attempt \in 0 .. MaxRetries /\ ack \in Replies
  /\ pending \in 0 .. MaxTargets /\ caller \in CallerPoints /\ copied \in 0 .. MaxSessions
  /\ issued \in 0 .. MaxTargets /\ newest \in 0 .. MaxTargets /\ settled \in 0 .. MaxTargets
  /\ count \in 0 .. MaxExchanges
  /\ toMcu \in Seq(Frames) /\ Len(toMcu) <= LinkCap
  /\ fromMcu \in Seq(Replies) /\ Len(fromMcu) <= LinkCap
  /\ mode \in {"idle", "push", "polled"} /\ cache \in Replies
  /\ handed \in 0 .. MaxRecords
  /\ via \in [Records -> 0 .. MaxExchanges] /\ delivered \in Seq(Records)

(* "Latest target wins": while the exchange runs, the newest target it     *)
(* accepted is in the mailbox, in the exchange under way, or answered,     *)
(* through supersession, timeouts and resends.                             *)
NewestNotLost ==
  worker \notin {"none", "exited"} /\ newest # 0 =>
    \/ pending = newest
    \/ worker \in {"write", "await", "fold"} /\ cur.target = newest
    \/ settled = newest

(* The exchanges carry targets forwards only: none goes out that is not    *)
(* newer than every target already answered.                               *)
AnsweredNotResent ==
  [][worker = "wait" /\ worker' = "write" /\ cur'.target # 0 => cur'.target > settled]_vars

(* "When a reply is lost the retry is byte-identical, so the firmware's    *)
(* command layer replays its cached reply": a record handed out to an      *)
(* exchange that is under way is delivered by it, unless it fails.         *)
NoSilentLoss ==
  \A r \in Records : via[r] # 0 => worker \in {"write", "await", "fold"} /\ cur.n = via[r]

(* Subscribers see the records of polls once each and in order, whatever   *)
(* replies come twice or late.                                             *)
DeliveredInOrder ==
  \A i, j \in 1 .. Len(delivered) : i < j => delivered[i] < delivered[j]

(* Once stop_streaming() has returned with its StopStream answered, the    *)
(* MCU is idle and stays so: no late poll, rearm or start wakes it.        *)
StoppedStaysStopped == owner = "off" /\ hushed => mode = "idle"

(* stop_streaming() and start_exchange() return.                           *)
OwnerReturns == owner \notin {"off", "on", "pushing"} ~> owner \in {"off", "on", "pushing"}

(* follower_gripper.hpp, start_exchange(): all requests take turns, so the *)
(* host never writes while the follower may be answering: no target is     *)
(* written while the answer to a poll is waited for.                       *)
OneDirection == [][toMcu' # toMcu /\ caller # caller' => worker # "await"]_vars

(* follower_gripper.hpp, ExchangeStats: "timeouts are exchanges without a  *)
(* reply".                                                                 *)
TimeoutsHadNoReply ==
  [][worker = "fold" /\ worker' # "fold" /\ CountedTimeout => ack \in {NoReply, Broken}]_vars
=============================================================================
