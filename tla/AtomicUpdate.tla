---------------------------- MODULE AtomicUpdate ----------------------------
(***************************************************************************)
(* What a firmware update promises its caller, whichever device it is for: *)
(* the device runs one whole image that was offered to it, or (where the   *)
(* device leaves its application first) none; success is reported only of  *)
(* an image that runs; a failure says nothing of what runs.  OtaSession    *)
(* and MotorOta are shown to implement this.                               *)
(***************************************************************************)
CONSTANTS
  Updates,   \* the images that may be offered
  Old,       \* the image the device comes with
  None,      \* no image runs
  MayErase   \* TRUE when the device gives up its image before it has the new one

VARIABLES
  running,   \* the image the device runs, or None
  offered,   \* the images offered so far
  current,   \* the one the caller offered last
  told       \* what the caller was told of it: "none", "pending", "ok", "failed"

vars == <<running, offered, current, told>>

TypeOK ==
  /\ running \in Updates \union {Old, None}
  /\ offered \subseteq Updates
  /\ current \in Updates \union {Old}
  /\ told \in {"none", "pending", "ok", "failed"}

Init ==
  /\ running = Old
  /\ offered = {}
  /\ current = Old
  /\ told = "none"

(* The caller asks for an update; one at a time. *)
Offer(u) ==
  /\ told # "pending"
  /\ u \notin offered
  /\ offered' = offered \union {u}
  /\ current' = u
  /\ told' = "pending"
  /\ UNCHANGED running

(* The device begins to run an image it was given as a whole. *)
Activate(u) ==
  /\ u \in offered
  /\ running' = u
  /\ UNCHANGED <<offered, current, told>>

(* The device stops running its image to take a new one. *)
Erase ==
  /\ MayErase
  /\ offered # {}
  /\ running' = None
  /\ UNCHANGED <<offered, current, told>>

Succeed ==
  /\ told = "pending"
  /\ running = current
  /\ told' = "ok"
  /\ UNCHANGED <<running, offered, current>>

Fail ==
  /\ told = "pending"
  /\ told' = "failed"
  /\ UNCHANGED <<running, offered, current>>

Next ==
  \/ \E u \in Updates : Offer(u) \/ Activate(u)
  \/ Erase
  \/ Succeed
  \/ Fail

Spec == Init /\ [][Next]_vars

=============================================================================
