---------------------------- MODULE FileDelivery ----------------------------
(***************************************************************************)
(* What the upload queue promises of the files a user picks, whatever      *)
(* passes, snapshots, failures and restarts there are underneath: a file   *)
(* waits until the server has stored it, is then shown as synced and stays *)
(* so unless the user asks for a retry; it leaves the device only when it  *)
(* is stored or withdrawn; it is stored again only when an answer was      *)
(* lost, the app stopped or the user asked for something.  UploadQueue     *)
(* implements this specification (UploadQueue!Promise).                    *)
(***************************************************************************)
EXTENDS Naturals

CONSTANT Files

VARIABLES
  shown,      \* what the user sees of a file: "none", "waiting", "synced", "gone"
  onDevice,   \* whether the device has it
  stored,     \* how many copies of it the server has
  withdrawn,  \* the files the user asked to remove
  asked,      \* the files the user asked to send again, and that still wait
  excuses     \* how often something happened that may cost a further copy

vars == <<shown, onDevice, stored, withdrawn, asked, excuses>>

Init ==
  /\ shown = [f \in Files |-> "none"]
  /\ onDevice = [f \in Files |-> FALSE]
  /\ stored = [f \in Files |-> 0]
  /\ withdrawn = {} /\ asked = {} /\ excuses = 0

Excuse == excuses' = excuses + 1

(* The user picks a file.                                                  *)
Pick(f) ==
  /\ shown[f] = "none"
  /\ shown' = [shown EXCEPT ![f] = "waiting"]
  /\ onDevice' = [onDevice EXCEPT ![f] = TRUE]
  /\ UNCHANGED <<stored, withdrawn, asked, excuses>>

StoredOnceMore(f) ==
  /\ onDevice[f] /\ stored[f] <= excuses
  /\ stored' = [stored EXCEPT ![f] = @ + 1]

(* The server stores it; its answer may be lost.                           *)
Store(f) ==
  /\ StoredOnceMore(f)
  /\ Excuse \/ UNCHANGED excuses
  /\ UNCHANGED <<shown, onDevice, withdrawn, asked>>

(* It is shown as synced.                                                  *)
Sync(f) ==
  /\ shown[f] = "waiting" /\ stored[f] > 0
  /\ shown' = [shown EXCEPT ![f] = "synced"]
  /\ UNCHANGED <<onDevice, stored, withdrawn, asked, excuses>>

(* The device deletes it.                                                  *)
Discard(f) ==
  /\ stored[f] > 0 \/ f \in withdrawn
  /\ onDevice' = [onDevice EXCEPT ![f] = FALSE]
  /\ UNCHANGED <<shown, stored, withdrawn, asked, excuses>>

(* The user removes it; the device may delete it at once.                  *)
Withdraw(f) ==
  /\ shown[f] \in {"waiting", "synced"}
  /\ Excuse
  /\ withdrawn' = withdrawn \union {f}
  /\ onDevice' = [onDevice EXCEPT ![f] = FALSE] \/ UNCHANGED onDevice
  /\ UNCHANGED <<shown, stored, asked>>

(* It is no longer shown: it was withdrawn, or synced.                     *)
Forget(f) ==
  /\ shown[f] = "synced" \/ f \in withdrawn
  /\ shown' = [shown EXCEPT ![f] = "gone"]
  /\ UNCHANGED <<onDevice, stored, withdrawn, asked, excuses>>

(* The user asks for files that wait to be sent again.                     *)
AskAgain ==
  /\ Excuse
  /\ \E again \in SUBSET {f \in Files : shown[f] = "waiting"} :
       asked' = asked \union again
  /\ UNCHANGED <<shown, onDevice, stored, withdrawn>>

(* It waits again, also when it was synced in the meantime.                *)
Requeue(f) ==
  /\ f \in asked
  /\ asked' = asked \ {f}
  /\ \/ shown[f] # "gone" /\ shown' = [shown EXCEPT ![f] = "waiting"]
     \/ shown[f] = "gone" /\ UNCHANGED shown
  /\ UNCHANGED <<onDevice, stored, withdrawn, excuses>>

(* The app stops and forgets what was asked; a request may be under way.   *)
Stop ==
  /\ Excuse
  /\ asked' = {}
  /\ UNCHANGED stored \/ \E f \in Files : StoredOnceMore(f)
  /\ UNCHANGED <<shown, onDevice, withdrawn>>

Next ==
  \/ \E f \in Files : \/ Pick(f) \/ Store(f) \/ Sync(f) \/ Discard(f)
                      \/ Withdraw(f) \/ Forget(f) \/ Requeue(f)
  \/ AskAgain \/ Stop

Spec == Init /\ [][Next]_vars

=============================================================================
