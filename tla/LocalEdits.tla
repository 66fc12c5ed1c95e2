----------------------------- MODULE LocalEdits -----------------------------
(***************************************************************************)
(* What the offline-first database promises the user of one document,      *)
(* whatever is pulled, pushed, retried or restarted underneath: a local    *)
(* write is shown at once and stays shown until the server has taken it or *)
(* refused it; what then replaces it is a content the server has held, or  *)
(* a removal.  DocSync implements this specification (DocSync!Promise).    *)
(***************************************************************************)
CONSTANTS
  Contents,  \* what a document can contain
  Nothing    \* what is shown of a document that is absent or removed

VARIABLES
  shown,   \* the document as the user sees it
  wish,    \* what the user wrote last, for as long as that waits
  edit,    \* that write: "waiting", "refused", else "settled"
  held     \* the contents the server has held so far

vars == <<shown, wish, edit, held>>

Init ==
  /\ shown = Nothing /\ wish = Nothing /\ edit = "settled"
  /\ held \in SUBSET Contents

(* The user writes or removes the document, online or not.  No other step  *)
(* gives wish a content, so a step that shows something else while a write *)
(* waits is no step of this specification.                                 *)
Write ==
  /\ wish' \in Contents \union {Nothing}
  /\ shown' = wish' /\ edit' = "waiting"
  /\ UNCHANGED held

(* The server takes the write, which is still what is shown.  A removal    *)
(* counts as taken whatever the server answered.                           *)
Taken ==
  /\ edit = "waiting" /\ shown = wish
  /\ wish \in held \union {Nothing}
  /\ wish' = Nothing /\ edit' = "settled"
  /\ UNCHANGED <<shown, held>>

(* The server refuses the content; the user goes on seeing it.             *)
Refused ==
  /\ edit = "waiting" /\ shown = wish
  /\ wish # Nothing
  /\ wish' = Nothing /\ edit' = "refused"
  /\ UNCHANGED <<shown, held>>

(* The server's state reaches a client that has nothing waiting.           *)
Refresh ==
  /\ edit # "waiting"
  /\ shown' \in held \union {Nothing}
  /\ UNCHANGED <<wish, edit, held>>

(* The server takes a content, from this client or from another.           *)
Hold ==
  /\ held' \in SUBSET Contents /\ held \subseteq held'
  /\ UNCHANGED <<shown, wish, edit>>

Next == Write \/ Taken \/ Refused \/ Refresh \/ Hold

Spec == Init /\ [][Next]_vars

=============================================================================
