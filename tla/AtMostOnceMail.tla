--------------------------- MODULE AtMostOnceMail ---------------------------
(***************************************************************************)
(* What a send endpoint of the backend promises its clients, with nothing  *)
(* said of how: one idempotency key stands for at most one message, and a  *)
(* client told that its request succeeded is never told so while the fate  *)
(* of that message is open.                                                *)
(*                                                                         *)
(* EmailDelivery implements this specification (EmailDelivery!Promise).    *)
(***************************************************************************)
CONSTANTS Requests,  \* HTTP requests to a send endpoint
          Keys,      \* Idempotency-Key values
          None       \* no key yet

VARIABLES asked,     \* the key a request arrived with
          mail,      \* what became of the one message of a key
          told       \* what a request has been answered

vars == <<asked, mail, told>>

Init ==
  /\ asked = [r \in Requests |-> None]
  /\ mail = [k \in Keys |-> "unsent"]
  /\ told = [r \in Requests |-> "nothing"]

Ask(r, k) ==
  /\ asked[r] = None
  /\ told[r] = "nothing"
  /\ asked' = [asked EXCEPT ![r] = k]
  /\ UNCHANGED <<mail, told>>

\* The message of k is handed to SMTP. There is no way back to "unsent".
Invoke(k) ==
  /\ mail[k] = "unsent"
  /\ mail' = [mail EXCEPT ![k] = "open"]
  /\ UNCHANGED <<asked, told>>

\* The mail server takes the message, perhaps long after anyone listens.
Accept(k) ==
  /\ mail[k] = "open"
  /\ mail' = [mail EXCEPT ![k] = "accepted"]
  /\ UNCHANGED <<asked, told>>

TellSuccess(r) ==
  /\ asked[r] # None
  /\ told[r] = "nothing"
  /\ mail[asked[r]] # "open"
  /\ told' = [told EXCEPT ![r] = "success"]
  /\ UNCHANGED <<asked, mail>>

TellFailure(r) ==
  /\ told[r] = "nothing"
  /\ told' = [told EXCEPT ![r] = "failure"]
  /\ UNCHANGED <<asked, mail>>

Next ==
  \/ \E r \in Requests, k \in Keys : Ask(r, k)
  \/ \E k \in Keys : Invoke(k) \/ Accept(k)
  \/ \E r \in Requests : TellSuccess(r) \/ TellFailure(r)

Spec == Init /\ [][Next]_vars
=============================================================================
