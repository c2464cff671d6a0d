-------------------------- MODULE MailboxContract --------------------------
(***************************************************************************)
(* What the mailbox promises its users, with no threads, lock or wake      *)
(* protocol: two bounded FIFO lanes and one flag that tells the owner there*)
(* is something to look at.  Mailbox.tla is shown to implement it.         *)
(***************************************************************************)
EXTENDS Naturals, Sequences

CONSTANTS Items, MessageLimit

VARIABLES
  lane,       \* lane[l]: what was accepted on l and not yet taken
  open,       \* admission is open
  notified    \* the owner has an unretired notification

contractVars == <<lane, open, notified>>

LaneNames == {"control", "work"}

ContractInit ==
  /\ lane = [l \in LaneNames |-> <<>>]
  /\ open = TRUE
  /\ notified = FALSE

\* An item becomes visible only while the notification for it already stands.
Accept(l, i) ==
  /\ open /\ notified
  /\ Len(lane[l]) < MessageLimit[l]
  /\ lane' = [lane EXCEPT ![l] = Append(@, i)]
  /\ UNCHANGED <<open, notified>>

\* The oldest item of a lane; work only when no control item is waiting.
Take(l) ==
  /\ lane[l] # <<>>
  /\ l = "work" => lane["control"] = <<>>
  /\ lane' = [lane EXCEPT ![l] = Tail(@)]
  /\ UNCHANGED <<open, notified>>

Notify ==
  /\ notified' = TRUE
  /\ UNCHANGED <<lane, open>>

\* A notification is retired only when nothing is left behind it, or for good.
Retire ==
  /\ open => \A l \in LaneNames : lane[l] = <<>>
  /\ notified' = FALSE
  /\ UNCHANGED <<lane, open>>

Shut ==
  /\ open' = FALSE
  /\ UNCHANGED <<lane, notified>>

ContractNext ==
  \/ \E l \in LaneNames : Take(l) \/ \E i \in Items : Accept(l, i)
  \/ Notify \/ Retire \/ Shut

ContractSpec == ContractInit /\ [][ContractNext]_contractVars

===========================================================================
