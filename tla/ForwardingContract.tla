------------------------- MODULE ForwardingContract -------------------------
(***************************************************************************)
(* What the forwarding service promises the owner of a mailbox: at any     *)
(* time a mailbox is bound to at most one destination, the binding is on   *)
(* or off, a new binding needs the old one to be removed first, and        *)
(* retiring a destination switches off every binding to it at once.        *)
(***************************************************************************)
CONSTANTS
  Emails,    \* source mailboxes
  Dests,     \* destination addresses
  None       \* no destination; not one of Dests

VARIABLE target   \* the binding of each mailbox

Unbound == [dest |-> None, on |-> FALSE]

Init == target = [e \in Emails |-> Unbound]

Bind(e, d) ==
  /\ target[e] = Unbound
  /\ target' = [target EXCEPT ![e] = [dest |-> d, on |-> TRUE]]

Switch(e) ==
  /\ target[e] # Unbound
  /\ target' = [target EXCEPT ![e].on = ~@]

Unbind(e) ==
  /\ target[e] # Unbound
  /\ target' = [target EXCEPT ![e] = Unbound]

Retire(d) ==
  target' = [e \in Emails |-> IF target[e].dest = d
                                THEN [dest |-> d, on |-> FALSE]
                                ELSE target[e]]

Next ==
  \/ \E e \in Emails : Switch(e) \/ Unbind(e) \/ \E d \in Dests : Bind(e, d)
  \/ \E d \in Dests : Retire(d)

Spec == Init /\ [][Next]_target

=============================================================================
