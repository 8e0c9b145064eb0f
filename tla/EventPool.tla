------------------------------ MODULE EventPool ------------------------------
(***************************************************************************)
(* What the event pool of byedpi promises to the handlers of event_loop():  *)
(* a handler is called for a descriptor that is open and for which the      *)
(* kernel reported an event since that descriptor was registered, never for *)
(* one that was closed, or closed and reused, earlier in the same batch.    *)
(***************************************************************************)
CONSTANTS
    Items,    \* places for descriptors
    Root,     \* the place of the listening socket
    Nil       \* no descriptor

VARIABLES
    open,     \* the places that hold a registered descriptor
    ready,    \* places with an event of the current batch still to be handled
    touched,  \* places opened or closed since that batch was fetched
    current   \* the place whose handler is running

vars == <<open, ready, touched, current>>

Init ==
    /\ open = {Root}
    /\ ready = {}
    /\ touched = {Root}
    /\ current = Nil

\* The kernel reports events of open descriptors.
Fetch ==
    /\ current = Nil /\ ready = {}
    /\ ready' \in SUBSET open \ {{}}
    /\ touched' = {}
    /\ UNCHANGED <<open, current>>

Deliver(v) ==
    /\ current = Nil /\ v \in ready
    /\ v \in open \ touched
    /\ current' = v
    /\ ready' = ready \ {v}
    /\ UNCHANGED <<open, touched>>

\* An event may be dropped: the kernel reports it again if it still holds.
Drop(v) ==
    /\ current = Nil /\ v \in ready
    /\ ready' = ready \ {v}
    /\ UNCHANGED <<open, touched, current>>

\* The running handler opens and closes descriptors, and may return.
Handle(S) ==
    /\ current # Nil
    /\ Root \notin S
    /\ \E T \in SUBSET S : open' = (open \ S) \cup T
    /\ touched' = touched \cup S
    /\ current' \in {current, Nil}
    /\ UNCHANGED ready

\* The loop ends and leaves nothing open.
Shut ==
    /\ open' = {} /\ ready' = {} /\ current' = Nil
    /\ UNCHANGED touched

Next ==
    \/ Fetch
    \/ \E v \in Items : Deliver(v) \/ Drop(v)
    \/ \E S \in SUBSET Items : Handle(S)
    \/ Shut

Spec == Init /\ [][Next]_vars

=============================================================================
