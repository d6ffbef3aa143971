------------------------------- MODULE Outbox -------------------------------
(***************************************************************************)
(* What the Firestore SDK promises about the writes of its clients.  The   *)
(* writes of a client wait in a queue until the backend has decided on     *)
(* them.  The backend goes through the queue in order; its decision        *)
(* reaches the client later, or never, and then the backend goes through   *)
(* what is left from the beginning again.                                  *)
(*                                                                         *)
(* WriteQueue shows that the SDK keeps this promise; Ballot builds on it.  *)
(***************************************************************************)
EXTENDS Integers, Sequences, SequencesExt

CONSTANTS
    Clients,    \* whoever has a queue of writes
    Writes      \* what can be queued

VARIABLES
    outbox,     \* per client: the writes not known to be decided, oldest first
    applied     \* per client: how many of them the backend went through

vars == <<outbox, applied>>

TypeOK == /\ outbox \in [Clients -> Seq(Writes)]
          /\ applied \in [Clients -> Nat]

Init == /\ outbox = [c \in Clients |-> <<>>]
        /\ applied = [c \in Clients |-> 0]

\* The application writes, possibly more than once in one go.
Issue(c) ==
    /\ IsStrictPrefix(outbox[c], outbox'[c])
    /\ outbox'[c] \in Seq(Writes)
    /\ outbox' = [outbox EXCEPT ![c] = outbox'[c]]
    /\ UNCHANGED applied

Apply(c) ==
    /\ applied[c] < Len(outbox[c])
    /\ applied' = [applied EXCEPT ![c] = @ + 1]
    /\ UNCHANGED outbox

\* The client learns that its oldest write was applied.
Settle(c) ==
    /\ applied[c] > 0
    /\ applied' = [applied EXCEPT ![c] = @ - 1]
    /\ outbox' = [outbox EXCEPT ![c] = Tail(@)]

\* The client learns that its oldest write was refused.
Refuse(c) ==
    /\ applied[c] = 0
    /\ outbox[c] # <<>>
    /\ outbox' = [outbox EXCEPT ![c] = Tail(@)]
    /\ UNCHANGED applied

Resend(c) ==
    /\ applied' = [applied EXCEPT ![c] = 0]
    /\ UNCHANGED outbox

Next == \E c \in Clients : Issue(c) \/ Apply(c) \/ Settle(c) \/ Refuse(c) \/ Resend(c)

Spec == Init /\ [][Next]_vars
=============================================================================
