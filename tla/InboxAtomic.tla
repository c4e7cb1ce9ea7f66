---------------------------- MODULE InboxAtomic -----------------------------
(***************************************************************************)
(* What smsginbox promises its callers (spec.md 4.4 and 8): each call is   *)
(* one atomic step on the inbox partition.                                 *)
(*   - unread: every unread message is returned once and marked read, in   *)
(*     one transaction;                                                    *)
(*   - all: every message is returned and nothing changes;                 *)
(*   - clear: every message is erased.                                     *)
(* A received message enters under a key not yet in the inbox.  shown      *)
(* counts how often unread scans returned each message.                    *)
(***************************************************************************)
EXTENDS Naturals

CONSTANT Ids        \* message keys

VARIABLES
    inbox,          \* keys of the inbox partition
    unread,         \* ... whose unread bit is set
    shown           \* key -> times an unread scan returned it

ivars == <<inbox, unread, shown>>

AtomicInit ==
    /\ inbox = {}
    /\ unread = {}
    /\ shown = [m \in Ids |-> 0]

\* A message for us arrives, unread, under a fresh key.
Receive(m) ==
    /\ m \notin inbox
    /\ inbox' = inbox \cup {m}
    /\ unread' = unread \cup {m}
    /\ shown' = [shown EXCEPT ![m] = 0]

\* smsginbox unread: all unread messages are returned and marked read.
ScanUnread ==
    /\ shown' = [m \in Ids |-> IF m \in unread THEN shown[m] + 1 ELSE shown[m]]
    /\ unread' = {}
    /\ UNCHANGED inbox

\* smsginbox clear.
Clear ==
    /\ inbox' = {}
    /\ unread' = {}
    /\ UNCHANGED shown

AtomicNext ==
    \/ \E m \in Ids : Receive(m)
    \/ ScanUnread
    \/ Clear

AtomicSpec == AtomicInit /\ [][AtomicNext]_ivars

=============================================================================
