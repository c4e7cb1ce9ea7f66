----------------------------- MODULE SendAtomic -----------------------------
(***************************************************************************)
(* What the send-by-delegate dialog promises of its entries: a send is     *)
(* atomic.  While no send is under way the user, the address book and      *)
(* payment URIs may change the entries; a send starts only from entries    *)
(* that all hold a recipient, nothing changes them until it ends, and it   *)
(* ends either paid, with the entries cleared to one blank entry, or not   *)
(* paid, with the entries as they were.                                    *)
(***************************************************************************)
EXTENDS Naturals, Sequences

CONSTANTS Recipients, Blank, Bad, MaxEntries

VARIABLES
    entries,        \* the recipient entries of the dialog
    busy            \* a send is under way

sendVars == <<entries, busy>>

AtomicInit == entries = <<Blank>> /\ ~busy

\* Any change of the entries between sends.
Change ==
    /\ ~busy
    /\ entries' \in Seq(Recipients \cup {Blank, Bad})
    /\ Len(entries') <= MaxEntries
    /\ UNCHANGED busy

\* A send starts from a non-empty list of valid recipients.
Begin ==
    /\ ~busy
    /\ entries # <<>>
    /\ \A i \in 1..Len(entries) : entries[i] \in Recipients
    /\ busy' = TRUE
    /\ UNCHANGED entries

\* The send ends, paid or not.
End(paid) ==
    /\ busy
    /\ busy' = FALSE
    /\ entries' = IF paid THEN <<Blank>> ELSE entries

AtomicNext == Change \/ Begin \/ \E paid \in BOOLEAN : End(paid)

AtomicSpec == AtomicInit /\ [][AtomicNext]_sendVars

=============================================================================
