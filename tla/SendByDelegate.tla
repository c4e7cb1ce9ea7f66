--------------------------- MODULE SendByDelegate ---------------------------
(***************************************************************************)
(* The send-coins-by-delegate dialog of src/src/qt/                        *)
(* sendcoinsbydelegatedialog.cpp: its list of recipient entries, the flag  *)
(* fNewRecipientAllowed and the handler of the send button.                *)
(*                                                                         *)
(* The GUI runs on one thread, but on_sendButton_clicked opens three modal *)
(* dialogs (the confirmation, the wallet passphrase, the warning) and      *)
(* accept() calls addEntry(), which calls processEvents().  Each of them   *)
(* runs a nested event loop that delivers the events queued meanwhile, of  *)
(* which a payment URI (handleURI) is the one that changes the entries.    *)
(* The user's own input (typing, the buttons, the address book's           *)
(* setAddress) is blocked by the modal dialogs and happens only when the   *)
(* handler is not running.  spc is where the handler is.                   *)
(*                                                                         *)
(* An entry holds a recipient, is blank, or holds input that does not      *)
(* validate.  The statuses of WalletModel::sendCoinsByDelegate other than  *)
(* OK all end in one warning box, and are one outcome here.                *)
(***************************************************************************)
EXTENDS Naturals, Sequences, Functions

CONSTANTS
    Recipients,     \* the SendCoinsRecipient values a user or a URI may give
    Blank,          \* an entry that isClear()
    Bad,            \* an entry whose input does not validate()
    MaxEntries,     \* bound on the number of entries (addEntry is unbounded)
    NoRecipient     \* no URI was taken

ASSUME DlgAssumption ==
    /\ Blank \notin Recipients /\ Bad \notin Recipients /\ Blank # Bad
    /\ NoRecipient \notin Recipients
    /\ MaxEntries \in Nat \ {0}

EntryVals == Recipients \cup {Blank, Bad}

\* The places of on_sendButton_clicked that run a nested event loop.
Nested == {"confirm", "unlock", "send", "warn", "accepted"}

\* ... and those before the outcome of the send reaches the entries.
Frozen == {"confirm", "unlock", "send", "warn"}

VARIABLES
    entries,        \* the SendCoinsEntry widgets of ui->entries, in order
    allowed,        \* fNewRecipientAllowed
    spc,            \* "idle" or where on_sendButton_clicked is
    recipients,     \* its local list of the recipients it asks to confirm
    taken           \* the recipient of a URI handleURI just reported taken

dlgVars == <<entries, allowed, spc, recipients, taken>>

DlgTypeOK ==
    /\ entries \in Seq(EntryVals) /\ Len(entries) <= MaxEntries
    /\ allowed \in BOOLEAN
    /\ spc \in {"idle"} \cup Nested
    /\ recipients \in Seq(Recipients) /\ Len(recipients) <= MaxEntries
    /\ taken \in Recipients \cup {NoRecipient}

\* The constructor: one blank entry, new recipients allowed.
DlgInit ==
    /\ entries = <<Blank>>
    /\ allowed = TRUE
    /\ spc = "idle"
    /\ recipients = <<>>
    /\ taken = NoRecipient

\* addEntry() followed by a write to the new entry, or the write to the
\* first entry when it is the only one and still clear (setAddress and
\* pasteEntry share this).
PutEntry(r) ==
    IF Len(entries) = 1 /\ entries[1] = Blank
    THEN [entries EXCEPT ![1] = r]
    ELSE Append(entries, r)

CanPut == (Len(entries) = 1 /\ entries[1] = Blank) \/ Len(entries) < MaxEntries

\* The user edits entry i (SendCoinsEntry, not in the repository).
EditEntry(i, v) ==
    /\ spc = "idle"
    /\ entries' = [entries EXCEPT ![i] = v]
    /\ taken' = NoRecipient
    /\ UNCHANGED <<allowed, spc, recipients>>

\* removeEntry: deletes the entry, even the last one.
RemoveEntry(i) ==
    /\ spc = "idle"
    /\ entries' = [j \in 1..Len(entries) - 1 |->
                      IF j < i THEN entries[j] ELSE entries[j + 1]]
    /\ taken' = NoRecipient
    /\ UNCHANGED <<allowed, spc, recipients>>

\* The clear button and reject(): clear() deletes every entry and adds one.
ClearClicked ==
    /\ spc = "idle"
    /\ entries' = <<Blank>>
    /\ taken' = NoRecipient
    /\ UNCHANGED <<allowed, spc, recipients>>

\* setAddress from the address book: no test of fNewRecipientAllowed.
SetAddress(r) ==
    /\ spc = "idle"
    /\ CanPut
    /\ entries' = PutEntry(r)
    /\ taken' = NoRecipient
    /\ UNCHANGED <<allowed, spc, recipients>>

\* Mutant: pasteEntry without the test of fNewRecipientAllowed.
HandleURINoGuard(r, valid) ==
    /\ valid => CanPut
    /\ entries' = IF valid THEN PutEntry(r) ELSE entries
    /\ taken' = IF valid THEN r ELSE NoRecipient
    /\ UNCHANGED <<allowed, spc, recipients>>

\* handleURI(uri): a URI that parses to a valid address returns true after
\* pasteEntry, which returns at once when fNewRecipientAllowed is false.
\* Any event loop, the main one or a nested one, may deliver it.
HandleURI(r, valid) ==
    /\ valid => (allowed => CanPut)
    /\ entries' = IF valid /\ allowed THEN PutEntry(r) ELSE entries
    /\ taken' = IF valid THEN r ELSE NoRecipient
    /\ UNCHANGED <<allowed, spc, recipients>>

\* Mutant: the entries are sent without entry->validate().
SendClickedNoValidate ==
    /\ spc = "idle"
    /\ entries # <<>>
    /\ recipients' = entries
    /\ allowed' = FALSE
    /\ spc' = "confirm"
    /\ taken' = NoRecipient
    /\ UNCHANGED entries

\* on_sendButton_clicked up to QMessageBox::question: every entry must
\* validate and there must be one; the recipients are copied, new
\* recipients are refused, and the confirmation opens.
SendClicked ==
    /\ spc = "idle"
    /\ entries # <<>>
    /\ \A i \in 1..Len(entries) : entries[i] \in Recipients
    /\ recipients' = entries
    /\ allowed' = FALSE
    /\ spc' = "confirm"
    /\ taken' = NoRecipient
    /\ UNCHANGED entries

\* The answer to the confirmation: anything but Yes returns.
ConfirmAnswer(yes) ==
    /\ spc = "confirm"
    /\ spc' = IF yes THEN "unlock" ELSE "idle"
    /\ allowed' = ~yes
    /\ taken' = NoRecipient
    /\ UNCHANGED <<entries, recipients>>

\* Mutant: the cancelled unlock returns without fNewRecipientAllowed = true.
UnlockAnswerNoReset(ok) ==
    /\ spc = "unlock"
    /\ spc' = IF ok THEN "send" ELSE "idle"
    /\ allowed' = FALSE
    /\ taken' = NoRecipient
    /\ UNCHANGED <<entries, recipients>>

\* requestUnlock(): an invalid context (unlock cancelled) returns.
UnlockAnswer(ok) ==
    /\ spc = "unlock"
    /\ spc' = IF ok THEN "send" ELSE "idle"
    /\ allowed' = ~ok
    /\ taken' = NoRecipient
    /\ UNCHANGED <<entries, recipients>>

\* sendCoinsByDelegate(recipients) and the switch on its status: OK calls
\* accept(), that is clear(), whose addEntry() runs processEvents(); any
\* other status opens a warning box.
SendCoins(ok) ==
    /\ spc = "send"
    /\ spc' = IF ok THEN "accepted" ELSE "warn"
    /\ entries' = IF ok THEN <<Blank>> ELSE entries
    /\ taken' = NoRecipient
    /\ UNCHANGED <<allowed, recipients>>

\* After the switch (the warning closed, or coin control reset after OK):
\* fNewRecipientAllowed = true and the handler returns.
SendDone ==
    /\ spc \in {"warn", "accepted"}
    /\ spc' = "idle"
    /\ allowed' = TRUE
    /\ taken' = NoRecipient
    /\ UNCHANGED <<entries, recipients>>

DlgNext ==
    \/ \E i \in 1..Len(entries), v \in EntryVals : EditEntry(i, v)
    \/ \E i \in 1..Len(entries) : RemoveEntry(i)
    \/ ClearClicked
    \/ \E r \in Recipients : SetAddress(r)
    \/ \E r \in Recipients, valid \in BOOLEAN : HandleURI(r, valid)
    \/ SendClicked
    \/ \E yes \in BOOLEAN : ConfirmAnswer(yes)
    \/ \E ok \in BOOLEAN : UnlockAnswer(ok)
    \/ \E ok \in BOOLEAN : SendCoins(ok)
    \/ SendDone

DlgSpec == DlgInit /\ [][DlgNext]_dlgVars

-----------------------------------------------------------------------------
(* Properties.                                                             *)

\* Every way out of on_sendButton_clicked (cancel, unlock cancelled, a
\* failed send, a successful one) gives back fNewRecipientAllowed: when the
\* handler is not running, pasted recipients are accepted.
AllowedWhenIdle == spc = "idle" => allowed

\* The clear() that accept() does after a successful send discards only
\* entries whose recipients that send paid: nothing entered while the
\* confirmation, passphrase or send was under way is wiped unsent.
AcceptDiscardsOnlySent ==
    [][spc = "send" /\ spc' = "accepted" =>
         Range(entries) \subseteq Range(recipients)]_dlgVars

\* A URI that handleURI reports taken (returns true) is among the entries
\* right after: the caller drops the URI on that answer.
TakenURIEntered == taken # NoRecipient => taken \in Range(entries)

\* The dialog implements SendAtomic: however the nested event loops of
\* on_sendButton_clicked interleave with URIs, the send is atomic for the
\* entries.  A send is under way from the click until its outcome is known.
Atomic == INSTANCE SendAtomic WITH busy <- spc \in Frozen
SendRefinement == Atomic!AtomicSpec

=============================================================================
