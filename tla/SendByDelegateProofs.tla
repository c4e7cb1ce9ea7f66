------------------------ MODULE SendByDelegateProofs ------------------------
(***************************************************************************)
(* Proofs about SendByDelegate, for every set of recipients and every      *)
(* bound on the entries.                                                   *)
(***************************************************************************)
EXTENDS SendByDelegate, TLAPS

(***************************************************************************)
(* AllowedWhenIdle is not inductive alone, and AcceptDiscardsOnlySent is   *)
(* about a step.  Both follow from DlgInv: while on_sendButton_clicked is  *)
(* in a nested event loop, fNewRecipientAllowed is false, and until        *)
(* accept() runs the entries are the recipients it copied, which are not  *)
(* none.                                                                   *)
(***************************************************************************)
DlgInv ==
    /\ DlgTypeOK
    /\ spc = "idle" => allowed
    /\ spc \in Nested => ~allowed
    /\ spc \in Frozen => entries = recipients /\ recipients # <<>>

LEMMA PutEntryType ==
    ASSUME DlgAssumption, entries \in Seq(EntryVals),
           Len(entries) <= MaxEntries, CanPut, NEW r \in Recipients
    PROVE  PutEntry(r) \in Seq(EntryVals) /\ Len(PutEntry(r)) <= MaxEntries
  <1>1. CASE Len(entries) = 1 /\ entries[1] = Blank
    <2>1. PutEntry(r) = [entries EXCEPT ![1] = r]
      BY <1>1 DEF PutEntry
    <2>2. 1 \in 1..Len(entries)
      BY <1>1
    <2>3. QED
      BY <2>1, <2>2 DEF EntryVals
  <1>2. CASE ~(Len(entries) = 1 /\ entries[1] = Blank)
    <2>1. Len(entries) < MaxEntries
      BY <1>2 DEF CanPut
    <2>2. QED
      BY <1>2, <2>1 DEF PutEntry, EntryVals
  <1>3. QED
    BY <1>1, <1>2

LEMMA RemoveType ==
    ASSUME NEW S, NEW e \in Seq(S), NEW i \in 1..Len(e)
    PROVE  LET d == [j \in 1..Len(e) - 1 |-> IF j < i THEN e[j] ELSE e[j + 1]]
           IN  d \in Seq(S) /\ Len(d) <= Len(e)
  <1> DEFINE d == [j \in 1..Len(e) - 1 |-> IF j < i THEN e[j] ELSE e[j + 1]]
  <1>1. Len(e) - 1 \in Nat
    OBVIOUS
  <1>2. \A j \in 1..Len(e) - 1 : d[j] \in S
    OBVIOUS
  <1>3. d \in Seq(S)
    BY <1>1, <1>2
  <1>4. QED
    BY <1>3

LEMMA InitDlgInv == DlgInit => DlgInv
  BY DlgAssumption DEF DlgInit, DlgInv, DlgTypeOK, EntryVals, Nested, Frozen

LEMMA NextDlgInv == DlgInv /\ [DlgNext]_dlgVars => DlgInv'
  <1> SUFFICES ASSUME DlgInv, [DlgNext]_dlgVars PROVE DlgInv'
    OBVIOUS
  <1> USE DlgAssumption
  <1>1. ASSUME NEW i \in 1..Len(entries), NEW v \in EntryVals, EditEntry(i, v)
        PROVE DlgInv'
    BY <1>1 DEF EditEntry, DlgInv, DlgTypeOK, Nested, Frozen
  <1>2. ASSUME NEW i \in 1..Len(entries), RemoveEntry(i) PROVE DlgInv'
    <2>1. entries' \in Seq(EntryVals) /\ Len(entries') <= MaxEntries
      BY <1>2, RemoveType DEF RemoveEntry, DlgInv, DlgTypeOK
    <2>2. QED
      BY <1>2, <2>1 DEF RemoveEntry, DlgInv, DlgTypeOK, Nested, Frozen
  <1>3. CASE ClearClicked
    BY <1>3 DEF ClearClicked, DlgInv, DlgTypeOK, EntryVals, Nested, Frozen
  <1>4. ASSUME NEW r \in Recipients, SetAddress(r) PROVE DlgInv'
    <2>1. entries' \in Seq(EntryVals) /\ Len(entries') <= MaxEntries
      BY <1>4, PutEntryType DEF SetAddress, DlgInv, DlgTypeOK
    <2>2. QED
      BY <1>4, <2>1 DEF SetAddress, DlgInv, DlgTypeOK, Nested, Frozen
  <1>5. ASSUME NEW r \in Recipients, NEW valid \in BOOLEAN, HandleURI(r, valid)
        PROVE DlgInv'
    <2>1. CASE valid /\ allowed
      <3>1. entries' \in Seq(EntryVals) /\ Len(entries') <= MaxEntries
        BY <1>5, <2>1, PutEntryType DEF HandleURI, DlgInv, DlgTypeOK
      <3>2. spc = "idle"
        BY <2>1 DEF DlgInv, DlgTypeOK, Nested
      <3>3. QED
        BY <1>5, <3>1, <3>2 DEF HandleURI, DlgInv, DlgTypeOK, Nested, Frozen
    <2>2. CASE ~(valid /\ allowed)
      BY <1>5, <2>2 DEF HandleURI, DlgInv, DlgTypeOK, Nested, Frozen
    <2>3. QED
      BY <2>1, <2>2
  <1>6. CASE SendClicked
    <2>1. entries \in Seq(Recipients)
      BY <1>6 DEF SendClicked, DlgInv, DlgTypeOK
    <2>2. QED
      BY <1>6, <2>1 DEF SendClicked, DlgInv, DlgTypeOK, Nested, Frozen
  <1>7. ASSUME NEW yes \in BOOLEAN, ConfirmAnswer(yes) PROVE DlgInv'
    BY <1>7 DEF ConfirmAnswer, DlgInv, DlgTypeOK, Nested, Frozen
  <1>8. ASSUME NEW ok \in BOOLEAN, UnlockAnswer(ok) PROVE DlgInv'
    BY <1>8 DEF UnlockAnswer, DlgInv, DlgTypeOK, Nested, Frozen
  <1>9. ASSUME NEW ok \in BOOLEAN, SendCoins(ok) PROVE DlgInv'
    <2>1. CASE ok
      <3>1. spc' = "accepted" /\ entries' = <<Blank>>
        BY <1>9, <2>1 DEF SendCoins
      <3>2. <<Blank>> \in Seq(EntryVals) /\ Len(<<Blank>>) <= MaxEntries
        BY DEF EntryVals
      <3>3. QED
        BY <1>9, <3>1, <3>2 DEF SendCoins, DlgInv, DlgTypeOK, Nested, Frozen
    <2>2. CASE ~ok
      BY <1>9, <2>2 DEF SendCoins, DlgInv, DlgTypeOK, Nested, Frozen
    <2>3. QED
      BY <2>1, <2>2
  <1>10. CASE SendDone
    BY <1>10 DEF SendDone, DlgInv, DlgTypeOK, Nested, Frozen
  <1>11. CASE UNCHANGED dlgVars
    BY <1>11 DEF dlgVars, DlgInv, DlgTypeOK, Nested, Frozen
  <1>12. QED
    BY <1>1, <1>2, <1>3, <1>4, <1>5, <1>6, <1>7, <1>8, <1>9, <1>10, <1>11
    DEF DlgNext

\* The dialog's entries, flag and copied recipients keep their type under
\* every handler: removeEntry, setAddress and pasteEntry never leave more
\* entries than the bound, for every set of recipients and every bound.
THEOREM DlgTypeCorrect == DlgSpec => []DlgTypeOK
  <1>1. DlgInv => DlgTypeOK
    BY DEF DlgInv
  <1>2. QED
    BY InitDlgInv, NextDlgInv, <1>1, PTL DEF DlgSpec

\* When on_sendButton_clicked is not running, fNewRecipientAllowed is true:
\* none of its four exits leaves pasting disabled.
THEOREM AllowedWhenIdleHolds == DlgSpec => []AllowedWhenIdle
  <1>1. DlgInv => AllowedWhenIdle
    BY DEF DlgInv, AllowedWhenIdle
  <1>2. QED
    BY InitDlgInv, NextDlgInv, <1>1, PTL DEF DlgSpec

\* A successful send's accept() clears only entries that send paid: the
\* nested event loops of the send cannot change the entries.
THEOREM AcceptDiscardsOnlySentHolds == DlgSpec => AcceptDiscardsOnlySent
  <1>1. DlgInv /\ [DlgNext]_dlgVars =>
          [spc = "send" /\ spc' = "accepted" =>
             Range(entries) \subseteq Range(recipients)]_dlgVars
    <2> SUFFICES ASSUME DlgInv, spc = "send"
                 PROVE  Range(entries) \subseteq Range(recipients)
      OBVIOUS
    <2>1. entries = recipients
      BY DEF DlgInv, Frozen
    <2>2. QED
      BY <2>1
  <1>2. QED
    BY InitDlgInv, NextDlgInv, <1>1, PTL DEF DlgSpec, AcceptDiscardsOnlySent

-----------------------------------------------------------------------------
(***************************************************************************)
(* The refinement of SendAtomic, under the mapping busy <- spc \in Frozen.  *)
(* The user's actions and a URI pasted while idle are Change; the click is *)
(* Begin; a cancelled confirmation or unlock, a successful sendCoins and   *)
(* closing the warning are End; every other step (a refused URI, the steps *)
(* between the modal dialogs, leaving "accepted") leaves the entries and   *)
(* busy as they are.                                                       *)
(***************************************************************************)
LEMMA StepRefines ==
    DlgInv /\ [DlgNext]_dlgVars => [Atomic!AtomicNext]_Atomic!sendVars
  <1> SUFFICES ASSUME DlgInv, [DlgNext]_dlgVars
               PROVE  [Atomic!AtomicNext]_Atomic!sendVars
    OBVIOUS
  <1> USE DlgAssumption
  <1>0. DlgInv'
    BY NextDlgInv
  <1> DEFINE IdleChange ==
        spc = "idle" /\ spc' = "idle" => Atomic!Change
  <1>a. IdleChange
    BY <1>0 DEF DlgInv, DlgTypeOK, EntryVals, Atomic!Change, Frozen
  <1>1. ASSUME NEW i \in 1..Len(entries), NEW v \in EntryVals, EditEntry(i, v)
        PROVE [Atomic!AtomicNext]_Atomic!sendVars
    BY <1>1, <1>a DEF EditEntry, Atomic!AtomicNext
  <1>2. ASSUME NEW i \in 1..Len(entries), RemoveEntry(i)
        PROVE [Atomic!AtomicNext]_Atomic!sendVars
    BY <1>2, <1>a DEF RemoveEntry, Atomic!AtomicNext
  <1>3. CASE ClearClicked
    BY <1>3, <1>a DEF ClearClicked, Atomic!AtomicNext
  <1>4. ASSUME NEW r \in Recipients, SetAddress(r)
        PROVE [Atomic!AtomicNext]_Atomic!sendVars
    BY <1>4, <1>a DEF SetAddress, Atomic!AtomicNext
  <1>5. ASSUME NEW r \in Recipients, NEW valid \in BOOLEAN, HandleURI(r, valid)
        PROVE [Atomic!AtomicNext]_Atomic!sendVars
    <2>1. CASE valid /\ allowed
      <3>1. spc = "idle"
        BY <2>1 DEF DlgInv, DlgTypeOK, Nested
      <3>2. QED
        BY <1>5, <1>a, <3>1 DEF HandleURI, Atomic!AtomicNext
    <2>2. CASE ~(valid /\ allowed)
      BY <1>5, <2>2 DEF HandleURI, Atomic!sendVars
    <2>3. QED
      BY <2>1, <2>2
  <1>6. CASE SendClicked
    <2>1. Atomic!Begin
      BY <1>6 DEF SendClicked, Atomic!Begin, Frozen
    <2>2. QED
      BY <2>1 DEF Atomic!AtomicNext
  <1>7. ASSUME NEW yes \in BOOLEAN, ConfirmAnswer(yes)
        PROVE [Atomic!AtomicNext]_Atomic!sendVars
    <2>1. CASE yes
      BY <1>7, <2>1 DEF ConfirmAnswer, Atomic!sendVars, Frozen
    <2>2. CASE ~yes
      <3>1. Atomic!End(FALSE)
        BY <1>7, <2>2 DEF ConfirmAnswer, Atomic!End, Frozen
      <3>2. QED
        BY <3>1 DEF Atomic!AtomicNext
    <2>3. QED
      BY <2>1, <2>2
  <1>8. ASSUME NEW ok \in BOOLEAN, UnlockAnswer(ok)
        PROVE [Atomic!AtomicNext]_Atomic!sendVars
    <2>1. CASE ok
      BY <1>8, <2>1 DEF UnlockAnswer, Atomic!sendVars, Frozen
    <2>2. CASE ~ok
      <3>1. Atomic!End(FALSE)
        BY <1>8, <2>2 DEF UnlockAnswer, Atomic!End, Frozen
      <3>2. QED
        BY <3>1 DEF Atomic!AtomicNext
    <2>3. QED
      BY <2>1, <2>2
  <1>9. ASSUME NEW ok \in BOOLEAN, SendCoins(ok)
        PROVE [Atomic!AtomicNext]_Atomic!sendVars
    <2>1. CASE ok
      <3>1. Atomic!End(TRUE)
        BY <1>9, <2>1 DEF SendCoins, Atomic!End, Frozen
      <3>2. QED
        BY <3>1 DEF Atomic!AtomicNext
    <2>2. CASE ~ok
      BY <1>9, <2>2 DEF SendCoins, Atomic!sendVars, Frozen
    <2>3. QED
      BY <2>1, <2>2
  <1>10. CASE SendDone
    <2>1. CASE spc = "warn"
      <3>1. Atomic!End(FALSE)
        BY <1>10, <2>1 DEF SendDone, Atomic!End, Frozen
      <3>2. QED
        BY <3>1 DEF Atomic!AtomicNext
    <2>2. CASE spc = "accepted"
      BY <1>10, <2>2 DEF SendDone, Atomic!sendVars, Frozen
    <2>3. QED
      BY <1>10, <2>1, <2>2 DEF SendDone
  <1>11. CASE UNCHANGED dlgVars
    BY <1>11 DEF dlgVars, Atomic!sendVars
  <1>12. QED
    BY <1>1, <1>2, <1>3, <1>4, <1>5, <1>6, <1>7, <1>8, <1>9, <1>10, <1>11
    DEF DlgNext

\* The send-by-delegate dialog implements SendAtomic for every set of
\* recipients and every bound: the confirmation, passphrase and warning
\* boxes and the processEvents() of accept() never let a URI or anything
\* else change the entries between the click and the outcome of the send.
THEOREM SendRefines == DlgSpec => SendRefinement
  <1>1. DlgInit => DlgInv /\ Atomic!AtomicInit
    BY InitDlgInv DEF DlgInit, Atomic!AtomicInit, Frozen
  <1>2. QED
    BY <1>1, NextDlgInv, StepRefines, PTL
    DEF DlgSpec, SendRefinement, Atomic!AtomicSpec

=============================================================================
