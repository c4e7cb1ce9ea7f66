------------------------------- MODULE SecMsg -------------------------------
(***************************************************************************)
(* The message store of the secure-messaging subsystem, as the RPC         *)
(* handlers of src/src/rpcsmessage.cpp drive it.                           *)
(*                                                                         *)
(* Several RPC threads call the handlers concurrently.  The handlers test  *)
(* fSecMsgEnabled and the wallet lock without holding any lock, then work  *)
(* on two shared structures:                                               *)
(*   - the message database (inbox "im" and outbox "sm" partitions),      *)
(*     guarded by cs_smsgDB and written through a transaction batch;       *)
(*   - the bucket set smsgBuckets (token sets per time window), guarded    *)
(*     by cs_smsg, and the bucket files "<time>_01.dat" behind it.         *)
(* Only cs_smsgDB is held across several steps (the inbox scan); every     *)
(* other critical section is one step of the model.                        *)
(*                                                                         *)
(* The functions the handlers call (SecureMsgEnable, SecureMsgSend,        *)
(* SecureMsgScanBuckets, ...) live in smessage.cpp, which is not in the    *)
(* repository; they are modelled from spec.md.  Messages, tokens and       *)
(* database keys are abstracted to one id each.  What the address          *)
(* directory decides (a recipient key resolves, a message is addressed to  *)
(* a listed receiving address) is an input here; AddressDirectory models   *)
(* the directory itself.                                                   *)
(***************************************************************************)
EXTENDS Naturals, FiniteSets

CONSTANTS
    Threads,        \* RPC handler threads
    Times,          \* bucket time windows
    MaxMsgs,        \* bound on the messages created in a behaviour
    MaxCrashes,     \* bound on process crashes
    RemoveCanFail,  \* whether boost::filesystem::remove may throw
    NoThread        \* owner of a free lock

Ids == 1..MaxMsgs

ASSUME ConstAssumption ==
    /\ MaxMsgs \in Nat
    /\ MaxCrashes \in Nat
    /\ RemoveCanFail \in BOOLEAN
    /\ Times # {}
    /\ NoThread \notin Threads

VARIABLES
    enabled,      \* fSecMsgEnabled
    walletLocked, \* pwalletMain->IsLocked()
    nextId,       \* next fresh message id
    inbox,        \* keys committed under prefix "im"
    unread,       \* inbox keys whose status has SMSG_MASK_UNREAD
    outbox,       \* keys committed under prefix "sm"
    index,        \* smsgBuckets: time -> setTokens (empty = no bucket)
    files,        \* bucket file contents: time -> tokens (empty = no file)
    dbLock,       \* owner of cs_smsgDB
    pc,           \* where each RPC thread is
    mode,         \* smsginbox mode of the thread
    todo,         \* keys the inbox iterator has still to visit
    batch,        \* keys the thread's uncommitted batch marks read
    got,          \* keys the scan has put into its result array
    okd,          \* ... of which SecureMsgDecrypt succeeded
    sendReq,      \* the message a thread is sending: window and id
    crashes,      \* crashes so far
    \* history, read only by the properties
    shown,        \* inbox key -> times returned by a committed unread scan
    seenText,     \* keys ever returned decrypted
    dumped        \* tokens evicted by smsgbuckets dump

dbVars == <<inbox, unread, outbox>>
bucketVars == <<index, files>>
scanVars == <<mode, todo, batch, got, okd>>
histVars == <<shown, seenText, dumped>>
vars == <<enabled, walletLocked, nextId, dbVars, bucketVars, dbLock, pc,
          scanVars, sendReq, crashes, histVars>>

InboxModes == {"all", "unread", "clear"}
PCs == {"idle", "send_store", "send_bucket", "inbox_lock", "inbox_scan"}
DefaultTime == CHOOSE t \in Times : TRUE
NoReq == [t |-> DefaultTime, id |-> 0]
SendReqs == [t : Times, id : 0..MaxMsgs]

TypeOK ==
    /\ enabled \in BOOLEAN
    /\ walletLocked \in BOOLEAN
    /\ nextId \in 1..(MaxMsgs + 1)
    /\ inbox \subseteq Ids
    /\ unread \subseteq Ids
    /\ outbox \subseteq Ids
    /\ index \in [Times -> SUBSET Ids]
    /\ files \in [Times -> SUBSET Ids]
    /\ dbLock \in Threads \cup {NoThread}
    /\ pc \in [Threads -> PCs]
    /\ mode \in [Threads -> InboxModes]
    /\ todo \in [Threads -> SUBSET Ids]
    /\ batch \in [Threads -> SUBSET Ids]
    /\ got \in [Threads -> SUBSET Ids]
    /\ okd \in [Threads -> SUBSET Ids]
    /\ sendReq \in [Threads -> SendReqs]
    /\ crashes \in 0..MaxCrashes
    /\ shown \in [Ids -> Nat]
    /\ seenText \subseteq Ids
    /\ dumped \subseteq Ids

NoBuckets == [t \in Times |-> {}]

Init ==
    /\ enabled = FALSE
    /\ walletLocked \in BOOLEAN
    /\ nextId = 1
    /\ inbox = {} /\ unread = {} /\ outbox = {}
    /\ index = NoBuckets
    /\ files = NoBuckets
    /\ dbLock = NoThread
    /\ pc = [th \in Threads |-> "idle"]
    /\ mode = [th \in Threads |-> "unread"]
    /\ todo = [th \in Threads |-> {}]
    /\ batch = [th \in Threads |-> {}]
    /\ got = [th \in Threads |-> {}]
    /\ okd = [th \in Threads |-> {}]
    /\ sendReq = [th \in Threads |-> NoReq]
    /\ crashes = 0
    /\ shown = [m \in Ids |-> 0]
    /\ seenText = {}
    /\ dumped = {}

-----------------------------------------------------------------------------
(* Helpers translated from the handlers.                                   *)

\* SecureMsgStore: the token is appended to the bucket file and to the
\* bucket's token set under one hold of cs_smsg.
StoreInBucket(id, t) ==
    /\ files' = [files EXCEPT ![t] = @ \cup {id}]
    /\ index' = [index EXCEPT ![t] = @ \cup {id}]

\* The bucket set built from the files (SecureMsgBuildBucketSet).
BuildBucketSet == files

\* m is the smallest key left to the leveldb iterator.
IsNextKey(m, S) == \A n \in S : m <= n

\* A thread's call returns: its locals go back to their initial values.
Return(th) ==
    /\ pc' = [pc EXCEPT ![th] = "idle"]
    /\ mode' = [mode EXCEPT ![th] = "unread"]
    /\ todo' = [todo EXCEPT ![th] = {}]
    /\ batch' = [batch EXCEPT ![th] = {}]
    /\ got' = [got EXCEPT ![th] = {}]
    /\ okd' = [okd EXCEPT ![th] = {}]
    /\ sendReq' = [sendReq EXCEPT ![th] = NoReq]

-----------------------------------------------------------------------------
(* smsgenable, smsgdisable                                                 *)

\* smsgenable: throws if already enabled, else SecureMsgEnable, which
\* loads the bucket set from the files.
SmsgEnable ==
    /\ ~enabled
    /\ enabled' = TRUE
    /\ index' = BuildBucketSet
    /\ UNCHANGED <<walletLocked, nextId, dbVars, files, dbLock, pc, scanVars,
                   sendReq, crashes, histVars>>

\* smsgdisable: throws if already disabled, else SecureMsgDisable.
SmsgDisable ==
    /\ enabled
    /\ enabled' = FALSE
    /\ UNCHANGED <<walletLocked, nextId, dbVars, bucketVars, dbLock, pc,
                   scanVars, sendReq, crashes, histVars>>

-----------------------------------------------------------------------------
(* smsgsend, smsgsendanon                                                  *)

\* smsgsend / smsgsendanon test fSecMsgEnabled (no lock held) and call
\* SecureMsgSend for a message of window t.
SmsgSend(th, t) ==
    /\ pc[th] = "idle"
    /\ enabled
    /\ pc' = [pc EXCEPT ![th] = "send_store"]
    /\ sendReq' = [sendReq EXCEPT ![th] = [t |-> t, id |-> 0]]
    /\ UNCHANGED <<enabled, walletLocked, nextId, dbVars, bucketVars, dbLock,
                   scanVars, crashes, histVars>>

\* Mutant: the error path has no early return and goes on to store the
\* message that was never sealed into its bucket.
SendStoreNoReturn(th, resolved) ==
    /\ pc[th] = "send_store"
    /\ dbLock = NoThread
    /\ resolved => nextId <= MaxMsgs
    /\ IF resolved
         THEN /\ outbox' = outbox \cup {nextId}
              /\ nextId' = nextId + 1
              /\ sendReq' = [sendReq EXCEPT ![th].id = nextId]
         ELSE UNCHANGED <<outbox, nextId, sendReq>>
    /\ pc' = [pc EXCEPT ![th] = "send_bucket"]
    /\ UNCHANGED <<enabled, walletLocked, inbox, unread, bucketVars, dbLock,
                   scanVars, crashes, histVars>>

\* SecureMsgSend, first critical section (cs_smsgDB): the keys are
\* resolved and the sealed message is committed to the outbox; an
\* unresolvable sender or recipient key ("resolved" false) ends the call
\* with an error.  MaxMsgs bounds the fresh keys of the model: once they
\* are used up only the error path is left.
SendStore(th, resolved) ==
    /\ pc[th] = "send_store"
    /\ dbLock = NoThread
    /\ resolved => nextId <= MaxMsgs
    /\ IF resolved
         THEN /\ outbox' = outbox \cup {nextId}
              /\ nextId' = nextId + 1
              /\ sendReq' = [sendReq EXCEPT ![th].id = nextId]
              /\ pc' = [pc EXCEPT ![th] = "send_bucket"]
              /\ UNCHANGED scanVars
         ELSE /\ Return(th)
              /\ UNCHANGED <<outbox, nextId>>
    /\ UNCHANGED <<enabled, walletLocked, inbox, unread, bucketVars, dbLock,
                   crashes, histVars>>

\* SecureMsgSend, second critical section (cs_smsg): the message enters
\* its bucket (SecureMsgStore).
SendBucket(th) ==
    /\ pc[th] = "send_bucket"
    /\ StoreInBucket(sendReq[th].id, sendReq[th].t)
    /\ Return(th)
    /\ UNCHANGED <<enabled, walletLocked, nextId, dbVars, dbLock, crashes,
                   histVars>>

-----------------------------------------------------------------------------
(* smsginbox                                                               *)

\* The tests before LOCK(cs_smsgDB): fSecMsgEnabled, then the wallet lock.
SmsgInbox(th, md) ==
    /\ pc[th] = "idle"
    /\ enabled
    /\ ~walletLocked
    /\ pc' = [pc EXCEPT ![th] = "inbox_lock"]
    /\ mode' = [mode EXCEPT ![th] = md]
    /\ UNCHANGED <<enabled, walletLocked, nextId, dbVars, bucketVars, dbLock,
                   todo, batch, got, okd, sendReq, crashes, histVars>>

\* mode "clear": TxnBegin, erase every "im" key, TxnCommit, all while
\* cs_smsgDB is held; the buckets are not touched.
InboxClear(th) ==
    /\ pc[th] = "inbox_lock"
    /\ mode[th] = "clear"
    /\ dbLock = NoThread
    /\ inbox' = {}
    /\ unread' = {}
    /\ Return(th)
    /\ UNCHANGED <<enabled, walletLocked, nextId, outbox, bucketVars, dbLock,
                   crashes, histVars>>

\* Mutant: the scan starts without LOCK(cs_smsgDB).
InboxOpenNoLock(th) ==
    /\ pc[th] = "inbox_lock"
    /\ mode[th] \in {"all", "unread"}
    /\ dbLock' = th
    /\ todo' = [todo EXCEPT ![th] = inbox]
    /\ pc' = [pc EXCEPT ![th] = "inbox_scan"]
    /\ UNCHANGED <<enabled, walletLocked, nextId, dbVars, bucketVars, mode,
                   batch, got, okd, sendReq, crashes, histVars>>

\* mode "all"/"unread": LOCK(cs_smsgDB), TxnBegin, a new iterator.
InboxOpen(th) ==
    /\ pc[th] = "inbox_lock"
    /\ mode[th] \in {"all", "unread"}
    /\ dbLock = NoThread
    /\ dbLock' = th
    /\ todo' = [todo EXCEPT ![th] = inbox]
    /\ pc' = [pc EXCEPT ![th] = "inbox_scan"]
    /\ UNCHANGED <<enabled, walletLocked, nextId, dbVars, bucketVars, mode,
                   batch, got, okd, sendReq, crashes, histVars>>

\* One turn of the NextSmesg loop: in "unread" mode a read message is
\* skipped; otherwise SecureMsgDecrypt is tried (it needs the wallet's
\* private key), the message or an error goes into the result, and in
\* "unread" mode the status with the unread bit cleared is written to the
\* batch whatever the decryption gave.
InboxNext(th) ==
    /\ pc[th] = "inbox_scan"
    /\ todo[th] # {}
    /\ \E m \in todo[th] :
       /\ IsNextKey(m, todo[th])
       /\ todo' = [todo EXCEPT ![th] = @ \ {m}]
       /\ IF mode[th] = "unread" /\ m \notin unread
            THEN UNCHANGED <<batch, got, okd>>
            ELSE /\ got' = [got EXCEPT ![th] = @ \cup {m}]
                 /\ okd' = IF walletLocked THEN okd
                           ELSE [okd EXCEPT ![th] = @ \cup {m}]
                 /\ batch' = IF mode[th] = "unread"
                               THEN [batch EXCEPT ![th] = @ \cup {m}]
                               ELSE batch
    /\ UNCHANGED <<enabled, walletLocked, nextId, dbVars, bucketVars, dbLock,
                   pc, mode, sendReq, crashes, histVars>>

\* Mutant: TxnCommit before the iterator has visited every key.
InboxCommitEarly(th) ==
    /\ pc[th] = "inbox_scan"
    /\ unread' = unread \ batch[th]
    /\ dbLock' = NoThread
    /\ shown' = IF mode[th] = "unread"
                  THEN [m \in Ids |-> IF m \in got[th] THEN shown[m] + 1
                                      ELSE shown[m]]
                  ELSE shown
    /\ seenText' = seenText \cup okd[th]
    /\ Return(th)
    /\ UNCHANGED <<enabled, walletLocked, nextId, inbox, outbox, bucketVars,
                   crashes, dumped>>

\* The loop is over: TxnCommit writes the batch, the lock is released and
\* the result returned to the caller.
InboxCommit(th) ==
    /\ pc[th] = "inbox_scan"
    /\ todo[th] = {}
    /\ unread' = unread \ batch[th]
    /\ dbLock' = NoThread
    /\ shown' = IF mode[th] = "unread"
                  THEN [m \in Ids |-> IF m \in got[th] THEN shown[m] + 1
                                      ELSE shown[m]]
                  ELSE shown
    /\ seenText' = seenText \cup okd[th]
    /\ Return(th)
    /\ UNCHANGED <<enabled, walletLocked, nextId, inbox, outbox, bucketVars,
                   crashes, dumped>>

-----------------------------------------------------------------------------
(* smsgoutbox clear, smsgbuckets dump, smsgscanbuckets                     *)

\* smsgoutbox clear: fSecMsgEnabled and wallet tests, then TxnBegin, erase
\* every "sm" key, TxnCommit under cs_smsgDB.
SmsgOutboxClear(th) ==
    /\ pc[th] = "idle"
    /\ enabled
    /\ ~walletLocked
    /\ dbLock = NoThread
    /\ outbox' = {}
    /\ UNCHANGED <<enabled, walletLocked, nextId, inbox, unread, bucketVars,
                   dbLock, pc, scanVars, sendReq, crashes, histVars>>

\* smsgoutbox all (read only, no batch): the sent messages, decrypted in
\* key order; the first one SecureMsgDecrypt fails on ("undecryptable")
\* ends the call with "Could not decrypt." and nothing is returned.
OutboxListed(undecryptable) ==
    IF outbox \cap undecryptable = {}
    THEN [thrown |-> FALSE, listed |-> outbox]
    ELSE [thrown |-> TRUE, listed |-> {}]

\* Mutant: the files are removed but smsgBuckets.clear() is left out.
SmsgBucketsDumpNoClear(th) ==
    /\ pc[th] = "idle"
    /\ enabled
    /\ \E failed \in IF RemoveCanFail THEN SUBSET Times ELSE {{}} :
         files' = [t \in Times |->
                     IF index[t] # {} /\ t \notin failed THEN {} ELSE files[t]]
    /\ UNCHANGED index
    /\ dumped' = dumped \cup UNION {index[t] : t \in Times}
    /\ UNCHANGED <<enabled, walletLocked, nextId, dbVars, dbLock, pc, scanVars,
                   sendReq, crashes, shown, seenText>>

\* smsgbuckets stats (read only): the buckets of the set, the tokens they
\* count, and the buckets reported "File not found." (tokens in the set,
\* no file on disk).  An empty bucket never reaches the file test here.
BucketStats ==
    [buckets  |-> {t \in Times : index[t] # {}},
     messages |-> UNION {index[t] : t \in Times},
     notFound |-> {t \in Times : index[t] # {} /\ files[t] = {}}]

\* smsgbuckets dump: under cs_smsg, remove the file of every bucket in the
\* set (a failing remove is caught and printed), then clear the set.  The
\* set is cleared whether or not the files went.
SmsgBucketsDump(th) ==
    /\ pc[th] = "idle"
    /\ enabled
    /\ \E failed \in IF RemoveCanFail THEN SUBSET Times ELSE {{}} :
         files' = [t \in Times |->
                     IF index[t] # {} /\ t \notin failed THEN {} ELSE files[t]]
    /\ index' = NoBuckets
    /\ dumped' = dumped \cup UNION {index[t] : t \in Times}
    /\ UNCHANGED <<enabled, walletLocked, nextId, dbVars, dbLock, pc, scanVars,
                   sendReq, crashes, shown, seenText>>

\* smsgscanbuckets: SecureMsgScanBuckets rebuilds the bucket set from the
\* files.
SmsgScanBuckets(th) ==
    /\ pc[th] = "idle"
    /\ enabled
    /\ index' = BuildBucketSet
    /\ UNCHANGED <<enabled, walletLocked, nextId, dbVars, files, dbLock, pc,
                   scanVars, sendReq, crashes, histVars>>

-----------------------------------------------------------------------------
(* The rest of the node, as the handlers see it.                           *)

\* A message from a peer (SecureMsgReceive): the token is stored in its
\* bucket (SecureMsgStore) and scanned (SecureMsgScanMessage, under
\* cs_smsgDB); if it is for one of the listed receiving addresses
\* ("forUs") it enters the inbox as unread.
PeerMessage(t, forUs) ==
    /\ enabled
    /\ nextId <= MaxMsgs
    /\ dbLock = NoThread
    /\ StoreInBucket(nextId, t)
    /\ nextId' = nextId + 1
    /\ IF forUs
         THEN /\ inbox' = inbox \cup {nextId}
              /\ unread' = unread \cup {nextId}
              /\ shown' = [shown EXCEPT ![nextId] = 0]
         ELSE UNCHANGED <<inbox, unread, shown>>
    /\ UNCHANGED <<enabled, walletLocked, outbox, dbLock, pc, scanVars,
                   sendReq, crashes, seenText, dumped>>

\* walletlock, walletpassphrase and its relock timeout.
WalletLock ==
    /\ ~walletLocked
    /\ walletLocked' = TRUE
    /\ UNCHANGED <<enabled, nextId, dbVars, bucketVars, dbLock, pc, scanVars,
                   sendReq, crashes, histVars>>

WalletUnlock ==
    /\ walletLocked
    /\ walletLocked' = FALSE
    /\ UNCHANGED <<enabled, nextId, dbVars, bucketVars, dbLock, pc, scanVars,
                   sendReq, crashes, histVars>>

\* The process dies and restarts: calls in flight and uncommitted batches
\* are lost, committed keys and files stay, the wallet starts locked and
\* start-up (messaging enabled) builds the bucket set from the files.
CrashRestart ==
    /\ crashes < MaxCrashes
    /\ crashes' = crashes + 1
    /\ enabled' = TRUE
    /\ walletLocked' = TRUE
    /\ index' = BuildBucketSet
    /\ dbLock' = NoThread
    /\ pc' = [th \in Threads |-> "idle"]
    /\ mode' = [th \in Threads |-> "unread"]
    /\ todo' = [th \in Threads |-> {}]
    /\ batch' = [th \in Threads |-> {}]
    /\ got' = [th \in Threads |-> {}]
    /\ okd' = [th \in Threads |-> {}]
    /\ sendReq' = [th \in Threads |-> NoReq]
    /\ UNCHANGED <<nextId, dbVars, files, histVars>>

-----------------------------------------------------------------------------
ThreadNext(th) ==
    \/ \E t \in Times : SmsgSend(th, t)
    \/ \E ok \in BOOLEAN : SendStore(th, ok)
    \/ SendBucket(th)
    \/ \E md \in InboxModes : SmsgInbox(th, md)
    \/ InboxClear(th)
    \/ InboxOpen(th)
    \/ InboxNext(th)
    \/ InboxCommit(th)
    \/ SmsgOutboxClear(th)
    \/ SmsgBucketsDump(th)
    \/ SmsgScanBuckets(th)

Next ==
    \/ \E th \in Threads : ThreadNext(th)
    \/ SmsgEnable
    \/ SmsgDisable
    \/ \E t \in Times, forUs \in BOOLEAN : PeerMessage(t, forUs)
    \/ WalletLock
    \/ WalletUnlock
    \/ CrashRestart

Spec == Init /\ [][Next]_vars

-----------------------------------------------------------------------------
(* Properties                                                              *)

\* smsginbox unread (spec.md section 8): a message of the inbox is marked
\* read exactly when one committed "unread" scan has returned it, and no
\* two scans return it; so neither a scan cut short by a crash nor two
\* concurrent smsginbox calls lose or repeat an unread message.
UnreadShownOnce ==
    \A m \in inbox : /\ shown[m] <= 1
                     /\ (m \notin unread <=> shown[m] = 1)

\* The bucket set is a cache of the bucket files: while messaging is
\* enabled, every token smsgbuckets stats counts is in its bucket's file,
\* across sends split in two critical sections, dumps whose file
\* removal fails, rescans and restarts.
IndexWithinFiles ==
    enabled => \A t \in Times : index[t] \subseteq files[t]

\* spec.md 4.4 and 8: each smsginbox call acts on the inbox as one atomic
\* step, as if cs_smsgDB and the transaction made the scan indivisible: an
\* unread scan returns every unread message once and marks all of them
\* read, a clear erases all, a received message takes a fresh key, and the
\* steps of a scan in progress, the all mode and a crash leave the inbox as
\* it was.
Atomic == INSTANCE InboxAtomic
InboxRefinement == Atomic!AtomicSpec

\* spec.md 4.4: send and receive do nothing while messaging is disabled:
\* no message enters the outbox in a step taken while fSecMsgEnabled is
\* false.
StoreOnlyWhenEnabled ==
    [][(outbox' \ outbox # {}) => enabled]_vars

\* spec.md 4.3: smsgbuckets dump deletes a bucket's file and evicts it
\* together, so no dumped token comes back into the bucket set.
DumpIsFinal ==
    \A t \in Times : index[t] \cap dumped = {}

\* spec.md 4.4: smsginbox unread clears the unread bit of the messages it
\* processed successfully, so a message is only marked read once its text
\* has been returned.
ReadImpliesDecrypted ==
    inbox \ unread \subseteq seenText

=============================================================================
