---------------------------- MODULE SecMsgProofs ----------------------------
(***************************************************************************)
(* Proofs about SecMsg, for every value of its constants.                  *)
(***************************************************************************)
EXTENDS SecMsg, TLAPS

(***************************************************************************)
(* TypeOK is not inductive on its own: SendBucket stores sendReq[th].id,   *)
(* which is only a real message id once SendStore has set it.              *)
(***************************************************************************)
SendIdOK == \A th \in Threads : pc[th] = "send_bucket" => sendReq[th].id \in Ids

TypeInv == TypeOK /\ SendIdOK

LEMMA InitTypeInv == Init => TypeInv
  <1> SUFFICES ASSUME Init PROVE TypeInv
    OBVIOUS
  <1>1. NoReq \in SendReqs
    BY ConstAssumption DEF NoReq, SendReqs, DefaultTime
  <1>2. TypeOK
    <2>1. /\ enabled \in BOOLEAN /\ walletLocked \in BOOLEAN
          /\ inbox \subseteq Ids /\ unread \subseteq Ids /\ outbox \subseteq Ids
          /\ seenText \subseteq Ids /\ dumped \subseteq Ids
      BY DEF Init
    <2>5. nextId \in 1..(MaxMsgs + 1) /\ crashes \in 0..MaxCrashes
      BY ConstAssumption DEF Init
    <2>2. /\ index \in [Times -> SUBSET Ids] /\ files \in [Times -> SUBSET Ids]
          /\ dbLock \in Threads \cup {NoThread}
          /\ shown \in [Ids -> Nat]
      BY DEF Init, NoBuckets
    <2>3. /\ pc \in [Threads -> PCs] /\ mode \in [Threads -> InboxModes]
          /\ todo \in [Threads -> SUBSET Ids] /\ batch \in [Threads -> SUBSET Ids]
          /\ got \in [Threads -> SUBSET Ids] /\ okd \in [Threads -> SUBSET Ids]
          /\ sendReq \in [Threads -> SendReqs]
      BY <1>1 DEF Init, PCs, InboxModes
    <2>4. QED
      BY <2>1, <2>2, <2>3, <2>5 DEF TypeOK
  <1>3. QED
    BY <1>2 DEF Init, TypeInv, SendIdOK

\* Setting the id of a thread's send request keeps the requests well typed.
LEMMA SendReqSetId ==
  ASSUME NEW th \in Threads, NEW id \in Ids,
         NEW f \in [Threads -> SendReqs]
  PROVE  /\ [f EXCEPT ![th].id = id] \in [Threads -> SendReqs]
         /\ [f EXCEPT ![th].id = id][th].id = id
  BY ConstAssumption DEF SendReqs, Ids

LEMMA NextTypeInv == TypeInv /\ [Next]_vars => TypeInv'
  <1> SUFFICES ASSUME TypeInv, [Next]_vars PROVE TypeInv'
    OBVIOUS
  <1> USE ConstAssumption DEF TypeInv, TypeOK, SendIdOK, dbVars, bucketVars,
                              scanVars, histVars
  <1>0. NoReq \in SendReqs
    BY DEF NoReq, SendReqs, DefaultTime
  <1>a. sendReq \in [Threads -> SendReqs] /\ shown \in [Ids -> Nat]
    OBVIOUS
  <1>1. ASSUME NEW th \in Threads, NEW t \in Times, SmsgSend(th, t) PROVE TypeInv'
    BY <1>1 DEF SmsgSend, SendReqs, PCs
  <1>2. ASSUME NEW th \in Threads, NEW ok \in BOOLEAN, SendStore(th, ok) PROVE TypeInv'
    <2>1. CASE ok /\ nextId <= MaxMsgs
      <3>1. nextId \in Ids
        BY <2>1 DEF Ids
      <3>2. outbox' \subseteq Ids /\ nextId' \in 1..(MaxMsgs + 1)
        BY <1>2, <2>1, <3>1 DEF SendStore, Ids
      <3>3. sendReq' \in [Threads -> SendReqs]
            /\ sendReq'[th].id \in Ids
        <4>1. sendReq' = [sendReq EXCEPT ![th].id = nextId]
          BY <1>2, <2>1 DEF SendStore
        <4>2. QED
          BY <1>a, <3>1, <4>1, SendReqSetId
      <3>4. pc' = [pc EXCEPT ![th] = "send_bucket"]
        BY <1>2, <2>1 DEF SendStore
      <3>5. SendIdOK'
        <4>1. \A th2 \in Threads : pc[th2] = "send_bucket" => sendReq[th2].id \in Ids
          BY DEF TypeInv, SendIdOK
        <4>2. \A th2 \in Threads \ {th} : sendReq'[th2] = sendReq[th2]
          BY <1>2, <2>1 DEF SendStore
        <4>3. QED
          BY <3>3, <3>4, <4>1, <4>2 DEF SendIdOK
      <3>6. UNCHANGED <<enabled, walletLocked, inbox, unread, index, files,
                        dbLock, mode, todo, batch, got, okd, crashes, shown,
                        seenText, dumped>>
        BY <1>2, <2>1 DEF SendStore
      <3>7. QED
        BY <3>2, <3>3, <3>4, <3>5, <3>6 DEF PCs
    <2>2. CASE ~(ok /\ nextId <= MaxMsgs)
      BY <1>0, <1>2, <2>2 DEF SendStore, Return, PCs, InboxModes
    <2>3. QED
      BY <2>1, <2>2
  <1>3. ASSUME NEW th \in Threads, SendBucket(th) PROVE TypeInv'
    BY <1>0, <1>3 DEF SendBucket, StoreInBucket, Return, SendReqs, PCs, InboxModes
  <1>4. ASSUME NEW th \in Threads, NEW md \in InboxModes, SmsgInbox(th, md) PROVE TypeInv'
    BY <1>4 DEF SmsgInbox, PCs
  <1>5. ASSUME NEW th \in Threads, InboxClear(th) PROVE TypeInv'
    BY <1>0, <1>5 DEF InboxClear, Return, PCs, InboxModes
  <1>6. ASSUME NEW th \in Threads, InboxOpen(th) PROVE TypeInv'
    BY <1>6 DEF InboxOpen, PCs
  <1>7. ASSUME NEW th \in Threads, InboxNext(th) PROVE TypeInv'
    BY <1>7 DEF InboxNext
  <1>8. ASSUME NEW th \in Threads, InboxCommit(th) PROVE TypeInv'
    <2>1. shown' \in [Ids -> Nat]
      BY <1>8 DEF InboxCommit
    <2>2. QED
      BY <1>0, <1>8, <2>1 DEF InboxCommit, Return, PCs, InboxModes
  <1>9. ASSUME NEW th \in Threads, SmsgOutboxClear(th) PROVE TypeInv'
    BY <1>9 DEF SmsgOutboxClear
  <1>10. ASSUME NEW th \in Threads, SmsgBucketsDump(th) PROVE TypeInv'
    BY <1>10 DEF SmsgBucketsDump, NoBuckets
  <1>11. ASSUME NEW th \in Threads, SmsgScanBuckets(th) PROVE TypeInv'
    BY <1>11 DEF SmsgScanBuckets, BuildBucketSet
  <1>12. CASE SmsgEnable
    BY <1>12 DEF SmsgEnable, BuildBucketSet
  <1>13. CASE SmsgDisable
    BY <1>13 DEF SmsgDisable
  <1>14. ASSUME NEW t \in Times, NEW forUs \in BOOLEAN, PeerMessage(t, forUs) PROVE TypeInv'
    <2>1. nextId \in Ids
      BY <1>14 DEF PeerMessage, Ids
    <2>2. CASE forUs
      <3>1. inbox' \subseteq Ids /\ unread' \subseteq Ids
            /\ shown' \in [Ids -> Nat]
        <4>1. inbox' = inbox \cup {nextId} /\ unread' = unread \cup {nextId}
              /\ shown' = [shown EXCEPT ![nextId] = 0]
          BY <1>14, <2>2 DEF PeerMessage
        <4>2. QED
          BY <1>a, <2>1, <4>1
      <3>2. index' \in [Times -> SUBSET Ids] /\ files' \in [Times -> SUBSET Ids]
        BY <1>14, <2>1 DEF PeerMessage, StoreInBucket
      <3>3. nextId' \in 1..(MaxMsgs + 1)
        BY <1>14, <2>1 DEF PeerMessage, Ids
      <3>4. UNCHANGED <<enabled, walletLocked, outbox, dbLock, pc, mode, todo,
                        batch, got, okd, sendReq, crashes, seenText, dumped>>
        BY <1>14 DEF PeerMessage
      <3>5. QED
        BY <3>1, <3>2, <3>3, <3>4
    <2>3. CASE ~forUs
      <3>1. UNCHANGED <<inbox, unread, shown>>
        BY <1>14, <2>3 DEF PeerMessage
      <3>2. index' \in [Times -> SUBSET Ids] /\ files' \in [Times -> SUBSET Ids]
        BY <1>14, <2>1 DEF PeerMessage, StoreInBucket
      <3>3. nextId' \in 1..(MaxMsgs + 1)
        BY <1>14, <2>1 DEF PeerMessage, Ids
      <3>4. UNCHANGED <<enabled, walletLocked, outbox, dbLock, pc, mode, todo,
                        batch, got, okd, sendReq, crashes, seenText, dumped>>
        BY <1>14 DEF PeerMessage
      <3>5. QED
        BY <3>1, <3>2, <3>3, <3>4
    <2>4. QED
      BY <2>2, <2>3
  <1>15. CASE WalletLock
    BY <1>15 DEF WalletLock
  <1>16. CASE WalletUnlock
    BY <1>16 DEF WalletUnlock
  <1>17. CASE CrashRestart
    BY <1>0, <1>17 DEF CrashRestart, BuildBucketSet, PCs, InboxModes
  <1>18. CASE UNCHANGED vars
    BY <1>18 DEF vars, dbVars, bucketVars, scanVars, histVars
  <1>19. QED
    BY <1>1, <1>2, <1>3, <1>4, <1>5, <1>6, <1>7, <1>8, <1>9, <1>10, <1>11,
       <1>12, <1>13, <1>14, <1>15, <1>16, <1>17, <1>18 DEF Next, ThreadNext

\* Every state of SecMsg is well typed: the inbox, outbox, bucket set and
\* bucket files only ever hold message ids, and each handler's locals keep
\* their types, for every number of threads, windows and messages.
THEOREM TypeCorrect == Spec => []TypeOK
  <1>1. TypeInv => TypeOK
    BY DEF TypeInv
  <1>2. QED
    BY InitTypeInv, NextTypeInv, <1>1, PTL DEF Spec

-----------------------------------------------------------------------------
(***************************************************************************)
(* UnreadShownOnce.  A scan in progress has already returned got[th] but  *)
(* not yet cleared their unread bits; the invariant holds again only at   *)
(* its commit.  What makes the commit right: the scanning thread owns     *)
(* cs_smsgDB (so no other scan, clear or peer message runs meanwhile), in *)
(* unread mode its batch is exactly what it returned and all of that is   *)
(* still unread, and in the other modes its batch is empty.               *)
(***************************************************************************)
ScanInv(th) ==
    IF pc[th] = "inbox_scan"
      THEN /\ dbLock = th
           /\ mode[th] = "unread" => /\ batch[th] = got[th]
                                    /\ got[th] \subseteq unread
           /\ mode[th] # "unread" => batch[th] = {}
      ELSE batch[th] = {} /\ got[th] = {}

UnreadInv == TypeInv /\ UnreadShownOnce /\ \A th \in Threads : ScanInv(th)

LEMMA InitUnreadInv == Init => UnreadInv
  <1> SUFFICES ASSUME Init PROVE UnreadInv
    OBVIOUS
  <1>1. TypeInv
    BY InitTypeInv
  <1>2. UnreadShownOnce
    BY DEF Init, UnreadShownOnce
  <1>3. \A th \in Threads : ScanInv(th)
    BY DEF Init, ScanInv
  <1>4. QED
    BY <1>1, <1>2, <1>3 DEF UnreadInv

\* With cs_smsgDB free, no thread is in the middle of an inbox scan.
LEMMA FreeLockNoScan ==
  ASSUME \A th \in Threads : ScanInv(th), dbLock = NoThread
  PROVE  \A th \in Threads : pc[th] # "inbox_scan"
  BY ConstAssumption DEF ScanInv

\* An unread inbox message has not been shown.
LEMMA UnreadNotShown ==
  ASSUME UnreadShownOnce, shown \in [Ids -> Nat], inbox \subseteq Ids,
         NEW m \in inbox \cap unread
  PROVE  shown[m] = 0
  BY DEF UnreadShownOnce

LEMMA NextUnreadInv == UnreadInv /\ [Next]_vars => UnreadInv'
  <1> SUFFICES ASSUME UnreadInv, [Next]_vars
               PROVE  UnreadShownOnce' /\ \A th \in Threads : ScanInv(th)'
    BY NextTypeInv DEF UnreadInv
  <1>t. TypeOK /\ UnreadShownOnce /\ \A th \in Threads : ScanInv(th)
    BY DEF UnreadInv, TypeInv
  <1> DEFINE
    Goal == UnreadShownOnce' /\ \A th \in Threads : ScanInv(th)'
    Others(th) == \A u \in Threads \ {th} :
                    /\ pc'[u] = pc[u] /\ mode'[u] = mode[u]
                    /\ batch'[u] = batch[u] /\ got'[u] = got[u]
    \* A step of one thread that is not scanning and does not start a scan.
    Local(th) == /\ UNCHANGED <<inbox, unread, shown, dbLock>>
                 /\ pc[th] # "inbox_scan" /\ pc'[th] # "inbox_scan"
                 /\ batch'[th] = {} /\ got'[th] = {}
                 /\ Others(th)
    \* A step that changes no thread's scan and not the inbox.
    Quiet == /\ UNCHANGED <<inbox, unread, shown, dbLock, pc, mode, batch,
                            got>>
  <1>l. ASSUME NEW th \in Threads, Local(th) PROVE Goal
    <2>1. UnreadShownOnce'
      BY <1>t, <1>l DEF UnreadShownOnce
    <2>2. ScanInv(th)'
      BY <1>l DEF ScanInv
    <2>3. ASSUME NEW u \in Threads \ {th} PROVE ScanInv(u)'
      BY <1>t, <1>l DEF ScanInv
    <2>4. QED
      BY <2>1, <2>2, <2>3
  <1>q. ASSUME Quiet PROVE Goal
    BY <1>t, <1>q DEF UnreadShownOnce, ScanInv
  <1>1. ASSUME NEW th \in Threads, NEW t \in Times, SmsgSend(th, t)
        PROVE Goal
    <2>1. Local(th)
      BY <1>t, <1>1 DEF SmsgSend, TypeOK, ScanInv, dbVars, scanVars,
                        histVars
    <2>2. QED
      BY <1>l, <2>1
  <1>2. ASSUME NEW th \in Threads, NEW ok \in BOOLEAN, SendStore(th, ok)
        PROVE Goal
    <2>1. Local(th)
      BY <1>t, <1>2 DEF SendStore, Return, TypeOK, ScanInv, scanVars,
                        histVars
    <2>2. QED
      BY <1>l, <2>1
  <1>3. ASSUME NEW th \in Threads, SendBucket(th) PROVE Goal
    <2>1. Local(th)
      BY <1>t, <1>3 DEF SendBucket, Return, TypeOK, dbVars, histVars
    <2>2. QED
      BY <1>l, <2>1
  <1>4. ASSUME NEW th \in Threads, NEW md \in InboxModes, SmsgInbox(th, md)
        PROVE Goal
    <2>1. Local(th)
      BY <1>t, <1>4 DEF SmsgInbox, TypeOK, ScanInv, dbVars, histVars
    <2>2. QED
      BY <1>l, <2>1
  <1>5. ASSUME NEW th \in Threads, InboxClear(th) PROVE Goal
    <2>1. \A u \in Threads : pc[u] # "inbox_scan"
      BY <1>t, <1>5, FreeLockNoScan DEF InboxClear
    <2>2. \A u \in Threads : pc'[u] # "inbox_scan"
      BY <1>t, <1>5, <2>1 DEF InboxClear, Return, TypeOK
    <2>3. \A u \in Threads : batch'[u] = {} /\ got'[u] = {}
      BY <1>t, <1>5, <2>1 DEF InboxClear, Return, TypeOK, ScanInv
    <2>4. inbox' = {}
      BY <1>5 DEF InboxClear
    <2>5. QED
      BY <2>2, <2>3, <2>4 DEF UnreadShownOnce, ScanInv
  <1>6. ASSUME NEW th \in Threads, InboxOpen(th) PROVE Goal
    <2>1. \A u \in Threads : pc[u] # "inbox_scan"
      BY <1>t, <1>6, FreeLockNoScan DEF InboxOpen
    <2>2. UNCHANGED <<inbox, unread, shown, mode, batch, got>>
      BY <1>6 DEF InboxOpen, dbVars, histVars
    <2>3. ScanInv(th)'
      BY <1>t, <1>6, <2>1, <2>2 DEF InboxOpen, ScanInv, TypeOK
    <2>4. ASSUME NEW u \in Threads \ {th} PROVE ScanInv(u)'
      BY <1>t, <1>6, <2>1, <2>2 DEF InboxOpen, ScanInv, TypeOK
    <2>5. QED
      BY <1>t, <2>2, <2>3, <2>4 DEF UnreadShownOnce
  <1>7. ASSUME NEW th \in Threads, InboxNext(th) PROVE Goal
    <2>1. PICK m \in todo[th] :
            /\ todo' = [todo EXCEPT ![th] = @ \ {m}]
            /\ IF mode[th] = "unread" /\ m \notin unread
                 THEN UNCHANGED <<batch, got, okd>>
                 ELSE /\ got' = [got EXCEPT ![th] = @ \cup {m}]
                      /\ okd' = IF walletLocked THEN okd
                                ELSE [okd EXCEPT ![th] = @ \cup {m}]
                      /\ batch' = IF mode[th] = "unread"
                                    THEN [batch EXCEPT ![th] = @ \cup {m}]
                                    ELSE batch
      BY <1>7 DEF InboxNext
    <2>2. UNCHANGED <<inbox, unread, shown, dbLock, pc, mode>>
      BY <1>7 DEF InboxNext, dbVars, histVars
    <2>3. pc[th] = "inbox_scan"
      BY <1>7 DEF InboxNext
    <2>4. ScanInv(th)'
      <3>1. CASE mode[th] = "unread" /\ m \notin unread
        BY <1>t, <2>1, <2>2, <2>3, <3>1 DEF ScanInv
      <3>2. CASE mode[th] = "unread" /\ m \in unread
        <4>1. got'[th] = got[th] \cup {m} /\ batch'[th] = batch[th] \cup {m}
          BY <1>t, <2>1, <3>2 DEF TypeOK
        <4>2. QED
          BY <1>t, <2>2, <2>3, <3>2, <4>1 DEF ScanInv
      <3>3. CASE mode[th] # "unread"
        <4>1. batch' = batch
          BY <2>1, <3>3
        <4>2. QED
          BY <1>t, <2>2, <2>3, <3>3, <4>1 DEF ScanInv
      <3>4. QED
        BY <3>1, <3>2, <3>3
    <2>5. ASSUME NEW u \in Threads \ {th} PROVE ScanInv(u)'
      <3>1. batch'[u] = batch[u] /\ got'[u] = got[u]
        BY <1>t, <2>1 DEF TypeOK
      <3>2. QED
        BY <1>t, <2>2, <3>1 DEF ScanInv
    <2>6. QED
      BY <1>t, <2>2, <2>4, <2>5 DEF UnreadShownOnce
  <1>8. ASSUME NEW th \in Threads, InboxCommit(th) PROVE Goal
    <2>1. pc[th] = "inbox_scan" /\ dbLock = th
      BY <1>t, <1>8 DEF InboxCommit, ScanInv
    <2>2. \A u \in Threads \ {th} : pc[u] # "inbox_scan"
      BY <1>t, <2>1 DEF ScanInv
    <2>3. UNCHANGED inbox
      BY <1>8 DEF InboxCommit
    <2>4. unread' = unread \ batch[th]
      BY <1>8 DEF InboxCommit
    <2>5. UnreadShownOnce'
      <3>1. CASE mode[th] = "unread"
        <4>1. batch[th] = got[th] /\ got[th] \subseteq unread
          BY <1>t, <2>1, <3>1 DEF ScanInv
        <4>2. shown' = [m \in Ids |-> IF m \in got[th] THEN shown[m] + 1
                                      ELSE shown[m]]
          BY <1>8, <3>1 DEF InboxCommit
        <4>3. ASSUME NEW m \in inbox'
              PROVE shown'[m] <= 1 /\ (m \notin unread' <=> shown'[m] = 1)
          <5>1. m \in Ids /\ m \in inbox
            BY <1>t, <2>3 DEF TypeOK
          <5>2. CASE m \in got[th]
            <6>1. shown[m] = 0
              BY <1>t, <4>1, <5>1, <5>2, UnreadNotShown DEF TypeOK
            <6>2. QED
              BY <2>4, <4>1, <4>2, <5>1, <5>2, <6>1
          <5>3. CASE m \notin got[th]
            <6>1. shown'[m] = shown[m] /\ (m \in unread' <=> m \in unread)
              BY <2>4, <4>1, <4>2, <5>1, <5>3
            <6>2. QED
              BY <1>t, <5>1, <6>1 DEF UnreadShownOnce
          <5>4. QED
            BY <5>2, <5>3
        <4>4. QED
          BY <4>3 DEF UnreadShownOnce
      <3>2. CASE mode[th] # "unread"
        <4>1. batch[th] = {}
          BY <1>t, <2>1, <3>2 DEF ScanInv
        <4>2. shown' = shown /\ unread' = unread
          BY <1>8, <2>4, <3>2, <4>1 DEF InboxCommit
        <4>3. QED
          BY <1>t, <2>3, <4>2 DEF UnreadShownOnce
      <3>3. QED
        BY <3>1, <3>2
    <2>6. pc'[th] = "idle" /\ batch'[th] = {} /\ got'[th] = {}
      BY <1>t, <1>8 DEF InboxCommit, Return, TypeOK
    <2>7. ASSUME NEW u \in Threads \ {th}
          PROVE pc'[u] = pc[u] /\ batch'[u] = batch[u] /\ got'[u] = got[u]
      BY <1>t, <1>8 DEF InboxCommit, Return, TypeOK
    <2>8. \A u \in Threads : ScanInv(u)'
      BY <1>t, <2>2, <2>6, <2>7 DEF ScanInv
    <2>9. QED
      BY <2>5, <2>8
  <1>9. ASSUME NEW th \in Threads, SmsgOutboxClear(th) PROVE Goal
    BY <1>q, <1>9 DEF SmsgOutboxClear, scanVars, histVars
  <1>10. ASSUME NEW th \in Threads, SmsgBucketsDump(th) PROVE Goal
    BY <1>q, <1>10 DEF SmsgBucketsDump, dbVars, scanVars
  <1>11. ASSUME NEW th \in Threads, SmsgScanBuckets(th) PROVE Goal
    BY <1>q, <1>11 DEF SmsgScanBuckets, dbVars, scanVars, histVars
  <1>12. CASE SmsgEnable
    BY <1>q, <1>12 DEF SmsgEnable, dbVars, scanVars, histVars
  <1>13. CASE SmsgDisable
    BY <1>q, <1>13 DEF SmsgDisable, dbVars, scanVars, histVars
  <1>14. ASSUME NEW t \in Times, NEW forUs \in BOOLEAN, PeerMessage(t, forUs)
         PROVE Goal
    <2>1. \A u \in Threads : pc[u] # "inbox_scan"
      BY <1>t, <1>14, FreeLockNoScan DEF PeerMessage
    <2>2. UNCHANGED <<dbLock, pc, batch, got>>
      BY <1>14 DEF PeerMessage, scanVars
    <2>3. \A u \in Threads : ScanInv(u)'
      BY <1>t, <2>1, <2>2 DEF ScanInv
    <2>4. UnreadShownOnce'
      <3>1. CASE forUs
        <4>1. nextId \in Ids
          BY <1>t, <1>14 DEF PeerMessage, TypeOK, Ids
        <4>2. /\ inbox' = inbox \cup {nextId}
              /\ unread' = unread \cup {nextId}
              /\ shown' = [shown EXCEPT ![nextId] = 0]
          BY <1>14, <3>1 DEF PeerMessage
        <4>3. QED
          BY <1>t, <4>1, <4>2 DEF UnreadShownOnce, TypeOK
      <3>2. CASE ~forUs
        BY <1>t, <1>14, <3>2 DEF PeerMessage, UnreadShownOnce
      <3>3. QED
        BY <3>1, <3>2
    <2>5. QED
      BY <2>3, <2>4
  <1>15. CASE WalletLock
    BY <1>q, <1>15 DEF WalletLock, dbVars, scanVars, histVars
  <1>16. CASE WalletUnlock
    BY <1>q, <1>16 DEF WalletUnlock, dbVars, scanVars, histVars
  <1>17. CASE CrashRestart
    <2>1. UNCHANGED <<inbox, unread, shown>>
      BY <1>17 DEF CrashRestart, dbVars, histVars
    <2>2. \A u \in Threads : pc'[u] = "idle" /\ batch'[u] = {} /\ got'[u] = {}
      BY <1>17 DEF CrashRestart
    <2>3. QED
      BY <1>t, <2>1, <2>2 DEF UnreadShownOnce, ScanInv
  <1>18. CASE UNCHANGED vars
    BY <1>q, <1>18 DEF vars, dbVars, scanVars, histVars
  <1>19. QED
    BY <1>1, <1>2, <1>3, <1>4, <1>5, <1>6, <1>7, <1>8, <1>9, <1>10, <1>11,
       <1>12, <1>13, <1>14, <1>15, <1>16, <1>17, <1>18 DEF Next, ThreadNext

\* smsginbox unread never loses or repeats an unread message: in every
\* state, an inbox message has been returned by at most one committed
\* unread scan, and it is marked read exactly when one has returned it,
\* however scans, clears, peer messages and crashes interleave.
THEOREM UnreadShownOnceHolds == Spec => []UnreadShownOnce
  <1>1. UnreadInv => UnreadShownOnce
    BY DEF UnreadInv
  <1>2. QED
    BY InitUnreadInv, NextUnreadInv, <1>1, PTL DEF Spec


-----------------------------------------------------------------------------
(***************************************************************************)
(* IndexWithinFiles is inductive together with TypeInv: every step that   *)
(* grows a token set grows the file with it (SecureMsgStore), and every   *)
(* step that may leave the set ahead of the files (a dump whose remove    *)
(* fails keeps the file, never the set) either empties the set or         *)
(* rebuilds it from the files.                                            *)
(***************************************************************************)
IndexInv == TypeInv /\ IndexWithinFiles

\* Storing a token in its bucket keeps the bucket set within the files.
LEMMA StoreKeepsIndex ==
  ASSUME NEW id, NEW t \in Times,
         index \in [Times -> SUBSET Ids], files \in [Times -> SUBSET Ids],
         \A u \in Times : index[u] \subseteq files[u],
         StoreInBucket(id, t)
  PROVE  \A u \in Times : index'[u] \subseteq files'[u]
  BY DEF StoreInBucket

LEMMA NextIndexInv == IndexInv /\ [Next]_vars => IndexInv'
  <1> SUFFICES ASSUME IndexInv, [Next]_vars PROVE IndexWithinFiles'
    BY NextTypeInv DEF IndexInv
  <1>t. /\ index \in [Times -> SUBSET Ids] /\ files \in [Times -> SUBSET Ids]
        /\ IndexWithinFiles
    BY DEF IndexInv, TypeInv, TypeOK
  <1> DEFINE Keeps == UNCHANGED <<enabled, index, files>>
  <1>k. ASSUME Keeps PROVE IndexWithinFiles'
    BY <1>t, <1>k DEF IndexWithinFiles
  <1>1. ASSUME NEW th \in Threads, NEW t \in Times, SmsgSend(th, t)
        PROVE IndexWithinFiles'
    BY <1>k, <1>1 DEF SmsgSend, bucketVars
  <1>2. ASSUME NEW th \in Threads, NEW ok \in BOOLEAN, SendStore(th, ok)
        PROVE IndexWithinFiles'
    BY <1>k, <1>2 DEF SendStore, bucketVars
  <1>3. ASSUME NEW th \in Threads, SendBucket(th) PROVE IndexWithinFiles'
    <2>1. enabled' = enabled
      BY <1>3 DEF SendBucket
    <2>2. sendReq[th].t \in Times
      BY DEF IndexInv, TypeInv, TypeOK, SendReqs
    <2>3. StoreInBucket(sendReq[th].id, sendReq[th].t)
      BY <1>3 DEF SendBucket
    <2>4. enabled => \A u \in Times : index'[u] \subseteq files'[u]
      BY <1>t, <2>2, <2>3, StoreKeepsIndex DEF IndexWithinFiles
    <2>5. QED
      BY <2>1, <2>4 DEF IndexWithinFiles
  <1>4. ASSUME NEW th \in Threads, NEW md \in InboxModes, SmsgInbox(th, md)
        PROVE IndexWithinFiles'
    BY <1>k, <1>4 DEF SmsgInbox, bucketVars
  <1>5. ASSUME NEW th \in Threads, InboxClear(th) PROVE IndexWithinFiles'
    BY <1>k, <1>5 DEF InboxClear, bucketVars
  <1>6. ASSUME NEW th \in Threads, InboxOpen(th) PROVE IndexWithinFiles'
    BY <1>k, <1>6 DEF InboxOpen, bucketVars
  <1>7. ASSUME NEW th \in Threads, InboxNext(th) PROVE IndexWithinFiles'
    BY <1>k, <1>7 DEF InboxNext, bucketVars
  <1>8. ASSUME NEW th \in Threads, InboxCommit(th) PROVE IndexWithinFiles'
    BY <1>k, <1>8 DEF InboxCommit, bucketVars
  <1>9. ASSUME NEW th \in Threads, SmsgOutboxClear(th)
        PROVE IndexWithinFiles'
    BY <1>k, <1>9 DEF SmsgOutboxClear, bucketVars
  <1>10. ASSUME NEW th \in Threads, SmsgBucketsDump(th)
         PROVE IndexWithinFiles'
    <2>1. index' = NoBuckets
      BY <1>10 DEF SmsgBucketsDump
    <2>2. QED
      BY <2>1 DEF IndexWithinFiles, NoBuckets
  <1>11. ASSUME NEW th \in Threads, SmsgScanBuckets(th)
         PROVE IndexWithinFiles'
    BY <1>11 DEF SmsgScanBuckets, BuildBucketSet, IndexWithinFiles
  <1>12. CASE SmsgEnable
    BY <1>12 DEF SmsgEnable, BuildBucketSet, IndexWithinFiles
  <1>13. CASE SmsgDisable
    BY <1>13 DEF SmsgDisable, IndexWithinFiles
  <1>14. ASSUME NEW t \in Times, NEW forUs \in BOOLEAN, PeerMessage(t, forUs)
         PROVE IndexWithinFiles'
    <2>1. enabled' = enabled
      BY <1>14 DEF PeerMessage
    <2>2. StoreInBucket(nextId, t)
      BY <1>14 DEF PeerMessage
    <2>4. enabled => \A u \in Times : index'[u] \subseteq files'[u]
      BY <1>t, <2>2, StoreKeepsIndex DEF IndexWithinFiles
    <2>5. QED
      BY <2>1, <2>4 DEF IndexWithinFiles
  <1>15. CASE WalletLock
    BY <1>k, <1>15 DEF WalletLock, bucketVars
  <1>16. CASE WalletUnlock
    BY <1>k, <1>16 DEF WalletUnlock, bucketVars
  <1>17. CASE CrashRestart
    BY <1>17 DEF CrashRestart, BuildBucketSet, IndexWithinFiles
  <1>18. CASE UNCHANGED vars
    BY <1>k, <1>18 DEF vars, bucketVars
  <1>19. QED
    BY <1>1, <1>2, <1>3, <1>4, <1>5, <1>6, <1>7, <1>8, <1>9, <1>10, <1>11,
       <1>12, <1>13, <1>14, <1>15, <1>16, <1>17, <1>18 DEF Next, ThreadNext

\* The bucket set that smsgbuckets stats reports never names a token whose
\* bucket file is gone while messaging is enabled: not across the two
\* critical sections of a send, a dump whose file removal fails, a rescan
\* or a restart.
THEOREM IndexWithinFilesHolds == Spec => []IndexWithinFiles
  <1>1. Init => IndexInv
    BY InitTypeInv DEF Init, IndexInv, IndexWithinFiles
  <1>2. IndexInv => IndexWithinFiles
    BY DEF IndexInv
  <1>3. QED
    BY <1>1, <1>2, NextIndexInv, PTL DEF Spec


-----------------------------------------------------------------------------
(***************************************************************************)
(* Refinement of InboxAtomic.  Beyond UnreadInv the simulation needs:      *)
(* Fresh, a received message takes a key the inbox does not hold (ids    *)
(* are allocated in order); and ScanComplete, an unread scan has returned *)
(* or has still to visit every unread message, so that at its commit it   *)
(* has returned all of them and the commit is ScanUnread.                 *)
(***************************************************************************)
Fresh == \A m \in inbox : m < nextId

ScanComplete(th) ==
    pc[th] = "inbox_scan" /\ mode[th] = "unread"
        => unread \subseteq got[th] \cup todo[th]

RefInv == /\ UnreadInv /\ Fresh /\ unread \subseteq inbox
          /\ \A th \in Threads : ScanComplete(th)

\* Keys are allocated in order, so the inbox never holds nextId.
LEMMA FreshStep ==
  ASSUME NEW I, NEW J, NEW n \in Nat, NEW k \in Nat,
         I \subseteq Nat, \A m \in I : m < n,
         \/ J \subseteq I /\ k >= n
         \/ J = I \cup {n} /\ k = n + 1
  PROVE  \A m \in J : m < k
  <1>1. CASE J \subseteq I /\ k >= n
    BY <1>1
  <1>2. CASE J = I \cup {n} /\ k = n + 1
    BY <1>2
  <1>3. QED
    BY <1>1, <1>2

LEMMA InitRefInv == Init => RefInv
  <1> SUFFICES ASSUME Init PROVE RefInv
    OBVIOUS
  <1>1. UnreadInv
    BY InitUnreadInv
  <1>2. Fresh /\ unread \subseteq inbox /\ \A th \in Threads : ScanComplete(th)
    BY DEF Init, Fresh, ScanComplete
  <1>3. QED
    BY <1>1, <1>2 DEF RefInv

LEMMA NextRefInv == RefInv /\ [Next]_vars => RefInv'
  <1> SUFFICES ASSUME RefInv, [Next]_vars
               PROVE  /\ Fresh' /\ unread' \subseteq inbox'
                      /\ \A th \in Threads : ScanComplete(th)'
    BY NextUnreadInv DEF RefInv
  <1>t. /\ TypeOK /\ Fresh /\ unread \subseteq inbox
        /\ \A th \in Threads : ScanInv(th) /\ ScanComplete(th)
    BY DEF RefInv, UnreadInv, TypeInv
  <1>n. nextId \in Nat /\ nextId' \in Nat /\ inbox \subseteq Nat
    <2>1. TypeOK'
      BY NextTypeInv DEF RefInv, UnreadInv, TypeInv
    <2>2. QED
      BY <1>t, <2>1, ConstAssumption DEF TypeOK, Ids
  <1> DEFINE
    Goal == /\ Fresh' /\ unread' \subseteq inbox'
            /\ \A th \in Threads : ScanComplete(th)'
    \* A step of one thread that neither scans nor touches the inbox.
    Local(th) == /\ UNCHANGED <<inbox, unread, nextId>>
                 /\ pc'[th] # "inbox_scan"
                 /\ \A u \in Threads \ {th} :
                      /\ pc'[u] = pc[u] /\ mode'[u] = mode[u]
                      /\ got'[u] = got[u] /\ todo'[u] = todo[u]
    Quiet == UNCHANGED <<inbox, unread, nextId, pc, mode, got, todo>>
  <1>l. ASSUME NEW th \in Threads, Local(th) PROVE Goal
    BY <1>t, <1>l DEF Fresh, ScanComplete
  <1>q. ASSUME Quiet PROVE Goal
    BY <1>t, <1>q DEF Fresh, ScanComplete
  <1>1. ASSUME NEW th \in Threads, NEW t \in Times, SmsgSend(th, t)
        PROVE Goal
    <2>1. Local(th)
      BY <1>t, <1>1 DEF SmsgSend, TypeOK, dbVars, scanVars
    <2>2. QED
      BY <1>l, <2>1
  <1>2. ASSUME NEW th \in Threads, NEW ok \in BOOLEAN, SendStore(th, ok)
        PROVE Goal
    <2>1. /\ UNCHANGED <<inbox, unread>>
          /\ pc'[th] # "inbox_scan"
          /\ \A u \in Threads \ {th} :
               /\ pc'[u] = pc[u] /\ mode'[u] = mode[u]
               /\ got'[u] = got[u] /\ todo'[u] = todo[u]
      BY <1>t, <1>2 DEF SendStore, Return, TypeOK, scanVars
    <2>2. nextId' >= nextId
      BY <1>n, <1>2 DEF SendStore
    <2>3. Fresh'
      BY <1>t, <1>n, <2>1, <2>2, FreshStep DEF Fresh
    <2>4. QED
      BY <1>t, <2>1, <2>3 DEF ScanComplete
  <1>3. ASSUME NEW th \in Threads, SendBucket(th) PROVE Goal
    <2>1. Local(th)
      BY <1>t, <1>3 DEF SendBucket, Return, TypeOK, dbVars
    <2>2. QED
      BY <1>l, <2>1
  <1>4. ASSUME NEW th \in Threads, NEW md \in InboxModes, SmsgInbox(th, md)
        PROVE Goal
    <2>1. Local(th)
      BY <1>t, <1>4 DEF SmsgInbox, TypeOK, dbVars
    <2>2. QED
      BY <1>l, <2>1
  <1>5. ASSUME NEW th \in Threads, InboxClear(th) PROVE Goal
    <2>1. \A u \in Threads : pc[u] # "inbox_scan"
      BY <1>t, <1>5, FreeLockNoScan DEF InboxClear
    <2>2. \A u \in Threads : pc'[u] # "inbox_scan"
      BY <1>t, <1>5, <2>1 DEF InboxClear, Return, TypeOK
    <2>3. inbox' = {} /\ unread' = {}
      BY <1>5 DEF InboxClear
    <2>4. QED
      BY <2>2, <2>3 DEF Fresh, ScanComplete
  <1>6. ASSUME NEW th \in Threads, InboxOpen(th) PROVE Goal
    <2>1. UNCHANGED <<inbox, unread, nextId, mode, got>>
      BY <1>6 DEF InboxOpen, dbVars
    <2>2. todo'[th] = inbox
      BY <1>t, <1>6 DEF InboxOpen, TypeOK
    <2>3. ASSUME NEW u \in Threads \ {th}
          PROVE pc'[u] = pc[u] /\ todo'[u] = todo[u]
      BY <1>t, <1>6 DEF InboxOpen, TypeOK
    <2>4. QED
      BY <1>t, <2>1, <2>2, <2>3 DEF Fresh, ScanComplete
  <1>7. ASSUME NEW th \in Threads, InboxNext(th) PROVE Goal
    <2>1. PICK m \in todo[th] :
            /\ todo' = [todo EXCEPT ![th] = @ \ {m}]
            /\ IF mode[th] = "unread" /\ m \notin unread
                 THEN UNCHANGED <<batch, got, okd>>
                 ELSE /\ got' = [got EXCEPT ![th] = @ \cup {m}]
                      /\ okd' = IF walletLocked THEN okd
                                ELSE [okd EXCEPT ![th] = @ \cup {m}]
                      /\ batch' = IF mode[th] = "unread"
                                    THEN [batch EXCEPT ![th] = @ \cup {m}]
                                    ELSE batch
      BY <1>7 DEF InboxNext
    <2>2. UNCHANGED <<inbox, unread, nextId, pc, mode>>
      BY <1>7 DEF InboxNext, dbVars
    <2>3. todo'[th] = todo[th] \ {m}
      BY <1>t, <2>1 DEF TypeOK
    <2>4. m \in unread /\ mode[th] = "unread" => got'[th] = got[th] \cup {m}
      BY <1>t, <2>1 DEF TypeOK
    <2>5. got[th] \subseteq got'[th]
      BY <1>t, <2>1 DEF TypeOK
    <2>6. ScanComplete(th)'
      BY <1>t, <2>2, <2>3, <2>4, <2>5 DEF ScanComplete
    <2>7. ASSUME NEW u \in Threads \ {th}
          PROVE got'[u] = got[u] /\ todo'[u] = todo[u]
      BY <1>t, <2>1 DEF TypeOK
    <2>8. QED
      BY <1>t, <2>2, <2>6, <2>7 DEF Fresh, ScanComplete
  <1>8. ASSUME NEW th \in Threads, InboxCommit(th) PROVE Goal
    <2>1. pc[th] = "inbox_scan" /\ dbLock = th
      BY <1>t, <1>8 DEF InboxCommit, ScanInv
    <2>2. \A u \in Threads \ {th} : pc[u] # "inbox_scan"
      BY <1>t, <2>1 DEF ScanInv
    <2>3. UNCHANGED <<inbox, nextId>> /\ unread' \subseteq unread
      BY <1>8 DEF InboxCommit
    <2>4. pc'[th] = "idle" /\ \A u \in Threads \ {th} : pc'[u] = pc[u]
      BY <1>t, <1>8 DEF InboxCommit, Return, TypeOK
    <2>5. QED
      BY <1>t, <2>2, <2>3, <2>4 DEF Fresh, ScanComplete
  <1>9. ASSUME NEW th \in Threads, SmsgOutboxClear(th) PROVE Goal
    BY <1>q, <1>9 DEF SmsgOutboxClear, scanVars
  <1>10. ASSUME NEW th \in Threads, SmsgBucketsDump(th) PROVE Goal
    BY <1>q, <1>10 DEF SmsgBucketsDump, dbVars, scanVars
  <1>11. ASSUME NEW th \in Threads, SmsgScanBuckets(th) PROVE Goal
    BY <1>q, <1>11 DEF SmsgScanBuckets, dbVars, scanVars
  <1>12. CASE SmsgEnable
    BY <1>q, <1>12 DEF SmsgEnable, dbVars, scanVars
  <1>13. CASE SmsgDisable
    BY <1>q, <1>13 DEF SmsgDisable, dbVars, scanVars
  <1>14. ASSUME NEW t \in Times, NEW forUs \in BOOLEAN, PeerMessage(t, forUs)
         PROVE Goal
    <2>1. \A u \in Threads : pc[u] # "inbox_scan"
      BY <1>t, <1>14, FreeLockNoScan DEF PeerMessage
    <2>2. UNCHANGED pc /\ nextId' = nextId + 1
      BY <1>14 DEF PeerMessage
    <2>3. \/ inbox' = inbox /\ unread' = unread
          \/ inbox' = inbox \cup {nextId} /\ unread' = unread \cup {nextId}
      BY <1>14 DEF PeerMessage
    <2>4. Fresh'
      <3>1. \/ inbox' \subseteq inbox /\ nextId' >= nextId
            \/ inbox' = inbox \cup {nextId} /\ nextId' = nextId + 1
        BY <1>n, <2>2, <2>3
      <3>2. QED
        BY <1>t, <1>n, <3>1, FreshStep DEF Fresh
    <2>5. QED
      BY <1>t, <2>1, <2>2, <2>3, <2>4 DEF ScanComplete
  <1>15. CASE WalletLock
    BY <1>q, <1>15 DEF WalletLock, dbVars, scanVars
  <1>16. CASE WalletUnlock
    BY <1>q, <1>16 DEF WalletUnlock, dbVars, scanVars
  <1>17. CASE CrashRestart
    <2>1. UNCHANGED <<inbox, unread, nextId>>
      BY <1>17 DEF CrashRestart, dbVars
    <2>2. \A u \in Threads : pc'[u] = "idle"
      BY <1>17 DEF CrashRestart
    <2>3. QED
      BY <1>t, <2>1, <2>2 DEF Fresh, ScanComplete
  <1>18. CASE UNCHANGED vars
    BY <1>q, <1>18 DEF vars, dbVars, scanVars
  <1>19. QED
    BY <1>1, <1>2, <1>3, <1>4, <1>5, <1>6, <1>7, <1>8, <1>9, <1>10, <1>11,
       <1>12, <1>13, <1>14, <1>15, <1>16, <1>17, <1>18 DEF Next, ThreadNext


\* A step that leaves the inbox, its unread bits and the shown counts alone
\* is a stutter of InboxAtomic.
LEMMA InboxStutter ==
  ASSUME UNCHANGED <<inbox, unread, shown>>
  PROVE  [Atomic!AtomicNext]_Atomic!ivars
  BY DEF Atomic!ivars

LEMMA StepRefines == RefInv /\ [Next]_vars => [Atomic!AtomicNext]_Atomic!ivars
  <1> SUFFICES ASSUME RefInv, [Next]_vars
               PROVE  [Atomic!AtomicNext]_Atomic!ivars
    OBVIOUS
  <1>t. /\ TypeOK /\ Fresh
        /\ \A th \in Threads : ScanInv(th) /\ ScanComplete(th)
    BY DEF RefInv, UnreadInv, TypeInv
  <1> DEFINE Same == UNCHANGED <<inbox, unread, shown>>
  <1>s. ASSUME Same PROVE [Atomic!AtomicNext]_Atomic!ivars
    BY <1>s, InboxStutter
  <1>1. ASSUME NEW th \in Threads, InboxClear(th)
        PROVE [Atomic!AtomicNext]_Atomic!ivars
    <2>1. Atomic!Clear
      BY <1>1 DEF InboxClear, Atomic!Clear, histVars
    <2>2. QED
      BY <2>1 DEF Atomic!AtomicNext
  <1>2. ASSUME NEW th \in Threads, InboxCommit(th)
        PROVE [Atomic!AtomicNext]_Atomic!ivars
    <2>1. pc[th] = "inbox_scan" /\ todo[th] = {}
      BY <1>2 DEF InboxCommit
    <2>2. CASE mode[th] = "unread"
      <3>1. got[th] = unread /\ batch[th] = got[th]
        BY <1>t, <2>1, <2>2 DEF ScanInv, ScanComplete
      <3>2. /\ unread' = {}
            /\ shown' = [m \in Ids |-> IF m \in unread THEN shown[m] + 1
                                       ELSE shown[m]]
            /\ UNCHANGED inbox
        BY <1>2, <2>2, <3>1 DEF InboxCommit
      <3>3. Atomic!ScanUnread
        BY <3>2 DEF Atomic!ScanUnread
      <3>4. QED
        BY <3>3 DEF Atomic!AtomicNext
    <2>3. CASE mode[th] # "unread"
      <3>1. batch[th] = {}
        BY <1>t, <2>1, <2>3 DEF ScanInv
      <3>2. Same
        BY <1>2, <2>3, <3>1 DEF InboxCommit
      <3>3. QED
        BY <1>s, <3>2
    <2>4. QED
      BY <2>2, <2>3
  <1>3. ASSUME NEW t \in Times, NEW forUs \in BOOLEAN, PeerMessage(t, forUs)
        PROVE [Atomic!AtomicNext]_Atomic!ivars
    <2>1. CASE forUs
      <3>1. nextId \in Ids /\ nextId \notin inbox
        BY <1>t, <1>3 DEF PeerMessage, TypeOK, Fresh, Ids
      <3>2. Atomic!Receive(nextId)
        BY <1>3, <2>1, <3>1 DEF PeerMessage, Atomic!Receive
      <3>3. QED
        BY <3>1, <3>2 DEF Atomic!AtomicNext
    <2>2. CASE ~forUs
      BY <1>s, <1>3, <2>2 DEF PeerMessage
    <2>3. QED
      BY <2>1, <2>2
  <1>4. ASSUME NEW th \in Threads, ThreadNext(th),
               ~InboxClear(th), ~InboxCommit(th)
        PROVE [Atomic!AtomicNext]_Atomic!ivars
    <2>1. Same
      BY <1>4 DEF ThreadNext, SmsgSend, SendStore, Return, SendBucket,
                  SmsgInbox, InboxOpen, InboxNext, SmsgOutboxClear,
                  SmsgBucketsDump, SmsgScanBuckets, dbVars, histVars
    <2>2. QED
      BY <1>s, <2>1
  <1>5. ASSUME SmsgEnable \/ SmsgDisable \/ WalletLock \/ WalletUnlock
               \/ CrashRestart \/ UNCHANGED vars
        PROVE [Atomic!AtomicNext]_Atomic!ivars
    <2>1. Same
      BY <1>5 DEF SmsgEnable, SmsgDisable, WalletLock, WalletUnlock,
                  CrashRestart, vars, dbVars, histVars
    <2>2. QED
      BY <1>s, <2>1
  <1>6. QED
    BY <1>1, <1>2, <1>3, <1>4, <1>5 DEF Next

\* SecMsg implements InboxAtomic: however RPC threads, peer messages,
\* wallet relocks and crashes interleave with the steps of smsginbox, the
\* inbox, its unread bits and what unread scans return change only as if
\* each smsginbox call were one atomic step (spec.md 4.4 and 8).
THEOREM Refinement == Spec => InboxRefinement
  <1>1. Init => RefInv /\ Atomic!AtomicInit
    BY InitRefInv DEF Init, Atomic!AtomicInit
  <1>2. QED
    BY <1>1, NextRefInv, StepRefines, PTL
       DEF Spec, InboxRefinement, Atomic!AtomicSpec

=============================================================================
