------------------------- MODULE BlockBrowserProofs -------------------------
(***************************************************************************)
(* Proofs about BlockBrowser, for every set of blocks, every bound on the  *)
(* height and either value of FallbackKnown.                               *)
(***************************************************************************)
EXTENDS BlockBrowser, TLAPS

(***************************************************************************)
(* BrowserTypeOK is not inductive alone: that LookupIndex reads            *)
(* chainActive[Height] inside the chain, so that found is a block, needs   *)
(* the height that passed the first test of getBlockHash to be            *)
(* non-negative still, after the chain shrank under the GUI thread.        *)
(***************************************************************************)
BrowserInv ==
    /\ BrowserTypeOK
    /\ gpc \in {"click", "hours"} /\ lpc \in {"recheck", "index"}
         => AskedHeight >= 0

LEMMA GettersLen == Len(Getters) = 9
  BY DEF Getters

LEMMA InitBrowserInv == BrowserInit => BrowserInv
  BY BrowserAssumption, GettersLen
  DEF BrowserInit, BrowserInv, BrowserTypeOK, AskedHeight

LEMMA NextBrowserInv == BrowserInv /\ [BrowserNext]_browserVars => BrowserInv'
  <1> SUFFICES ASSUME BrowserInv, [BrowserNext]_browserVars PROVE BrowserInv'
    OBVIOUS
  <1> USE BrowserAssumption, GettersLen
  <1>1. ASSUME NEW b \in Blocks, ConnectTip(b) PROVE BrowserInv'
    <2>1. chain' \in Seq(Blocks) /\ chain' # <<>> /\ chain'[1] = Genesis
          /\ Len(chain') <= MaxHeight + 1
      BY <1>1 DEF ConnectTip, BrowserInv, BrowserTypeOK
    <2>2. QED
      BY <1>1, <2>1 DEF ConnectTip, BrowserInv, BrowserTypeOK, AskedHeight
  <1>2. CASE DisconnectTip
    <2>1. chain' \in Seq(Blocks) /\ chain' # <<>> /\ chain'[1] = Genesis
          /\ Len(chain') <= MaxHeight + 1
      <3>1. chain \in Seq(Blocks) /\ Len(chain) > 1 /\ chain[1] = Genesis
            /\ Len(chain) <= MaxHeight + 1
        BY <1>2 DEF DisconnectTip, BrowserInv, BrowserTypeOK
      <3>2. chain' = SubSeq(chain, 1, Len(chain) - 1)
        BY <1>2 DEF DisconnectTip
      <3>3. Len(chain') = Len(chain) - 1 /\ chain'[1] = chain[1]
        BY <3>1, <3>2
      <3>4. chain' \in Seq(Blocks)
        BY <3>1, <3>2
      <3>5. chain' # <<>>
        BY <3>1, <3>3, <3>4
      <3>6. QED
        BY <3>1, <3>3, <3>4, <3>5
    <2>2. QED
      BY <1>2, <2>1 DEF DisconnectTip, BrowserInv, BrowserTypeOK, AskedHeight
  <1>3. ASSUME NEW h \in 0..MaxHeight, BlockClicked(h) PROVE BrowserInv'
    BY <1>3 DEF BlockClicked, BrowserInv, BrowserTypeOK, AskedHeight, Tip
  <1>4. ASSUME NEW t \in Targets, HoursStart(t) PROVE BrowserInv'
    BY <1>4 DEF HoursStart, BrowserInv, BrowserTypeOK, AskedHeight, Tip
  <1>11. CASE HoursReadTip
    BY <1>11 DEF HoursReadTip, BrowserInv, BrowserTypeOK, AskedHeight, Tip
  <1>5. CASE LookupCheck
    BY <1>5 DEF LookupCheck, BrowserInv, BrowserTypeOK, AskedHeight, Tip
  <1>6. CASE LookupRecheck
    BY <1>6 DEF LookupRecheck, BrowserInv, BrowserTypeOK, AskedHeight, Tip
  <1>7. CASE LookupIndex
    <2>1. CASE AskedHeight > Tip
      BY <1>7, <2>1 DEF LookupIndex, BrowserInv, BrowserTypeOK, AskedHeight
    <2>2. CASE AskedHeight <= Tip
      <3>1. AskedHeight + 1 \in 1..Len(chain)
        BY <1>7, <2>2 DEF LookupIndex, BrowserInv, BrowserTypeOK, Tip,
                          AskedHeight
      <3>2. found' \in Blocks
        <4>1. found' = chain[AskedHeight + 1]
          BY <1>7, <2>2 DEF LookupIndex, BrowserInv, BrowserTypeOK, Tip,
                            AskedHeight
        <4>2. chain \in Seq(Blocks)
          BY DEF BrowserInv, BrowserTypeOK
        <4>3. QED
          BY <3>1, <4>1, <4>2
      <3>3. QED
        BY <1>7, <2>2, <3>2 DEF LookupIndex, BrowserInv, BrowserTypeOK, Tip,
                                AskedHeight
    <2>3. QED
      BY <2>1, <2>2 DEF BrowserInv, BrowserTypeOK, AskedHeight, Tip
  <1>8. CASE ClickUse
    <2>1. CASE found = Fallback /\ Getters[look] \in {"index", "string"}
      BY <1>8, <2>1 DEF ClickUse, BrowserInv, BrowserTypeOK, AskedHeight
    <2>2. CASE ~(found = Fallback /\ Getters[look] \in {"index", "string"})
               /\ look = Len(Getters)
      BY <1>8, <2>2 DEF ClickUse, BrowserInv, BrowserTypeOK, AskedHeight
    <2>3. CASE ~(found = Fallback /\ Getters[look] \in {"index", "string"})
               /\ look # Len(Getters)
      <3>1. look' = look + 1 /\ lpc' = "check" /\ gpc' = gpc
            /\ UNCHANGED <<chain, found, bh, top, target, counted>>
        BY <1>8, <2>3 DEF ClickUse
      <3>2. look' \in 1..Len(Getters)
        BY <2>3, <3>1 DEF BrowserInv, BrowserTypeOK
      <3>3. QED
        BY <3>1, <3>2 DEF BrowserInv, BrowserTypeOK, AskedHeight
    <2>4. QED
      BY <2>1, <2>2, <2>3
  <1>9. CASE HoursUse
    BY <1>9 DEF HoursUse, BrowserInv, BrowserTypeOK, AskedHeight
  <1>10. CASE UNCHANGED browserVars
    BY <1>10 DEF browserVars, BrowserInv, BrowserTypeOK, AskedHeight, Tip
  <1>12. QED
    BY <1>1, <1>2, <1>3, <1>4, <1>5, <1>6, <1>7, <1>8, <1>9, <1>10, <1>11
    DEF BrowserNext, GuiStep

\* The browser's state keeps its type while the node connects and
\* disconnects blocks under the GUI thread, for every chain bound: getBlockHash
\* reads chainActive[Height] only inside the chain, so every hash the getters
\* use is a block's or the fixed one, and the count blocksInPastHours returns,
\* height - heightHour, lies between -MaxHeight (blocks connected between its
\* two Tip() reads, older than the target) and the number of blocks.
THEOREM BrowserTypeCorrect == BrowserSpec => []BrowserTypeOK
  <1>1. BrowserInv => BrowserTypeOK
    BY DEF BrowserInv
  <1>2. QED
    BY InitBrowserInv, NextBrowserInv, <1>1, PTL DEF BrowserSpec

=============================================================================
