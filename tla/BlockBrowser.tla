---------------------------- MODULE BlockBrowser ----------------------------
(***************************************************************************)
(* The block view of the block browser (src/src/qt/blockbrowser.cpp) and   *)
(* blocksInPastHours, against the node thread that connects and            *)
(* disconnects blocks of chainActive.                                      *)
(*                                                                         *)
(* The GUI thread reads chainActive without cs_main.  Every getter goes    *)
(* through getBlockHash(Height), which reads the chain three times:        *)
(*   check:   Height > Tip()->nHeight gives a fixed hash (Fallback);       *)
(*   recheck: Height > chainActive.Height() returns 0 into a std::string,  *)
(*            which throws, and nothing catches it;                        *)
(*   index:   chainActive[Height] is NULL above the tip, and is            *)
(*            dereferenced.                                                *)
(* The getter then uses the hash.  Whether the fixed hash is in            *)
(* mapBlockIndex (as the genesis block) is the constant FallbackKnown;     *)
(* if not, getBlockIndex's mapBlockIndex[hash] yields NULL, which          *)
(* getBlockHardness dereferences, and getBlockMerkle returns 0 into a      *)
(* std::string.  Each of these ends the process: gpc = "crashed".          *)
(*                                                                         *)
(* A height is an index into chain minus one (chain[1] is the genesis).    *)
(* blocksInPastHours walks heightHour down until a block is older than     *)
(* the target; below 0 every read gives the fixed hash, so the walk's      *)
(* state is kept at -1 there (the counter would only go on falling).       *)
(* Its height and heightHour are two reads of Tip() (lines 141 and 142),   *)
(* and a block may be connected or disconnected between them.             *)
(***************************************************************************)
EXTENDS Integers, Sequences, Functions

CONSTANTS
    Blocks,         \* block hashes
    Genesis,        \* the genesis block
    BTime,          \* nTime of each block
    Targets,        \* time(NULL) - hours * 3600 for the hours asked
    MaxHeight,      \* bound on the height of the chain
    FallbackKnown,  \* the fixed hash is the genesis block's
    Fallback        \* the fixed hash, when it is not a block of mapBlockIndex

ASSUME BrowserAssumption ==
    /\ Genesis \in Blocks
    /\ BTime \in [Blocks -> Nat]
    /\ Targets \subseteq Nat
    /\ MaxHeight \in Nat
    /\ FallbackKnown \in BOOLEAN
    /\ Fallback \notin Blocks

\* The getters blockClicked calls, in order, by what they do with the hash:
\* getBlockHashrate (getBlockTime(height), getBlockTime(1),
\* getBlockHardness), getBlockHash, getBlockMerkle, getBlocknBits,
\* getBlockNonce, getBlockTime, getBlockHardness.
Getters == <<"time", "time1", "index", "hash", "string", "count", "count",
             "time", "index">>

VARIABLES
    chain,          \* chainActive, genesis first
    gpc,            \* the GUI thread: "idle", "click", "hours" or "crashed"
    lpc,            \* where getBlockHash is: "check", "recheck", "index", "use";
                    \* "tip2" before blocksInPastHours' second Tip() read
    found,          \* the block getBlockHash found, or Fallback
    bh,             \* blockClicked's height, or heightHour
    look,           \* which getter blockClicked is in
    top,            \* blocksInPastHours' height
    target,         \* ... and its target time
    counted         \* ... and what it returned

browserVars == <<chain, gpc, lpc, found, bh, look, top, target, counted>>

Tip == Len(chain) - 1

BrowserTypeOK ==
    /\ chain \in Seq(Blocks) /\ chain # <<>> /\ chain[1] = Genesis
    /\ Len(chain) <= MaxHeight + 1
    /\ gpc \in {"idle", "click", "hours", "crashed"}
    /\ lpc \in {"tip2", "check", "recheck", "index", "use"}
    /\ found \in Blocks \cup {Fallback}
    /\ bh \in -1..MaxHeight
    /\ look \in 1..Len(Getters)
    /\ top \in 0..MaxHeight
    /\ target \in Targets \cup {0}
    /\ counted \in -MaxHeight..MaxHeight + 1

BrowserInit ==
    /\ chain = <<Genesis>>
    /\ gpc = "idle"
    /\ lpc = "check"
    /\ found = Genesis
    /\ bh = 0
    /\ look = 1
    /\ top = 0
    /\ target = 0
    /\ counted = 0

\* The height the current getBlockHash call asks for.
AskedHeight == IF gpc = "click" /\ Getters[look] = "time1" THEN 1 ELSE bh

(* The node thread, under cs_main, which the GUI does not take.            *)

\* A block is connected on top of the tip.
ConnectTip(b) ==
    /\ b \notin Range(chain)
    /\ Len(chain) <= MaxHeight
    /\ chain' = Append(chain, b)
    /\ UNCHANGED <<gpc, lpc, found, bh, look, top, target, counted>>

\* The tip is disconnected (a reorganisation starts).
DisconnectTip ==
    /\ Len(chain) > 1
    /\ chain' = SubSeq(chain, 1, Len(chain) - 1)
    /\ UNCHANGED <<gpc, lpc, found, bh, look, top, target, counted>>

(* The GUI thread.                                                         *)

\* blockClicked: a height above the tip is set back to the tip, and the
\* getters start.
BlockClicked(h) ==
    /\ gpc = "idle"
    /\ gpc' = "click"
    /\ bh' = IF h > Tip THEN Tip ELSE h
    /\ look' = 1
    /\ lpc' = "check"
    /\ UNCHANGED <<chain, found, top, target, counted>>

\* blocksInPastHours: height is the tip's height; the target is the time
\* now less the hours asked.
HoursStart(t) ==
    /\ gpc = "idle"
    /\ gpc' = "hours"
    /\ top' = Tip
    /\ target' = t
    /\ lpc' = "tip2"
    /\ UNCHANGED <<chain, found, bh, look, counted>>

\* blocksInPastHours: heightHour is the tip's height, read again.
HoursReadTip ==
    /\ gpc = "hours"
    /\ lpc = "tip2"
    /\ bh' = Tip
    /\ lpc' = "check"
    /\ UNCHANGED <<chain, gpc, found, look, top, target, counted>>

\* getBlockHash: the first test against the tip.
LookupCheck ==
    /\ gpc \in {"click", "hours"}
    /\ lpc = "check"
    /\ IF AskedHeight > Tip \/ AskedHeight < 0
       THEN /\ lpc' = "use"
            /\ found' = IF FallbackKnown THEN Genesis ELSE Fallback
       ELSE /\ lpc' = "recheck"
            /\ UNCHANGED found
    /\ UNCHANGED <<chain, gpc, bh, look, top, target, counted>>

\* getBlockHash: desiredheight > chainActive.Height() returns 0.
LookupRecheck ==
    /\ gpc \in {"click", "hours"}
    /\ lpc = "recheck"
    /\ IF AskedHeight > Tip
       THEN gpc' = "crashed" /\ UNCHANGED lpc
       ELSE lpc' = "index" /\ UNCHANGED gpc
    /\ UNCHANGED <<chain, found, bh, look, top, target, counted>>

\* getBlockHash: chainActive[Height]->phashBlock.
LookupIndex ==
    /\ gpc \in {"click", "hours"}
    /\ lpc = "index"
    /\ IF AskedHeight > Tip
       THEN gpc' = "crashed" /\ UNCHANGED <<lpc, found>>
       ELSE /\ lpc' = "use"
            /\ found' = chain[AskedHeight + 1]
            /\ UNCHANGED gpc
    /\ UNCHANGED <<chain, bh, look, top, target, counted>>

\* getBlockTime: nTime, or 0 for a hash mapBlockIndex does not hold.
TimeOf(b) == IF b = Fallback THEN 0 ELSE BTime[b]

\* blockClicked: the getter uses the hash; getBlockIndex and
\* getBlockMerkle fail on a hash mapBlockIndex does not hold.
ClickUse ==
    /\ gpc = "click"
    /\ lpc = "use"
    /\ IF found = Fallback /\ Getters[look] \in {"index", "string"}
       THEN gpc' = "crashed" /\ UNCHANGED <<lpc, look>>
       ELSE IF look = Len(Getters)
            THEN gpc' = "idle" /\ UNCHANGED <<lpc, look>>
            ELSE /\ look' = look + 1
                 /\ lpc' = "check"
                 /\ UNCHANGED gpc
    /\ UNCHANGED <<chain, found, bh, top, target, counted>>

\* Mutant: the walk returns height - heightHour + 1.
HoursUseOffByOne ==
    /\ gpc = "hours"
    /\ lpc = "use"
    /\ IF TimeOf(found) < target
       THEN /\ gpc' = "idle"
            /\ counted' = top - bh + 1
            /\ UNCHANGED <<lpc, bh>>
       ELSE /\ bh' = IF bh > -1 THEN bh - 1 ELSE -1
            /\ lpc' = "check"
            /\ UNCHANGED <<gpc, counted>>
    /\ UNCHANGED <<chain, found, look, top, target>>

\* blocksInPastHours: a block older than the target ends the walk.
HoursUse ==
    /\ gpc = "hours"
    /\ lpc = "use"
    /\ IF TimeOf(found) < target
       THEN /\ gpc' = "idle"
            /\ counted' = top - bh
            /\ UNCHANGED <<lpc, bh>>
       ELSE /\ bh' = IF bh > -1 THEN bh - 1 ELSE -1
            /\ lpc' = "check"
            /\ UNCHANGED <<gpc, counted>>
    /\ UNCHANGED <<chain, found, look, top, target>>

GuiStep ==
    \/ HoursReadTip
    \/ LookupCheck
    \/ LookupRecheck
    \/ LookupIndex
    \/ ClickUse
    \/ HoursUse

BrowserNext ==
    \/ \E b \in Blocks : ConnectTip(b)
    \/ DisconnectTip
    \/ \E h \in 0..MaxHeight : BlockClicked(h)
    \/ \E t \in Targets : HoursStart(t)
    \/ GuiStep

BrowserSpec == BrowserInit /\ [][BrowserNext]_browserVars

-----------------------------------------------------------------------------
(* Properties.                                                             *)

\* The block view never ends the process: blockClicked clamps the height
\* to the tip, so its getters should not reach past it.
NoCrash == gpc # "crashed"

\* blocksInPastHours returns a number of blocks, height - heightHour, which
\* its callers print as the blocks of the last hours: it is never negative.
CountNonNegative == counted >= 0

=============================================================================
