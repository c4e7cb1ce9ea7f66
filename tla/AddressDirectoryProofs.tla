------------------------ MODULE AddressDirectoryProofs ------------------------
(***************************************************************************)
(* Proofs about AddressDirectory, for every value of its constants.        *)
(***************************************************************************)
EXTENDS AddressDirectory, TLAPS

(***************************************************************************)
(* DirTypeOK is not inductive: smsglocalkeys writes the flag of the        *)
(* address its search found, and that the address is still listed at the  *)
(* write holds because smsgAddresses only grows.                          *)
(***************************************************************************)
PendingListed ==
    \A th \in Threads : dpc[th] = "toggle_write" => dreq[th].addr \in registered

DirInv == DirTypeOK /\ PendingListed

LEMMA InitDirInv == DirInit => DirInv
  <1> SUFFICES ASSUME DirInit PROVE DirInv
    OBVIOUS
  <1>1. NoDReq \in [field : Fields, addr : Addrs, on : BOOLEAN]
    BY DirAssumption DEF NoDReq, Addrs, Fields
  <1>2. QED
    BY <1>1 DEF DirInit, DirInv, DirTypeOK, PendingListed

LEMMA NextDirInv == DirInv /\ [DirNext]_dirVars => DirInv'
  <1> SUFFICES ASSUME DirInv, [DirNext]_dirVars PROVE DirInv'
    OBVIOUS
  <1> USE DEF DirInv, DirTypeOK, PendingListed
  <1>1. CASE DirEnable
    BY <1>1 DEF DirEnable
  <1>2. CASE DirDisable
    BY <1>2 DEF DirDisable
  <1>3. ASSUME NEW o \in OptNames, NEW v \in BOOLEAN, SmsgOptionsSet(o, v)
        PROVE DirInv'
    BY <1>3 DEF SmsgOptionsSet
  <1>4. ASSUME NEW th \in Threads, NEW f \in Fields, NEW a \in WalletAddrs,
               NEW on \in BOOLEAN, LocalKeysFind(th, f, a, on)
        PROVE DirInv'
    <2>1. a \in Addrs
      BY DEF Addrs
    <2>2. QED
      BY <1>4, <2>1 DEF LocalKeysFind
  <1>5. ASSUME NEW th \in Threads, LocalKeysWrite(th) PROVE DirInv'
    <2> DEFINE r == dreq[th]
    <2>1. r.addr \in registered
      BY <1>5 DEF LocalKeysWrite
    <2>2. recvOn' \subseteq registered /\ anonOn' \subseteq registered
      BY <1>5, <2>1 DEF LocalKeysWrite, FlagSet
    <2>3. dpc' \in [Threads -> {"idle", "toggle_write"}]
      BY <1>5 DEF LocalKeysWrite
    <2>4. \A u \in Threads : dpc'[u] = "toggle_write" => u # th
      BY <1>5 DEF LocalKeysWrite
    <2>5. QED
      BY <1>5, <2>2, <2>3, <2>4 DEF LocalKeysWrite
  <1>6. ASSUME NEW a \in Addrs, SmsgAddKey(a) PROVE DirInv'
    BY <1>6 DEF SmsgAddKey
  <1>7. CASE SmsgScanChain
    BY <1>7, DirAssumption DEF SmsgScanChain, Addrs
  <1>8. ASSUME NEW a \in WalletAddrs, NewAddress(a) PROVE DirInv'
    <2>1. PICK realloc \in BOOLEAN :
            stale' = [th \in Threads |-> stale[th] \/ realloc]
      BY <1>8 DEF NewAddress
    <2>2. QED
      BY <1>8, <2>1 DEF NewAddress
  <1>9. CASE UNCHANGED dirVars
    BY <1>9 DEF dirVars
  <1>10. QED
    BY <1>1, <1>2, <1>3, <1>4, <1>5, <1>6, <1>7, <1>8, <1>9 DEF DirNext

\* The directory handlers keep every receive and anon flag on an address
\* of smsgAddresses, and smsgAddresses within the wallet's addresses,
\* however smsglocalkeys toggles, smsgoptions and new wallet keys
\* interleave, for every set of threads and addresses.
THEOREM DirTypeCorrect == DirSpec => []DirTypeOK
  <1>1. DirInv => DirTypeOK
    BY DEF DirInv
  <1>2. QED
    BY InitDirInv, NextDirInv, <1>1, PTL DEF DirSpec

=============================================================================
