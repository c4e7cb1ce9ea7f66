-------------------------- MODULE AddressDirectory --------------------------
(***************************************************************************)
(* The address directory of the secure-messaging subsystem: the listed     *)
(* local addresses smsgAddresses with their fReceiveEnabled and            *)
(* fReceiveAnon flags, the options smsgOptions that new addresses take     *)
(* their flags from, and the public key database, as the handlers          *)
(* smsgoptions, smsglocalkeys, smsgscanchain, smsgaddkey and smsggetpubkey *)
(* of src/src/rpcsmessage.cpp use them.                                    *)
(*                                                                         *)
(* smsglocalkeys recv|anon looks the address up in smsgAddresses and then  *)
(* writes the flag through the iterator it found, without taking cs_smsg.  *)
(* The wallet's key generation (SecureMsgWalletKeyChanged, modelled from   *)
(* spec.md) appends to the same vector under cs_smsg; an append that       *)
(* reallocates the vector leaves the handler's iterator dangling, and the  *)
(* write through it is undefined behaviour: the model lets it land or be   *)
(* lost.                                                                   *)
(***************************************************************************)
EXTENDS Naturals, FiniteSets

CONSTANTS
    Threads,        \* RPC handler threads
    WalletAddrs,    \* addresses whose private keys the wallet holds
    CompressedAddrs,\* wallet addresses whose public key is compressed
    RemoteAddrs,    \* well-formed addresses of other nodes
    BadAddrs,       \* strings that are not valid addresses
    ChainKeyAddrs   \* addresses whose public keys appear in the block chain

Addrs == WalletAddrs \cup RemoteAddrs

\* The wallet always holds at least its default key.
ASSUME DirAssumption ==
    /\ WalletAddrs # {}
    /\ WalletAddrs \cap RemoteAddrs = {}
    /\ BadAddrs \cap Addrs = {}
    /\ CompressedAddrs \subseteq WalletAddrs
    /\ ChainKeyAddrs \subseteq RemoteAddrs

VARIABLES
    enabled,      \* fSecMsgEnabled
    options,      \* smsgOptions
    registered,   \* addresses in smsgAddresses
    recvOn,       \* ... with fReceiveEnabled
    anonOn,       \* ... with fReceiveAnon
    pubkeys,      \* addresses in the public key database
    dpc,          \* where each smsglocalkeys call is
    dreq,         \* the flag change it was asked for
    stale         \* the vector was reallocated since the call found its entry

dirVars == <<enabled, options, registered, recvOn, anonOn, pubkeys, dpc,
             dreq, stale>>

OptNames == {"newAddressRecv", "newAddressAnon"}
Fields == {"recv", "anon"}
NoDReq == [field |-> "recv", addr |-> CHOOSE a \in Addrs : TRUE, on |-> FALSE]

DirTypeOK ==
    /\ enabled \in BOOLEAN
    /\ options \in [OptNames -> BOOLEAN]
    /\ registered \subseteq WalletAddrs
    /\ recvOn \subseteq registered
    /\ anonOn \subseteq registered
    /\ pubkeys \subseteq Addrs
    /\ dpc \in [Threads -> {"idle", "toggle_write"}]
    /\ dreq \in [Threads -> [field : Fields, addr : Addrs, on : BOOLEAN]]
    /\ stale \in [Threads -> BOOLEAN]

DirInit ==
    /\ enabled = FALSE
    /\ options = [o \in OptNames |-> FALSE]
    /\ registered = {}
    /\ recvOn = {}
    /\ anonOn = {}
    /\ pubkeys = {}
    /\ dpc = [th \in Threads |-> "idle"]
    /\ dreq = [th \in Threads |-> NoDReq]
    /\ stale = [th \in Threads |-> FALSE]

\* The addresses holding a flag.
FlagSet(field) == IF field = "recv" THEN recvOn ELSE anonOn

-----------------------------------------------------------------------------
(* Read-only handlers, as the sets of addresses they report.               *)

\* smsglocalkeys whitelist|all: listed addresses (receiving ones only for
\* "whitelist") whose wallet public key is valid and compressed.
LocalKeysListed(all) ==
    {a \in registered : (all \/ a \in recvOn) /\ a \in CompressedAddrs}

\* smsglocalkeys wallet: the wallet's own address-book addresses with a
\* compressed public key.
WalletKeysListed == CompressedAddrs

\* smsggetpubkey: the wallet is tried first (SecureMsgGetLocalPublicKey:
\* 0 found, 2/3 invalid address, 4 not in the wallet, otherwise an error,
\* here a wallet key that is not compressed), then the database
\* (SecureMsgGetStoredKey: 0 found, 2 not found).
GetPubKey(a) ==
    CASE a \in BadAddrs                        -> "invalid address"
      [] a \in CompressedAddrs                 -> "wallet key"
      [] a \in WalletAddrs                     -> "error"
      [] a \in pubkeys                         -> "db key"
      [] OTHER                                 -> "not found"

-----------------------------------------------------------------------------
(* Handlers that change the directory.                                     *)

\* smsgenable / smsgdisable, as far as the directory sees them.
DirEnable ==
    /\ ~enabled
    /\ enabled' = TRUE
    /\ UNCHANGED <<options, registered, recvOn, anonOn, pubkeys, dpc, dreq,
                   stale>>

DirDisable ==
    /\ enabled
    /\ enabled' = FALSE
    /\ UNCHANGED <<options, registered, recvOn, anonOn, pubkeys, dpc, dreq,
                   stale>>

\* smsgoptions set <optname> <bool> (no fSecMsgEnabled test).
SmsgOptionsSet(o, v) ==
    /\ options' = [options EXCEPT ![o] = v]
    /\ UNCHANGED <<enabled, registered, recvOn, anonOn, pubkeys, dpc, dreq,
                   stale>>

\* Mutant: the "Address not found." early return is left out.
LocalKeysFindAny(th, field, a, on) ==
    /\ dpc[th] = "idle"
    /\ enabled
    /\ dpc' = [dpc EXCEPT ![th] = "toggle_write"]
    /\ dreq' = [dreq EXCEPT ![th] = [field |-> field, addr |-> a, on |-> on]]
    /\ stale' = [stale EXCEPT ![th] = FALSE]
    /\ UNCHANGED <<enabled, options, registered, recvOn, anonOn, pubkeys>>

\* smsglocalkeys recv|anon <+/-> <address>: the fSecMsgEnabled test and
\* the search of smsgAddresses; an address that is not listed ends the
\* call ("Address not found.") with nothing changed.
LocalKeysFind(th, field, a, on) ==
    /\ dpc[th] = "idle"
    /\ enabled
    /\ a \in registered
    /\ dpc' = [dpc EXCEPT ![th] = "toggle_write"]
    /\ dreq' = [dreq EXCEPT ![th] = [field |-> field, addr |-> a, on |-> on]]
    /\ stale' = [stale EXCEPT ![th] = FALSE]
    /\ UNCHANGED <<enabled, options, registered, recvOn, anonOn, pubkeys>>

\* The write it->fReceiveEnabled / it->fReceiveAnon = on, and the reply
\* "Success.".  Through a dangling iterator the write may be lost.
LocalKeysWrite(th) ==
    /\ dpc[th] = "toggle_write"
    /\ LET r == dreq[th]
           new == IF r.on THEN FlagSet(r.field) \cup {r.addr}
                          ELSE FlagSet(r.field) \ {r.addr}
       IN \E lands \in IF stale[th] THEN BOOLEAN ELSE {TRUE} :
            IF r.field = "recv"
              THEN /\ recvOn' = IF lands THEN new ELSE recvOn
                   /\ UNCHANGED anonOn
              ELSE /\ anonOn' = IF lands THEN new ELSE anonOn
                   /\ UNCHANGED recvOn
    /\ dpc' = [dpc EXCEPT ![th] = "idle"]
    /\ UNCHANGED <<enabled, options, registered, pubkeys, dreq, stale>>

\* smsgaddkey: SecureMsgAddAddress adds a valid key of an address not yet
\* in the database (rv 0); a duplicate (rv 4), an invalid key or address
\* (rv 2, 3, 5) leaves the database as it is.
SmsgAddKey(a) ==
    /\ enabled
    /\ a \notin pubkeys
    /\ pubkeys' = pubkeys \cup {a}
    /\ UNCHANGED <<enabled, options, registered, recvOn, anonOn, dpc, dreq,
                   stale>>

\* smsgscanchain: SecureMsgScanBlockChain stores the keys found in the
\* chain.
SmsgScanChain ==
    /\ enabled
    /\ pubkeys' = pubkeys \cup ChainKeyAddrs
    /\ UNCHANGED <<enabled, options, registered, recvOn, anonOn, dpc, dreq,
                   stale>>

\* A new wallet key (SecureMsgWalletKeyChanged) is appended to
\* smsgAddresses with the flags of smsgOptions; the append may reallocate
\* the vector under the iterators of calls in flight.
NewAddress(a) ==
    /\ enabled
    /\ a \in WalletAddrs \ registered
    /\ registered' = registered \cup {a}
    /\ recvOn' = IF options["newAddressRecv"] THEN recvOn \cup {a} ELSE recvOn
    /\ anonOn' = IF options["newAddressAnon"] THEN anonOn \cup {a} ELSE anonOn
    /\ \E realloc \in BOOLEAN :
         stale' = [th \in Threads |-> stale[th] \/ realloc]
    /\ UNCHANGED <<enabled, options, pubkeys, dpc, dreq>>

DirNext ==
    \/ DirEnable
    \/ DirDisable
    \/ \E o \in OptNames, v \in BOOLEAN : SmsgOptionsSet(o, v)
    \/ \E th \in Threads, f \in Fields, a \in WalletAddrs, on \in BOOLEAN :
         LocalKeysFind(th, f, a, on)
    \/ \E th \in Threads : LocalKeysWrite(th)
    \/ \E a \in Addrs : SmsgAddKey(a)
    \/ SmsgScanChain
    \/ \E a \in WalletAddrs : NewAddress(a)

DirSpec == DirInit /\ [][DirNext]_dirVars

-----------------------------------------------------------------------------
(* Properties                                                              *)

\* spec.md 4.1: setReceiveFlag / setAnonFlag mutate the entry in place and
\* return the new flags: when smsglocalkeys recv|anon replies "Success.",
\* the flag of the address it named has the requested value.
ToggleTakesEffect ==
    [][\A th \in Threads :
         (dpc[th] = "toggle_write" /\ dpc'[th] = "idle")
           => ((dreq[th].addr \in FlagSet(dreq[th].field)') = dreq[th].on)
      ]_dirVars

=============================================================================
