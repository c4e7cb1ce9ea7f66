--------------------------- MODULE BlockBrowserTx ---------------------------
(***************************************************************************)
(* The transaction view of the block browser (src/src/qt/blockbrowser.cpp, *)
(* txClicked): for the transaction the user names it shows the total of    *)
(* its outputs (getTxTotalValue) and its fee (getTxFees), which sums, for  *)
(* every input, what getInputValue finds in the previous transaction.      *)
(*                                                                         *)
(* The user looks up a transaction t whose inputs spend outputs of one     *)
(* previous transaction p (the fee sums over inputs one by one, so more    *)
(* previous transactions add nothing).  Of p only the number of its        *)
(* inputs matters to getInputValue.  Amounts are whole units: the code     *)
(* sums doubles of amount / COIN, whose rounding is below the six decimals *)
(* it prints and is not modelled.  GetTransaction either finds a           *)
(* transaction or not.                                                     *)
(*                                                                         *)
(* getInputValue reads tx.vout[i] for i < tx.vin.size(); past the end of   *)
(* vout that read is undefined behaviour, here any output: the comparison  *)
(* with the target may succeed with any amount, or fail.                   *)
(***************************************************************************)
EXTENDS Integers, Sequences

CONSTANTS
    Scripts,        \* scriptPubKeys
    Amounts,        \* output values
    MaxIO,          \* bound on the inputs and outputs of a transaction
    NotFoundFee,    \* what getTxFees returns for an unknown transaction
    NotFoundValue   \* GetBlockValue(0, 0), what getTxTotalValue returns for one

Outputs == [script : Scripts, value : Amounts]
OutSeqs == UNION {[1..k -> Outputs] : k \in 1..MaxIO}

\* The previous transaction: how many inputs it has, and its outputs.
PrevTxs == [nIn : 1..MaxIO, vout : OutSeqs]

\* The looked-up transaction: the output index of p each input spends.
TxsSpending(prev) ==
    [vin : UNION {[1..k -> 0..Len(prev.vout) - 1] : k \in 1..MaxIO},
     vout : OutSeqs]

VARIABLES
    prev,           \* p, as GetTransaction returns it
    prevFound,      \* GetTransaction finds p
    tx,             \* t
    txFound,        \* GetTransaction finds t
    clicked,        \* txClicked has run
    shown           \* the value, fee and input boxes it filled

txVars == <<prev, prevFound, tx, txFound, clicked, shown>>

RECURSIVE SumValues(_)
SumValues(outs) ==
    IF outs = <<>> THEN 0 ELSE Head(outs).value + SumValues(Tail(outs))

\* getInputValue(ptx, target): the values it may return.
InputValues(ptx, target) ==
    LET scan[i \in 0..ptx.nIn] ==
          IF i = ptx.nIn THEN {0}
          ELSE IF i < Len(ptx.vout)
               THEN IF ptx.vout[i + 1].script = target
                    THEN {ptx.vout[i + 1].value}
                    ELSE scan[i + 1]
               ELSE Amounts \cup scan[i + 1]
    IN scan[0]

\* The sums getTxFees may reach over the first k inputs of t.
InputSums(k) ==
    LET sums[j \in 0..k] ==
          IF j = 0 THEN {0}
          ELSE {s + v : s \in sums[j - 1],
                        v \in InputValues(prev,
                                 prev.vout[tx.vin[j] + 1].script)}
    IN sums[k]

\* getTxFees(txid): the fees it may return (the sum of inputs minus the
\* sum of outputs, in Int), 0 when an input's transaction is not found.
TxFees ==
    IF ~txFound THEN {NotFoundFee}
    ELSE IF ~prevFound THEN {0}
    ELSE {s - SumValues(tx.vout) : s \in InputSums(Len(tx.vin))}

\* getInputs(txid): for each input the amount it prints, "fail" when a
\* transaction is not found.
InputsListed ==
    IF ~txFound \/ ~prevFound THEN {"fail"}
    ELSE {f \in [1..Len(tx.vin) -> Amounts \cup {0}] :
            \A j \in 1..Len(tx.vin) :
               f[j] \in InputValues(prev, prev.vout[tx.vin[j] + 1].script)}

\* getTxTotalValue(txid).
TxTotalValue == IF txFound THEN SumValues(tx.vout) ELSE NotFoundValue

TxInit ==
    /\ prev \in PrevTxs
    /\ prevFound \in BOOLEAN
    /\ tx \in TxsSpending(prev)
    /\ txFound \in BOOLEAN
    /\ clicked = FALSE
    /\ shown = [value |-> 0, fees |-> 0, inputs |-> "fail"]

\* txClicked: the value, fee and input boxes are filled.
TxClicked ==
    /\ ~clicked
    /\ clicked' = TRUE
    /\ \E fee \in TxFees, ins \in InputsListed :
          shown' = [value |-> TxTotalValue, fees |-> fee, inputs |-> ins]
    /\ UNCHANGED <<prev, prevFound, tx, txFound>>

TxNext == TxClicked

TxSpec == TxInit /\ [][TxNext]_txVars

-----------------------------------------------------------------------------
(* The fee of a transaction: what its inputs spend minus what it pays.     *)
RefFee ==
    LET spent[j \in 0..Len(tx.vin)] ==
          IF j = 0 THEN 0 ELSE spent[j - 1] + prev.vout[tx.vin[j] + 1].value
    IN spent[Len(tx.vin)] - SumValues(tx.vout)

\* The fee box of txClicked shows the fee of a transaction whose inputs'
\* transactions are all found: getTxFees adds up the values of the
\* outputs the inputs spend.
FeeShownIsFee ==
    clicked /\ txFound /\ prevFound => shown.fees = RefFee

=============================================================================
