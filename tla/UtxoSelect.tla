----------------------------- MODULE UtxoSelect -----------------------------
(***************************************************************************)
(* How the payment of an unwrap is built from the outputs of the wallet:   *)
(* CreateUnWrapTxData of tokens/iotasmr, for the base coin (mode "basic")  *)
(* and for a native token ("native"), and SendUnWrap of tokens/smr         *)
(* ("center").  Outputs are gathered page by page from the indexer, which  *)
(* may still list spent ones, while other payments go on spending.         *)
(*                                                                         *)
(* An output has an amount of the base coin and may carry native tokens:   *)
(* ours alone, or any others.  The deposit the ledger asks                 *)
(* for an output (VByteCost * VBytes) is a constant for each of the three  *)
(* shapes of output.  Amounts are below 2^64, as the supply of coins is.   *)
(***************************************************************************)
EXTENDS Integers, Sequences

CONSTANTS Wallet,       \* the outputs of the wallet, in the order of the indexer
          PageSize,     \* outputs in one answer of the indexer
          MaxInput,     \* MAX_INPUT_COUNT
          Amounts,      \* what a user may be due
          RentTo, RentSelf, RentLeft    \* deposit of: payment, token change, coin change

Ids == 1..Len(Wallet)
Has(i, kind) == Wallet[i].token = kind

ASSUME WalletAssumption ==
    /\ Wallet \in Seq([token : {"none", "ours", "other"}, amount : Nat, coins : Nat])
    /\ \A i \in Ids : Has(i, "none") => Wallet[i].amount = 0
ASSUME LimitsAssumption == /\ PageSize \in Nat \ {0} /\ MaxInput \in Nat \ {0, 1}
                           /\ Amounts \subseteq Nat \ {0}
                           /\ RentTo \in Nat /\ RentSelf \in Nat /\ RentLeft \in Nat

VARIABLES mode,     \* "basic", "native" or "center"
          due,      \* what the user is to get
          pc,       \* "begin", gathering "tokens" or "coins", "built" or "failed"
          listed,   \* the answer of the indexer to the current query
          pos,      \* the next output of it
          count,    \* outputs gathered by the current loop
          sum,      \* what they add up to, in tokens or in coins
          sumSmr,   \* coins in the token outputs
          inputs,   \* the inputs of the builder, in order
          kept,     \* of these the ones from before the last retry, as a set
          outs,     \* the outputs of the builder
          retried,  \* the gathering of coins has begun again
          spent     \* outputs that other payments have spent

order == <<mode, due>>
retries == <<kept, retried>>
vars == <<mode, due, pc, listed, pos, count, sum, sumSmr, inputs, kept, outs, retried, spent>>

To(tokens, coins)   == [to |-> "user", amount |-> tokens, coins |-> coins]
Self(tokens, coins) == [to |-> "wallet", amount |-> tokens, coins |-> coins]

\* The sum of f[1], ..., f[n]; what the records of s add up to.
SumOf(f, n) == LET part[k \in 0..n] == IF k = 0 THEN 0 ELSE part[k - 1] + f[k]
               IN  part[n]
Total(s, field) == SumOf([k \in 1..Len(s) |-> s[k][field]], Len(s))

Init == /\ mode \in {"basic", "native", "center"} /\ due \in Amounts
        /\ pc = "begin"
        /\ listed = << >> /\ pos = 1 /\ count = 0 /\ sum = 0 /\ sumSmr = 0
        /\ inputs = << >> /\ kept = {} /\ outs = << >>
        /\ retried = FALSE /\ spent = {}
-----------------------------------------------------------------------------
(* Queries.                                                                *)

\* The indexer lists the outputs with, or without, native tokens; it leaves out
\* the spent ones it knows of.
Shown(withTokens, known) == {i \in Ids \ known : Has(i, "none") # withTokens}

Listing(withTokens, known) ==
    LET first[n \in 0..Len(Wallet)] ==
            IF n = 0 THEN << >>
            ELSE IF n \in Shown(withTokens, known) THEN Append(first[n - 1], n)
            ELSE first[n - 1]
    IN  first[Len(Wallet)]

QueryWith(withTokens, known) == /\ listed' = Listing(withTokens, known)
                                /\ pos' = 1 /\ count' = 0 /\ sum' = 0

Query(withTokens) == \E known \in SUBSET spent : QueryWith(withTokens, known)

\* An error of the node ends the attempt, in every state.
Fail ==
    /\ pc \in {"begin", "tokens", "coins"}
    /\ pc' = "failed"
    /\ UNCHANGED <<order, listed, pos, count, sum, sumSmr, inputs, outs, retries, spent>>

\* The base coin: the payment is added after its inputs.
BeginBasic ==
    /\ pc = "begin" /\ mode = "basic"
    /\ pc' = "coins"
    /\ Query(FALSE)
    /\ UNCHANGED <<order, sumSmr, inputs, outs, retries, spent>>

\* A native token: the payment comes first, with the deposit it needs.
BeginToken ==
    /\ pc = "begin" /\ mode # "basic"
    /\ pc' = "tokens"
    /\ Query(TRUE)
    /\ outs' = <<To(due, RentTo)>>
    /\ UNCHANGED <<order, sumSmr, inputs, retries, spent>>
-----------------------------------------------------------------------------
(* Gathering.                                                              *)

\* Faulty variant: the last output of the page is taken again.
NextPageOffByOne(p) == ((p - 1) \div PageSize + 1) * PageSize

\* Faulty variant: the limit is not kept.
NextPageUnlimited(p) == p + 1

\* The first position of the next page: break leaves the loop over one page, and
\* the loop over the pages goes on.
NextPage(p) == ((p - 1) \div PageSize + 1) * PageSize + 1

\* The limit on the inputs, checked after the n-th with a total of s.
TokensEnough(n, s) == n >= MaxInput /\ (mode = "center" => s >= due)
CoinsEnough(n, s) == IF mode = "center" THEN n >= MaxInput \div 2
                     ELSE n >= MaxInput /\ (mode = "basic" => s >= due)

\* An output with our token and no other is taken, any other one is passed over.
GatherTokens ==
    /\ pc = "tokens" /\ pos <= Len(listed)
    /\ LET i == listed[pos]
       IN  IF Has(i, "ours")
           THEN /\ sum' = sum + Wallet[i].amount
                /\ sumSmr' = sumSmr + Wallet[i].coins
                /\ inputs' = Append(inputs, i)
                /\ count' = count + 1
                /\ pos' = IF TokensEnough(count', sum') THEN NextPage(pos) ELSE pos + 1
           ELSE pos' = pos + 1 /\ UNCHANGED <<count, sum, sumSmr, inputs>>
    /\ UNCHANGED <<order, pc, listed, outs, retries, spent>>

\* An output with coins only is taken; tokens/iotasmr first asks whether it is
\* spent.
GatherCoins ==
    /\ pc = "coins" /\ pos <= Len(listed)
    /\ LET i == listed[pos]
       IN  /\ mode # "center" => i \notin spent
           /\ sum' = sum + Wallet[i].coins
           /\ inputs' = Append(inputs, i)
           /\ count' = count + 1
           /\ pos' = IF CoinsEnough(count', sum') THEN NextPage(pos) ELSE pos + 1
    /\ UNCHANGED <<order, pc, listed, sumSmr, outs, retries, spent>>

RetryAgain == /\ pc = "coins" /\ mode # "center" /\ pos <= Len(listed)
              /\ retried' = TRUE
              /\ kept' = kept \cup {inputs[n] : n \in 1..Len(inputs)}
              /\ inputs' = << >>
              /\ UNCHANGED <<order, pc, sumSmr, outs, spent>>

\* Faulty variant: the total of the first round is not forgotten.
RetryWithSum(known) ==
    /\ RetryAgain
    /\ listed' = Listing(FALSE, known)
    /\ pos' = 1
    /\ UNCHANGED <<count, sum>>

\* Faulty variant: the same answer of the indexer is gone through again.
RetryWithListed(known) ==
    /\ RetryAgain
    /\ pos' = 1 /\ count' = 0 /\ sum' = 0
    /\ UNCHANGED listed

\* It is spent, or the node does not tell: the query is made again and the totals
\* begin at zero, but the inputs of the builder stay.  The counter that should
\* limit this begins at zero again, too.
RetryWith(known) == RetryAgain /\ QueryWith(FALSE, known)

Retry == \E known \in SUBSET spent : RetryWith(known)

\* The outputs of a page cannot be fetched; the error is ignored, and the page counts
\* as empty.
LosePage ==
    /\ pc \in {"tokens", "coins"} /\ pos <= Len(listed)
    /\ (pos - 1) % PageSize = 0
    /\ pos' = NextPage(pos)
    /\ UNCHANGED <<order, pc, listed, count, sum, sumSmr, inputs, outs, retries, spent>>
-----------------------------------------------------------------------------
(* Outputs.                                                                *)

\* The tokens are gathered: what is left of them goes back to the wallet.  Unless
\* their deposits fit exactly, coins are gathered, too.
EndTokens ==
    /\ pc = "tokens" /\ pos > Len(listed)
    /\ LET left   == sum - due
           change == IF left > 0 THEN <<Self(left, RentSelf)>> ELSE << >>
           need   == RentTo + (IF left > 0 THEN RentSelf ELSE 0)
       IN  \/ /\ sum < due
              /\ pc' = "failed"
              /\ UNCHANGED <<listed, pos, count, sum, outs>>
           \/ /\ sum >= due /\ need = sumSmr
              /\ pc' = "built"
              /\ outs' = outs \o change
              /\ UNCHANGED <<listed, pos, count, sum>>
           \/ /\ sum >= due /\ need # sumSmr
              /\ pc' = "coins"
              /\ outs' = outs \o change
              /\ Query(FALSE)
    /\ UNCHANGED <<order, sumSmr, inputs, retries, spent>>

\* The coins of the base coin payment are gathered: the payment, and the change.
EndBasic ==
    /\ pc = "coins" /\ mode = "basic" /\ pos > Len(listed)
    /\ \/ /\ sum < due
          /\ pc' = "failed"
          /\ UNCHANGED outs
       \/ /\ sum >= due
          /\ pc' = "built"
          /\ outs' = <<To(0, due)>>
                       \o (IF sum > due THEN <<Self(0, sum - due)>> ELSE << >>)
    /\ UNCHANGED <<order, listed, pos, count, sum, sumSmr, inputs, retries, spent>>

\* Faulty variant: the coins of the token outputs are forgotten.
CoinsLeftForgets == sum

\* What the token payment has in coins.
CoinsLeft == sum + sumSmr

\* Faulty variant: the change is not checked.
CoinsSufficeUnchecked(need) == TRUE

\* The change reaches the deposit of an output.
CoinsSuffice(need) == CoinsLeft >= need + RentLeft

\* The coins of a token payment are gathered: what its outputs do not need is the
\* change.
EndCoins ==
    /\ pc = "coins" /\ mode # "basic" /\ pos > Len(listed)
    /\ LET need == Total(outs, "coins")
       IN  \/ /\ ~CoinsSuffice(need)
              /\ pc' = "failed"
              /\ UNCHANGED outs
           \/ /\ CoinsSuffice(need)
              /\ pc' = "built"
              /\ outs' = Append(outs, Self(0, CoinsLeft - need))
    /\ UNCHANGED <<order, listed, pos, count, sum, sumSmr, inputs, retries, spent>>
-----------------------------------------------------------------------------
\* Another payment, of this validator or of another one, spends an output.
Spend ==
    /\ \E i \in Ids \ spent : spent' = spent \cup {i}
    /\ UNCHANGED <<order, pc, listed, pos, count, sum, sumSmr, inputs, outs, retries>>

Build == \/ BeginBasic \/ BeginToken \/ GatherTokens \/ GatherCoins \/ Retry \/ LosePage
         \/ EndTokens \/ EndBasic \/ EndCoins \/ Fail

Next == Build \/ Spend

Spec == Init /\ [][Next]_vars

\* A goroutine that builds a payment goes on; and the indexer, asked for ever, does
\* not leave out what it learns of spent outputs for ever.
FairSpec == Spec /\ WF_vars(Build) /\ SF_vars(RetryWith(spent))
-----------------------------------------------------------------------------
(* Properties.                                                             *)

InputRecords == [n \in 1..Len(inputs) |-> Wallet[inputs[n]]]
Held == kept \cup {inputs[n] : n \in 1..Len(inputs)}

\* What the outputs in S hold, each counted once.
Worth(S, field) ==
    SumOf([i \in Ids |-> IF i \in S THEN Wallet[i][field] ELSE 0], Len(Wallet))

\* The outputs of the builder.
Sent == [to : {"user", "wallet"}, amount : Nat, coins : Nat]

\* The types of the variables.
TypeOK == /\ mode \in {"basic", "native", "center"} /\ due \in Amounts
          /\ pc \in {"begin", "tokens", "coins", "built", "failed"}
          /\ listed \in Seq(Ids) /\ inputs \in Seq(Ids)
          /\ pos \in Nat \ {0} /\ count \in Nat /\ sum \in Nat /\ sumSmr \in Nat
          /\ outs \in Seq(Sent)
          /\ retried \in BOOLEAN /\ kept \in SUBSET Ids /\ spent \in SUBSET Ids

\* Without a retry, no output is an input twice, across pages, limits and the two
\* gathering loops of a token payment: the ledger refuses such a payment.
InputsDistinct ==
    ~retried => \A m, n \in 1..Len(inputs) : inputs[m] = inputs[n] => m = n

\* Without a retry, a finished payment gives out the coins and the tokens that its
\* inputs bring in, no more and no less: what the ledger asks of a payment.
Balanced ==
    (pc = "built" /\ ~retried) =>
        \A field \in {"coins", "amount"} : Total(outs, field) = Total(InputRecords, field)

\* However often the query is repeated while outputs are spent, the inputs of a
\* finished payment, each counted once, cover its outputs: coins that a round before
\* the last one added are never counted on.
Covered ==
    pc = "built" => \A field \in {"coins", "amount"} : Worth(Held, field) >= Total(outs, field)

HardLimit == IF pc = "coins" /\ mode = "center" THEN MaxInput \div 2 ELSE MaxInput

\* Where the limit on the inputs does not depend on their total, a gathering loop
\* passes it by at most one input for each page after the one that reached it.
OverrunOnePerPage ==
    (pc = "tokens" /\ mode = "native") \/ (pc = "coins" /\ mode # "basic") =>
        count <= HardLimit \/ count < HardLimit + (pos - 1) \div PageSize

\* The building of a payment ends, in a payment or an error, although the counter of
\* retries never reaches its limit: once the node answers, only an indexer that lists
\* spent outputs for ever could keep it from that, no limit, lost page or total.
BuildEnds == <>[][Retry => listed[pos] \in spent]_vars => <>(pc \in {"built", "failed"})
=============================================================================
