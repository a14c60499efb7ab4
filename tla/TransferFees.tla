---------------------------- MODULE TransferFees ----------------------------
(***************************************************************************)
(* The fee that a Token-2022 mint keeps of every transfer (token2022.ts):  *)
(* what arrives of an amount sent, and what must be sent for an amount to  *)
(* arrive.                                                                 *)
(*                                                                         *)
(* A fee is a rate and a maximum.  A mint has two of them: the newer holds *)
(* from its epoch on.                                                      *)
(***************************************************************************)
EXTENDS PresaleMath

\* calculateFee of @solana/spl-token.
CalculateFee(fee, amount) ==
    IF fee.basisPoints = 0 THEN 0
    ELSE Least(CeilDiv(amount * fee.basisPoints, BpsBase), fee.maximumFee)

\* getEpochFee of @solana/spl-token.
GetEpochFee(config, epoch) ==
    IF epoch >= config.newerFrom THEN config.newer ELSE config.older

\* The least amount that leaves postFeeAmount.
CalculatePreFeeAmount(fee, postFeeAmount) ==
    LET rawPreFeeAmount ==
            CeilDiv(postFeeAmount * BpsBase, BpsBase - fee.basisPoints)
    IN  CASE postFeeAmount = 0 \/ fee.basisPoints = 0 -> postFeeAmount
          [] postFeeAmount # 0 /\ fee.basisPoints = BpsBase ->
                postFeeAmount + fee.maximumFee
          [] OTHER -> Least(rawPreFeeAmount, postFeeAmount + fee.maximumFee)

CalculateInverseFee(fee, postFeeAmount) ==
    CalculateFee(fee, CalculatePreFeeAmount(fee, postFeeAmount))

\* Mutant: the fee of the amount that arrives.
FeeOfWhatArrives(config, amount, epoch) ==
    amount + CalculateFee(GetEpochFee(config, epoch), amount)

\* What is to be sent for `amount` to arrive.
CalculateTransferFeeIncludedAmount(config, amount, epoch) ==
    LET fee == GetEpochFee(config, epoch)
    IN  IF amount = 0 THEN 0
        ELSE IF fee.basisPoints = BpsBase THEN amount + fee.maximumFee
        ELSE amount + CalculateInverseFee(fee, amount)

\* What arrives of `amount`.
CalculateTransferFeeExcludedAmount(config, amount, epoch) ==
    amount - CalculateFee(GetEpochFee(config, epoch), amount)
=============================================================================
