---------------------- MODULE MCPresaleInitialization ----------------------
(***************************************************************************)
(* Two base keys and four terms: a pro rata presale without lock, the same *)
(* fixed price presale at two prices, locked and vested, and at the price  *)
(* 0 that uiPriceToQPrice answers outside its range.                       *)
(***************************************************************************)
EXTENDS PresaleInitialization

TwoRegistries == {0, 1}

Registries(first, second) ==
    [i \in TwoRegistries |->
        [buyerMinimumDepositCap |-> 1, buyerMaximumDepositCap |-> 4,
         presaleSupply |-> IF i = 0 THEN first ELSE second, depositFeeBps |-> i]]

Args ==
    [presaleMaximumCap |-> 4, presaleMinimumCap |-> 2, presaleStartTime |-> 1,
     presaleEndTime |-> 2, disableEarlierPresaleEndOnceCapReached |-> FALSE]

Locked ==
    [immediateReleaseBps |-> 3, lockDuration |-> 1, vestDuration |-> 2,
     immediateReleaseTimestamp |-> 2]

FixedPriceTerms(price) ==
    [presaleMode |-> "FixedPrice", price |-> price,
     disableWithdraw |-> price = 5, presaleArgs |-> Args,
     lockedVestingArgs |-> Locked, presaleRegistries |-> Registries(2, 0)]

ProrataTerms ==
    [presaleMode |-> "Prorata", price |-> 0, disableWithdraw |-> FALSE,
     presaleArgs |-> Args, lockedVestingArgs |-> Absent,
     presaleRegistries |-> Registries(1, 2)]

AllTerms == {ProrataTerms} \cup {FixedPriceTerms(price) : price \in {0, 3, 5}}

TwoBases == {"first", "second"}
WantedTerms == [b \in TwoBases |-> FixedPriceTerms(3)]
=============================================================================
