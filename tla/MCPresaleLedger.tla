--------------------------- MODULE MCPresaleLedger ---------------------------
(***************************************************************************)
(* Small presales for TLC.  Scale = 4 and BpsBase = 10 keep every rounding *)
(* of the code: prices below and above one quote lamport per base lamport, *)
(* fees and release shares that do not divide the amounts.                 *)
(***************************************************************************)
EXTENDS LedgerRefinement, TLC

Registry(supply, min, max, feeBps) ==
    [presaleSupply |-> supply, totalDeposit |-> 0, totalDepositFee |-> 0,
     buyerMinimumDepositCap |-> min, buyerMaximumDepositCap |-> max,
     depositFeeBps |-> feeBps]

\* Locked from the end of the presale, 2, to 3, vested until 5.
Vesting ==
    LET d == LockAndVestDuration(2, 3, 5)
    IN  [lockDuration |-> d.lockDuration, vestDuration |-> d.vestDuration,
         immediateReleaseBps |-> 3, immediateReleaseTimestamp |-> 2]

WithVesting(p, v) ==
    [p EXCEPT !.lockDuration = v.lockDuration, !.vestDuration = v.vestDuration,
              !.vestingStartTime = p.presaleEndTime + v.lockDuration,
              !.immediateReleaseBps = v.immediateReleaseBps,
              !.immediateReleaseTimestamp = v.immediateReleaseTimestamp]

\* A presale over the given registries, open for the second 1.
APresale(mode, qPrice, cap, minCap, registries) ==
    [presaleMode |-> mode, qPrice |-> qPrice,
     disableWithdraw |-> FALSE,
     disableEarlierPresaleEndOnceCapReached |-> FALSE,
     presaleMaximumCap |-> cap, presaleMinimumCap |-> minCap,
     presaleStartTime |-> 1, presaleEndTime |-> 2,
     lockDuration |-> Vesting.lockDuration, vestDuration |-> Vesting.vestDuration,
     vestingStartTime |-> 2 + Vesting.lockDuration,
     immediateReleaseBps |-> Vesting.immediateReleaseBps,
     immediateReleaseTimestamp |-> Vesting.immediateReleaseTimestamp,
     presaleSupply |->
        SumFunction([i \in RegistryIndex |-> registries[i].presaleSupply]),
     totalDeposit |-> 0, totalDepositFee |-> 0,
     hasCreatorWithdrawn |-> FALSE, depositFeeCollected |-> FALSE,
     isUnsoldTokenActionPerformed |-> FALSE,
     presaleRegistries |-> registries]

TwoRegistries == {0, 1}

Pair(r, s) == [i \in TwoRegistries |-> IF i = 0 THEN r ELSE s]
Unused == Registry(0, 0, 0, 0)
Single(r) == Pair(r, Unused)

\* Fixed price: 3/4, 5/4 and 11/4 of a quote lamport per base lamport, with early
\* end, without it, without withdrawal, without vesting, with a cap above what
\* the supply costs.
FixedPricePresales ==
    LET cheap == APresale("FixedPrice", 3, 4, 2, Single(Registry(6, 1, 4, 3)))
        dear == APresale("FixedPrice", 5, 5, 3, Single(Registry(4, 2, 4, 1)))
    IN  {cheap, dear, WithVesting(cheap, NoLockedVesting),
         APresale("FixedPrice", 11, 30, 2, Single(Registry(5, 1, 15, 0))),
         [cheap EXCEPT !.disableEarlierPresaleEndOnceCapReached = TRUE],
         [dear EXCEPT !.disableWithdraw = TRUE, !.vestDuration = 0]}

FcfsPresales ==
    {APresale("Fcfs", 1, 4, 2, Single(Registry(7, 1, 3, 3))),
     [APresale("Fcfs", 1, 3, 3, Single(Registry(5, 1, 2, 0)))
        EXCEPT !.disableEarlierPresaleEndOnceCapReached = TRUE]}

\* Pro rata: a cap small enough to be oversubscribed, a minimum high enough to
\* fail.
ProrataPresales ==
    {APresale("Prorata", 1, 3, 3, Single(Registry(7, 1, 4, 3)))}

\* A surplus of nearly everything: the fees on it are divided by the deposits,
\* whoever paid them.
PooledFeePresales ==
    {WithVesting(APresale("Prorata", 1, 1, 1, Single(Registry(1, 1, 6, 1))),
                 NoLockedVesting)}

\* Two registries with different fees, supplies and caps.
TwoRegistryPresales ==
    {APresale("Prorata", 1, 2, 2, Pair(Registry(3, 1, 3, 0), Registry(4, 1, 2, 4))),
     APresale("FixedPrice", 3, 3, 2, Pair(Registry(3, 1, 2, 0), Registry(2, 1, 2, 3)))}

\* Two fixed price registries released at once when the lock ends.
NoVestingPresales ==
    {[APresale("FixedPrice", 3, 9, 2, Pair(Registry(6, 1, 5, 0), Registry(6, 1, 5, 0)))
        EXCEPT !.immediateReleaseBps = 0, !.vestDuration = 0]}

AllPresales ==
    FixedPricePresales \cup FcfsPresales \cup ProrataPresales
    \cup PooledFeePresales
    \cup TwoRegistryPresales

Symmetry == Permutations(Owners)
=============================================================================
