------------------------ MODULE PresaleInitialization ------------------------
(***************************************************************************)
(* How presales come to be: createProrataPresale, createFcfsPresale,       *)
(* createFixedPricePresale and closeFixedPricePresaleArgs (presale.ts      *)
(* 293-447) with their builders (instructions/initialize_presale/,         *)
(* close_fixed_price_args.ts), for one creator, one fee payer who pays for *)
(* every call, and one pair of mints.                                      *)
(*                                                                         *)
(* The price of a fixed price presale has an account of its own, which the *)
(* first instruction of the transaction makes and the second reads.  It    *)
(* outlives the transaction until its owner closes it.  Calls are made     *)
(* again with other terms, their transactions land in any order, or not at *)
(* all.  What the program demands of the terms is external: the error      *)
(* codes of the IDL name it, and the examples satisfy it.                  *)
(***************************************************************************)
EXTENDS AccountWrappers, SequencesExt

CONSTANTS
    Bases,      \* base keys: with the mints they determine the presale address
    Terms,      \* what a caller may ask for
    Funds,      \* base tokens that the fee payer has at first
    Wanted,     \* Wanted[b]: the terms the creator wants for base key b
    MaxSent,    \* bound of the transactions under way
    Absent,     \* an address without an account
    Refused     \* what a transaction that fails leaves

VARIABLES
    presales,   \* presales[b]: the presale account of a base key, or Absent
    extraArgs,  \* extraArgs[b]: its fixed price arguments, or Absent
    payerPresaleToken,  \* base tokens in the fee payer's account
    vaults,     \* vaults[b]: tokens in the presale's base_vault
    sent        \* calls whose transaction was built and has not landed

vars == <<presales, extraArgs, payerPresaleToken, vaults, sent>>
accounts == [presales |-> presales, extraArgs |-> extraArgs,
             payerPresaleToken |-> payerPresaleToken,
             vaults |-> vaults]

---------------------------------------------------------------------------
(* Calls *)

\* IPresaleArgs, ILockedVestingArgs and IPresaleRegistryArgs of a call.  A call
\* may leave the locked vesting out.
PresaleArgs ==
    [presaleMaximumCap : Nat, presaleMinimumCap : Nat, presaleStartTime : Nat,
     presaleEndTime : Nat, disableEarlierPresaleEndOnceCapReached : BOOLEAN]

LockedVestingArgs ==
    [immediateReleaseBps : 0..BpsBase, lockDuration : Nat, vestDuration : Nat,
     immediateReleaseTimestamp : Nat]

PresaleRegistryArgs ==
    [buyerMinimumDepositCap : Nat, buyerMaximumDepositCap : Nat,
     presaleSupply : Nat, depositFeeBps : 0..(BpsBase - 1)]

ASSUME TermsAssumption ==
    Terms \subseteq
        [presaleMode : PresaleMode, price : Nat, disableWithdraw : BOOLEAN,
         presaleArgs : PresaleArgs,
         lockedVestingArgs : LockedVestingArgs \cup {Absent},
         presaleRegistries : [RegistryIndex -> PresaleRegistryArgs]]
ASSUME WantedAssumption == Wanted \in [Bases -> Terms]
ASSUME BoundsAssumption == Funds \in Nat /\ MaxSent \in Nat
ASSUME BasesAssumption == IsFiniteSet(Bases)
ASSUME AbsentAssumption == Absent \notin PresaleAccounts

\* Creating a presale, its fixed price arguments alone (the builder is exported),
\* or closing these.
Calls ==
    [method : {"create"}, base : Bases, terms : Terms]
    \cup [method : {"createArgs"}, base : Bases,
          terms : {t \in Terms : t.presaleMode = "FixedPrice"}]
    \cup [method : {"closeArgs"}, base : Bases]

---------------------------------------------------------------------------
(* Builders *)

ToIdlLockedVestingParams(given) ==
    IF given = Absent THEN NoLockedVesting ELSE given

CreateInitializeFixedPricePresaleArgsIx(b, terms) ==
    [kind |-> "initializeFixedPricePresaleArgs", base |-> b,
     qPrice |-> terms.price, disableWithdraw |-> terms.disableWithdraw]

CreateInitializePresaleIx(b, terms) ==
    [kind |-> "initializePresale", base |-> b,
     presaleMode |-> terms.presaleMode, presaleParams |-> terms.presaleArgs,
     lockedVestingParams |-> ToIdlLockedVestingParams(terms.lockedVestingArgs),
     presaleRegistries |-> terms.presaleRegistries]

\* Mutant: an address that does not depend on the base key.
CloseArgsOfAnyBase(b) ==
    [kind |-> "closeFixedPricePresaleArgs",
     base |-> CHOOSE any \in Bases : TRUE]

CreateCloseFixedPriceArgsIx(b) ==
    [kind |-> "closeFixedPricePresaleArgs", base |-> b]

\* Mutant: arguments that are there are not made again.
CreateMissingArgsAndPresale(b, terms) ==
    IF terms.presaleMode = "FixedPrice" /\ extraArgs[b] = Absent
    THEN <<CreateInitializeFixedPricePresaleArgsIx(b, terms),
           CreateInitializePresaleIx(b, terms)>>
    ELSE <<CreateInitializePresaleIx(b, terms)>>

\* A fixed price presale brings its arguments in the same transaction.
CreatePresaleIxs(b, terms) ==
    IF terms.presaleMode = "FixedPrice"
    THEN <<CreateInitializeFixedPricePresaleArgsIx(b, terms),
           CreateInitializePresaleIx(b, terms)>>
    ELSE <<CreateInitializePresaleIx(b, terms)>>

Instructions(call) ==
    CASE call.method = "create" -> CreatePresaleIxs(call.base, call.terms)
      [] call.method = "createArgs" ->
            <<CreateInitializeFixedPricePresaleArgsIx(call.base, call.terms)>>
      [] call.method = "closeArgs" -> <<CreateCloseFixedPriceArgsIx(call.base)>>

---------------------------------------------------------------------------
(* The program *)

Supply(registries) ==
    SumFunction([i \in DOMAIN registries |-> registries[i].presaleSupply])

\* Mutant: the lock left out.
VestingStartsAtEnd(ix) == ix.presaleParams.presaleEndTime

VestingStartTime(ix) ==
    ix.presaleParams.presaleEndTime + ix.lockedVestingParams.lockDuration

\* The presale account after initialize_presale.  Without a price of its own the
\* account has 1 here, which nobody reads.
InitialPresale(ix, args) ==
    LET fixedPrice == ix.presaleMode = "FixedPrice"
        p == ix.presaleParams
        v == ix.lockedVestingParams
    IN  [presaleMode |-> ix.presaleMode,
         qPrice |-> IF fixedPrice THEN args.qPrice ELSE 1,
         disableWithdraw |-> fixedPrice /\ args.disableWithdraw,
         disableEarlierPresaleEndOnceCapReached |->
            p.disableEarlierPresaleEndOnceCapReached,
         presaleMaximumCap |-> p.presaleMaximumCap,
         presaleMinimumCap |-> p.presaleMinimumCap,
         presaleStartTime |-> p.presaleStartTime,
         presaleEndTime |-> p.presaleEndTime,
         lockDuration |-> v.lockDuration, vestDuration |-> v.vestDuration,
         vestingStartTime |-> VestingStartTime(ix),
         immediateReleaseBps |-> v.immediateReleaseBps,
         immediateReleaseTimestamp |-> v.immediateReleaseTimestamp,
         presaleSupply |-> Supply(ix.presaleRegistries),
         totalDeposit |-> 0, totalDepositFee |-> 0,
         hasCreatorWithdrawn |-> FALSE, depositFeeCollected |-> FALSE,
         isUnsoldTokenActionPerformed |-> FALSE,
         presaleRegistries |->
            [i \in RegistryIndex |->
                [presaleSupply |-> ix.presaleRegistries[i].presaleSupply,
                 buyerMinimumDepositCap |->
                    ix.presaleRegistries[i].buyerMinimumDepositCap,
                 buyerMaximumDepositCap |->
                    ix.presaleRegistries[i].buyerMaximumDepositCap,
                 depositFeeBps |-> ix.presaleRegistries[i].depositFeeBps,
                 totalDeposit |-> 0, totalDepositFee |-> 0]]]

\* invalidTokenSupply, invalidPresaleInfo, invalidTokenPrice,
\* invalidLockVestingInfo and invalidBuyerCapRange.
AcceptsTerms(ix) ==
    LET p == ix.presaleParams
        v == ix.lockedVestingParams
    IN  /\ Supply(ix.presaleRegistries) > 0
        /\ 0 < p.presaleMinimumCap /\ p.presaleMinimumCap <= p.presaleMaximumCap
        /\ p.presaleStartTime < p.presaleEndTime
        /\ v.immediateReleaseBps > 0
                => p.presaleEndTime <= v.immediateReleaseTimestamp
        /\ \A i \in RegistryIndex :
                ix.presaleRegistries[i].buyerMinimumDepositCap
                    <= ix.presaleRegistries[i].buyerMaximumDepositCap

\* Mutant: a presale that is there is made again.
CanInitializeAgain(s, ix) ==
    /\ AcceptsTerms(ix)
    /\ ix.presaleMode = "FixedPrice" => s.extraArgs[ix.base] # Absent
    /\ Supply(ix.presaleRegistries) <= s.payerPresaleToken

\* With missingPresaleExtraParams.
CanInitialize(s, ix) ==
    /\ s.presales[ix.base] = Absent
    /\ AcceptsTerms(ix)
    /\ ix.presaleMode = "FixedPrice" => s.extraArgs[ix.base] # Absent
    /\ Supply(ix.presaleRegistries) <= s.payerPresaleToken

\* What an instruction makes of the accounts s.
AfterInstruction(s, ix) ==
    CASE s = Refused -> Refused
      [] s # Refused /\ ix.kind = "initializeFixedPricePresaleArgs" ->
            IF s.extraArgs[ix.base] # Absent \/ ix.qPrice = 0 THEN Refused
            ELSE [s EXCEPT !.extraArgs[ix.base] =
                    [qPrice |-> ix.qPrice, disableWithdraw |-> ix.disableWithdraw]]
      [] s # Refused /\ ix.kind = "initializePresale" ->
            IF ~CanInitialize(s, ix) THEN Refused
            ELSE [s EXCEPT
                    !.presales[ix.base] = InitialPresale(ix, s.extraArgs[ix.base]),
                    !.payerPresaleToken = @ - Supply(ix.presaleRegistries),
                    !.vaults[ix.base] = @ + Supply(ix.presaleRegistries)]
      [] s # Refused /\ ix.kind = "closeFixedPricePresaleArgs" ->
            IF s.extraArgs[ix.base] = Absent THEN Refused
            ELSE [s EXCEPT !.extraArgs[ix.base] = Absent]

\* All the instructions of a transaction take effect, or none.
AfterInstructions(s, instructions) ==
    FoldLeft(AfterInstruction, s, instructions)

---------------------------------------------------------------------------
(* Behaviour *)

TypeOK ==
    /\ presales \in [Bases -> PresaleAccounts \cup {Absent}]
    /\ \A b \in Bases : extraArgs[b] # Absent => extraArgs[b].qPrice \in Nat \ {0}
    /\ payerPresaleToken \in Nat
    /\ vaults \in [Bases -> Nat]
    /\ Cardinality(sent) <= MaxSent
    /\ \A tx \in sent : tx.call \in Calls

Init ==
    /\ presales = [b \in Bases |-> Absent]
    /\ extraArgs = [b \in Bases |-> Absent]
    /\ payerPresaleToken = Funds
    /\ vaults = [b \in Bases |-> 0]
    /\ sent = {}

\* The creator calls a method, for the first time or again.
Call(call) ==
    /\ Cardinality(sent) < MaxSent
    /\ sent' = sent \cup {[call |-> call, instructions |-> Instructions(call)]}
    /\ UNCHANGED <<presales, extraArgs, payerPresaleToken, vaults>>

Land(tx) ==
    LET after == AfterInstructions(accounts, tx.instructions)
    IN  /\ after # Refused
        /\ presales' = after.presales
        /\ extraArgs' = after.extraArgs
        /\ payerPresaleToken' = after.payerPresaleToken
        /\ vaults' = after.vaults
        /\ sent' = sent \ {tx}

\* A transaction is refused, expires or is never sent.
Lapse(tx) ==
    /\ sent' = sent \ {tx}
    /\ UNCHANGED <<presales, extraArgs, payerPresaleToken, vaults>>

Next ==
    \/ \E call \in Calls : Call(call)
    \/ \E tx \in sent : Land(tx)
    \/ \E tx \in sent : Lapse(tx)

Spec == Init /\ [][Next]_vars

\* The creator goes on asking for the wanted presales, and for the closing of
\* arguments that were left.  A transaction lands or its blockhash expires, and
\* of those that could land not all are lost.
Persistent(call) ==
    /\ SF_vars(Call(call))
    /\ SF_vars(\E tx \in sent : tx.call = call /\ Land(tx))

Fairness ==
    /\ \A b \in Bases :
        /\ Persistent([method |-> "create", base |-> b, terms |-> Wanted[b]])
        /\ Persistent([method |-> "closeArgs", base |-> b])
    /\ WF_vars(\E tx \in sent : Lapse(tx))

FairSpec == Spec /\ Fairness

---------------------------------------------------------------------------
(* What must hold *)

\* What the ledger starts from is what these transactions leave: every presale is
\* one of PresalesAssumption, also one made of other arguments than were sent
\* with it.
InitializedIsFresh ==
    \A b \in Bases :
        presales[b] # Absent => presales[b] \in PresaleAccounts /\ IsFresh(presales[b])

\* The supply of a presale leaves the fee payer once, however often the creation is
\* called, and goes nowhere but to the vault of the presale.
SupplyTakenOnce ==
    /\ payerPresaleToken + SumFunction(vaults) = Funds
    /\ \A b \in Bases :
        vaults[b] = IF presales[b] = Absent THEN 0 ELSE presales[b].presaleSupply

AsCalled(p, terms) ==
    /\ p.presaleMode = terms.presaleMode
    /\ p.presaleMode = "FixedPrice" =>
            p.qPrice = terms.price /\ p.disableWithdraw = terms.disableWithdraw
    /\ IF terms.lockedVestingArgs = Absent
       THEN p.lockDuration + p.vestDuration + p.immediateReleaseBps = 0
       ELSE \A f \in DOMAIN terms.lockedVestingArgs : p[f] = terms.lockedVestingArgs[f]

\* A new presale has all its terms of one call: the price is not that of an
\* earlier call whose arguments were still there.
TermsOfOneCall ==
    [][\A b \in Bases : presales[b] = Absent /\ presales'[b] # Absent =>
        \E tx \in sent :
            /\ tx.call.method = "create" /\ tx.call.base = b
            /\ AsCalled(presales'[b], tx.call.terms)]_vars

\* Arguments that were made on their own, for whatever price, are in the way of
\* a fixed price presale but not for ever: a creator who closes them and calls
\* again gets a presale, unless they are always made anew.
CreatorGetsThePresale ==
    \A b \in Bases :
        <>[](\A tx \in sent : tx.call.method # "createArgs")
            => <>(presales[b] # Absent)
=============================================================================
