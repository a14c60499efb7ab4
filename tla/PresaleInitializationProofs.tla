--------------------- MODULE PresaleInitializationProofs ---------------------
(***************************************************************************)
(* Whatever calls are made, in whatever order their transactions land: the *)
(* presales that come to be are those the ledger starts from, their supply *)
(* is taken once, and each has its terms of one call.                      *)
(***************************************************************************)
EXTENDS PresaleInitialization, PresaleMathProofs

---------------------------------------------------------------------------
(* A transaction of one or two instructions *)

LEMMA FoldOne ==
    ASSUME NEW s, NEW a
    PROVE  AfterInstructions(s, <<a>>) = AfterInstruction(s, a)
<1> DEFINE D == {1}
           pick(U) == Max(U)
           step(it) == [U \in SUBSET D |->
                IF U = {} THEN s
                ELSE AfterInstruction(it[U \ {pick(U)}], <<a>>[pick(U)])]
           iter == CHOOSE it : it = step(it)
           ours == [U \in SUBSET D |->
                IF U = {} THEN s ELSE AfterInstruction(s, a)]
<1>1. DOMAIN <<a>> = D
  OBVIOUS
<1>2. AfterInstructions(s, <<a>>) = iter[D]
  BY <1>1 DEF AfterInstructions, FoldLeft, MapThenFoldSet
<1>3. pick(D) = 1
  BY DEF Max
<1>4. /\ D \ {1} = {} /\ D # {} /\ D \in SUBSET D /\ {} \in SUBSET D
      /\ \A U \in SUBSET D : U = {} \/ U = D
  OBVIOUS
<1>5. <<a>>[1] = a
  OBVIOUS
<1> HIDE DEF pick, D
<1>6. ours[{}] = s /\ ours[D] = AfterInstruction(s, a)
  BY <1>4
<1>7. ours = step(ours)
  <2>1. ASSUME NEW U \in SUBSET D
        PROVE  ours[U] = IF U = {} THEN s
                         ELSE AfterInstruction(ours[U \ {pick(U)}], <<a>>[pick(U)])
    <3> HIDE DEF ours
    <3>1. CASE U = {}
      BY <1>6, <3>1
    <3>2. CASE U = D
      BY <1>3, <1>4, <1>5, <1>6, <3>2, Zenon
    <3> QED
      BY <1>4, <3>1, <3>2
  <2>2. ours = [U \in SUBSET D |-> ours[U]]
    OBVIOUS
  <2> HIDE DEF ours
  <2> QED
    BY <2>1, <2>2
<1>8. iter = step(iter)
  <2> HIDE DEF step, ours
  <2> QED
    BY <1>7
<1> HIDE DEF iter, ours
<1>9. \A U \in SUBSET D :
        iter[U] = IF U = {} THEN s
                  ELSE AfterInstruction(iter[U \ {pick(U)}], <<a>>[pick(U)])
  BY <1>8
<1>10. iter[{}] = s
  BY <1>4, <1>9
<1>11. iter[D] = AfterInstruction(iter[D \ {pick(D)}], <<a>>[pick(D)])
  BY <1>4, <1>9, Zenon
<1>12. iter[D] = AfterInstruction(s, a)
  BY <1>3, <1>4, <1>5, <1>10, <1>11, Zenon
<1> QED
  BY <1>2, <1>12

LEMMA FoldTwo ==
    ASSUME NEW s, NEW a, NEW b
    PROVE  AfterInstructions(s, <<a, b>>)
                = AfterInstruction(AfterInstruction(s, a), b)
<1> DEFINE D == {1, 2}
           One == {1}
           Two == {2}
           seq == <<a, b>>
           pick(U) == Max(U)
           step(it) == [U \in SUBSET D |->
                IF U = {} THEN s
                ELSE AfterInstruction(it[U \ {pick(U)}], seq[pick(U)])]
           iter == CHOOSE it : it = step(it)
           first == AfterInstruction(s, a)
           ours == [U \in SUBSET D |->
                IF U = {} THEN s
                ELSE IF U = One THEN first
                ELSE IF U = Two THEN AfterInstruction(s, b)
                ELSE AfterInstruction(first, b)]
<1>1. DOMAIN seq = D
  OBVIOUS
<1>2. AfterInstructions(s, seq) = iter[D]
  BY <1>1 DEF AfterInstructions, FoldLeft, MapThenFoldSet
<1>3. pick(One) = 1 /\ pick(Two) = 2 /\ pick(D) = 2
  BY DEF Max
<1>4. /\ One \ {1} = {} /\ Two \ {2} = {} /\ D \ {2} = One
      /\ One # Two /\ D # One /\ D # Two /\ One # {} /\ Two # {} /\ D # {}
      /\ One \in SUBSET D /\ Two \in SUBSET D /\ D \in SUBSET D /\ {} \in SUBSET D
      /\ \A U \in SUBSET D : U = {} \/ U = One \/ U = Two \/ U = D
  <2>1. One # Two /\ D # One /\ D # Two /\ One # {} /\ Two # {} /\ D # {}
    <3>1. 1 \in One /\ 2 \notin One /\ 2 \in Two /\ 1 \notin Two /\ 1 \in D /\ 2 \in D
      OBVIOUS
    <3> HIDE DEF One, Two, D
    <3> QED
      BY <3>1
  <2>2. One \ {1} = {} /\ Two \ {2} = {} /\ D \ {2} = One
    OBVIOUS
  <2>3. One \in SUBSET D /\ Two \in SUBSET D /\ D \in SUBSET D /\ {} \in SUBSET D
    OBVIOUS
  <2>4. ASSUME NEW U \in SUBSET D
        PROVE  U = {} \/ U = One \/ U = Two \/ U = D
    <3>1. CASE 1 \in U /\ 2 \in U
      BY <3>1
    <3>2. CASE 1 \in U /\ 2 \notin U
      BY <3>2
    <3>3. CASE 1 \notin U /\ 2 \in U
      BY <3>3
    <3>4. CASE 1 \notin U /\ 2 \notin U
      BY <3>4
    <3> QED
      BY <3>1, <3>2, <3>3, <3>4
  <2> QED
    BY <2>1, <2>2, <2>3, <2>4
<1>5. seq[1] = a /\ seq[2] = b
  OBVIOUS
<1> HIDE DEF pick, D, One, Two, seq, first
<1>6. /\ ours[{}] = s /\ ours[One] = first /\ ours[Two] = AfterInstruction(s, b)
      /\ ours[D] = AfterInstruction(first, b)
  BY <1>4
<1>7. ours = step(ours)
  <2>1. ASSUME NEW U \in SUBSET D
        PROVE  ours[U] = IF U = {} THEN s
                         ELSE AfterInstruction(ours[U \ {pick(U)}], seq[pick(U)])
    <3> HIDE DEF ours
    <3>1. CASE U = {}
      BY <1>6, <3>1
    <3>2. CASE U = One
      <4>1. U # {} /\ U \ {pick(U)} = {} /\ seq[pick(U)] = a
        BY <1>3, <1>4, <1>5, <3>2
      <4> QED
        BY <1>6, <3>2, <4>1 DEF first
    <3>3. CASE U = Two
      <4>1. U # {} /\ U \ {pick(U)} = {} /\ seq[pick(U)] = b
        BY <1>3, <1>4, <1>5, <3>3
      <4> QED
        BY <1>6, <3>3, <4>1 DEF first
    <3>4. CASE U = D
      BY <1>3, <1>4, <1>5, <1>6, <3>4, Zenon
    <3> QED
      BY <1>4, <3>1, <3>2, <3>3, <3>4
  <2>2. ours = [U \in SUBSET D |-> ours[U]]
    OBVIOUS
  <2> HIDE DEF ours
  <2> QED
    BY <2>1, <2>2
<1>8. iter = step(iter)
  <2> HIDE DEF step, ours
  <2> QED
    BY <1>7
<1> HIDE DEF iter, ours
<1>9. \A U \in SUBSET D :
        iter[U] = IF U = {} THEN s
                  ELSE AfterInstruction(iter[U \ {pick(U)}], seq[pick(U)])
  BY <1>8
<1>10. iter[{}] = s
  BY <1>4, <1>9
<1>11. iter[One] = first
  <2>1. iter[One] = AfterInstruction(iter[One \ {pick(One)}], seq[pick(One)])
    BY <1>4, <1>9, Zenon
  <2>2. One \ {pick(One)} = {} /\ seq[pick(One)] = a
    BY <1>3, <1>4, <1>5
  <2> QED
    BY <1>10, <2>1, <2>2 DEF first
<1>12. iter[D] = AfterInstruction(first, b)
  <2>1. iter[D] = AfterInstruction(iter[D \ {pick(D)}], seq[pick(D)])
    BY <1>4, <1>9, Zenon
  <2> QED
    BY <1>3, <1>4, <1>5, <1>11, <2>1, Zenon
<1> QED
  BY <1>2, <1>12 DEF seq, first
---------------------------------------------------------------------------
(* What one instruction makes of the accounts *)

ExtraArgs == [qPrice : Nat \ {0}, disableWithdraw : BOOLEAN]

AccountTypes ==
    [presales : [Bases -> PresaleAccounts \cup {Absent}],
     extraArgs : [Bases -> ExtraArgs \cup {Absent}],
     payerPresaleToken : Nat,
     vaults : [Bases -> Nat]]

\* Every presale is fresh, and its vault holds what was taken for it.
FreshPresales(s) ==
    \A b \in Bases : s.presales[b] # Absent => IsFresh(s.presales[b])

SupplyInVaults(s) ==
    /\ s.payerPresaleToken + SumFunction(s.vaults) = Funds
    /\ \A b \in Bases :
        s.vaults[b] = IF s.presales[b] = Absent THEN 0
                      ELSE s.presales[b].presaleSupply

Good(s) == s \in AccountTypes /\ FreshPresales(s) /\ SupplyInVaults(s)

\* The arguments of a presale are no part of what is good about the accounts.
LEMMA ArgsAreAside ==
    ASSUME NEW s, Good(s), NEW b \in Bases, NEW args \in ExtraArgs \cup {Absent}
    PROVE  LET t == [s EXCEPT !.extraArgs[b] = args]
           IN  Good(t) /\ t.presales = s.presales /\ t.extraArgs[b] = args
<1> DEFINE t == [s EXCEPT !.extraArgs[b] = args]
<1>1. s \in AccountTypes
  BY DEF Good
<1>2. /\ t.presales = s.presales /\ t.payerPresaleToken = s.payerPresaleToken /\ t.vaults = s.vaults
      /\ t.extraArgs = [s.extraArgs EXCEPT ![b] = args]
  BY <1>1 DEF AccountTypes
<1>3. t \in AccountTypes
  BY <1>1 DEF AccountTypes
<1>4. t.extraArgs[b] = args
  BY <1>1, <1>2 DEF AccountTypes
<1> HIDE DEF t
<1>5. FreshPresales(t)
  BY <1>2 DEF Good, FreshPresales
<1>6. SupplyInVaults(t)
  BY <1>2 DEF Good, SupplyInVaults
<1> QED
  BY <1>2, <1>3, <1>4, <1>5, <1>6 DEF Good, t

LEMMA ArgsMade ==
    ASSUME NEW s, Good(s), NEW b \in Bases, NEW terms \in Terms,
           AfterInstruction(s, CreateInitializeFixedPricePresaleArgsIx(b, terms))
                # Refused
    PROVE  LET t == AfterInstruction(s,
                        CreateInitializeFixedPricePresaleArgsIx(b, terms))
           IN  /\ Good(t) /\ t.presales = s.presales
               /\ t.extraArgs[b] = [qPrice |-> terms.price,
                                    disableWithdraw |-> terms.disableWithdraw]
<1> DEFINE ix == CreateInitializeFixedPricePresaleArgsIx(b, terms)
           args == [qPrice |-> terms.price, disableWithdraw |-> terms.disableWithdraw]
<1>1. /\ ix.kind = "initializeFixedPricePresaleArgs" /\ ix.base = b
      /\ ix.qPrice = terms.price /\ ix.disableWithdraw = terms.disableWithdraw
  BY DEF CreateInitializeFixedPricePresaleArgsIx
<1> HIDE DEF ix
<1>2. /\ ix.qPrice # 0
      /\ AfterInstruction(s, ix) = [s EXCEPT !.extraArgs[b] = args]
  BY <1>1 DEF AfterInstruction, ix
<1>3. args \in ExtraArgs
  BY <1>1, <1>2, TermsAssumption DEF ExtraArgs
<1> HIDE DEF args
<1> QED
  BY <1>2, <1>3, ArgsAreAside DEF ix, args

LEMMA ArgsClosed ==
    ASSUME NEW s, Good(s), NEW b \in Bases,
           AfterInstruction(s, CreateCloseFixedPriceArgsIx(b)) # Refused
    PROVE  LET t == AfterInstruction(s, CreateCloseFixedPriceArgsIx(b))
           IN  Good(t) /\ t.presales = s.presales
<1> DEFINE ix == CreateCloseFixedPriceArgsIx(b)
<1>1. ix.kind = "closeFixedPricePresaleArgs" /\ ix.base = b
  BY DEF CreateCloseFixedPriceArgsIx
<1> HIDE DEF ix
<1>2. AfterInstruction(s, ix) = [s EXCEPT !.extraArgs[b] = Absent]
  BY <1>1 DEF AfterInstruction, ix
<1> QED
  BY <1>2, ArgsAreAside DEF ix

---------------------------------------------------------------------------
(* A presale made *)

\* The terms of a call arrive in the instruction, the lock filled in.
LEMMA TermsArrive ==
    ASSUME NEW b \in Bases, NEW terms \in Terms
    PROVE  LET ix == CreateInitializePresaleIx(b, terms)
           IN  /\ ix.kind = "initializePresale" /\ ix.base = b
               /\ ix.presaleMode = terms.presaleMode /\ ix.presaleMode \in PresaleMode
               /\ ix.presaleParams = terms.presaleArgs
               /\ ix.presaleParams \in PresaleArgs
               /\ ix.lockedVestingParams
                    = ToIdlLockedVestingParams(terms.lockedVestingArgs)
               /\ ix.lockedVestingParams \in LockedVestingArgs
               /\ ix.presaleRegistries = terms.presaleRegistries
               /\ ix.presaleRegistries \in [RegistryIndex -> PresaleRegistryArgs]
<1>1. /\ terms.presaleMode \in PresaleMode /\ terms.presaleArgs \in PresaleArgs
      /\ terms.lockedVestingArgs \in LockedVestingArgs \cup {Absent}
      /\ terms.presaleRegistries \in [RegistryIndex -> PresaleRegistryArgs]
  BY TermsAssumption
<1>2. NoLockedVesting \in LockedVestingArgs
  BY BpsAssumption DEF NoLockedVesting, LockedVestingArgs
<1>3. ToIdlLockedVestingParams(terms.lockedVestingArgs) \in LockedVestingArgs
  BY <1>1, <1>2 DEF ToIdlLockedVestingParams
<1> QED
  BY <1>1, <1>3 DEF CreateInitializePresaleIx

\* The supply of a presale is a natural number.
LEMMA SupplyIsNat ==
    ASSUME NEW registries \in [RegistryIndex -> PresaleRegistryArgs]
    PROVE  /\ Supply(registries) \in Nat
           /\ Supply(registries)
                = SumFunction([i \in RegistryIndex |-> registries[i].presaleSupply])
<1> DEFINE supplies == [i \in RegistryIndex |-> registries[i].presaleSupply]
<1>1. supplies \in [RegistryIndex -> Nat]
  BY DEF PresaleRegistryArgs
<1>2. Supply(registries) = SumFunction(supplies)
  <2>1. DOMAIN registries = RegistryIndex
    OBVIOUS
  <2> QED
    BY <2>1 DEF Supply
<1> HIDE DEF supplies
<1>3. SumFunction(supplies) \in Nat
  BY <1>1, RegistryIndexAssumption, SumPart
<1> QED
  BY <1>2, <1>3 DEF supplies

\* What initialize_presale makes is a presale of the ledger, fresh, with the terms
\* of the instruction and the price of the arguments.
LEMMA MadeFresh ==
    ASSUME NEW b \in Bases, NEW terms \in Terms, NEW args,
           AcceptsTerms(CreateInitializePresaleIx(b, terms)),
           terms.presaleMode = "FixedPrice" => args \in ExtraArgs
    PROVE  LET ix == CreateInitializePresaleIx(b, terms)
               p == InitialPresale(ix, args)
           IN  /\ p \in PresaleAccounts /\ IsFresh(p)
               /\ p.presaleSupply = Supply(ix.presaleRegistries)
<1> DEFINE ix == CreateInitializePresaleIx(b, terms)
           p == InitialPresale(ix, args)
<1>1. /\ ix.presaleMode = terms.presaleMode /\ ix.presaleMode \in PresaleMode
      /\ ix.presaleParams \in PresaleArgs
      /\ ix.lockedVestingParams \in LockedVestingArgs
      /\ ix.presaleRegistries \in [RegistryIndex -> PresaleRegistryArgs]
      /\ AcceptsTerms(ix)
  BY TermsArrive
<1> HIDE DEF ix
<1> DEFINE registry(i) ==
                [presaleSupply |-> ix.presaleRegistries[i].presaleSupply,
                 buyerMinimumDepositCap |->
                    ix.presaleRegistries[i].buyerMinimumDepositCap,
                 buyerMaximumDepositCap |->
                    ix.presaleRegistries[i].buyerMaximumDepositCap,
                 depositFeeBps |-> ix.presaleRegistries[i].depositFeeBps,
                 totalDeposit |-> 0, totalDepositFee |-> 0]
           registries == [i \in RegistryIndex |-> registry(i)]
<1>2. ASSUME NEW i \in RegistryIndex
      PROVE  /\ registry(i) \in PresaleRegistry
             /\ registry(i).presaleSupply = ix.presaleRegistries[i].presaleSupply
             /\ registry(i).totalDeposit = 0 /\ registry(i).totalDepositFee = 0
  <2>1. ix.presaleRegistries[i] \in PresaleRegistryArgs
    BY <1>1
  <2> QED
    BY <2>1 DEF PresaleRegistryArgs, PresaleRegistry
<1>3. p.presaleRegistries = registries
  BY DEF InitialPresale
<1> HIDE DEF registry
<1>4. registries \in [RegistryIndex -> PresaleRegistry]
  BY <1>2
<1>5. Supply(ix.presaleRegistries) \in Nat
  BY <1>1, SupplyIsNat
<1>6. VestingStartTime(ix) \in Nat
  BY <1>1 DEF VestingStartTime, PresaleArgs, LockedVestingArgs
<1>7. /\ p.presaleMode = ix.presaleMode
      /\ p.presaleMaximumCap = ix.presaleParams.presaleMaximumCap
      /\ p.presaleMinimumCap = ix.presaleParams.presaleMinimumCap
      /\ p.presaleStartTime = ix.presaleParams.presaleStartTime
      /\ p.presaleEndTime = ix.presaleParams.presaleEndTime
      /\ p.lockDuration = ix.lockedVestingParams.lockDuration
      /\ p.vestingStartTime = VestingStartTime(ix)
      /\ p.immediateReleaseBps = ix.lockedVestingParams.immediateReleaseBps
      /\ p.immediateReleaseTimestamp
            = ix.lockedVestingParams.immediateReleaseTimestamp
      /\ p.presaleSupply = Supply(ix.presaleRegistries)
      /\ p.totalDeposit = 0 /\ p.totalDepositFee = 0
      /\ p.hasCreatorWithdrawn = FALSE /\ p.depositFeeCollected = FALSE
      /\ p.isUnsoldTokenActionPerformed = FALSE
  BY DEF InitialPresale
<1>8. p \in PresaleAccounts
  <2> HIDE DEF registries
  <2> DEFINE fixedPrice == ix.presaleMode = "FixedPrice"
             price == IF fixedPrice THEN args.qPrice ELSE 1
             noWithdraw == fixedPrice /\ args.disableWithdraw
  <2>1. price \in Nat \ {0} /\ noWithdraw \in BOOLEAN
    BY <1>1 DEF ExtraArgs
  <2> HIDE DEF price, noWithdraw
  <2>2. p = [presaleMode |-> ix.presaleMode,
             qPrice |-> price,
             disableWithdraw |-> noWithdraw,
             disableEarlierPresaleEndOnceCapReached |->
                ix.presaleParams.disableEarlierPresaleEndOnceCapReached,
             presaleMaximumCap |-> ix.presaleParams.presaleMaximumCap,
             presaleMinimumCap |-> ix.presaleParams.presaleMinimumCap,
             presaleStartTime |-> ix.presaleParams.presaleStartTime,
             presaleEndTime |-> ix.presaleParams.presaleEndTime,
             lockDuration |-> ix.lockedVestingParams.lockDuration,
             vestDuration |-> ix.lockedVestingParams.vestDuration,
             vestingStartTime |-> VestingStartTime(ix),
             immediateReleaseBps |-> ix.lockedVestingParams.immediateReleaseBps,
             immediateReleaseTimestamp |->
                ix.lockedVestingParams.immediateReleaseTimestamp,
             presaleSupply |-> Supply(ix.presaleRegistries),
             totalDeposit |-> 0, totalDepositFee |-> 0,
             hasCreatorWithdrawn |-> FALSE, depositFeeCollected |-> FALSE,
             isUnsoldTokenActionPerformed |-> FALSE,
             presaleRegistries |-> registries]
    BY Zenon DEF InitialPresale, price, noWithdraw, registries, registry
  <2> QED
    BY <1>1, <1>4, <1>5, <1>6, <2>1, <2>2
       DEF PresaleAccounts, PresaleArgs, LockedVestingArgs
<1>9. IsFresh(p)
  <2>1. Supply(ix.presaleRegistries)
            = SumFunction([i \in RegistryIndex |-> p.presaleRegistries[i].presaleSupply])
    <3>1. \A i \in RegistryIndex :
            p.presaleRegistries[i].presaleSupply = ix.presaleRegistries[i].presaleSupply
      BY <1>2, <1>3
    <3>2. [i \in RegistryIndex |-> p.presaleRegistries[i].presaleSupply]
            = [i \in RegistryIndex |-> ix.presaleRegistries[i].presaleSupply]
      BY <3>1, Zenon
    <3> QED
      BY <1>1, <3>2, SupplyIsNat
  <2>2. \A i \in RegistryIndex : /\ p.presaleRegistries[i].totalDeposit = 0
                                 /\ p.presaleRegistries[i].totalDepositFee = 0
    BY <1>2, <1>3
  <2> HIDE DEF p
  <2> QED
    BY <1>1, <1>7, <2>1, <2>2 DEF IsFresh, AcceptsTerms, VestingStartTime
<1> QED
  BY <1>7, <1>8, <1>9 DEF ix

\* It has the terms of the call, if the arguments are those of the call as well.
LEMMA MadeAsCalled ==
    ASSUME NEW b \in Bases, NEW terms \in Terms, NEW args,
           terms.presaleMode = "FixedPrice" =>
                args = [qPrice |-> terms.price,
                        disableWithdraw |-> terms.disableWithdraw]
    PROVE  AsCalled(InitialPresale(CreateInitializePresaleIx(b, terms), args), terms)
<1> DEFINE ix == CreateInitializePresaleIx(b, terms)
           p == InitialPresale(ix, args)
           given == terms.lockedVestingArgs
<1>1. /\ ix.presaleMode = terms.presaleMode
      /\ ix.lockedVestingParams = ToIdlLockedVestingParams(given)
      /\ ix.lockedVestingParams \in LockedVestingArgs
  BY TermsArrive
<1>2. terms.disableWithdraw \in BOOLEAN
  BY TermsAssumption
<1> HIDE DEF ix
<1>3. /\ p.presaleMode = ix.presaleMode
      /\ p.lockDuration = ix.lockedVestingParams.lockDuration
      /\ p.vestDuration = ix.lockedVestingParams.vestDuration
      /\ p.immediateReleaseBps = ix.lockedVestingParams.immediateReleaseBps
      /\ p.immediateReleaseTimestamp
            = ix.lockedVestingParams.immediateReleaseTimestamp
      /\ p.qPrice = IF ix.presaleMode = "FixedPrice" THEN args.qPrice ELSE 1
  BY DEF InitialPresale
<1>4. ASSUME p.presaleMode = "FixedPrice"
      PROVE  p.qPrice = terms.price /\ p.disableWithdraw = terms.disableWithdraw
  <2>1. ix.presaleMode = "FixedPrice"
    BY <1>3, <1>4
  <2>2. args.qPrice = terms.price /\ args.disableWithdraw = terms.disableWithdraw
    BY <1>1, <2>1
  <2>3. p.disableWithdraw = (ix.presaleMode = "FixedPrice" /\ args.disableWithdraw)
    BY Zenon DEF InitialPresale
  <2>4. p.disableWithdraw = terms.disableWithdraw
    BY <1>2, <2>1, <2>2, <2>3, Zenon
  <2> QED
    BY <1>3, <2>1, <2>2, <2>4
<1> HIDE DEF p
<1>5. CASE given = Absent
  <2>1. ix.lockedVestingParams = NoLockedVesting
    BY <1>1, <1>5 DEF ToIdlLockedVestingParams
  <2>2. p.lockDuration = 0 /\ p.vestDuration = 0 /\ p.immediateReleaseBps = 0
    BY <1>3, <2>1 DEF NoLockedVesting
  <2> QED
    BY <1>1, <1>3, <1>4, <1>5, <2>2 DEF AsCalled, p, ix
<1>6. CASE given # Absent
  <2>1. ix.lockedVestingParams = given /\ given \in LockedVestingArgs
    BY <1>1, <1>6 DEF ToIdlLockedVestingParams
  <2>2. DOMAIN given = {"immediateReleaseBps", "lockDuration", "vestDuration",
                        "immediateReleaseTimestamp"}
    BY <2>1 DEF LockedVestingArgs
  <2>3. \A f \in DOMAIN given : p[f] = given[f]
    BY <1>3, <2>1, <2>2
  <2> QED
    BY <1>1, <1>3, <1>4, <1>6, <2>3 DEF AsCalled, p, ix
<1> QED
  BY <1>5, <1>6

LEMMA PresaleMade ==
    ASSUME NEW s, Good(s), NEW b \in Bases, NEW terms \in Terms,
           AfterInstruction(s, CreateInitializePresaleIx(b, terms)) # Refused
    PROVE  LET ix == CreateInitializePresaleIx(b, terms)
               t == AfterInstruction(s, ix)
           IN  /\ Good(t)
               /\ t.presales
                    = [s.presales EXCEPT ![b] = InitialPresale(ix, s.extraArgs[b])]
<1> DEFINE ix == CreateInitializePresaleIx(b, terms)
           p == InitialPresale(ix, s.extraArgs[b])
           n == Supply(ix.presaleRegistries)
           t == AfterInstruction(s, ix)
<1>1. /\ ix.kind = "initializePresale" /\ ix.base = b
      /\ ix.presaleMode = terms.presaleMode
      /\ ix.presaleRegistries \in [RegistryIndex -> PresaleRegistryArgs]
  BY TermsArrive
<1>2. s \in AccountTypes /\ FreshPresales(s) /\ SupplyInVaults(s)
  BY DEF Good
<1> HIDE DEF ix
<1>3. CanInitialize(s, ix)
  BY <1>1 DEF AfterInstruction, ix
<1>4. n \in Nat
  BY <1>1, SupplyIsNat
<1>5. p \in PresaleAccounts /\ IsFresh(p) /\ p.presaleSupply = n
  <2>1. AcceptsTerms(ix)
    BY <1>3 DEF CanInitialize
  <2>2. terms.presaleMode = "FixedPrice" => s.extraArgs[b] \in ExtraArgs
    BY <1>1, <1>2, <1>3 DEF CanInitialize, AccountTypes
  <2> QED
    BY <2>1, <2>2, MadeFresh DEF ix
<1> HIDE DEF p, n
<1>6. t = [s EXCEPT !.presales[b] = p, !.payerPresaleToken = @ - n, !.vaults[b] = @ + n]
  BY <1>1, <1>3, Zenon DEF AfterInstruction, ix, p, n
<1>7. /\ t.presales = [s.presales EXCEPT ![b] = p]
      /\ t.extraArgs = s.extraArgs
      /\ t.payerPresaleToken = s.payerPresaleToken - n
      /\ t.vaults = [s.vaults EXCEPT ![b] = s.vaults[b] + n]
      /\ t = [presales |-> t.presales, extraArgs |-> t.extraArgs,
              payerPresaleToken |-> t.payerPresaleToken, vaults |-> t.vaults]
  <2> HIDE DEF t
  <2>1. s = [presales |-> s.presales, extraArgs |-> s.extraArgs,
             payerPresaleToken |-> s.payerPresaleToken, vaults |-> s.vaults]
    BY <1>2 DEF AccountTypes
  <2>2. s.vaults \in [Bases -> Nat] /\ s.presales \in [Bases -> PresaleAccounts \cup {Absent}]
    BY <1>2 DEF AccountTypes
  <2> QED
    BY <1>6, <2>1, <2>2
<1> HIDE DEF t
<1>8. /\ s.presales[b] = Absent /\ n <= s.payerPresaleToken /\ s.payerPresaleToken \in Nat
      /\ s.vaults \in [Bases -> Nat] /\ s.vaults[b] = 0
  BY <1>1, <1>2, <1>3 DEF CanInitialize, AccountTypes, SupplyInVaults, n
<1>9. t \in AccountTypes
  <2>1. t.presales \in [Bases -> PresaleAccounts \cup {Absent}]
    BY <1>2, <1>5, <1>7 DEF AccountTypes
  <2>2. t.extraArgs \in [Bases -> ExtraArgs \cup {Absent}]
    BY <1>2, <1>7 DEF AccountTypes
  <2>3. t.payerPresaleToken \in Nat /\ t.vaults \in [Bases -> Nat]
    BY <1>4, <1>7, <1>8
  <2> QED
    BY <1>7, <2>1, <2>2, <2>3 DEF AccountTypes
<1>10. \A c \in Bases : t.presales[c] = IF c = b THEN p ELSE s.presales[c]
  BY <1>2, <1>7 DEF AccountTypes
<1>11. FreshPresales(t)
  BY <1>2, <1>5, <1>10 DEF FreshPresales
<1>12. SupplyInVaults(t)
  <2>1. \A c \in Bases : t.vaults[c] = IF c = b THEN n ELSE s.vaults[c]
    BY <1>4, <1>7, <1>8
  <2>2. SumFunction(t.vaults) = SumFunction(s.vaults) + (t.vaults[b] - s.vaults[b])
    <3>1. s.vaults \in [Bases -> Int] /\ t.vaults \in [Bases -> Int]
      BY <1>8, <1>9 DEF AccountTypes
    <3>2. \A c \in Bases : c # b => t.vaults[c] = s.vaults[c]
      BY <2>1
    <3> QED
      BY <3>1, <3>2, BasesAssumption, SumChange
  <2>3. SumFunction(s.vaults) \in Int
    <3>1. s.vaults \in [Bases -> Int]
      BY <1>8
    <3> QED
      BY <3>1, BasesAssumption, SumInt
  <2>4. t.vaults[b] - s.vaults[b] = n
    BY <1>4, <1>8, <2>1
  <2>5. t.payerPresaleToken + SumFunction(t.vaults) = Funds
    BY <1>2, <1>4, <1>7, <1>8, <2>2, <2>3, <2>4 DEF SupplyInVaults
  <2>6. p # Absent
    BY <1>5, AbsentAssumption
  <2>7. \A c \in Bases : t.vaults[c] = IF t.presales[c] = Absent THEN 0
                                       ELSE t.presales[c].presaleSupply
    BY <1>2, <1>5, <1>10, <2>1, <2>6 DEF SupplyInVaults
  <2> QED
    BY <2>5, <2>7 DEF SupplyInVaults
<1> QED
  BY <1>7, <1>9, <1>11, <1>12 DEF Good, t, ix, p

---------------------------------------------------------------------------
(* A transaction landed *)

\* Whatever call a transaction was built for: where it lands the accounts stay
\* good, and a presale is made only by the creation of that base key, of its terms.
LEMMA Landing ==
    ASSUME NEW s, Good(s), NEW call \in Calls,
           AfterInstructions(s, Instructions(call)) # Refused
    PROVE  LET t == AfterInstructions(s, Instructions(call))
           IN  /\ Good(t)
               /\ \A b \in Bases :
                    \/ t.presales[b] = s.presales[b]
                    \/ /\ call.method = "create" /\ call.base = b
                       /\ AsCalled(t.presales[b], call.terms)
<1> DEFINE t == AfterInstructions(s, Instructions(call))
<1>1. CASE call.method = "create"
  <2> DEFINE base == call.base
             terms == call.terms
             argsIx == CreateInitializeFixedPricePresaleArgsIx(base, terms)
             presaleIx == CreateInitializePresaleIx(base, terms)
  <2>1. base \in Bases /\ terms \in Terms
    BY <1>1 DEF Calls
  <2>2. Instructions(call) = CreatePresaleIxs(base, terms)
    BY <1>1 DEF Instructions
  <2> HIDE DEF base, terms
  <2>3. CASE terms.presaleMode = "FixedPrice"
    <3> DEFINE u == AfterInstruction(s, argsIx)
               args == u.extraArgs[base]
    <3>1. Instructions(call) = <<argsIx, presaleIx>>
      BY <2>2, <2>3 DEF CreatePresaleIxs
    <3> HIDE DEF argsIx, presaleIx
    <3>2. t = AfterInstruction(u, presaleIx)
      BY <3>1, FoldTwo
    <3>3. u # Refused
      BY <3>2 DEF AfterInstruction
    <3>4. /\ Good(u) /\ u.presales = s.presales
          /\ args = [qPrice |-> terms.price, disableWithdraw |-> terms.disableWithdraw]
      BY <2>1, <3>3, ArgsMade DEF argsIx
    <3> HIDE DEF u
    <3>5. /\ Good(t)
          /\ t.presales = [u.presales EXCEPT ![base] = InitialPresale(presaleIx, args)]
      <4>1. AfterInstruction(u, presaleIx) # Refused
        BY <3>2
      <4> QED
        BY <2>1, <3>2, <3>4, <4>1, PresaleMade DEF presaleIx
    <3> HIDE DEF t, args
    <3>6. AsCalled(InitialPresale(presaleIx, args), terms)
      BY <2>1, <3>4, MadeAsCalled DEF presaleIx
    <3>7. \A b \in Bases :
            t.presales[b] = IF b = base THEN InitialPresale(presaleIx, args)
                            ELSE s.presales[b]
      BY <3>4, <3>5 DEF Good, AccountTypes
    <3> QED
      BY <1>1, <3>5, <3>6, <3>7 DEF t, base, terms
  <2>4. CASE terms.presaleMode # "FixedPrice"
    <3> DEFINE args == s.extraArgs[base]
    <3>1. Instructions(call) = <<presaleIx>>
      BY <2>2, <2>4 DEF CreatePresaleIxs
    <3> HIDE DEF presaleIx
    <3>2. t = AfterInstruction(s, presaleIx)
      BY <3>1, FoldOne
    <3>3. /\ Good(t)
          /\ t.presales = [s.presales EXCEPT ![base] = InitialPresale(presaleIx, args)]
      <4>1. AfterInstruction(s, presaleIx) # Refused
        BY <3>2
      <4> QED
        BY <2>1, <3>2, <4>1, PresaleMade DEF presaleIx
    <3> HIDE DEF t, args
    <3>4. AsCalled(InitialPresale(presaleIx, args), terms)
      BY <2>1, <2>4, MadeAsCalled DEF presaleIx
    <3>5. \A b \in Bases :
            t.presales[b] = IF b = base THEN InitialPresale(presaleIx, args)
                            ELSE s.presales[b]
      BY <3>3 DEF Good, AccountTypes
    <3> QED
      BY <1>1, <3>3, <3>4, <3>5 DEF t, base, terms
  <2> QED
    BY <2>3, <2>4
<1>2. CASE call.method = "createArgs"
  <2> DEFINE argsIx ==
                CreateInitializeFixedPricePresaleArgsIx(call.base, call.terms)
  <2>1. call.base \in Bases /\ call.terms \in Terms
    BY <1>2 DEF Calls
  <2>2. Instructions(call) = <<argsIx>>
    BY <1>2 DEF Instructions
  <2>3. t = AfterInstruction(s, argsIx)
    BY <2>2, FoldOne
  <2>4. AfterInstruction(s, argsIx) # Refused
    BY <2>3
  <2>5. Good(AfterInstruction(s, argsIx))
        /\ AfterInstruction(s, argsIx).presales = s.presales
    BY <2>1, <2>4, ArgsMade, Zenon
  <2> QED
    BY <2>3, <2>5
<1>3. CASE call.method = "closeArgs"
  <2>1. call.base \in Bases
    BY <1>3 DEF Calls
  <2>2. Instructions(call) = <<CreateCloseFixedPriceArgsIx(call.base)>>
    BY <1>3 DEF Instructions
  <2>3. t = AfterInstruction(s, CreateCloseFixedPriceArgsIx(call.base))
    BY <2>2, FoldOne
  <2> QED
    BY <2>1, <2>3, ArgsClosed
<1>4. call.method \in {"create", "createArgs", "closeArgs"}
  BY DEF Calls
<1> QED
  BY <1>1, <1>2, <1>3, <1>4

---------------------------------------------------------------------------
(* The invariant *)

\* What is under way was built from its call: nothing of it is read again from
\* the accounts, which may have changed since.
SentAsBuilt ==
    /\ IsFiniteSet(sent) /\ Cardinality(sent) <= MaxSent
    /\ \A tx \in sent : tx.call \in Calls /\ tx.instructions = Instructions(tx.call)

GoodAccounts == Good(accounts)

Inv == GoodAccounts /\ SentAsBuilt

\* Good accounts, said of the variables.
LEMMA GoodMeans ==
    GoodAccounts <=>
        /\ presales \in [Bases -> PresaleAccounts \cup {Absent}]
        /\ extraArgs \in [Bases -> ExtraArgs \cup {Absent}]
        /\ payerPresaleToken \in Nat
        /\ vaults \in [Bases -> Nat]
        /\ \A b \in Bases : presales[b] # Absent => IsFresh(presales[b])
        /\ SupplyTakenOnce
<1>1. /\ accounts.presales = presales /\ accounts.extraArgs = extraArgs
      /\ accounts.payerPresaleToken = payerPresaleToken /\ accounts.vaults = vaults
  BY DEF accounts
<1>2. accounts \in AccountTypes <=>
        /\ presales \in [Bases -> PresaleAccounts \cup {Absent}]
        /\ extraArgs \in [Bases -> ExtraArgs \cup {Absent}]
        /\ payerPresaleToken \in Nat
        /\ vaults \in [Bases -> Nat]
  BY DEF accounts, AccountTypes
<1>3. FreshPresales(accounts)
        <=> \A b \in Bases : presales[b] # Absent => IsFresh(presales[b])
  BY <1>1 DEF FreshPresales
<1>4. SupplyInVaults(accounts) <=> SupplyTakenOnce
  BY <1>1 DEF SupplyInVaults, SupplyTakenOnce
<1> QED
  BY <1>2, <1>3, <1>4 DEF GoodAccounts, Good

LEMMA InvInit == Init => Inv
<1> SUFFICES ASSUME Init PROVE Inv
  OBVIOUS
<1>1. SentAsBuilt
  BY FS_EmptySet, BoundsAssumption DEF Init, SentAsBuilt
<1>2. SumFunction(vaults) = 0
  <2>1. vaults \in [Bases -> Int] /\ \A b \in Bases : vaults[b] = 0
    BY DEF Init
  <2> QED
    BY <2>1, BasesAssumption, SumZero
<1>3. SupplyTakenOnce
  BY <1>2, BoundsAssumption DEF Init, SupplyTakenOnce
<1>4. GoodAccounts
  BY <1>3, BoundsAssumption, GoodMeans DEF Init
<1> QED
  BY <1>1, <1>4 DEF Inv

\* Calls and lapses leave the accounts alone.
LEMMA AccountsStay ==
    GoodAccounts /\ UNCHANGED <<presales, extraArgs, payerPresaleToken, vaults>>
        => GoodAccounts'
  BY DEF GoodAccounts, accounts, Good, FreshPresales, SupplyInVaults

LEMMA LandingStep ==
    ASSUME Inv, NEW tx \in sent, Land(tx)
    PROVE  /\ GoodAccounts'
           /\ \A b \in Bases :
                \/ presales'[b] = presales[b]
                \/ /\ tx.call.method = "create" /\ tx.call.base = b
                   /\ AsCalled(presales'[b], tx.call.terms)
<1> DEFINE after == AfterInstructions(accounts, tx.instructions)
<1>1. /\ after # Refused
      /\ presales' = after.presales /\ extraArgs' = after.extraArgs
      /\ payerPresaleToken' = after.payerPresaleToken /\ vaults' = after.vaults
  BY DEF Land
<1>2. tx.call \in Calls /\ tx.instructions = Instructions(tx.call) /\ Good(accounts)
  BY DEF Inv, SentAsBuilt, GoodAccounts
<1>3. /\ Good(after)
      /\ \A b \in Bases :
            \/ after.presales[b] = accounts.presales[b]
            \/ /\ tx.call.method = "create" /\ tx.call.base = b
               /\ AsCalled(after.presales[b], tx.call.terms)
  BY <1>1, <1>2, Landing
<1> HIDE DEF after
<1>4. accounts' = after
  BY <1>1, <1>3 DEF accounts, Good, AccountTypes
<1>5. GoodAccounts'
  BY <1>3, <1>4 DEF GoodAccounts
<1>6. accounts.presales = presales
  BY DEF accounts
<1> QED
  BY <1>1, <1>3, <1>5, <1>6

LEMMA InvNext == Inv /\ [Next]_vars => Inv'
<1> SUFFICES ASSUME Inv, [Next]_vars PROVE Inv'
  OBVIOUS
<1>1. GoodAccounts /\ SentAsBuilt
  BY DEF Inv
<1>2. ASSUME NEW call \in Calls, Call(call)
      PROVE  Inv'
  <2>1. GoodAccounts'
    BY <1>1, <1>2, AccountsStay DEF Call
  <2> DEFINE new == [call |-> call, instructions |-> Instructions(call)]
  <2>2. new.call \in Calls /\ new.instructions = Instructions(new.call)
    OBVIOUS
  <2> HIDE DEF new
  <2>3. sent' = sent \cup {new} /\ Cardinality(sent) < MaxSent
    BY <1>2 DEF Call, new
  <2>4. IsFiniteSet(sent') /\ Cardinality(sent') <= MaxSent
    BY <1>1, <2>3, FS_AddElement, FS_CardinalityType, BoundsAssumption DEF SentAsBuilt
  <2>5. SentAsBuilt'
    BY <1>1, <2>2, <2>3, <2>4 DEF SentAsBuilt
  <2> QED
    BY <2>1, <2>5 DEF Inv
<1>3. ASSUME NEW tx \in sent, sent' = sent \ {tx}
      PROVE  SentAsBuilt'
  <2>1. IsFiniteSet(sent) /\ Cardinality(sent) \in Nat /\ Cardinality(sent) <= MaxSent
    BY <1>1, FS_CardinalityType DEF SentAsBuilt
  <2>2. IsFiniteSet(sent') /\ Cardinality(sent') = Cardinality(sent) - 1
    BY <1>3, <2>1, FS_RemoveElement
  <2>3. Cardinality(sent') <= MaxSent
    BY <2>1, <2>2, BoundsAssumption
  <2> QED
    BY <1>1, <1>3, <2>2, <2>3 DEF SentAsBuilt
<1>4. ASSUME NEW tx \in sent, Land(tx)
      PROVE  Inv'
  BY <1>3, <1>4, LandingStep DEF Inv, Land
<1>5. ASSUME NEW tx \in sent, Lapse(tx)
      PROVE  Inv'
  BY <1>1, <1>3, <1>5, AccountsStay DEF Inv, Lapse
<1>6. CASE UNCHANGED vars
  <2>1. GoodAccounts'
    BY <1>1, <1>6, AccountsStay DEF vars
  <2> QED
    BY <1>1, <1>6, <2>1 DEF vars, Inv, SentAsBuilt
<1> QED
  BY <1>2, <1>4, <1>5, <1>6 DEF Next

THEOREM InvInvariant == Spec => []Inv
  BY InvInit, InvNext, PTL DEF Spec

---------------------------------------------------------------------------
(* The theorems *)

\* The accounts and the transactions under way have their types.
THEOREM TypesKept == Spec => []TypeOK
<1>1. Inv => TypeOK
  <2> SUFFICES ASSUME Inv PROVE TypeOK
    OBVIOUS
  <2>1. \A b \in Bases : extraArgs[b] # Absent => extraArgs[b].qPrice \in Nat \ {0}
    BY GoodMeans DEF Inv, ExtraArgs
  <2> QED
    BY <2>1, GoodMeans DEF Inv, SentAsBuilt, TypeOK
<1> QED
  BY <1>1, InvInvariant, PTL

\* Every presale that comes to be (initialize_presale, behind
\* createProrataPresale, createFcfsPresale and createFixedPricePresale) is one that
\* the ledger's PresalesAssumption asks for, also one made of other arguments than
\* were sent with it.
THEOREM InitializedIsFreshTheorem == Spec => []InitializedIsFresh
<1>1. Inv => InitializedIsFresh
  BY GoodMeans DEF Inv, InitializedIsFresh
<1> QED
  BY <1>1, InvInvariant, PTL

\* The supply of a presale leaves the fee payer once, however often the creation is
\* called and in whatever order the transactions land, and all of it is in the
\* presale's base_vault.
THEOREM SupplyTakenOnceTheorem == Spec => []SupplyTakenOnce
<1>1. Inv => SupplyTakenOnce
  BY GoodMeans DEF Inv
<1> QED
  BY <1>1, InvInvariant, PTL

\* A new presale has price, lock and vesting of one call of createProrataPresale,
\* createFcfsPresale or createFixedPricePresale, for its base key: arguments left by
\* another call refuse the transaction that brings its own.
THEOREM TermsOfOneCallTheorem == Spec => TermsOfOneCall
<1>1. Inv /\ [Next]_vars =>
        \A b \in Bases : presales[b] = Absent /\ presales'[b] # Absent =>
            \E tx \in sent :
                /\ tx.call.method = "create" /\ tx.call.base = b
                /\ AsCalled(presales'[b], tx.call.terms)
  <2> SUFFICES ASSUME Inv, [Next]_vars, NEW b \in Bases,
                      presales[b] = Absent, presales'[b] # Absent
               PROVE  \E tx \in sent :
                        /\ tx.call.method = "create" /\ tx.call.base = b
                        /\ AsCalled(presales'[b], tx.call.terms)
    OBVIOUS
  <2>1. presales' # presales
    OBVIOUS
  <2>2. PICK tx \in sent : Land(tx)
    BY <2>1 DEF Next, vars, Call, Lapse
  <2> QED
    BY <2>2, LandingStep
<1>2. Inv /\ [Next]_vars =>
        [\A b \in Bases : presales[b] = Absent /\ presales'[b] # Absent =>
            \E tx \in sent :
                /\ tx.call.method = "create" /\ tx.call.base = b
                /\ AsCalled(presales'[b], tx.call.terms)]_vars
  BY <1>1
<1> QED
  BY <1>2, InvInvariant, PTL DEF Spec, TermsOfOneCall
=============================================================================
