-------------------------- MODULE PresaleReadsProofs --------------------------
(***************************************************************************)
(* What a client of the SDK reads of the ledger.  A Presale object and its *)
(* ledger, for any buyers, presales and callers: every step of theirs is a *)
(* step of the ledger, the ledger's invariant holds, and what has been     *)
(* read of it and not yet used is still good for what the object concludes *)
(* from it.  A listing: it pairs every account with the address it was     *)
(* read from and misses none that was there all the time, for every number *)
(* of buyers and registries, every chunk size, and whatever the ledger     *)
(* does meanwhile.                                                         *)
(***************************************************************************)
EXTENDS PresaleClient, EscrowListing, SequenceTheorems, PresaleLedgerProofs

---------------------------------------------------------------------------
(* A Presale object: the invariant *)

\* A snapshot s is not from the future of the presale p at time t; if the
\* outcome was decided in it, it is the outcome of p.
RightlyRead(s, p, t) ==
    /\ s.readAt <= t
    /\ DecidedWhenRead(s) =>
          PresaleProgressState(s.account, s.readAt) = PresaleProgressState(p, t)

\* The fees of the registries in a snapshot are those of the presale.
FeesRead(s, p) ==
    \A i \in RegistryIndex :
        s.account.presaleRegistries[i].depositFeeBps
            = p.presaleRegistries[i].depositFeeBps

\* An escrow is part of its registry in the presale of the same moment.
PartOf(p, e) ==
    /\ e.totalDeposit <= EscrowRegistry(p, e).totalDeposit
    /\ e.totalDepositFee <= EscrowRegistry(p, e).totalDepositFee

\* What is known of a call.
CallRight(call, p, t) ==
    /\ call.kind \in {"refetch", "escrows", "creatorWithdraw"} =>
            RightlyRead(call.read, p, t)
    /\ call.kind \in {"refetch", "escrows"} => FeesRead(call.read, p)
    /\ call.kind = "escrows" =>
            \A e \in call.found : PartOf(call.read.account, e)
    /\ call.kind = "creatorWithdraw" /\ DecidedWhenRead(call.read) =>
            call.isBaseToken = (PresaleProgressState(p, t) = "Failed")
    /\ call.kind = "deposit" =>
            call.wrapped = CalculateDepositFeeIncludedAmount(call.amount,
                p.presaleRegistries[call.key[2]].depositFeeBps, "Up")

ClientInv ==
    /\ LedgerInv
    /\ ClientTypeOK
    /\ RightlyRead(cache, presale, clock)
    /\ FeesRead(cache, presale)
    /\ \A c \in Callers : calls[c] # Idle => CallRight(calls[c], presale, clock)
    /\ \A w \in view : PartOf(w.read.account, w.escrow)

---------------------------------------------------------------------------
(* The steps of the client are steps of the ledger *)

\* What a pending call is made of.
LEMMA CallTypes ==
    ASSUME ClientTypeOK, NEW c \in Callers, calls[c] # Idle
    PROVE  /\ calls[c] \in PendingCalls
           /\ InCall(c, "refetch") =>
                 calls[c] \in [kind : {"refetch"}, read : Snapshots]
           /\ InCall(c, "escrows") =>
                 calls[c] \in [kind : {"escrows"}, read : Snapshots,
                               found : SUBSET EscrowAccount]
           /\ InCall(c, "creatorWithdraw") =>
                 calls[c] \in [kind : {"creatorWithdraw"}, read : Snapshots,
                               isBaseToken : BOOLEAN]
           /\ InCall(c, "lookup") =>
                 calls[c] \in [kind : {"lookup"}, key : EscrowKeys,
                               amount : Amounts, opens : BOOLEAN]
           /\ InCall(c, "deposit") =>
                 calls[c] \in [kind : {"deposit"}, key : EscrowKeys,
                               amount : Amounts, opens : BOOLEAN, wrapped : Nat]
<1>1. calls[c] \in PendingCalls
  BY DEF ClientTypeOK
<1> QED
  BY <1>1 DEF PendingCalls, InCall

LEMMA ClientStepOfLedger ==
    ASSUME ClientTypeOK, [ClientNext]_allVars
    PROVE  [Next]_vars
<1>1. ASSUME NEW c \in Callers, LandDeposit(c)
      PROVE  Next
  <2>1. /\ InCall(c, "deposit") /\ calls[c] # Idle
        /\ \/ OpenAndDeposit(calls[c].key, calls[c].amount)
           \/ Deposit(calls[c].key, calls[c].amount)
    BY <1>1 DEF LandDeposit, InCall
  <2>2. calls[c].key \in EscrowKeys /\ calls[c].amount \in Amounts
    BY <2>1, CallTypes
  <2> QED
    BY <2>1, <2>2 DEF Next
<1>2. ASSUME NEW c \in Callers, LandCreatorWithdraw(c)
      PROVE  Next
  BY <1>2 DEF LandCreatorWithdraw, Next
<1>3. ASSUME NEW c \in Callers,
             \/ RefetchRead(c) \/ RefetchDone(c) \/ EscrowsDone(c)
             \/ \E owner \in Owners : EscrowsRead(c, owner)
             \/ \E k \in EscrowKeys : \E amount \in Amounts :
                    LookUpEscrow(c, k, amount)
             \/ BuildDeposit(c) \/ BuildCreatorWithdraw(c) \/ Lose(c)
      PROVE  UNCHANGED vars
  BY <1>3 DEF RefetchRead, RefetchDone, EscrowsDone, EscrowsRead, LookUpEscrow,
              BuildDeposit, BuildCreatorWithdraw, Lose
<1>4. CASE ClientNext
  BY <1>1, <1>2, <1>3, <1>4 DEF ClientNext, Others
<1>5. CASE UNCHANGED allVars
  BY <1>5 DEF allVars, vars
<1> QED
  BY <1>4, <1>5

---------------------------------------------------------------------------
(* What has been read stays right *)

\* Time does not run back.
LEMMA ClockForward ==
    ASSUME LedgerInv, [Next]_vars
    PROVE  clock \in Nat /\ clock' \in Nat /\ clock <= clock'
<1>1. clock \in Nat
  BY SumTypes DEF LedgerInv
<1>2. CASE UNCHANGED clock
  BY <1>1, <1>2
<1>3. CASE Tick
  BY <1>1, <1>3 DEF Tick
<1>4. \/ UNCHANGED clock \/ Tick
  BY DEF Next, vars, InitializeEscrow, Deposit, OpenAndDeposit, DepositInto,
         Withdraw, Claim, WithdrawRemainingQuote, CloseEscrow, CreatorWithdraw,
         CreatorCollectFee, PerformUnsoldBaseTokenAction
<1> QED
  BY <1>2, <1>3, <1>4

LEMMA ReadKept ==
    ASSUME LedgerInv, [Next]_vars, NEW s \in Snapshots
    PROVE  /\ RightlyRead(s, presale, clock) => RightlyRead(s, presale', clock')
           /\ FeesRead(s, presale) => FeesRead(s, presale')
<1>1. clock \in Nat /\ clock' \in Nat /\ clock <= clock'
  BY ClockForward
<1>2. s.readAt \in Nat
  BY MaxTimeAssumption DEF Snapshots
<1>3. Decided => PresaleProgressState(presale', clock')
                    = PresaleProgressState(presale, clock)
  BY OutcomeKept DEF Progress
<1>4. RightlyRead(s, presale, clock) => RightlyRead(s, presale', clock')
  BY <1>1, <1>2, <1>3 DEF RightlyRead, DecidedWhenRead, Decided, Progress
<1>5. FeesRead(s, presale) => FeesRead(s, presale')
  BY FeesKept DEF FeesRead
<1> QED
  BY <1>4, <1>5

\* What is known of a call stays known while the ledger moves.
LEMMA CallKept ==
    ASSUME LedgerInv, [Next]_vars, NEW call \in PendingCalls,
           CallRight(call, presale, clock)
    PROVE  CallRight(call, presale', clock')
<1>1. CASE call \in [kind : {"refetch"}, read : Snapshots]
  BY <1>1, ReadKept DEF CallRight
<1>2. CASE call \in [kind : {"escrows"}, read : Snapshots, found : SUBSET EscrowAccount]
  BY <1>2, ReadKept DEF CallRight
<1>3. CASE call \in [kind : {"creatorWithdraw"}, read : Snapshots, isBaseToken : BOOLEAN]
  <2>1. RightlyRead(call.read, presale, clock) /\ RightlyRead(call.read, presale', clock')
    BY <1>3, ReadKept DEF CallRight
  <2>2. DecidedWhenRead(call.read) =>
            PresaleProgressState(presale', clock') = PresaleProgressState(presale, clock)
    BY <2>1 DEF RightlyRead
  <2> QED
    BY <1>3, <2>1, <2>2 DEF CallRight
<1>4. CASE call \in [kind : {"deposit"}, key : EscrowKeys, amount : Amounts,
                     opens : BOOLEAN, wrapped : Nat]
  <2>1. call.key[2] \in RegistryIndex
    BY <1>4 DEF EscrowKeys
  <2>2. presale'.presaleRegistries[call.key[2]].depositFeeBps
            = presale.presaleRegistries[call.key[2]].depositFeeBps
    BY <2>1, FeesKept
  <2> QED
    BY <1>4, <2>2 DEF CallRight
<1>5. CASE call \in [kind : {"lookup"}, key : EscrowKeys, amount : Amounts, opens : BOOLEAN]
  BY <1>5 DEF CallRight
<1> QED
  BY <1>1, <1>2, <1>3, <1>4, <1>5 DEF PendingCalls

---------------------------------------------------------------------------
(* What is read now is right now *)

LEMMA FreshRead ==
    ASSUME LedgerInv
    PROVE  /\ Snapshot \in Snapshots
           /\ RightlyRead(Snapshot, presale, clock)
           /\ FeesRead(Snapshot, presale)
<1>1. clock \in 0..MaxTime /\ presale \in PresaleAccounts
  BY KeptPresale
<1>2. clock <= clock
  BY <1>1, MaxTimeAssumption
<1> QED
  BY <1>1, <1>2 DEF Snapshot, Snapshots, RightlyRead, FeesRead

\* A buyer's deposit and fee are part of the registry's.
LEMMA FoundPart ==
    ASSUME LedgerInv, NEW k \in EscrowKeys, Exists(k)
    PROVE  escrows[k] \in EscrowAccount /\ PartOf(presale, escrows[k])
<1>1. /\ escrows[k] \in EscrowAccount /\ k[2] \in RegistryIndex
      /\ escrows[k].totalDepositFee = Fees[k] /\ Fees[k] \in Nat
  BY EscrowHolds, EscrowTypes, SumTypes DEF LedgerInv
<1>2. TwoLevels(Fees, RegistryFees, presale.totalDepositFee)
  BY DEF LedgerInv, TotalsAddUp
<1>3. 0 \in Int /\ Fees[k] + 0 >= 0
  BY <1>1
<1>4. Fees[k] <= RegistryFees[k[2]]
  BY <1>1, <1>2, <1>3, SumTypes, TwoLevelsChange DEF LedgerInv
<1>5. RegistryFees[k[2]] = presale.presaleRegistries[k[2]].totalDepositFee
  BY <1>1 DEF RegistryFees
<1> QED
  BY <1>1, <1>4, <1>5, DepositPart DEF PartOf

---------------------------------------------------------------------------
(* The invariant holds *)

\* A step that changes at most one call keeps what is known of all of them.
LEMMA CallsStep ==
    ASSUME ClientInv, [Next]_vars, NEW c \in Callers, NEW new,
           calls' = [calls EXCEPT ![c] = new],
           \/ new = Idle
           \/ new \in PendingCalls /\ CallRight(new, presale', clock')
    PROVE  /\ calls' \in [Callers -> PendingCalls \cup {Idle}]
           /\ \A b \in Callers :
                calls'[b] # Idle => CallRight(calls'[b], presale', clock')
<1>1. calls \in [Callers -> PendingCalls \cup {Idle}]
  BY DEF ClientInv, ClientTypeOK
<1>2. ASSUME NEW b \in Callers, b # c, calls'[b] # Idle
      PROVE  CallRight(calls'[b], presale', clock')
  <2>1. calls'[b] = calls[b] /\ calls[b] \in PendingCalls
    BY <1>1, <1>2
  <2>2. CallRight(calls[b], presale, clock) /\ LedgerInv
    BY <1>2, <2>1 DEF ClientInv
  <2> QED
    BY <2>1, <2>2, CallKept
<1>3. calls'[c] = new
  BY <1>1
<1> QED
  BY <1>1, <1>2, <1>3

\* An account read after the decision gives the outcome at any later time.
LEMMA CachedOutcome ==
    ASSUME LedgerInv, cache \in Snapshots, RightlyRead(cache, presale, clock),
           DecidedWhenRead(cache)
    PROVE  CachedProgress = PresaleProgressState(presale, clock)
<1> DEFINE p == cache.account
           t == cache.readAt
<1>1. /\ p.presaleStartTime \in Nat /\ p.presaleEndTime \in Nat
      /\ t \in Nat /\ clock \in Nat /\ t <= clock
  BY KeptPresale, MaxTimeAssumption DEF Snapshots, PresaleAccounts, RightlyRead
<1>2. p.presaleStartTime <= t /\ p.presaleEndTime <= t
  BY <1>1 DEF DecidedWhenRead, PresaleProgressState
<1>3. PresaleProgressState(p, t) = PresaleProgressState(p, clock)
  BY <1>1, <1>2, OverProgress
<1> QED
  BY <1>3 DEF RightlyRead, CachedProgress

LEMMA WrappedNat ==
    ASSUME ClientInv, NEW k \in EscrowKeys, NEW amount \in Amounts
    PROVE  /\ WrappedAmount(k, amount) \in Nat
           /\ WrappedAmount(k, amount) = CalculateDepositFeeIncludedAmount(amount,
                presale.presaleRegistries[k[2]].depositFeeBps, "Up")
<1>1. k[2] \in RegistryIndex /\ amount \in Nat
  BY AmountsNat DEF EscrowKeys
<1>2. /\ cache.account.presaleRegistries[k[2]].depositFeeBps
            = presale.presaleRegistries[k[2]].depositFeeBps
      /\ presale.presaleRegistries[k[2]].depositFeeBps \in 0..(BpsBase - 1)
  BY <1>1, EscrowTypes DEF ClientInv, FeesRead, LedgerInv, PresaleRegistry
<1> QED
  BY <1>1, <1>2, FeeIncludedAtLeast DEF WrappedAmount

LEMMA ClientInitOK == ClientInit => ClientInv
<1> SUFFICES ASSUME ClientInit
             PROVE  ClientInv
  OBVIOUS
<1>1. LedgerInv
  BY InitOK DEF ClientInit
<1>2. cache = Snapshot /\ calls = [c \in Callers |-> Idle] /\ view = {}
  BY DEF ClientInit
<1> QED
  BY <1>1, <1>2, FreshRead DEF ClientInv, ClientTypeOK

\* What does not touch calls, cache or view leaves the invariant's part about
\* them alone.
LEMMA ClientKept ==
    ASSUME ClientInv, [Next]_vars
    PROVE  /\ LedgerInv'
           /\ cache \in Snapshots
           /\ RightlyRead(cache, presale', clock') /\ FeesRead(cache, presale')
           /\ \A c \in Callers :
                calls[c] # Idle => CallRight(calls[c], presale', clock')
<1>1. LedgerInv' /\ LedgerInv
  BY StepOK DEF ClientInv
<1>2. cache \in Snapshots
  BY DEF ClientInv, ClientTypeOK
<1>3. RightlyRead(cache, presale', clock') /\ FeesRead(cache, presale')
  BY <1>1, <1>2, ReadKept DEF ClientInv
<1>4. ASSUME NEW c \in Callers, calls[c] # Idle
      PROVE  CallRight(calls[c], presale', clock')
  <2>1. calls[c] \in PendingCalls /\ CallRight(calls[c], presale, clock)
    BY <1>4 DEF ClientInv, ClientTypeOK
  <2> QED
    BY <1>1, <2>1, CallKept
<1> QED
  BY <1>1, <1>2, <1>3, <1>4

LEMMA ClientStepOK ==
    ASSUME ClientInv, [ClientNext]_allVars
    PROVE  ClientInv'
<1>1. [Next]_vars
  BY ClientStepOfLedger DEF ClientInv
<1>2. /\ LedgerInv' /\ LedgerInv /\ ClientTypeOK
      /\ cache \in Snapshots
      /\ RightlyRead(cache, presale', clock') /\ FeesRead(cache, presale')
      /\ \A c \in Callers :
            calls[c] # Idle => CallRight(calls[c], presale', clock')
      /\ \A w \in view : PartOf(w.read.account, w.escrow)
  BY <1>1, ClientKept DEF ClientInv
\* A step that leaves cache and view alone and sets one call.
<1>3. ASSUME NEW c \in Callers, NEW new, UNCHANGED <<cache, view>>,
             calls' = [calls EXCEPT ![c] = new],
             \/ new = Idle
             \/ new \in PendingCalls /\ CallRight(new, presale', clock')
      PROVE  ClientInv'
  <2>1. /\ calls' \in [Callers -> PendingCalls \cup {Idle}]
        /\ \A b \in Callers :
                calls'[b] # Idle => CallRight(calls'[b], presale', clock')
    BY <1>1, <1>3, CallsStep
  <2> QED
    BY <1>2, <1>3, <2>1 DEF ClientInv, ClientTypeOK
<1>4. ASSUME NEW c \in Callers, RefetchRead(c)
      PROVE  ClientInv'
  <2> DEFINE new == [kind |-> "refetch", read |-> Snapshot]
  <2>1. /\ UNCHANGED vars /\ UNCHANGED <<cache, view>>
        /\ calls' = [calls EXCEPT ![c] = new]
    BY <1>4 DEF RefetchRead, Start
  <2>2. presale' = presale /\ clock' = clock
    BY <2>1 DEF vars
  <2>3. /\ Snapshot \in Snapshots
        /\ RightlyRead(Snapshot, presale, clock) /\ FeesRead(Snapshot, presale)
    BY <1>2, FreshRead
  <2>4. new \in PendingCalls /\ CallRight(new, presale', clock')
    BY <2>2, <2>3 DEF PendingCalls, CallRight
  <2> HIDE DEF new
  <2> QED
    BY <1>3, <2>1, <2>4
<1>5. ASSUME NEW c \in Callers, NEW owner \in Owners, EscrowsRead(c, owner)
      PROVE  ClientInv'
  <2> DEFINE listed == {<<owner, i>> : i \in InitializedRegistries(cache.account)}
             found == {escrows[k] : k \in {a \in listed : Exists(a)}}
             new == [kind |-> "escrows", read |-> Snapshot, found |-> found]
  <2>1. /\ UNCHANGED vars /\ UNCHANGED <<cache, view>>
        /\ calls' = [calls EXCEPT ![c] = new]
    BY <1>5 DEF EscrowsRead, Start
  <2>2. presale' = presale /\ clock' = clock
    BY <2>1 DEF vars
  <2>3. /\ Snapshot \in Snapshots
        /\ RightlyRead(Snapshot, presale, clock) /\ FeesRead(Snapshot, presale)
        /\ Snapshot.account = presale
    BY <1>2, FreshRead DEF Snapshot
  <2>4. \A e \in found : e \in EscrowAccount /\ PartOf(presale, e)
    <3> SUFFICES ASSUME NEW a \in listed, Exists(a)
                 PROVE  escrows[a] \in EscrowAccount /\ PartOf(presale, escrows[a])
      OBVIOUS
    <3>1. a \in EscrowKeys
      BY DEF EscrowKeys, InitializedRegistries
    <3> QED
      BY <1>2, <3>1, FoundPart
  <2> HIDE DEF found
  <2>5. new \in PendingCalls /\ CallRight(new, presale', clock')
    BY <2>2, <2>3, <2>4 DEF PendingCalls, CallRight
  <2> HIDE DEF new
  <2> QED
    BY <1>3, <2>1, <2>5
<1>6. ASSUME NEW c \in Callers, RefetchDone(c)
      PROVE  ClientInv'
  <2>1. /\ InCall(c, "refetch") /\ calls[c] # Idle /\ UNCHANGED view
        /\ cache' = calls[c].read /\ calls' = [calls EXCEPT ![c] = Idle]
    BY <1>6 DEF RefetchDone, Finish, InCall
  <2>2. /\ calls[c].kind = "refetch" /\ calls[c].read \in Snapshots
        /\ CallRight(calls[c], presale', clock')
    BY <1>2, <2>1, CallTypes DEF InCall
  <2>3. RightlyRead(cache', presale', clock') /\ FeesRead(cache', presale')
    BY <2>1, <2>2 DEF CallRight
  <2>4. /\ calls' \in [Callers -> PendingCalls \cup {Idle}]
        /\ \A b \in Callers :
                calls'[b] # Idle => CallRight(calls'[b], presale', clock')
    BY <1>1, <2>1, CallsStep
  <2> QED
    BY <1>2, <2>1, <2>2, <2>3, <2>4 DEF ClientInv, ClientTypeOK
<1>7. ASSUME NEW c \in Callers, EscrowsDone(c)
      PROVE  ClientInv'
  <2> DEFINE read == calls[c].read
  <2>1. /\ InCall(c, "escrows") /\ calls[c] # Idle
        /\ cache' = read /\ calls' = [calls EXCEPT ![c] = Idle]
        /\ view' = {[read |-> read, escrow |-> e] : e \in calls[c].found}
    BY <1>7 DEF EscrowsDone, Finish, InCall, UpdatedCache
  <2>2. /\ calls[c].kind = "escrows" /\ read \in Snapshots
        /\ calls[c].found \subseteq EscrowAccount
        /\ CallRight(calls[c], presale', clock')
    BY <1>2, <2>1, CallTypes DEF InCall
  <2>3. /\ RightlyRead(read, presale', clock') /\ FeesRead(read, presale')
        /\ \A e \in calls[c].found : PartOf(read.account, e)
    BY <2>2 DEF CallRight
  <2>4. /\ calls' \in [Callers -> PendingCalls \cup {Idle}]
        /\ \A b \in Callers :
                calls'[b] # Idle => CallRight(calls'[b], presale', clock')
    BY <1>1, <2>1, CallsStep
  <2>5. /\ view' \subseteq Wrappers
        /\ \A w \in view' : PartOf(w.read.account, w.escrow)
    BY <2>1, <2>2, <2>3 DEF Wrappers
  <2> QED
    BY <1>2, <2>1, <2>2, <2>3, <2>4, <2>5 DEF ClientInv, ClientTypeOK
<1>8. ASSUME NEW c \in Callers, BuildDeposit(c)
      PROVE  ClientInv'
  <2> DEFINE k == calls[c].key
             amount == calls[c].amount
             opens == calls[c].opens
             wrapped == WrappedAmount(k, amount)
             new == [kind |-> "deposit", key |-> k, amount |-> amount,
                     opens |-> opens, wrapped |-> wrapped]
  <2>1. /\ InCall(c, "lookup") /\ calls[c] # Idle
        /\ UNCHANGED vars /\ UNCHANGED <<cache, view>>
        /\ calls' = [calls EXCEPT ![c] = new]
    BY <1>8 DEF BuildDeposit, InCall
  <2>2. presale' = presale /\ clock' = clock
    BY <2>1 DEF vars
  <2>3. k \in EscrowKeys /\ amount \in Amounts /\ opens \in BOOLEAN
    BY <1>2, <2>1, CallTypes
  <2> HIDE DEF k, amount, opens
  <2>4. /\ wrapped \in Nat
        /\ wrapped = CalculateDepositFeeIncludedAmount(amount,
                presale.presaleRegistries[k[2]].depositFeeBps, "Up")
    BY <2>3, WrappedNat
  <2> HIDE DEF wrapped
  <2>5. new \in PendingCalls /\ CallRight(new, presale', clock')
    BY <2>2, <2>3, <2>4 DEF PendingCalls, CallRight
  <2> HIDE DEF new
  <2> QED
    BY <1>3, <2>1, <2>5
<1>9. ASSUME NEW c \in Callers, BuildCreatorWithdraw(c)
      PROVE  ClientInv'
  <2> DEFINE base == CachedProgress = "Failed"
             new == [kind |-> "creatorWithdraw", read |-> cache, isBaseToken |-> base]
  <2>1. /\ UNCHANGED vars /\ UNCHANGED <<cache, view>>
        /\ calls' = [calls EXCEPT ![c] = new]
    BY <1>9 DEF BuildCreatorWithdraw, Start
  <2>2. presale' = presale /\ clock' = clock
    BY <2>1 DEF vars
  <2>3. DecidedWhenRead(cache) =>
            CachedProgress = PresaleProgressState(presale, clock)
    BY <2>2, <1>2, CachedOutcome
  <2>4. new \in PendingCalls
    BY <1>2 DEF PendingCalls
  <2>5. CallRight(new, presale', clock')
    BY <1>2, <2>2, <2>3 DEF CallRight
  <2> HIDE DEF new
  <2> QED
    BY <1>3, <2>1, <2>4, <2>5
<1>10. ASSUME NEW c \in Callers,
              LandDeposit(c) \/ LandCreatorWithdraw(c) \/ Lose(c)
       PROVE  ClientInv'
  <2>1. UNCHANGED <<cache, view>> /\ calls' = [calls EXCEPT ![c] = Idle]
    BY <1>10 DEF LandDeposit, LandCreatorWithdraw, Lose, Finish
  <2> QED
    BY <1>3, <2>1
<1>11. ASSUME NEW c \in Callers, NEW k \in EscrowKeys, NEW amount \in Amounts,
              LookUpEscrow(c, k, amount)
       PROVE  ClientInv'
  <2> DEFINE opens == ~Exists(k)
             new == [kind |-> "lookup", key |-> k, amount |-> amount, opens |-> opens]
  <2>1. /\ UNCHANGED <<cache, view>>
        /\ calls' = [calls EXCEPT ![c] = new]
    BY <1>11 DEF LookUpEscrow, Start
  <2>2. opens \in BOOLEAN
    BY DEF Exists
  <2> HIDE DEF opens
  <2>3. new \in PendingCalls /\ CallRight(new, presale', clock')
    BY <2>2 DEF PendingCalls, CallRight
  <2> HIDE DEF new
  <2> QED
    BY <1>3, <2>1, <2>3
<1>12. CASE UNCHANGED clientVars
  BY <1>2, <1>12 DEF clientVars, ClientInv, ClientTypeOK
<1>13. CASE ClientNext
  BY <1>4, <1>5, <1>6, <1>7, <1>8, <1>9, <1>10, <1>11, <1>12, <1>13
    DEF ClientNext, Others
<1>14. CASE UNCHANGED allVars
  BY <1>12, <1>14 DEF allVars, clientVars
<1> QED
  BY <1>13, <1>14

LEMMA ClientInvariant == ClientSpec => []ClientInv
BY ClientInitOK, ClientStepOK, PTL DEF ClientSpec

---------------------------------------------------------------------------
(* The theorems *)

\* Whatever a Presale object reads, builds and lands, the ledger only sees its
\* own instructions, so all that is proved of the ledger holds beside it.
THEOREM ClientImplementsLedger == ClientSpec => Spec
<1>1. ClientInit => Init
  BY DEF ClientInit
<1>2. ClientInv /\ [ClientNext]_allVars => [Next]_vars
  BY ClientStepOfLedger DEF ClientInv
<1> QED
  BY <1>1, <1>2, ClientInvariant, PTL DEF ClientSpec, Spec

\* The cached account is enough to know the outcome once it was read after the
\* decision, and a creator withdrawal built from it names the right vault
\* (presaleAccount, createCreatorWithdrawIx).
THEOREM DecidedCacheIsRightTheorem == ClientSpec => []DecidedCacheIsRight
<1>1. ASSUME ClientInv
      PROVE  DecidedCacheIsRight
  <2>1. DecidedWhenRead(cache) => CachedProgress = Progress
    BY <1>1, CachedOutcome DEF ClientInv, ClientTypeOK, Progress
  <2>2. ASSUME NEW c \in Callers, InCall(c, "creatorWithdraw"),
               DecidedWhenRead(calls[c].read)
        PROVE  NamesRightVault(c)
    <3>1. /\ calls[c].kind = "creatorWithdraw"
          /\ CallRight(calls[c], presale, clock)
      BY <1>1, <2>2 DEF ClientInv, InCall
    <3>2. /\ RightlyRead(calls[c].read, presale, clock)
          /\ calls[c].isBaseToken = (PresaleProgressState(presale, clock) = "Failed")
      BY <2>2, <3>1 DEF CallRight
    <3>3. PresaleProgressState(presale, clock) \in {"Completed", "Failed"}
      BY <2>2, <3>2 DEF RightlyRead, DecidedWhenRead
    <3> QED
      BY <3>2, <3>3 DEF NamesRightVault, CreatorWithdrawableToken
  <2> QED
    BY <2>1, <2>2 DEF DecidedCacheIsRight
<1> QED
  BY <1>1, ClientInvariant, PTL

\* A part of a registry has no more than a part of its tokens.
LEMMA ClaimableAtMostSold ==
    ASSUME NEW p \in PresaleAccounts, NEW e \in EscrowAccount, PartOf(p, e)
    PROVE  TotalClaimableRawAmount(p, e)
                <= RegistryTotalBaseTokenSold(p, e.registryIndex)
<1> DEFINE sold == RegistryTotalBaseTokenSold(p, e.registryIndex)
           whole == EscrowRegistry(p, e).totalDeposit
           deposit == e.totalDeposit
<1>1. /\ e.registryIndex \in RegistryIndex
      /\ deposit \in Nat /\ whole \in Nat /\ deposit <= whole
  BY DEF PresaleAccounts, PresaleRegistry, EscrowAccount, EscrowRegistry, PartOf
<1>2. sold \in Nat
  BY <1>1, SoldNat
<1>3. TotalClaimableRawAmount(p, e) =
          IF deposit = 0 THEN 0 ELSE (deposit * sold) \div whole
  BY DEF TotalClaimableRawAmount
<1> HIDE DEF sold, whole, deposit
<1>4. CASE deposit = 0
  <2>1. TotalClaimableRawAmount(p, e) = 0
    BY <1>3, <1>4
  <2>2. 0 <= sold
    BY <1>2
  <2> QED
    BY <2>1, <2>2 DEF sold
<1>5. CASE deposit # 0
  <2>1. deposit * sold = sold * deposit
    BY <1>1, <1>2
  <2>2. whole \in Nat \ {0}
    BY <1>1, <1>5
  <2>3. (sold * deposit) \div whole \in 0..sold
    BY <1>1, <1>2, <2>2, ShareAtMost
  <2>4. TotalClaimableRawAmount(p, e) = (sold * deposit) \div whole
    BY <1>3, <1>5, <2>1
  <2>5. TotalClaimableRawAmount(p, e) \in 0..sold
    BY <2>3, <2>4
  <2>6. TotalClaimableRawAmount(p, e) <= sold
    BY <2>5, <1>2
  <2> QED
    BY <2>6 DEF sold
<1> QED
  BY <1>4, <1>5

\* What getPresaleEscrowByOwner hands out is consistent
\* (getPresaleEscrowByOwner, getTotalClaimableRawAmount).
THEOREM ViewIsConsistentTheorem == ClientSpec => []ViewIsConsistent
<1>1. ASSUME ClientInv, NEW w \in view
      PROVE  /\ PartOf(w.read.account, w.escrow)
             /\ TotalClaimableRawAmount(w.read.account, w.escrow)
                    <= RegistryTotalBaseTokenSold(w.read.account,
                                                  w.escrow.registryIndex)
  <2>1. /\ PartOf(w.read.account, w.escrow)
        /\ w.read.account \in PresaleAccounts /\ w.escrow \in EscrowAccount
    BY <1>1 DEF ClientInv, ClientTypeOK, Wrappers, Snapshots
  <2> QED
    BY <2>1, ClaimableAtMostSold
<1>2. ClientInv => ViewIsConsistent
  BY <1>1 DEF ViewIsConsistent, PartOf
<1> QED
  BY <1>2, ClientInvariant, PTL

---------------------------------------------------------------------------
(* Wrapped SOL *)

\* What a deposit of at most maxAmount adds to what its escrow has paid.
LEMMA DepositCharges ==
    ASSUME LedgerInv, NEW k \in EscrowKeys, NEW e, Holds(k, e),
           NEW maxAmount \in Nat, DepositInto(k, e, maxAmount)
    PROVE  Paid(k)' <= Paid(k)
                + CalculateDepositFeeIncludedAmount(maxAmount,
                      presale.presaleRegistries[k[2]].depositFeeBps, "Up")
<1> DEFINE amount == SuggestDepositAmount(presale, e, maxAmount)
           bps == presale.presaleRegistries[k[2]].depositFeeBps
           gross(x) == CalculateDepositFeeIncludedAmount(x, bps, "Up")
           charge == gross(amount) - amount
<1>1. amount \in Nat /\ amount <= maxAmount
  BY SuggestedDeposit
<1>2. bps \in 0..(BpsBase - 1)
  BY EscrowTypes DEF LedgerInv, PresaleRegistry
<1>3. escrows' = [escrows EXCEPT ![k] = CreditedAccount(e, amount, charge)]
  BY DEF DepositInto, DepositFee
<1>4. escrows \in [EscrowKeys -> EscrowAccount \cup {NoEscrow}]
  BY DEF LedgerInv, TypeOK
<1> HIDE DEF amount, bps
<1>5. /\ gross(amount) \in Nat /\ gross(maxAmount) \in Nat
      /\ gross(amount) <= gross(maxAmount)
  BY <1>1, <1>2, FeeIncludedMonotone, FeeIncludedAtLeast
<1> HIDE DEF gross, charge
<1>6. escrows'[k] = CreditedAccount(e, amount, charge)
  BY <1>3, <1>4
<1>7. /\ e.totalDeposit \in Nat /\ e.totalDepositFee \in Nat
      /\ escrows'[k].totalDeposit = e.totalDeposit + amount
      /\ escrows'[k].totalDepositFee = e.totalDepositFee + charge
  BY <1>6 DEF Holds, EscrowAccount, CreditedAccount
<1>8. Paid(k) = e.totalDeposit + e.totalDepositFee
  BY DEF Holds, Paid, Deposits, Fees
<1>9. charge = gross(amount) - amount
  BY DEF charge
<1>10. Paid(k)' \in {escrows'[k].totalDeposit + escrows'[k].totalDepositFee, 0}
  BY DEF Paid
<1>11. Paid(k)' <= Paid(k) + gross(maxAmount)
  BY <1>1, <1>5, <1>7, <1>8, <1>9, <1>10
<1> QED
  BY <1>11 DEF gross, bps

\* A transaction that lands takes at most what it has wrapped: the fee of the
\* registry is still the one it was built with.
LEMMA LandingCharges ==
    ASSUME ClientInv, NEW c \in Callers, LandDeposit(c),
           NEW k \in EscrowKeys, calls[c].key = k
    PROVE  Paid(k)' <= Paid(k) + calls[c].wrapped
<1> DEFINE maxAmount == calls[c].amount
<1>1. InCall(c, "deposit") /\ (Deposit(k, maxAmount) \/ OpenAndDeposit(k, maxAmount))
  BY DEF LandDeposit
<1>2. maxAmount \in Nat
  BY <1>1, CallTypes, AmountsAssumption DEF ClientInv, InCall
<1>3. calls[c].wrapped = CalculateDepositFeeIncludedAmount(maxAmount,
          presale.presaleRegistries[k[2]].depositFeeBps, "Up")
  BY <1>1 DEF ClientInv, CallRight, InCall
<1> HIDE DEF maxAmount
<1>4. PICK e : Holds(k, e) /\ DepositInto(k, e, maxAmount)
  BY <1>1, <1>2, DepositTarget DEF ClientInv
<1> QED
  BY <1>2, <1>3, <1>4, DepositCharges DEF ClientInv

\* No step but the landing pays for a deposit that is under way, and a lost one
\* pays nothing.
LEMMA OnlyLandingCharges ==
    ASSUME ClientInv, [ClientNext]_allVars, NEW c \in Callers,
           InCall(c, "deposit"), calls'[c] = Idle
    PROVE  LandDeposit(c) \/ (Lose(c) /\ UNCHANGED vars)
<1>1. /\ calls[c] # Idle /\ calls[c].kind = "deposit"
      /\ calls \in [Callers -> PendingCalls \cup {Idle}]
  BY DEF InCall, ClientInv, ClientTypeOK
<1>2. ClientNext /\ ~UNCHANGED calls
  BY <1>1 DEF allVars
<1>3. PICK b \in Callers :
        \/ RefetchRead(b) \/ RefetchDone(b) \/ EscrowsDone(b)
        \/ \E owner \in Owners : EscrowsRead(b, owner)
        \/ \E key \in EscrowKeys : \E amount \in Amounts :
               LookUpEscrow(b, key, amount)
        \/ BuildDeposit(b) \/ LandDeposit(b) \/ BuildCreatorWithdraw(b) \/ LandCreatorWithdraw(b)
        \/ Lose(b)
  BY <1>2 DEF ClientNext, Others, clientVars
<1>4. \E new : calls' = [calls EXCEPT ![b] = new]
  BY <1>3 DEF RefetchRead, RefetchDone, EscrowsDone, EscrowsRead, LookUpEscrow,
     BuildDeposit, LandDeposit, BuildCreatorWithdraw, LandCreatorWithdraw, Lose, Start, Finish
<1>5. b = c
  BY <1>1, <1>4
<1> QED
  BY <1>1, <1>3, <1>5
    DEF RefetchRead, RefetchDone, EscrowsDone, EscrowsRead, LookUpEscrow,
        BuildDeposit, BuildCreatorWithdraw, LandCreatorWithdraw, Lose, Start, InCall

\* The wrapped SOL is enough (deposit, createDepositIx).
THEOREM WrappedSolCoversDepositTheorem == ClientSpec => WrappedSolCoversDeposit
<1>1. ASSUME ClientInv, [ClientNext]_allVars, NEW c \in Callers,
             NEW k \in EscrowKeys, InCall(c, "deposit"), calls[c].key = k,
             calls'[c] = Idle
      PROVE  Paid(k)' <= Paid(k) + calls[c].wrapped
  <2>1. CASE LandDeposit(c)
    BY <1>1, <2>1, LandingCharges
  <2>2. CASE UNCHANGED vars
    <3>1. calls[c].wrapped \in Nat /\ TypeOK
      BY <1>1, CallTypes DEF ClientInv, LedgerInv, InCall
    <3>2. Paid(k) \in Nat
      BY <3>1 DEF TypeOK, EscrowAccount, Paid, Exists
    <3>3. Paid(k)' = Paid(k)
      BY <2>2 DEF vars, Paid, Exists
    <3> QED
      BY <3>1, <3>2, <3>3
  <2> QED
    BY <1>1, <2>1, <2>2, OnlyLandingCharges
<1>2. ClientInv /\ [ClientNext]_allVars =>
        [\A c \in Callers : \A k \in EscrowKeys :
            /\ InCall(c, "deposit") /\ calls[c].key = k
            /\ calls'[c] = Idle
            => Paid(k)' <= Paid(k) + calls[c].wrapped]_allVars
  BY <1>1
<1> QED
  BY <1>2, ClientInvariant, PTL DEF ClientSpec, WrappedSolCoversDeposit

---------------------------------------------------------------------------
(* A listing: chunks *)

\* The place of an address in the list, from its chunk and its place there.
Place(outerIdx, innerIdx) == (outerIdx - 1) * ChunkSize + innerIdx

ChunkLength(length, n) == Least(n * ChunkSize, length) - (n - 1) * ChunkSize

\* Every chunk but the last is full, and none is empty.
LEMMA ChunkBounds ==
    ASSUME NEW length \in Nat, NEW n \in 1..CeilDiv(length, ChunkSize)
    PROVE  /\ ChunkLength(length, n) \in 1..ChunkSize
           /\ \A m \in 1..ChunkLength(length, n) : Place(n, m) \in 1..length
<1>1. n \in Nat /\ n - 1 \in Nat /\ ChunkSize \in Nat \ {0}
  BY ChunkSizeAssumption, CeilProperty
<1>2. (n - 1) * ChunkSize < length
  <2>1. CeilDiv(length, ChunkSize) \in Nat
    BY <1>1, CeilProperty
  <2>2. n - 1 < CeilDiv(length, ChunkSize)
    BY <1>1, <2>1
  <2> QED
    BY <1>1, <2>2, BelowCeil
<1> DEFINE before == (n - 1) * ChunkSize
<1>3. before \in Nat /\ n * ChunkSize = before + ChunkSize
  BY <1>1
<1> HIDE DEF before
<1>4. before < length
  BY <1>2 DEF before
<1>5. ChunkLength(length, n) = Least(before + ChunkSize, length) - before
  BY <1>3 DEF ChunkLength, before
<1>6. \A m \in Nat : Place(n, m) = before + m
  BY DEF Place, before
<1> QED
  BY <1>1, <1>3, <1>4, <1>5, <1>6 DEF Least

\* A place is in one chunk, at one place there.
LEMMA PlaceUnique ==
    ASSUME NEW n1 \in Nat \ {0}, NEW m1 \in 1..ChunkSize,
           NEW n2 \in Nat \ {0}, NEW m2 \in 1..ChunkSize,
           Place(n1, m1) = Place(n2, m2)
    PROVE  n1 = n2 /\ m1 = m2
<1>1. ASSUME NEW n \in Nat \ {0}, NEW m \in 1..ChunkSize,
             NEW k \in Nat \ {0}, NEW l \in 1..ChunkSize, n < k
      PROVE  Place(n, m) < Place(k, l)
  <2>1. k - 1 - n \in Nat /\ ChunkSize \in Nat
    BY <1>1, ChunkSizeAssumption
  <2>2. n * ChunkSize <= (k - 1) * ChunkSize
    BY <1>1, <2>1, ProductMonotone
  <2>3. (n - 1) * ChunkSize + ChunkSize = n * ChunkSize
    BY <2>1
  <2>4. (n - 1) * ChunkSize \in Int /\ n * ChunkSize \in Int /\ (k - 1) * ChunkSize \in Int
    BY <2>1
  <2> DEFINE x == (n - 1) * ChunkSize
             y == n * ChunkSize
             z == (k - 1) * ChunkSize
  <2>5. x + ChunkSize = y /\ y <= z /\ x \in Int /\ y \in Int /\ z \in Int
    BY <2>2, <2>3, <2>4
  <2> HIDE DEF x, y, z
  <2>6. x + m < z + l
    BY <2>1, <2>5
  <2> QED
    BY <2>6 DEF Place, x, z
<1>2. n1 = n2
  <2>1. Place(n1, m1) \in Int /\ Place(n2, m2) \in Int
    BY ChunkSizeAssumption DEF Place
  <2>2. ~(n1 < n2) /\ ~(n2 < n1)
    BY <1>1, <2>1
  <2> QED
    BY <2>2
<1>3. (n1 - 1) * ChunkSize \in Int
  BY ChunkSizeAssumption
<1> QED
  BY <1>2, <1>3 DEF Place

\* Every place of the list is in a chunk.
LEMMA PlaceFound ==
    ASSUME NEW length \in Nat, NEW i \in 1..length
    PROVE  \E n \in 1..CeilDiv(length, ChunkSize) :
              \E m \in 1..ChunkLength(length, n) : Place(n, m) = i
<1> DEFINE n == CeilDiv(i, ChunkSize)
           before == (n - 1) * ChunkSize
           m == i - before
<1>1. ChunkSize \in Nat \ {0} /\ i \in Nat /\ i <= length
  BY ChunkSizeAssumption
<1>2. n \in Nat /\ i <= n * ChunkSize /\ n * ChunkSize < i + ChunkSize
  BY <1>1, CeilProperty
<1>3. n \in 1..CeilDiv(length, ChunkSize)
  <2>1. /\ CeilDiv(length, ChunkSize) \in Nat
        /\ length <= CeilDiv(length, ChunkSize) * ChunkSize
    BY <1>1, CeilProperty
  <2>2. n <= CeilDiv(length, ChunkSize)
    <3> DEFINE k == CeilDiv(length, ChunkSize)
               all == k * ChunkSize
    <3>1. k \in Nat /\ all \in Nat /\ length <= all
      BY <1>1, <2>1
    <3> HIDE DEF k, all
    <3>2. i <= all
      BY <1>1, <3>1
    <3> QED
      BY <1>1, <3>1, <3>2, CeilIsLeast DEF k, all
  <2>3. n # 0
    <3>1. n = 0 => n * ChunkSize = 0
      BY <1>1
    <3> QED
      BY <1>1, <1>2, <3>1
  <2> HIDE DEF n
  <2> QED
    BY <1>2, <2>1, <2>2, <2>3
<1> HIDE DEF n
<1>4. before \in Int /\ n * ChunkSize = before + ChunkSize
  BY <1>1, <1>2
<1>5. ChunkLength(length, n) = Least(before + ChunkSize, length) - before
  BY <1>4 DEF ChunkLength
<1> HIDE DEF before
<1>6. m \in 1..ChunkLength(length, n)
  BY <1>1, <1>2, <1>4, <1>5 DEF Least
<1>7. Place(n, m) = i
  BY <1>1, <1>4 DEF Place, before
<1> HIDE DEF m
<1> QED
  BY <1>3, <1>6, <1>7

\* What is in the chunks: the list, in its order.
LEMMA ChunkOfList ==
    ASSUME NEW S, NEW list \in Seq(S), NEW n \in 1..CeilDiv(Len(list), ChunkSize)
    PROVE  /\ DOMAIN ChunkedAddresses(list) = 1..CeilDiv(Len(list), ChunkSize)
           /\ DOMAIN ChunkedAddresses(list)[n] = 1..ChunkLength(Len(list), n)
           /\ \A m \in 1..ChunkLength(Len(list), n) :
                ChunkedAddresses(list)[n][m] = list[Place(n, m)]
<1> DEFINE length == Len(list)
           first == (n - 1) * ChunkSize + 1
           last == Least(n * ChunkSize, length)
           chunk == ChunkedAddresses(list)[n]
<1>1. length \in Nat /\ n \in Nat /\ ChunkSize \in Nat \ {0}
  BY ChunkSizeAssumption, CeilProperty
<1>2. first \in Nat /\ last \in Nat
  BY <1>1 DEF Least
<1>3. chunk = SubSeq(list, first, last)
  BY DEF ChunkedAddresses
<1>4. /\ ChunkLength(length, n) \in 1..ChunkSize
      /\ ChunkLength(length, n) = last - first + 1
      /\ last <= length
  <2>1. ChunkLength(length, n) \in 1..ChunkSize
    BY <1>1, ChunkBounds
  <2>2. (n - 1) * ChunkSize \in Nat /\ n * ChunkSize \in Nat
    BY <1>1
  <2> QED
    BY <1>1, <2>1, <2>2 DEF ChunkLength, Least
<1>5. \A m \in Nat : Place(n, m) = first + m - 1
  <2>1. (n - 1) * ChunkSize \in Nat
    BY <1>1
  <2> QED
    BY <2>1 DEF Place
<1>6. DOMAIN ChunkedAddresses(list) = 1..CeilDiv(length, ChunkSize)
  BY DEF ChunkedAddresses
<1> HIDE DEF first, last, chunk
<1>7. first >= 1
  BY <1>1 DEF first
<1>8. \A i \in first..last : list[i] \in S
  BY <1>1, <1>2, <1>4, <1>7
<1>9. /\ chunk \in Seq(S) /\ Len(chunk) = last - first + 1
      /\ \A m \in 1..(last - first + 1) : chunk[m] = list[first + m - 1]
  BY <1>2, <1>3, <1>4, <1>8, SubSeqProperties
<1> QED
  BY <1>2, <1>4, <1>5, <1>6, <1>9 DEF chunk

---------------------------------------------------------------------------
(* The addresses listed *)

\* A listing has every address once.
LEMMA Enumeration ==
    ASSUME NEW S, IsFiniteSet(S), NEW list \in SetToSeqs(S)
    PROVE  /\ list \in Seq(S)
           /\ \A k \in S : \E i \in 1..Len(list) : list[i] = k
           /\ \A i, j \in 1..Len(list) : list[i] = list[j] => i = j
<1> DEFINE n == Cardinality(S)
<1>1. n \in Nat
  BY FS_CardinalityType
<1>2. list \in [1..n -> S] /\ \A i, j \in 1..n : i # j => list[i] # list[j]
  BY DEF SetToSeqs
<1>3. list \in Seq(S) /\ Len(list) = n
  <2> HIDE DEF n
  <2> QED
    BY <1>1, <1>2
<1>4. list \in Injection(1..n, S)
  BY <1>2 DEF Injection, IsInjective
<1>5. Cardinality(1..n) = n
  BY <1>1, FS_Interval
<1>6. list \in Surjection(1..n, S)
  BY <1>4, <1>5, FS_Injection
<1>7. \A k \in S : \E i \in 1..n : list[i] = k
  BY <1>6 DEF Surjection
<1> QED
  BY <1>2, <1>3, <1>7

---------------------------------------------------------------------------
(* The invariant *)

\* What was seen at an address began with what the ledger held there.
SeenIsPast == \A k \in DOMAIN seen : escrows[k] \in seen[k]

\* A listing under way has every address once that had an escrow when it began.
AddressesListed ==
    /\ addresses \in Seq(DOMAIN seen)
    /\ \A i, j \in 1..Len(addresses) : addresses[i] = addresses[j] => i = j
    /\ \A k \in DOMAIN seen :
        NoEscrow \notin seen[k] => \E i \in 1..Len(addresses) : addresses[i] = k

\* What was read of a chunk was seen, at the addresses of that chunk.
RepliesSeen ==
    LET chunks == CeilDiv(Len(addresses), ChunkSize)
    IN  /\ DOMAIN replies = 1..chunks
        /\ \A n \in 1..chunks : replies[n] # None =>
            LET length == ChunkLength(Len(addresses), n)
            IN  /\ DOMAIN replies[n] = 1..length
                /\ \A m \in 1..length :
                    replies[n][m] \in seen[addresses[Place(n, m)]]

ListingInv ==
    /\ addresses # None => SeenIsPast /\ AddressesListed /\ RepliesSeen
    /\ PairsWereThere
    /\ ListingIsComplete

---------------------------------------------------------------------------
(* It is kept *)

LEMMA ListingInitOK == ListingInit => ListingInv
  BY DEF ListingInit, ListingInv, Nothing, PairsWereThere, ListingIsComplete

\* The result of a listing that has not ended, or not with a list.
LEMMA NoPairs ==
    /\ result'.outcome # "listed" => ListingIsComplete'
    /\ result'.pairs = {} => PairsWereThere'
  BY DEF PairsWereThere, ListingIsComplete

LEMMA ListAddressesOK == ListAddresses => ListingInv'
<1> SUFFICES ASSUME ListAddresses PROVE ListingInv'
  OBVIOUS
<1> DEFINE S == {k \in EscrowKeys : InScope(k)}
<1>1. PICK list \in SetToSeqs(S) :
        /\ addresses' = list
        /\ replies' = [n \in DOMAIN ChunkedAddresses(list) |-> None]
  BY DEF ListAddresses
<1>2. /\ result' = Nothing /\ escrows' = escrows
      /\ seen' = [k \in Owners \X scope' |-> {escrows[k]}]
      /\ scope' \subseteq RegistryIndex
  BY DEF ListAddresses, vars
<1>3. IsFiniteSet(S)
  BY EscrowKeysFinite, FS_Subset
<1>4. \A k : k \in S <=> k \in DOMAIN seen' /\ escrows[k] # NoEscrow
  BY <1>2 DEF InScope, Exists, EscrowKeys
<1> HIDE DEF S
<1>5. /\ list \in Seq(S)
      /\ \A k \in S : \E i \in 1..Len(list) : list[i] = k
      /\ \A i, j \in 1..Len(list) : list[i] = list[j] => i = j
  BY <1>3, Enumeration
<1>6. AddressesListed'
  <2>1. list \in Seq(DOMAIN seen')
    <3>1. S \subseteq DOMAIN seen'
      BY <1>4
    <3> QED
      BY <1>5, <3>1, SeqMonotonic
  <2>2. \A k \in DOMAIN seen' : NoEscrow \notin seen'[k] => k \in S
    BY <1>2, <1>4
  <2> QED
    BY <1>1, <1>5, <2>1, <2>2 DEF AddressesListed
<1>7. SeenIsPast'
  BY <1>2 DEF SeenIsPast
<1>8. RepliesSeen'
  <2>1. DOMAIN ChunkedAddresses(list) = 1..CeilDiv(Len(list), ChunkSize)
    BY DEF ChunkedAddresses
  <2> QED
    BY <1>1, <2>1 DEF RepliesSeen
<1>9. result'.outcome # "listed" /\ result'.pairs = {}
  BY <1>2 DEF Nothing
<1> QED
  BY <1>6, <1>7, <1>8, <1>9, NoPairs DEF ListingInv

LEMMA ReadChunkOK ==
    ASSUME ListingInv, addresses # None, NEW n \in DOMAIN replies, ReadChunk(n)
    PROVE  ListingInv'
<1> DEFINE length == Len(addresses)
           chunk == ChunkedAddresses(addresses)[n]
           reply == [m \in DOMAIN chunk |-> escrows[chunk[m]]]
<1>1. SeenIsPast /\ AddressesListed /\ RepliesSeen
  BY DEF ListingInv
<1>2. /\ replies' = [replies EXCEPT ![n] = reply]
      /\ addresses' = addresses /\ seen' = seen /\ result' = result
      /\ escrows' = escrows
  BY DEF ReadChunk, vars
<1>3. addresses \in Seq(DOMAIN seen) /\ length \in Nat
  BY <1>1 DEF AddressesListed
<1>4. n \in 1..CeilDiv(length, ChunkSize)
  BY <1>1 DEF RepliesSeen
<1>5. /\ DOMAIN chunk = 1..ChunkLength(length, n)
      /\ \A m \in 1..ChunkLength(length, n) :
            /\ chunk[m] = addresses[Place(n, m)]
            /\ chunk[m] \in DOMAIN seen
  <2>1. /\ DOMAIN chunk = 1..ChunkLength(length, n)
        /\ \A m \in 1..ChunkLength(length, n) : chunk[m] = addresses[Place(n, m)]
    BY <1>3, <1>4, ChunkOfList
  <2>2. \A m \in 1..ChunkLength(length, n) : Place(n, m) \in 1..length
    BY <1>3, <1>4, ChunkBounds
  <2>3. \A i \in 1..length : addresses[i] \in DOMAIN seen
    BY <1>3
  <2> QED
    BY <2>1, <2>2, <2>3
<1> HIDE DEF chunk
<1>6. /\ DOMAIN reply = 1..ChunkLength(length, n)
      /\ \A m \in 1..ChunkLength(length, n) :
            reply[m] \in seen[addresses[Place(n, m)]]
  BY <1>1, <1>5 DEF SeenIsPast
<1> HIDE DEF reply
<1>7. RepliesSeen'
  <2>1. /\ DOMAIN replies' = DOMAIN replies
        /\ \A k \in DOMAIN replies : replies'[k] = IF k = n THEN reply ELSE replies[k]
    BY <1>2
  <2> QED
    BY <1>1, <1>2, <1>6, <2>1 DEF RepliesSeen
<1>8. SeenIsPast' /\ AddressesListed'
  BY <1>1, <1>2 DEF SeenIsPast, AddressesListed
<1>9. PairsWereThere' /\ ListingIsComplete'
  BY <1>2 DEF ListingInv, PairsWereThere, ListingIsComplete
<1> QED
  BY <1>7, <1>8, <1>9 DEF ListingInv

LEMMA ReadFailsOK == ReadFails => ListingInv'
<1> SUFFICES ASSUME ReadFails PROVE ListingInv'
  OBVIOUS
<1>1. addresses' = None /\ result'.outcome = "requestFailed" /\ result'.pairs = {}
  BY DEF ReadFails
<1> QED
  BY <1>1, NoPairs DEF ListingInv

LEMMA DecodeOK ==
    ASSUME ListingInv, addresses # None, Decode
    PROVE  ListingInv'
<1> DEFINE length == Len(addresses)
           chunks == CeilDiv(length, ChunkSize)
           places == {p \in (DOMAIN replies) \X (1..ChunkSize) :
                        p[2] \in DOMAIN replies[p[1]]}
<1>1. AddressesListed /\ RepliesSeen
  BY DEF ListingInv
<1>2. addresses' = None /\ seen' = seen /\ \A n \in DOMAIN replies : replies[n] # None
  BY DEF Decode
<1>3. addresses \in Seq(DOMAIN seen) /\ length \in Nat
  BY <1>1 DEF AddressesListed
<1>4. CASE \E p \in places : replies[p[1]][p[2]] = NoEscrow
  <2>1. result' = [outcome |-> "undecodable", pairs |-> {}]
    BY <1>4 DEF Decode
  <2> QED
    BY <1>2, <2>1, NoPairs DEF ListingInv
<1>5. CASE ~\E p \in places : replies[p[1]][p[2]] = NoEscrow
  <2>1. result' = [outcome |-> "listed", pairs |-> {Paired(p[1], p[2]) : p \in places}]
    BY <1>5, Zenon DEF Decode
  <2>2. /\ \A p \in places :
            p[1] \in 1..chunks /\ p[2] \in 1..ChunkLength(length, p[1])
        /\ \A n \in 1..chunks : \A m \in 1..ChunkLength(length, n) :
            \E p \in places : p[1] = n /\ p[2] = m
    <3>1. \A n \in 1..chunks : /\ DOMAIN replies[n] = 1..ChunkLength(length, n)
                               /\ ChunkLength(length, n) \in 1..ChunkSize
      BY <1>1, <1>2, <1>3, ChunkBounds DEF RepliesSeen
    <3>2. DOMAIN replies = 1..chunks
      BY <1>1 DEF RepliesSeen
    <3>3. \A p \in places :
            p[1] \in 1..chunks /\ p[2] \in 1..ChunkLength(length, p[1])
      BY <3>1, <3>2
    <3>4. ASSUME NEW n \in 1..chunks, NEW m \in 1..ChunkLength(length, n)
          PROVE  \E p \in places : p[1] = n /\ p[2] = m
      <4>1. n \in DOMAIN replies /\ m \in 1..ChunkSize /\ m \in DOMAIN replies[n]
        BY <3>1, <3>2, ChunkSizeAssumption
      <4> DEFINE p == <<n, m>>
      <4>2. p[1] = n /\ p[2] = m /\ p \in (DOMAIN replies) \X (1..ChunkSize)
        BY <4>1
      <4> HIDE DEF p
      <4>3. p \in places
        BY <4>1, <4>2
      <4> QED
        BY <4>2, <4>3
    <3> QED
      BY <3>3, <3>4
  <2> HIDE DEF places
  <2>3. ASSUME NEW n \in 1..chunks, NEW m \in 1..ChunkLength(length, n)
        PROVE  LET pair == Paired(n, m)
               IN  /\ Place(n, m) \in 1..length
                   /\ pair = <<addresses[Place(n, m)], replies[n][m]>>
                   /\ pair[1] = addresses[Place(n, m)]
                   /\ pair[1] \in DOMAIN seen
                   /\ pair[2] \in seen[pair[1]] \ {NoEscrow}
    <3>1. Place(n, m) \in 1..length
      BY <1>3, ChunkBounds
    <3>2. ChunkedAddresses(addresses)[n][m] = addresses[Place(n, m)]
      BY <1>3, ChunkOfList
    <3>3. replies[n][m] \in seen[addresses[Place(n, m)]]
      BY <1>1, <1>2 DEF RepliesSeen
    <3>4. replies[n][m] # NoEscrow
      BY <1>5, <2>2
    <3>5. addresses[Place(n, m)] \in DOMAIN seen
      BY <1>3, <3>1
    <3> QED
      BY <3>1, <3>2, <3>3, <3>4, <3>5 DEF Paired
  <2>4. \A x : x \in result'.pairs <=>
            \E n \in 1..chunks : \E m \in 1..ChunkLength(length, n) : x = Paired(n, m)
    <3>1. result'.pairs = {Paired(p[1], p[2]) : p \in places}
      BY <2>1
    <3> QED
      BY <2>2, <3>1
  <2>5. PairsWereThere'
    BY <1>2, <2>3, <2>4 DEF PairsWereThere
  <2>6. ASSUME NEW k \in DOMAIN seen, NoEscrow \notin seen[k]
        PROVE  \E pair \in result'.pairs : pair[1] = k
    <3>1. PICK i \in 1..length : addresses[i] = k
      BY <1>1, <2>6 DEF AddressesListed
    <3>2. PICK n \in 1..chunks : \E m \in 1..ChunkLength(length, n) : Place(n, m) = i
      BY <1>3, <3>1, PlaceFound
    <3>3. PICK m \in 1..ChunkLength(length, n) : Place(n, m) = i
      BY <3>2
    <3>4. Paired(n, m) \in result'.pairs /\ Paired(n, m)[1] = k
      BY <2>3, <2>4, <3>1, <3>3
    <3> QED
      BY <3>4
  <2>7. ASSUME NEW x \in result'.pairs, NEW y \in result'.pairs, x[1] = y[1]
        PROVE  x = y
    <3>1. \E n \in 1..chunks : \E m \in 1..ChunkLength(length, n) : x = Paired(n, m)
      BY <2>4
    <3>2. PICK n1 \in 1..chunks :
            \E m \in 1..ChunkLength(length, n1) : x = Paired(n1, m)
      BY <3>1
    <3>3. PICK m1 \in 1..ChunkLength(length, n1) : x = Paired(n1, m1)
      BY <3>2
    <3>4. \E n \in 1..chunks : \E m \in 1..ChunkLength(length, n) : y = Paired(n, m)
      BY <2>4
    <3>5. PICK n2 \in 1..chunks :
            \E m \in 1..ChunkLength(length, n2) : y = Paired(n2, m)
      BY <3>4
    <3>6. PICK m2 \in 1..ChunkLength(length, n2) : y = Paired(n2, m2)
      BY <3>5
    <3>7. Place(n1, m1) = Place(n2, m2)
      BY <1>1, <2>3, <2>7, <3>3, <3>6 DEF AddressesListed
    <3>8. ChunkLength(length, n1) \in 1..ChunkSize /\ ChunkLength(length, n2) \in 1..ChunkSize
      BY <1>3, ChunkBounds
    <3>9. m1 \in 1..ChunkSize /\ m2 \in 1..ChunkSize
      BY <3>8, ChunkSizeAssumption
    <3>10. n1 = n2 /\ m1 = m2
      BY <3>7, <3>9, PlaceUnique
    <3> QED
      BY <3>3, <3>6, <3>10
  <2>8. ListingIsComplete'
    BY <1>2, <2>6, <2>7 DEF ListingIsComplete
  <2> QED
    BY <1>2, <2>5, <2>8 DEF ListingInv
<1> QED
  BY <1>4, <1>5

LEMMA OthersActOK ==
    ASSUME ListingInv, OthersAct
    PROVE  ListingInv'
<1>1. addresses' = addresses /\ replies' = replies
  BY DEF OthersAct
<1>2. CASE addresses = None
  <2>1. result' = Nothing
    BY <1>2 DEF OthersAct
  <2>2. result'.outcome # "listed" /\ result'.pairs = {}
    BY <2>1 DEF Nothing
  <2> QED
    BY <1>1, <1>2, <2>2, NoPairs DEF ListingInv
<1>3. CASE addresses # None
  <2>1. SeenIsPast /\ AddressesListed /\ RepliesSeen
    BY <1>3 DEF ListingInv
  <2>2. /\ result' = result
        /\ seen' = [k \in DOMAIN seen |-> seen[k] \cup {escrows'[k]}]
    BY <1>3 DEF OthersAct
  <2>3. /\ DOMAIN seen' = DOMAIN seen
        /\ \A k \in DOMAIN seen : seen'[k] = seen[k] \cup {escrows'[k]}
    BY <2>2
  <2>4. SeenIsPast'
    BY <2>3 DEF SeenIsPast
  <2>5. AddressesListed'
    BY <1>1, <2>1, <2>3 DEF AddressesListed
  <2>6. RepliesSeen'
    <3>1. addresses \in Seq(DOMAIN seen) /\ Len(addresses) \in Nat
      BY <2>1 DEF AddressesListed
    <3>2. \A n \in 1..CeilDiv(Len(addresses), ChunkSize) :
            \A m \in 1..ChunkLength(Len(addresses), n) :
                addresses[Place(n, m)] \in DOMAIN seen
      <4>1. \A n \in 1..CeilDiv(Len(addresses), ChunkSize) :
              \A m \in 1..ChunkLength(Len(addresses), n) :
                Place(n, m) \in 1..Len(addresses)
        BY <3>1, ChunkBounds
      <4> QED
        BY <3>1, <4>1
    <3> QED
      BY <1>1, <2>1, <2>3, <3>2 DEF RepliesSeen
  <2>7. PairsWereThere'
    BY <2>2, <2>3 DEF ListingInv, PairsWereThere
  <2>8. ListingIsComplete'
    BY <2>2, <2>3 DEF ListingInv, ListingIsComplete
  <2> QED
    BY <2>4, <2>5, <2>6, <2>7, <2>8 DEF ListingInv
<1> QED
  BY <1>2, <1>3

LEMMA ListingStepOK == ListingInv /\ [ListingNext]_ledgerAndListing => ListingInv'
<1> SUFFICES ASSUME ListingInv, [ListingNext]_ledgerAndListing PROVE ListingInv'
  OBVIOUS
<1>1. CASE UNCHANGED ledgerAndListing
  BY <1>1 DEF ledgerAndListing, ListingInv, SeenIsPast, AddressesListed, RepliesSeen,
              PairsWereThere, ListingIsComplete
<1> QED
  BY <1>1, OthersActOK, ListAddressesOK, ReadChunkOK, DecodeOK, ReadFailsOK
     DEF ListingNext

LEMMA ListingInvariant == ListingSpec => []ListingInv
  BY ListingInitOK, ListingStepOK, PTL DEF ListingSpec

---------------------------------------------------------------------------
(* The theorems *)

\* getEscrowsByPresale and getEscrowsByPresaleRegistry return under each address an
\* account that was there at some moment of the call, of a registry that was asked
\* for: the positions in the chunks of fetchMultipleAccountsAutoChunk are those of
\* the addresses, whatever the chunk size and whichever reply comes first.
THEOREM PairsWereThereTheorem == ListingSpec => []PairsWereThere
<1>1. ListingInv => PairsWereThere
  BY DEF ListingInv
<1> QED
  BY <1>1, ListingInvariant, PTL

\* A list they return has each escrow once, and every escrow that was there all
\* through the call: the last chunk, which may be short, is not lost.
THEOREM ListingIsCompleteTheorem == ListingSpec => []ListingIsComplete
<1>1. ListingInv => ListingIsComplete
  BY DEF ListingInv
<1> QED
  BY <1>1, ListingInvariant, PTL
=============================================================================
