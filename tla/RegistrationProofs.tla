------------------------- MODULE RegistrationProofs -------------------------
(***************************************************************************)
(* Registration for any number of requests, devices and addresses and any  *)
(* limits: the counters of the devices account for every request, the      *)
(* window of the address closes, and the device limit implements the       *)
(* quota of module Quota.                                                   *)
(*                                                                         *)
(* What makes the accounting inductive is LostIsReleased: only a request   *)
(* that reached its release can have lost it, so that a release always     *)
(* takes one out of the set the key counts.  The quota follows because the *)
(* requests admitted are among those counted.                              *)
(***************************************************************************)
EXTENDS Registration, FiniteSetTheorems, TLAPS

\* TypeOK, except that the device's keys are not yet known to stay above zero:
\* that follows from what they count.
Types ==
    /\ stage \in [Reqs -> Stages]
    /\ alive \subseteq Reqs
    /\ ipCount \in Int
    /\ ipLife \in {"absent", "endless", "day"}
    /\ ipLife = "absent" => ipCount = 0
    /\ unset \subseteq Reqs
    /\ deviceCount \in [Devices -> Int]
    /\ lost \subseteq Reqs
    /\ accounts \subseteq Reqs
    /\ codes \subseteq Emails

\* A release that was lost was tried.
LostIsReleased ==
    \A r \in lost : stage[r] \in {"backIP", "refused", "failed"}

IInv == Types /\ LostIsReleased /\ SlotsAccounted /\ IpWindowCloses

Counts(r) == stage[r] \in Holding \cup Keeping \cup {"overDevice"} \/ r \in lost

\* A command a request may run, or its death.
Step(r) == Verify(r) \/ CountAddress(r) \/ CountDevice(r) \/ Insert(r) \/ Dies(r)

\* Steps that are no request's.
Environment == (\E e \in Emails : SendCode(e) \/ CodeGone(e)) \/ IpExpires
-----------------------------------------------------------------------------
\* The requests of a device are finitely many, and so are those it counts.
LEMMA CountedFinite == \A d \in Devices : IsFiniteSet(Counted(d))
  <1>1. \A d \in Devices : Counted(d) \subseteq Reqs
    BY DEF Counted, Of
  <1> QED BY <1>1, FS_Subset, RequestsAssumption

\* The initial state.
LEMMA InitIInv == RegistrationInit => IInv
  <1> SUFFICES ASSUME RegistrationInit PROVE IInv
    OBVIOUS
  <1>1. Types /\ LostIsReleased /\ IpWindowCloses
    BY DEF RegistrationInit, Types, LostIsReleased, IpWindowCloses, Stages
  <1>2. ASSUME NEW d \in Devices PROVE deviceCount[d] = Cardinality(Counted(d))
    <2>1. Counted(d) = {}
      BY DEF RegistrationInit, Counted, Of, Holding, Keeping
    <2> QED BY <2>1, FS_EmptySet DEF RegistrationInit
  <1> QED BY <1>1, <1>2 DEF IInv, SlotsAccounted

\* Every step of a request keeps the types.
LEMMA StepType ==
    ASSUME Types, NEW r \in Reqs, Step(r) PROVE Types'
  <1> USE DEF Types, At, Goto, Stages, Holding, Keeping, Resting,
          ipVars, devVars
  <1>1. CASE Verify(r) BY <1>1 DEF Verify
  <1>2. CASE CountAddress(r)
    <2>1. CASE IncrIP(r) BY <2>1 DEF IncrIP, AddIP
    <2>2. CASE IncrIPFails(r) BY <2>2 DEF IncrIPFails
    <2>3. CASE ExpireIP(r) BY <2>3 DEF ExpireIP
    <2>4. CASE OverIP(r) BY <2>4 DEF OverIP, ReleaseIP, AddIP
    <2> QED BY <1>2, <2>1, <2>2, <2>3, <2>4 DEF CountAddress
  <1>3. CASE CountDevice(r)
    <2> USE RequestsAssumption
    <2>1. CASE IncrDevice(r) BY <2>1 DEF IncrDevice, AddDevice
    <2>2. CASE IncrDeviceFails(r) BY <2>2 DEF IncrDeviceFails
    <2>3. CASE OverDevice(r) BY <2>3 DEF OverDevice, ReleaseDevice, AddDevice
    <2>4. CASE BackIP(r) BY <2>4 DEF BackIP, ReleaseIP, AddIP
    <2> QED BY <1>3, <2>1, <2>2, <2>3, <2>4 DEF CountDevice
  <1>4. CASE Insert(r)
    <2> USE RequestsAssumption
    <2>1. CASE FindEmail(r) BY <2>1 DEF FindEmail
    <2>2. CASE Create(r) BY <2>2 DEF Create
    <2>3. CASE SyncWallet(r) BY <2>3 DEF SyncWallet
    <2>4. CASE GiveIP(r) BY <2>4 DEF GiveIP, ReleaseIP, AddIP
    <2>5. CASE GiveDevice(r) BY <2>5 DEF GiveDevice, ReleaseDevice, AddDevice
    <2>6. CASE DeleteCode(r) BY <2>6 DEF DeleteCode
    <2> QED BY <1>4, <2>1, <2>2, <2>3, <2>4, <2>5, <2>6 DEF Insert
  <1>5. CASE Dies(r) BY <1>5 DEF Dies
  <1> QED BY <1>1, <1>2, <1>3, <1>4, <1>5 DEF Step
-----------------------------------------------------------------------------
\* What a step of r does to the stages, the lost releases and the counters:
\* it leaves the count and the other requests alone, or counts r, or takes r
\* out of the count.
Quiet(r) ==
    /\ UNCHANGED deviceCount
    /\ \A q \in Reqs : Counts(q)' <=> Counts(q)

Up(r) ==
    /\ AddDevice(r, 1)
    /\ ~Counts(r) /\ Counts(r)'
    /\ \A q \in Reqs \ {r} : Counts(q)' <=> Counts(q)

Down(r) ==
    /\ AddDevice(r, -1)
    /\ Counts(r) /\ ~Counts(r)'
    /\ \A q \in Reqs \ {r} : Counts(q)' <=> Counts(q)

LEMMA StepCounts ==
    ASSUME Types, LostIsReleased, NEW r \in Reqs, Step(r)
    PROVE  /\ LostIsReleased'
           /\ Quiet(r) \/ Up(r) \/ Down(r)
  <1> USE DEF Types, LostIsReleased, At, Goto, Stages, Holding, Keeping,
          Resting, devVars, Counts
  <1>1. CASE Verify(r) BY <1>1 DEF Verify, Quiet
  <1>2. CASE CountAddress(r)
    BY <1>2 DEF CountAddress, IncrIP, IncrIPFails, ExpireIP, OverIP, Quiet
  <1>3. CASE CountDevice(r)
    <2>1. CASE IncrDevice(r) BY <2>1 DEF IncrDevice, Up
    <2>2. CASE IncrDeviceFails(r) BY <2>2 DEF IncrDeviceFails, Quiet
    <2>3. CASE OverDevice(r)
      BY <2>3 DEF OverDevice, ReleaseDevice, Quiet, Down
    <2>4. CASE BackIP(r) BY <2>4 DEF BackIP, Quiet
    <2> QED BY <1>3, <2>1, <2>2, <2>3, <2>4 DEF CountDevice
  <1>4. CASE Insert(r)
    <2>1. CASE GiveDevice(r)
      BY <2>1 DEF GiveDevice, ReleaseDevice, Quiet, Down
    <2>2. CASE FindEmail(r) BY <2>2 DEF FindEmail, Quiet
    <2>3. CASE Create(r) BY <2>3 DEF Create, Quiet
    <2>4. CASE SyncWallet(r) BY <2>4 DEF SyncWallet, Quiet
    <2>5. CASE GiveIP(r) BY <2>5 DEF GiveIP, Quiet
    <2>6. CASE DeleteCode(r) BY <2>6 DEF DeleteCode, Quiet
    <2> QED BY <1>4, <2>1, <2>2, <2>3, <2>4, <2>5, <2>6 DEF Insert
  <1>5. CASE Dies(r) BY <1>5 DEF Dies, Quiet
  <1> QED BY <1>1, <1>2, <1>3, <1>4, <1>5 DEF Step

\* The account of a device after such a step.
LEMMA StepAccounts ==
    ASSUME Types, SlotsAccounted, NEW r \in Reqs,
           Quiet(r) \/ Up(r) \/ Down(r)
    PROVE  SlotsAccounted'
  <1> SUFFICES ASSUME NEW d \in Devices
               PROVE  deviceCount'[d] = Cardinality(Counted(d)')
    BY DEF SlotsAccounted
  <1>0. /\ IsFiniteSet(Counted(d))
        /\ deviceCount[d] = Cardinality(Counted(d))
        /\ deviceCount \in [Devices -> Int]
    BY CountedFinite DEF SlotsAccounted, Types
  <1>1. \A q : q \in Counted(d) <=> q \in Reqs /\ DeviceOf[q] = d /\ Counts(q)
    BY DEF Counted, Of, Counts
  <1>2. \A q : q \in Counted(d)' <=> q \in Reqs /\ DeviceOf[q] = d /\ Counts(q)'
    BY DEF Counted, Of, Counts
  <1>3. CASE Quiet(r)
    <2>1. Counted(d)' = Counted(d)
      BY <1>1, <1>2, <1>3 DEF Quiet
    <2> QED BY <1>0, <1>3, <2>1 DEF Quiet
  <1>4. CASE DeviceOf[r] # d /\ (Up(r) \/ Down(r))
    <2>1. Counted(d)' = Counted(d)
      BY <1>1, <1>2, <1>4 DEF Up, Down
    <2>2. deviceCount'[d] = deviceCount[d]
      BY <1>0, <1>4 DEF Up, Down, AddDevice
    <2> QED BY <1>0, <2>1, <2>2
  <1>5. CASE DeviceOf[r] = d /\ Up(r)
    <2>1. r \notin Counted(d) /\ Counted(d)' = Counted(d) \cup {r}
      BY <1>1, <1>2, <1>5 DEF Up
    <2>2. Cardinality(Counted(d)') = Cardinality(Counted(d)) + 1
      BY <1>0, <2>1, FS_AddElement
    <2>3. deviceCount'[d] = deviceCount[d] + 1
      BY <1>0, <1>5 DEF Up, AddDevice
    <2> QED BY <1>0, <2>2, <2>3
  <1>6. CASE DeviceOf[r] = d /\ Down(r)
    <2>1. r \in Counted(d) /\ Counted(d)' = Counted(d) \ {r}
      BY <1>1, <1>2, <1>6 DEF Down
    <2>2. Cardinality(Counted(d)') = Cardinality(Counted(d)) - 1
      BY <1>0, <2>1, FS_RemoveElement
    <2>3. deviceCount'[d] = deviceCount[d] - 1
      BY <1>0, <1>6 DEF Down, AddDevice
    <2> QED BY <1>0, <2>2, <2>3
  <1> QED BY <1>3, <1>4, <1>5, <1>6
-----------------------------------------------------------------------------
\* A request that finds the counter at zero goes on to set the expiry; the
\* others find it above zero, or leave it at zero or below.
LEMMA StepWindow ==
    ASSUME Types, IpWindowCloses, NEW r \in Reqs, Step(r)
    PROVE  IpWindowCloses'
  <1> USE DEF Types, IpWindowCloses, At, Goto
  <1>1. CASE UNCHANGED <<ipCount, ipLife, unset>> /\ stage[r] # "ttl" /\
             (UNCHANGED stage \/ \E s \in Stages : Goto(r, s))
    BY <1>1
  <1>2. CASE IncrIP(r) BY <1>2 DEF IncrIP, AddIP
  <1>3. CASE ExpireIP(r) BY <1>3 DEF ExpireIP
  <1>4. CASE ReleaseIP /\ stage[r] # "ttl" /\ \E s \in Stages : Goto(r, s)
    BY <1>4 DEF ReleaseIP, AddIP
  <1>5. CASE Dies(r) BY <1>5 DEF Dies, ipVars
  <1>6. CASE Verify(r) BY <1>1, <1>6 DEF Verify, ipVars, Stages, Resting
  <1>7. CASE CountAddress(r)
    BY <1>1, <1>2, <1>3, <1>4, <1>7
       DEF CountAddress, IncrIPFails, OverIP, ipVars, Stages, Resting
  <1>8. CASE CountDevice(r)
    BY <1>1, <1>4, <1>8 DEF CountDevice, IncrDevice, IncrDeviceFails,
       OverDevice, BackIP, ipVars, Stages, Holding, Resting
  <1>9. CASE Insert(r)
    <2>1. CASE GiveIP(r) BY <1>4, <2>1 DEF GiveIP, Stages, Holding
    <2>2. CASE FindEmail(r) BY <1>1, <2>2 DEF FindEmail, ipVars, Stages, Holding
    <2>3. CASE Create(r) BY <1>1, <2>3 DEF Create, ipVars, Stages, Holding
    <2>4. CASE SyncWallet(r)
      BY <1>1, <2>4 DEF SyncWallet, ipVars, Stages, Holding, Keeping
    <2>5. CASE GiveDevice(r)
      BY <1>1, <2>5 DEF GiveDevice, ipVars, Stages, Resting
    <2>6. CASE DeleteCode(r)
      BY <1>1, <2>6 DEF DeleteCode, ipVars, Stages, Keeping
    <2> QED BY <1>9, <2>1, <2>2, <2>3, <2>4, <2>5, <2>6 DEF Insert
  <1> QED BY <1>5, <1>6, <1>7, <1>8, <1>9 DEF Step

\* Codes and the expiry of the window disturb none of it.
LEMMA EnvironmentIInv == IInv /\ Environment => IInv'
  <1> SUFFICES ASSUME IInv, Environment PROVE IInv'
    OBVIOUS
  <1>1. Types' /\ LostIsReleased' /\ IpWindowCloses'
    BY DEF IInv, Environment, Types, LostIsReleased, IpWindowCloses,
           SendCode, CodeGone, IpExpires, ipVars, devVars
  <1>2. UNCHANGED <<stage, lost, deviceCount>>
    BY DEF Environment, SendCode, CodeGone, IpExpires, devVars
  <1>3. SlotsAccounted'
    BY <1>2 DEF IInv, SlotsAccounted, Counted
  <1> QED BY <1>1, <1>3 DEF IInv

LEMMA NextIInv == IInv /\ [RegistrationNext]_vars => IInv'
  <1> SUFFICES ASSUME IInv, [RegistrationNext]_vars PROVE IInv'
    OBVIOUS
  <1>1. CASE UNCHANGED vars
    BY <1>1 DEF vars, ipVars, devVars, IInv, Types, LostIsReleased,
       SlotsAccounted, Counted, IpWindowCloses
  <1>2. ASSUME NEW r \in Reqs, Step(r) PROVE IInv'
    <2>1. Types' BY <1>2, StepType DEF IInv
    <2>2. LostIsReleased' /\ (Quiet(r) \/ Up(r) \/ Down(r))
      BY <1>2, StepCounts DEF IInv
    <2>3. SlotsAccounted' BY <2>2, StepAccounts DEF IInv
    <2>4. IpWindowCloses' BY <1>2, StepWindow DEF IInv
    <2> QED BY <2>1, <2>2, <2>3, <2>4 DEF IInv
  <1>3. CASE RegistrationNext
    BY <1>2, <1>3, EnvironmentIInv DEF RegistrationNext, Step, Environment
  <1> QED BY <1>1, <1>3

\* The inductive invariant holds in every reachable state.
THEOREM RegistrationInvariant == RegistrationSpec => []IInv
  BY InitIInv, NextIInv, PTL DEF RegistrationSpec

\* What counts requests is not below zero.
LEMMA TypesOfCounters == IInv => TypeOK
  <1> SUFFICES ASSUME IInv PROVE TypeOK
    OBVIOUS
  <1>1. ASSUME NEW d \in Devices PROVE deviceCount[d] \in Nat
    BY CountedFinite, FS_CardinalityType DEF IInv, SlotsAccounted
  <1> QED BY <1>1 DEF IInv, Types, TypeOK

\* The types, for all values of the constants, and that no release takes a
\* device's key below zero.
THEOREM RegistrationTypes == RegistrationSpec => []TypeOK
  BY RegistrationInvariant, TypesOfCounters, PTL

\* A device's counter counts exactly the successes, the requests under way and
\* the releases that were lost (SlotsAccounted), for any number of requests.
THEOREM SlotsAreAccounted == RegistrationSpec => []SlotsAccounted
  BY RegistrationInvariant, PTL DEF IInv

\* The window of the client address closes (IpWindowCloses), however the
\* requests of the address interleave and die.
THEOREM WindowCloses == RegistrationSpec => []IpWindowCloses
  BY RegistrationInvariant, PTL DEF IInv
-----------------------------------------------------------------------------
\* The initial states map to initial states of the quota.
LEMMA QuotaStarts == RegistrationInit => DeviceQuota!QuotaInit
  BY DEF RegistrationInit, DeviceQuota!QuotaInit, Admitted, Kept, Released,
         Holding, Keeping

\* The cardinality the quota speaks of is the same one.
LEMMA QuotaCardinality ==
    \A S : DeviceQuota!Cardinality(S) = Cardinality(S)
  BY DEF DeviceQuota!Cardinality, Cardinality

\* What is admitted of a device is no more than what its key counts.
LEMMA AdmittedAreCounted ==
    ASSUME IInv, NEW d \in Devices
    PROVE  Cardinality(DeviceQuota!Held(d)) <= deviceCount[d]
  <1>1. DeviceQuota!Held(d) \subseteq Counted(d)
    BY DEF DeviceQuota!Held, Admitted, Counted, Of
  <1>2. Cardinality(DeviceQuota!Held(d)) <= Cardinality(Counted(d))
    BY <1>1, CountedFinite, FS_Subset
  <1> QED BY <1>2 DEF IInv, SlotsAccounted

\* What a step does to the mapped variables when it is none of the three.
SameQuota == UNCHANGED <<Admitted, Kept, Released>>

LEMMA StepMaps ==
    ASSUME IInv, NEW r \in Reqs, Step(r)
    PROVE  SameQuota \/ DeviceQuota!QuotaNext
  <1> USE DEF IInv, Types, LostIsReleased, At, Goto, Stages, Holding, Keeping,
          Resting, devVars
  <1>1. CASE Verify(r)
    BY <1>1 DEF Verify, SameQuota, Admitted, Kept, Released
  <1>2. CASE CountAddress(r)
    BY <1>2 DEF CountAddress, IncrIP, IncrIPFails, ExpireIP, OverIP,
       SameQuota, Admitted, Kept, Released
  <1>3. CASE CountDevice(r)
    <2>1. CASE IncrDevice(r) /\ stage'[r] = "find"
      <3>1. Cardinality(DeviceQuota!Held(DeviceOf[r])) < DeviceLimit
        <4>1. deviceCount[DeviceOf[r]] + 1 <= DeviceLimit
          BY <2>1 DEF IncrDevice
        <4>2. DeviceOf[r] \in Devices
          BY RequestsAssumption
        <4>3. Cardinality(DeviceQuota!Held(DeviceOf[r])) <= deviceCount[DeviceOf[r]]
          BY <4>2, AdmittedAreCounted
        <4>4. IsFiniteSet(DeviceQuota!Held(DeviceOf[r]))
          BY FS_Subset, RequestsAssumption DEF DeviceQuota!Held, Admitted
        <4> QED BY <4>1, <4>2, <4>3, <4>4, FS_CardinalityType, LimitsAssumption
      <3>2. r \notin Admitted \cup Released
        BY <2>1 DEF IncrDevice, Admitted, Released
      <3>3. Admitted' = Admitted \cup {r} /\ UNCHANGED <<Kept, Released>>
        BY <2>1 DEF IncrDevice, Admitted, Kept, Released
      <3> QED BY <3>1, <3>2, <3>3, QuotaCardinality
          DEF DeviceQuota!QuotaNext, DeviceQuota!Grant
    <2>2. CASE IncrDevice(r) /\ stage'[r] # "find"
      BY <2>2 DEF IncrDevice, SameQuota, Admitted, Kept, Released
    <2>3. CASE IncrDeviceFails(r)
      BY <2>3 DEF IncrDeviceFails, SameQuota, Admitted, Kept, Released
    <2>4. CASE OverDevice(r)
      BY <2>4 DEF OverDevice, ReleaseDevice, SameQuota, Admitted, Kept, Released
    <2>5. CASE BackIP(r)
      BY <2>5 DEF BackIP, SameQuota, Admitted, Kept, Released
    <2> QED BY <1>3, <2>1, <2>2, <2>3, <2>4, <2>5 DEF CountDevice
  <1>4. CASE Insert(r)
    <2>1. CASE FindEmail(r) \/ Create(r) \/ GiveIP(r) \/ DeleteCode(r)
      BY <2>1 DEF FindEmail, Create, GiveIP, DeleteCode,
         SameQuota, Admitted, Kept, Released
    <2>2. CASE SyncWallet(r) /\ stage'[r] = "clean"
      <3>1. r \in Admitted \ Kept
        BY <2>2 DEF SyncWallet, Admitted, Kept
      <3>2. Kept' = Kept \cup {r} /\ UNCHANGED <<Admitted, Released>>
        BY <2>2 DEF SyncWallet, Admitted, Kept, Released
      <3> QED BY <3>1, <3>2 DEF DeviceQuota!QuotaNext, DeviceQuota!Keep
    <2>3. CASE SyncWallet(r) /\ stage'[r] # "clean"
      BY <2>3 DEF SyncWallet, SameQuota, Admitted, Kept, Released
    <2>4. CASE GiveDevice(r) /\ UNCHANGED lost
      <3>1. r \in Admitted \ Kept
        BY <2>4 DEF GiveDevice, Admitted, Kept
      <3>2. /\ Admitted' = Admitted \ {r}
            /\ Released' = Released \cup {r}
            /\ UNCHANGED Kept
        BY <2>4 DEF GiveDevice, Admitted, Kept, Released
      <3> QED BY <3>1, <3>2 DEF DeviceQuota!QuotaNext, DeviceQuota!GiveBack
    <2>5. CASE GiveDevice(r) /\ lost' = lost \cup {r}
      BY <2>5 DEF GiveDevice, SameQuota, Admitted, Kept, Released
    <2> QED BY <1>4, <2>1, <2>2, <2>3, <2>4, <2>5
            DEF Insert, GiveDevice, ReleaseDevice
  <1>5. CASE Dies(r)
    BY <1>5 DEF Dies, SameQuota, Admitted, Kept, Released
  <1> QED BY <1>1, <1>2, <1>3, <1>4, <1>5 DEF Step

\* Every step of registration is a step of the quota or leaves it alone.
LEMMA NextMaps ==
    IInv /\ [RegistrationNext]_vars
        => [DeviceQuota!QuotaNext]_<<Admitted, Kept, Released>>
  <1> SUFFICES ASSUME IInv, [RegistrationNext]_vars
               PROVE  SameQuota \/ DeviceQuota!QuotaNext
    BY DEF SameQuota
  <1>1. CASE UNCHANGED vars \/ Environment
    BY <1>1 DEF vars, devVars, Environment, SendCode, CodeGone, IpExpires,
       SameQuota, Admitted, Kept, Released
  <1>2. CASE \E r \in Reqs : Step(r)
    BY <1>2, StepMaps
  <1> QED BY <1>1, <1>2 DEF RegistrationNext, Step, Environment

\* Registration implements the quota (ImplementsQuota): the counter in Redis,
\* incremented before it is looked at, never lets more attempts of a device in
\* than its limit, and takes back each place at most once.
THEOREM RegistrationImplementsQuota == RegistrationSpec => ImplementsQuota
  <1>1. RegistrationInit => DeviceQuota!QuotaInit
    BY QuotaStarts
  <1>2. IInv /\ [RegistrationNext]_vars
          => [DeviceQuota!QuotaNext]_<<Admitted, Kept, Released>>
    BY NextMaps
  <1> QED BY <1>1, <1>2, RegistrationInvariant, PTL
          DEF RegistrationSpec, ImplementsQuota, DeviceQuota!QuotaSpec
=============================================================================
