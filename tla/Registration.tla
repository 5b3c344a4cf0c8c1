---------------------------- MODULE Registration ----------------------------
(***************************************************************************)
(* Registration with an e-mail address                                     *)
(* (src/internal/apis/handler/web/v1/auth.go, Register): the code mailed to *)
(* the address, the counters in Redis that limit how many accounts one     *)
(* client address and one device may open                                  *)
(* (src/internal/repository/cache/register_limit.go), the row of the user  *)
(* and the account in the wallet (src/internal/service/user.go).           *)
(*                                                                         *)
(* Requests run concurrently and each command to Redis, to MySQL or to the *)
(* wallet is a step; a request may die between any two of them, and a      *)
(* command to Redis may fail without effect.  All requests come from one   *)
(* client address; they may share devices and e-mail addresses.            *)
(***************************************************************************)
EXTENDS Integers, FiniteSets

CONSTANTS
    Reqs,           \* registration requests
    Devices,        \* device codes
    Emails,         \* e-mail addresses
    DeviceOf,       \* the device code of each request
    EmailOf,        \* the address each request registers
    IPLimit,        \* config app.register_ip_limit
    DeviceLimit     \* config app.register_device_limit

ASSUME RequestsAssumption ==
    /\ IsFiniteSet(Reqs)
    /\ DeviceOf \in [Reqs -> Devices]
    /\ EmailOf \in [Reqs -> Emails]

\* Zero switches a limit off (app.go); the model is of the limits switched on.
ASSUME LimitsAssumption ==
    /\ IPLimit \in Nat \ {0}
    /\ DeviceLimit \in Nat \ {0}

VARIABLES
    stage,          \* what each request does next
    alive,          \* the requests whose process still runs
    ipCount,        \* register:ip:<address>, 0 while the key is absent
    ipLife,         \* whether that key is absent, has no TTL, or expires
    unset,          \* the requests whose EXPIRE failed, which is not looked at
    deviceCount,    \* register:device:<code>, a key that never expires
    lost,           \* the requests whose DECR of it failed, neither is this
    accounts,       \* the requests whose row of users was inserted
    codes           \* the addresses with a live verification code

ipVars  == <<ipCount, ipLife, unset>>
devVars == <<deviceCount, lost>>
vars    == <<stage, alive, ipVars, devVars, accounts, codes>>

\* What a request does while its device's key lets it in, and once it is done.
Holding == {"find", "create", "wallet", "giveIP", "giveDevice"}
Keeping == {"clean", "done"}
Resting == {"done", "refused", "failed"}
Stages  == Holding \cup Keeping \cup Resting
             \cup {"verify", "ip", "ttl", "overIP",
                   "device", "overDevice", "backIP"}

Of(d) == {r \in Reqs : DeviceOf[r] = d}

RegistrationInit ==
    /\ stage = [r \in Reqs |-> "verify"]
    /\ alive = Reqs
    /\ ipCount = 0
    /\ ipLife = "absent"
    /\ unset = {}
    /\ deviceCount = [d \in Devices |-> 0]
    /\ lost = {}
    /\ accounts = {}
    /\ codes = {}

At(r, s) == r \in alive /\ stage[r] = s
Goto(r, s) == stage' = [stage EXCEPT ![r] = s]

\* INCR and DECR on the address's key: either creates a key without a TTL.
AddIP(n) ==
    /\ ipCount' = ipCount + n
    /\ ipLife' = IF ipLife = "absent" THEN "endless" ELSE ipLife

\* The release of the address: an error is not looked at.
ReleaseIP ==
    /\ AddIP(-1) \/ UNCHANGED <<ipCount, ipLife>>
    /\ UNCHANGED unset

AddDevice(r, n) == deviceCount' = [deviceCount EXCEPT ![DeviceOf[r]] = @ + n]

\* The release of the device, likewise.
ReleaseDevice(r) ==
    \/ AddDevice(r, -1) /\ UNCHANGED lost
    \/ lost' = lost \cup {r} /\ UNCHANGED deviceCount
-----------------------------------------------------------------------------
\* EmailService.Send stores a code; it is gone after fifteen minutes, or when
\* five wrong ones were entered within three.
SendCode(e) ==
    /\ codes' = codes \cup {e}
    /\ UNCHANGED <<stage, alive, ipVars, devVars, accounts>>

CodeGone(e) ==
    /\ e \in codes
    /\ codes' = codes \ {e}
    /\ UNCHANGED <<stage, alive, ipVars, devVars, accounts>>

\* The checks before the limits: the code matches, or the request is refused.
Verify(r) ==
    /\ At(r, "verify")
    /\ \/ EmailOf[r] \in codes /\ Goto(r, "ip")
       \/ Goto(r, "refused")
    /\ UNCHANGED <<alive, ipVars, devVars, accounts, codes>>

\* TryAcquireIP counts first and looks at the limit afterwards; the first one
\* to be counted starts the 24 hours with a second command.
IncrIP(r) ==
    /\ At(r, "ip")
    /\ AddIP(1)
    /\ \/ ipCount + 1 = 1 /\ Goto(r, "ttl")
       \/ ipCount + 1 # 1 /\ ipCount + 1 > IPLimit /\ Goto(r, "overIP")
       \/ ipCount + 1 # 1 /\ ipCount + 1 <= IPLimit /\ Goto(r, "device")
    /\ UNCHANGED <<alive, unset, devVars, accounts, codes>>

IncrIPFails(r) ==
    /\ At(r, "ip")
    /\ Goto(r, "refused")
    /\ UNCHANGED <<alive, ipVars, devVars, accounts, codes>>

\* Mutant: EXPIRE is forgotten.
ExpireIPForgotten(r) ==
    /\ At(r, "ttl")
    /\ Goto(r, "device")
    /\ UNCHANGED <<alive, ipVars, devVars, accounts, codes>>

\* EXPIRE does nothing to a key that is gone.
ExpireIP(r) ==
    /\ At(r, "ttl")
    /\ \/ /\ ipLife' = IF ipLife = "absent" THEN "absent" ELSE "day"
          /\ UNCHANGED unset
       \/ unset' = unset \cup {r} /\ UNCHANGED ipLife
    /\ Goto(r, "device")
    /\ UNCHANGED <<alive, ipCount, devVars, accounts, codes>>

OverIP(r) ==
    /\ At(r, "overIP")
    /\ ReleaseIP
    /\ Goto(r, "refused")
    /\ UNCHANGED <<alive, devVars, accounts, codes>>

\* Mutant: off by one.
IncrDeviceOneMore(r) ==
    /\ At(r, "device")
    /\ AddDevice(r, 1)
    /\ \/ deviceCount[DeviceOf[r]] > DeviceLimit /\ Goto(r, "overDevice")
       \/ deviceCount[DeviceOf[r]] <= DeviceLimit /\ Goto(r, "find")
    /\ UNCHANGED <<alive, ipVars, lost, accounts, codes>>

\* TryAcquireDevice: the same, without a TTL.
IncrDevice(r) ==
    /\ At(r, "device")
    /\ AddDevice(r, 1)
    /\ \/ deviceCount[DeviceOf[r]] + 1 > DeviceLimit /\ Goto(r, "overDevice")
       \/ deviceCount[DeviceOf[r]] + 1 <= DeviceLimit /\ Goto(r, "find")
    /\ UNCHANGED <<alive, ipVars, lost, accounts, codes>>

\* Mutant: the release is handed out, and run, though nothing was counted.
IncrDeviceFailsReleases(r) ==
    /\ At(r, "device")
    /\ AddDevice(r, -1)
    /\ Goto(r, "backIP")
    /\ UNCHANGED <<alive, ipVars, lost, accounts, codes>>

\* A command that fails has counted nothing and hands out no release.
IncrDeviceFails(r) ==
    /\ At(r, "device")
    /\ Goto(r, "backIP")
    /\ UNCHANGED <<alive, ipVars, devVars, accounts, codes>>

OverDevice(r) ==
    /\ At(r, "overDevice")
    /\ ReleaseDevice(r)
    /\ Goto(r, "backIP")
    /\ UNCHANGED <<alive, ipVars, accounts, codes>>

\* The address's release when the device is refused.
BackIP(r) ==
    /\ At(r, "backIP")
    /\ ReleaseIP
    /\ Goto(r, "refused")
    /\ UNCHANGED <<alive, devVars, accounts, codes>>
-----------------------------------------------------------------------------
\* UserService.Register: is the address registered?  It is taken for free when
\* the lookup fails.
FindEmail(r) ==
    /\ At(r, "find")
    /\ \/ /\ \E a \in accounts : EmailOf[a] = EmailOf[r]
          /\ Goto(r, "giveIP")
       \/ Goto(r, "create")
    /\ UNCHANGED <<alive, ipVars, devVars, accounts, codes>>

\* The row is inserted: nothing in the schema keeps a second row of the same
\* address out.  The insert can fail, on the unique invite code among others.
Create(r) ==
    /\ At(r, "create")
    /\ \/ accounts' = accounts \cup {r} /\ Goto(r, "wallet")
       \/ UNCHANGED accounts /\ Goto(r, "giveIP")
    /\ UNCHANGED <<alive, ipVars, devVars, codes>>

\* syncUCardIfNeeded: the wallet is asked for an account once the row is in;
\* when that fails Register fails, and the row stays.
SyncWallet(r) ==
    /\ At(r, "wallet")
    /\ Goto(r, "clean") \/ Goto(r, "giveIP")
    /\ UNCHANGED <<alive, ipVars, devVars, accounts, codes>>

\* Both releases after a failure, the address's first.
GiveIP(r) ==
    /\ At(r, "giveIP")
    /\ ReleaseIP
    /\ Goto(r, "giveDevice")
    /\ UNCHANGED <<alive, devVars, accounts, codes>>

\* Mutant: the failure gives back the address's place only.
GiveDeviceForgotten(r) ==
    /\ At(r, "giveDevice")
    /\ Goto(r, "failed")
    /\ UNCHANGED <<alive, ipVars, devVars, accounts, codes>>

GiveDevice(r) ==
    /\ At(r, "giveDevice")
    /\ ReleaseDevice(r)
    /\ Goto(r, "failed")
    /\ UNCHANGED <<alive, ipVars, accounts, codes>>

\* The code is used up, unless Redis fails, and the request is answered with a
\* token.
DeleteCode(r) ==
    /\ At(r, "clean")
    /\ codes' \in {codes \ {EmailOf[r]}, codes}
    /\ Goto(r, "done")
    /\ UNCHANGED <<alive, ipVars, devVars, accounts>>
-----------------------------------------------------------------------------
\* The 24 hours are over.
IpExpires ==
    /\ ipLife = "day"
    /\ ipCount' = 0
    /\ ipLife' = "absent"
    /\ UNCHANGED <<stage, alive, unset, devVars, accounts, codes>>

\* The process that serves the request is killed.
Dies(r) ==
    /\ r \in alive
    /\ stage[r] \notin Resting
    /\ alive' = alive \ {r}
    /\ UNCHANGED <<stage, ipVars, devVars, accounts, codes>>

CountAddress(r) ==
    IncrIP(r) \/ IncrIPFails(r) \/ ExpireIP(r) \/ OverIP(r)
CountDevice(r) ==
    IncrDevice(r) \/ IncrDeviceFails(r) \/ OverDevice(r) \/ BackIP(r)
Insert(r) ==
    \/ FindEmail(r) \/ Create(r) \/ SyncWallet(r)
    \/ GiveIP(r) \/ GiveDevice(r) \/ DeleteCode(r)

RegistrationNext ==
    \/ \E r \in Reqs : \/ Verify(r) \/ CountAddress(r) \/ CountDevice(r)
                       \/ Insert(r) \/ Dies(r)
    \/ \E e \in Emails : SendCode(e) \/ CodeGone(e)
    \/ IpExpires

RegistrationSpec == RegistrationInit /\ [][RegistrationNext]_vars
-----------------------------------------------------------------------------
\* The variables have their types, an absent key counts nothing, and the key of a
\* device never counts below zero.
TypeOK ==
    /\ stage \in [Reqs -> Stages]
    /\ alive \subseteq Reqs
    /\ ipCount \in Int
    /\ ipLife \in {"absent", "endless", "day"}
    /\ ipLife = "absent" => ipCount = 0
    /\ unset \subseteq Reqs
    /\ deviceCount \in [Devices -> Nat]
    /\ lost \subseteq Reqs
    /\ accounts \subseteq Reqs
    /\ codes \subseteq Emails

\* The requests a device's key counts.
Counted(d) ==
    {r \in Of(d) : stage[r] \in Holding \cup Keeping \cup {"overDevice"}
                     \/ r \in lost}

\* A device's counter, which never expires, is exactly the registrations that
\* succeeded, those under way, and those whose release was lost with the
\* process or with Redis: any other refused or failed one leaves nothing, and
\* none is released twice (auth.go, the calls of releaseIP and releaseDev).
SlotsAccounted == \A d \in Devices : deviceCount[d] = Cardinality(Counted(d))

\* A client address is shut out for a day, not for good
\* (register_limit.go, registerIPTTL): its counter is above zero without an
\* expiry only while the request that counted first has yet to set it, or when
\* that one died before it could or was not heard by Redis.
IpWindowCloses ==
    ipCount > 0 /\ ipLife # "day" =>
        \E r \in Reqs : stage[r] = "ttl" \/ r \in unset

\* The requests that have a place, and those of them that gave it back.
Admitted == {r \in Reqs : \/ stage[r] \in Holding \cup Keeping
                          \/ stage[r] = "failed" /\ r \in lost}
Kept     == {r \in Reqs : stage[r] \in Keeping}
Released == {r \in Reqs : stage[r] = "failed" /\ r \notin lost}

DeviceQuota == INSTANCE Quota WITH
    Takers   <- Reqs,
    OwnerOf  <- DeviceOf,
    Limit    <- DeviceLimit,
    granted  <- Admitted,
    kept     <- Kept,
    returned <- Released

\* Registration implements the quota of src/config/app.go: a place of the
\* device is taken from the moment the counter lets the request in until its
\* release, never more than the limit are out, and none is given back twice or
\* after the registration succeeded.
ImplementsQuota == DeviceQuota!QuotaSpec
=============================================================================
