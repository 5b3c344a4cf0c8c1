\* Three requests from one client address: three of one device, two of which
\* register the same e-mail address.  One place on the device, two on the
\* address.
SPECIFICATION RegistrationSpec
CONSTANTS
    r1 = r1
    r2 = r2
    r3 = r3
    d1 = d1
    e1 = e1
    e2 = e2
    Reqs = {r1, r2, r3}
    Devices = {d1}
    Emails = {e1, e2}
    DeviceOf <- MCDeviceOf
    EmailOf <- MCEmailOf
    IPLimit = 2
    DeviceLimit = 1
INVARIANTS
    TypeOK
    SlotsAccounted
    IpWindowCloses
PROPERTY
    ImplementsQuota
