SPECIFICATION Spec
CONSTANTS
    Hosts <- MCHosts
    Fd <- MCFd
    MaxTries = 3
    CancelAt = {}
    MaxAge = 1
INVARIANT RearmsLiveSocket
