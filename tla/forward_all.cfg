SPECIFICATION Spec
CONSTANTS
    Letters = {"v", "w"}
    MaxPath = 5
    MaxOption = 3
    Upstreams <- SomeUpstreams
    Names = {"x", "connection"}
    MaxHeaders = 2
INVARIANTS
    AdvertisedReachesUpstream
    SingleHeadersArrive
