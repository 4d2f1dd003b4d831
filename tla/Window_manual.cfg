\* A manual check that an automatic one precedes: whose result answers it?
SPECIFICATION WindowSpec
CONSTANTS
    MaxInputs = 4
    NoResult = NoResult
    Launches <- SomeLaunches
    Profiles <- SomeProfiles
    Listings <- SomeListings
    Installed = 2
    MaxRequests = 4
    NoPage = NoPage
PROPERTIES
    ManualHasItsOwnCheck
CHECK_DEADLOCK FALSE
