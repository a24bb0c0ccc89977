SPECIFICATION FairSpec
CONSTANTS
    Tenants = {t1, t2}
    PartyIds = {1, 2, 3}
    Names = {1, 2}
    PartyTypes = {"customer"}
    Identities <- ThreeIdentities
    Filters <- TwoFilters
    PageSizes = {1}
    Null = Null
INVARIANT DirectoryTypeOK
PROPERTIES
    SteadyListedOnce
    ListingEnds
