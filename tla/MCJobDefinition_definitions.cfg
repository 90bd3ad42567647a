SPECIFICATION FairSpec
CONSTANTS
    Roles <- MCRoles
    Submissions <- AllSubmissions
    Sizes <- ThreeSizes
    MaxDisturb <- OnceOrTwice
INVARIANTS TypeOK DefaultsSettle StoredIsSettled DefaultsDecideJob RanksAreDistinct PortsAreDisjoint AddressesResolve DynamicWorkersStayRight
PROPERTIES WrongIsReported AllRolesStart
