SPECIFICATION Spec
CONSTANTS
    Roles <- MCRoles
    Submissions <- MissingRoles
    Sizes <- ThreeSizes
    MaxDisturb <- Undisturbed
INVARIANT MissingRolesAreRejected
