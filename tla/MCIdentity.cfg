SPECIFICATION IdentitySpec
CONSTANTS
    Phones = {p1, p2}
    NoPhone = NoPhone
    Workers = {w1, w2}
    GrantedRoles = {"OWNER"}
    MaxOtpPerWindow = 1
    OtpMaxAttempts = 1
    LinkIds = {1, 2, 3}
    MaxRows = 3
INVARIANTS CodeSpentOnce WindowBounded BootstrapsExclude RolesAudited
SYMMETRY Perms
