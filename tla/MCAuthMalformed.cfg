CONSTANTS
    Requests = {r1}
    Names <- MCNames
    Admins <- MCAdmins
    Realms <- MCRealms
    Domain <- MCDomain
    Lower <- MCLower
    None = None
    Unset = Unset
    NoRequest = NoRequest
SPECIFICATION Spec
INVARIANT MalformedTokenIs400
