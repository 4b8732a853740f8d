\* One tab of a browser on two tenants' hosts and the apex.
CONSTANTS
    Tab = {t1}
    Slug = {acme, xavier}
    Platform = {apex}
    NoTenant = NoTenant
    Nobody = Nobody
    Unread = Unread
    MaxEvents = 4
SPECIFICATION Spec
INVARIANTS TypeOK PageIsForItsOwn SignInLands
PROPERTIES NavigationEnds
CHECK_DEADLOCK FALSE
