\* A sign-out that the API refuses or that is lost.
CONSTANTS
    Tab = {t1}
    Slug = {acme, xavier}
    Platform = {apex}
    NoTenant = NoTenant
    Nobody = Nobody
    Unread = Unread
    MaxEvents = 4
SPECIFICATION Spec
INVARIANT SignOutLeaves
CHECK_DEADLOCK FALSE
