\* Two tenants, two requests and two pooled connections; both layers, and
\* layer 2 alone.
CONSTANTS
    Tenant = {t1, t2}
    Id = {i1, i2}
    Req = {r1, r2}
    Conn = {c1, c2}
    NoTenant = NoTenant
    NoReq = NoReq
    MaxBatch = 2
    MaxQueries = 1
SPECIFICATION Spec
INVARIANTS TypeOK ReadsConfined SettingIsLocal
PROPERTIES WritesConfined ConnectionsReturn
CHECK_DEADLOCK FALSE
