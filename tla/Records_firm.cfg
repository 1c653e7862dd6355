CONSTANTS
    u1 = u1
    u2 = u2
    u3 = u3
    creator = creator
    builder = builder
    l1 = l1
    l2 = l2
    fee = fee
    rest = rest
    extra = extra
    client = client
    NoClient = NoClient
    Invoicing = {fee, rest, extra}
    Clients = {client}
    ClientOf <- ClientOfFee
    Taxable <- TaxableOf
    Threshold = 3
    c1 = c1
    c2 = c2
    c3 = c3
    wall = wall
    floor = floor
    hole = hole
    dsr = dsr
    ssr = ssr
    p1 = p1
    p2 = p2
    p3 = p3
    a1 = a1
    a2 = a2
    Uploads = {u1, u2, u3}
    Dxf = {u1}
    Creators = {creator}
    Contractors = {builder}
    Claim <- ClaimOf
    Liners = {l1, l2}
    Amount <- AmountOf
    Certifiers = {c1, c2, c3}
    Hash <- HashOf
    Measurements = {wall, floor, hole}
    Initially <- BooksBegun
    Entered = 5
    Measured <- MeasuredOf
    Nobody = Nobody
    Books = {dsr, ssr}
    Codes = {"brick", "steel"}
    Publishers = {p1, p2, p3}
    Activators = {a1, a2}
    BookOf <- BookOfRequest
    Items <- ItemsOf
    Activating = {p1, p3}
    MaxBusy = 3
    survey = survey
    design = design
    build = build
    Activities = {survey, design, build}
    Durations = {0, 2}
    LinkSets <- LinksExplored
    Horizon = 9
SPECIFICATION FirmSpec
SYMMETRY Interchangeable
CONSTRAINT FewRequests
INVARIANTS TypeOK References FeesWithoutTds NewestIsCurrent AloneIsOnlyCurrent GrossOfLines VersionHolds QuantityOfMeasurements OneLateChange AnsweredIsStored LoopsLeftOut ScheduleExact
PROPERTIES ActiveStays
CHECK_DEADLOCK FALSE
