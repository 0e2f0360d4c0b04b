SPECIFICATION Spec
CONSTANTS
    DefaultOffset = 2
    Zones <- MCZones
    Yields <- MCYields
    Mapping <- MCMapping
    Registries <- MCRegistries
    Messages <- MCMessages
    Timed <- MCTimed
    Stamps <- MCStamps
    Starts <- MCStarts
    Span = 430
    Dates <- MCDates
    Hours = {0, 12, 23}
    Lags <- MCLags
INVARIANTS EventsSound TracebackAgrees TimesAreExact FieldsAreKept
