SPECIFICATION MonFairSpec
CHECK_DEADLOCK FALSE
CONSTANTS
    health = health
    user = user
    Health = health
    Publisher = {sup}
    Name <- Names
    AnyEvent <- SomeEvents
    Notifier <- Both
    Faulty <- OnlyUser
    Criterion <- Criteria
    BufferSizes = {0, 1}
    MaxEvents = 3
    MaxAllowedFailures = 0
INVARIANTS
    OrderKept
    NothingLostSilently
    HealthReportRight
PROPERTIES
    PublisherReleased
    PromptNotifierServed
