SPECIFICATION FairSpec
CONSTANTS
    r1 = r1  r2 = r2
    Own = Own  None = None
    Requests = {r1, r2}
    Providers <- MCProviders
    Broken <- MCBroken
    Directive <- MCDirective
    Traits <- MCTraits
INVARIANTS ServedByNewest RunsOnlyValidated NoWiderThanFields ErrorsDoNotStay
PROPERTY EveryRequestAnswered
CHECK_DEADLOCK FALSE
