SPECIFICATION Spec
CONSTANTS
    Week = 2
    LeadDays = 1
    DaysAhead = 2
    LastDay = 2
    OpenWeekday = {0}
    Starts = {1, 2}
    Seats = 1
    ServiceGiven = FALSE
    Job = {beat, seed}
    Run = {nightly, again}
    r1 = r1
    Rule = {r1}
    Frequency <- Weekly
    Latest <- Afternoon
    Passer = {}
    MaxByHand = 1
    MaxAsked = 3
SYMMETRY Symmetry
INVARIANTS EveryOpenDayHasSlots SeatsMatchBookings RuleBooksOnce
CHECK_DEADLOCK FALSE
