\* Three requests, messages or context updates, two at a time in flight;
\* and one owner's messages, one after the other.
SPECIFICATION MCSpec
CONSTANTS
    p1 = p1
    p2 = p2
    None = None
    Properties = {p1, p2}
    Reqs = {s1, s2, s3}
    Messages <- ChatMessages
    Talk <- RouteTalk
SYMMETRY Interchangeable
INVARIANTS
    AnswersOfThisProperty
    BuildingAskedFirst
    CompletedByPricing
PROPERTIES
    NothingForgotten
    NothingLostByAnswering
CHECK_DEADLOCK FALSE
