SPECIFICATION Spec
CONSTANTS
    r1 = r1
    r2 = r2
    w1 = w1
    d1 = d1
    d2 = d2
    NoMail = NoMail
    Mails = {1}
    Destinations = {d1}
    DestinationOf <- SameDestination
    Requests = {r1}
    Workers = {}
    SlowProvider = FALSE
PROPERTY SentIsNotResent
