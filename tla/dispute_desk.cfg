SPECIFICATION Spec
CONSTANTS
    Price = 1
    Mediators = {"buyer", "mediator"}
    NoOne = "nobody"
    NoAmount = 99
    MaxSent = 2

    
PROPERTIES
    SettledAsSigned
    OffersEnd
