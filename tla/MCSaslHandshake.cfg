SPECIFICATION FairSpec
CONSTANTS
    Passwords = {"right", "wrong"}
    Mechanisms = {"SCRAM-SHA-256", "PLAIN"}
    MaxSessions = 2
    Offers <- SomeOffers
INVARIANT ConnectedMeansAgreed
INVARIANT HandshakeLeavesNothing
INVARIANT CorrectServerNotBlamed
PROPERTY HandshakeEnds
CHECK_DEADLOCK FALSE
