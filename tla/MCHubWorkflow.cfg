SPECIFICATION Spec
CONSTANTS
    Tabs = {c1, c2}
    Users = {u1, u2}
    Learner = u1
    Tools = {t1}
    TemplateIds = {f1}
    MaxApplications = 2
    MaxRequests = 2
    Texts = {"z"}
    Seed <- MCSeed
    MaxListed = 2
    MaxFields = 2
    MaxOptions = 2
    MaxVersion = 3
    MaxEdits = 2
    MaxPages = 4
    MaxFailures = 1
SYMMETRY Symmetry
CHECK_DEADLOCK FALSE
INVARIANTS TypeOK AnswersToWhatWasShown PendingOnce
PROPERTIES EditsAreKept DecisionsStand
