SPECIFICATION FairSpec
CONSTANTS
    Applicants = {t1, t2}
    Admins = {a1}
    Careers = {telecom, info}
    Own = info
    Grades = grades
    Hardcoded <- OfInformatics
    ByHand <- Directive
    Asked <- AppliedFor
    DataTimeout = 2
    Expirations = {1, 5}
    Faults = 1
    MaxRequests = 2
    MaxTime = 1
    t1 = t1
    a1 = a1
    t2 = t2
    telecom = telecom
    info = info
    grades = grades
INVARIANT TypeOK
INVARIANT GrantsMatch
INVARIANT OneLiveExplained
INVARIANT OpaAnswers
 
PROPERTY OpaCatchesUp
