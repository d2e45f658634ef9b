SPECIFICATION FairSpec
CONSTANTS
    MenuEdits = {"format", "input", "mac"}
    NetEdits = {"features", "format"}
    MaxResets = 2
INVARIANTS
    TypeOK
    
    
    CopiesAgree

    
