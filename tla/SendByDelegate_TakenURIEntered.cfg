\* A URI delivered while a send is being confirmed is reported taken and dropped.
CONSTANTS
    p1 = p1  p2 = p2  blank = blank  bad = bad
    Recipients <- MCRecipients
    Blank <- blank
    Bad <- bad
    MaxEntries = 2
    NoRecipient = NoRecipient
SYMMETRY RecipientSymmetry
SPECIFICATION DlgSpec
INVARIANT TakenURIEntered
