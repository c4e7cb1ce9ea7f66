\* The dialog's entries survive the nested event loops of a send.
CONSTANTS
    p1 = p1  p2 = p2  blank = blank  bad = bad
    Recipients <- MCRecipients
    Blank <- blank
    Bad <- bad
    MaxEntries = 2
    NoRecipient = NoRecipient
SYMMETRY RecipientSymmetry
SPECIFICATION DlgSpec
INVARIANTS DlgTypeOK AllowedWhenIdle
PROPERTIES AcceptDiscardsOnlySent SendRefinement
