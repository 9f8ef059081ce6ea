\* Four exchanges of one browser, overlapping in every order.
SPECIFICATION Spec
CONSTANTS
    Exchange = {q1, q2, q3, q4}
    NoToken = NoToken
SYMMETRY Symmetry
INVARIANTS
    PageHoldsToken
    RefusedOnlyIfOvertaken
    CsrfInv
