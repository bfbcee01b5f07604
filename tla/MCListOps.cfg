SPECIFICATION Spec
CONSTANTS
    a = a
    b = b
    c = c
    d = d
    Elems <- MCElems
    Head_ = Head_
    Tail_ = Tail_
    Null = Null
INVARIANTS LinksAgree
PROPERTIES ImplementsList WalkFinds
CHECK_DEADLOCK FALSE
