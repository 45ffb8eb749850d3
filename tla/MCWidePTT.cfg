CONSTANTS
    Clients = {c1, c2}
    Asked = {0, 1, 2, 3}
    Masks = {1, 2}
    NoClient = none
SPECIFICATION Spec
PROPERTIES
    SetMaskLeavesPTT
