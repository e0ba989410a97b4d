SPECIFICATION FairSpec
CONSTANTS
    K1 = K1
    K2 = K2
    C1 = C1
    C2 = C2
    C3 = C3
    B1 = B1
    V1 = V1
    V2 = V2
    Absent = Absent
    Running = Running
    NoAnswer = NoAnswer
    Missing = Missing
    Key = {K1, K2}
    Value = {V1, V2}
    Caller = {C1, C2, C3, B1}
    Bystander = {B1}
    KeyOf <- MCKeyOf
PROPERTIES WaitersReturn ImplementsOnceMapSpec
