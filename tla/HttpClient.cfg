SPECIFICATION Spec
CONSTANTS
    MemberCalls = {m}
    StaticCalls = {s}
    CallbackCalls = {b}
INVARIANTS
    TypeOK
    AnsweredOnce
    ResultIsAnswer
    FrameIsLeftAlone
PROPERTIES
    CallsReturn
    CallbacksCome
CHECK_DEADLOCK FALSE
