CONSTANTS
    u1 = u1
    buy = buy
    again = again
    sellSome = sellSome
    sellAll = sellAll
    more = more
    buyNo = buyNo
    None = None
    Users = {u1}
    Calls = {buy, again, sellSome, sellAll, more, buyNo}
    Request <- MCRequest
    Outcomes <- MCOutcomes
    Elsewhere <- MCElsewhere
    MaxMicros = 8
    NanosScale = 10
SPECIFICATION MCSpec
CONSTRAINT FewAnswers
CHECK_DEADLOCK FALSE
PROPERTIES SalePaysItsFee
