SPECIFICATION MailboxFairSpec
CONSTANTS
    Sender = {x1, x2}
    Receiver = {r1, r2}
    Msg = {a, b}
    Capacity = 2
    CounterMod = 4
    None = None
PROPERTIES
    MailboxIsFifo
    FalseJustified
    HeadReceived
