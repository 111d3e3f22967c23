SPECIFICATION MailerSpec
CONSTANTS
    LeadProcesses = {p1}
    Mailers = {w1}
    Recipients = {u1, u2}
    Standing <- SomeWait
    MaxClicks = 3
    MaxMishaps = 0
INVARIANT NoAccidentalRedelivery
CHECK_DEADLOCK FALSE
