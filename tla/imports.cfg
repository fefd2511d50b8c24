\* Two overlapping imports that share an email: with refused rows; with other
\* writers, changed codes and crashes; with crashes and failing statements.
SPECIFICATION FairSpec
CONSTANTS
    Request = {r1, r2}
    Job = {js, jt}
    N = 2
    Key <- Keys
    Code <- Codes
    Email <- Emails
    Teachers = {jt}
    Register <- Registers
    Envs = {{"refusal"}, {"writer", "crash"}, {"crash", "fault"}}
CHECK_DEADLOCK FALSE
INVARIANTS
    TypeOK
    OneProcessor
    ReportCorrect
PROPERTIES
    PreviewKept
    ClaimedCompletes
    KeepsLedger
