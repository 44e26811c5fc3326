SPECIFICATION Spec
CONSTANTS
    browser = browser
    here = here
    excel = excel
    phone = phone
    Browsers = {browser}
    Addresses = {here}
    Clients = {excel, phone}
    MaxAttempts = 2
    Window = 2
    SessionTTL = 2
    CodeTTL = 1
    TokenTTL = 2
    ChatTTL = 1
    MaxTime = 3
    MaxSecrets = 1
    MaxSessions = 2
    MaxCodes = 1
    MaxTokens = 2
SYMMETRY Alike
INVARIANTS
    OneTokenPerCode
    ToolsAreApproved
    ChecksAreLimited
CHECK_DEADLOCK FALSE
