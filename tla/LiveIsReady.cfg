SPECIFICATION SettingsSpec
CONSTANTS
    Key = {"operating_phase", "email_provider", "resend_api_key"}
    Accepted <- MCAccepted
    Default <- MCDefault
    Secret = {"resend_api_key"}
    Environment <- MCEnvironment
    Request <- MCRequest
    Refused = Refused
    Unreadable = Unreadable
    Blank = Blank
    None = None
PROPERTIES LiveIsReady
