SPECIFICATION Spec
CONSTANTS
    Key = {"operating_phase", "email_provider", "resend_api_key", "flight_providers"}
    Accepted <- MCAccepted
    Default <- MCDefault
    Secret = {"resend_api_key"}
    Environment <- MCEnvironment
    Request <- MCRequest
    Refused = Refused
    Unreadable = Unreadable
    Blank = Blank
    None = None
    adsb_lol = adsb_lol
    airplanes_live = airplanes_live
    flightradar24 = flightradar24
    Cycle = cycle
    Tester = {}
    GridProvider = {adsb_lol, airplanes_live}
    FR24Provider = flightradar24
    DefaultProvider = adsb_lol
    Listed <- MCListed
    Metered = airplanes_live
    Keyed = {adsb_lol}
    Quota = 1
    MaxTries = 1
    Region = {r1}
    Aircraft = {a}
    Time = {1, 2}
INVARIANTS AbsenceMeasured
