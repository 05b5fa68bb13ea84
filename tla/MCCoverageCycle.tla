-------------------------- MODULE MCCoverageCycle --------------------------
(* Instance of CoverageCycle for TLC. *)
EXTENDS CoverageCycle, TLC

CONSTANTS adsb_lol, airplanes_live, flightradar24

MCAccepted ==
    Phase :> {"shadow", "review", "live"} @@ EmailProvider :> {"console", "resend"}
    @@ EmailKey :> {Blank, "secret"}
    @@ Providers :> {"none", "one", "all", "fr24"}
MCDefault ==
    Phase :> "shadow" @@ EmailProvider :> "console" @@ EmailKey :> Blank
    @@ Providers :> "all"
MCListed ==
    "none" :> {} @@ "one" :> {adsb_lol} @@ "fr24" :> {flightradar24}
    @@ "all" :> {adsb_lol, airplanes_live, flightradar24}

\* A deployment fixes the e-mail provider, or the flight providers too, and leaves
\* the rest to the interface.
MCNothingSet == [k \in DOMAIN MCAccepted |-> None]
MCEnvironment ==
    {[MCNothingSet EXCEPT ![EmailProvider] = "resend"],
     [MCNothingSet EXCEPT ![EmailProvider] = "resend", ![Providers] = "all"]}

MCRequest ==
    {[clear |-> {}, values |-> Phase :> "live" @@ EmailKey :> "secret"],
     [clear |-> {EmailKey}, values |-> Providers :> "fr24"]}
============================================================================
