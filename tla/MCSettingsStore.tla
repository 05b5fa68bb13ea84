-------------------------- MODULE MCSettingsStore --------------------------
(* Instance of SettingsStore for TLC. *)
EXTENDS SettingsStore, TLC

MCAccepted ==
    Phase :> {"shadow", "review", "live"} @@ EmailProvider :> {"console", "resend"}
    @@ EmailKey :> {Blank, "secret"}
MCDefault == Phase :> "shadow" @@ EmailProvider :> "console" @@ EmailKey :> Blank
MCNothingSet == [k \in {Phase, EmailProvider, EmailKey} |-> None]
MCEnvironment == {MCNothingSet, [MCNothingSet EXCEPT ![EmailKey] = "secret"]}

\* The interface posts the form of a tab: one or two settings at a time.
MCRequest ==
    [clear : SUBSET {EmailKey},
     values : {p :> v : p \in {Phase}, v \in {"live", Refused}}
              \cup {p :> v @@ EmailProvider :> w :
                      p \in {Phase}, v \in {"live", "shadow"}, w \in {"resend", Refused}}
              \cup {EmailKey :> v : v \in {"secret", Blank}}]
============================================================================
