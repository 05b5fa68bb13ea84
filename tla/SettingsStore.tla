--------------------------- MODULE SettingsStore ---------------------------
(***************************************************************************)
(* The operator's settings (app/settings_store.py) and the request that    *)
(* changes them (settings_update, app/main.py): the environment wins over  *)
(* what the interface stored, and that over the default; going Live takes  *)
(* a way to send e-mail.                                                   *)
(*                                                                         *)
(* The handler awaits nothing: for the loops of the server a request is    *)
(* one step.  Every write is a transaction of its own, so a server killed  *)
(* in the middle leaves a part of the request written.  A restart may      *)
(* bring another environment and another APP_SECRET_KEY, under which       *)
(* nothing stored can be decrypted.                                        *)
(*                                                                         *)
(* The texts of the errors, the kinds of values and their parsing are      *)
(* abstracted to the set of values a key accepts.                          *)
(***************************************************************************)
EXTENDS Integers, FiniteSets

CONSTANTS
    Key,            \* the settings modelled (SETTING_DEFS has more of their kind)
    Accepted,       \* Accepted[k]: the values _parse accepts for k
    Default,        \* Default[k]
    Secret,         \* the keys whose definition says secret
    Environment,    \* what a deployment may put in the environment: Key -> value or None
    Refused,        \* an offered value that _parse refuses
    Unreadable,     \* a stored token that cannot be decrypted or parsed any more
    Blank,          \* the empty string, or the empty list
    None

Phase == "operating_phase"
EmailProvider == "email_provider"
EmailKey == "resend_api_key"

ASSUME KeyAssumption ==
    /\ {Phase, EmailProvider, EmailKey} \subseteq Key /\ Secret \subseteq Key
    /\ \A k \in Key : Default[k] \in Accepted[k]
    /\ {"review", "live"} \subseteq Accepted[Phase]
ASSUME EnvironmentAssumption ==
    /\ Environment # {}
    /\ \A e \in Environment :
          DOMAIN e = Key /\ \A k \in Key : e[k] \in Accepted[k] \cup {None}
ASSUME MarkAssumption ==
    /\ \A k \in Key : {Refused, Unreadable, None} \cap Accepted[k] = {}
    /\ Unreadable # None /\ Refused # None

VARIABLES
    env,        \* the environment values of the running server, None where blank
    stored,     \* app_settings: what each row decrypts to, None where there is none
    last        \* history: what last happened to the settings: a request without
                \* errors, one with errors, one cut short, a restart

settings == <<env, stored, last>>

SettingsTypeOK ==
    /\ env \in Environment
    /\ DOMAIN stored = Key
    /\ \A k \in Key : stored[k] \in Accepted[k] \cup {Unreadable, None}
    /\ last \in {"clean", "refused", "killed", "restart"}

SettingsInit ==
    /\ env \in Environment
    /\ stored = [k \in Key |-> None]
    /\ last = "restart"

(***************************************************************************)
(* Reading                                                                 *)
(***************************************************************************)

\* get_setting, for environment e and rows s.
Effective(e, s, k) ==
    IF e[k] # None THEN e[k]
    ELSE IF s[k] \in Accepted[k] THEN s[k]
    ELSE Default[k]

Setting(k) == Effective(env, stored, k)

\* _live_readiness_errors is empty.
Ready(e, s) ==
    /\ Effective(e, s, EmailProvider) # "console"
    /\ Effective(e, s, EmailKey) # Blank

Live(e, s) == Effective(e, s, Phase) = "live"

(***************************************************************************)
(* A request                                                               *)
(***************************************************************************)

\* settings_update gets the keys to clear and the values to set; an empty secret
\* means that the form left it alone.
Asks(values) == {k \in DOMAIN values : ~(k \in Secret /\ values[k] = Blank)}

Locked(e, k) == e[k] # None

\* The keys the request gets an error for (clear_setting, set_setting).
Errors(clear, values) ==
    {k \in clear : Locked(env, k)}
    \cup {k \in Asks(values) : Locked(env, k) \/ values[k] \notin Accepted[k]}

\* The rows after clearing the keys in clear and then setting those in set.
Rows(clear, set, values) ==
    [k \in Key |->
        IF k \in set /\ ~Locked(env, k) /\ values[k] \in Accepted[k] THEN values[k]
        ELSE IF k \in clear /\ ~Locked(env, k) THEN None
        ELSE stored[k]]

\* Back to Review when Live is not ready and the environment does not insist; not
\* looked at when anything in the request was refused.
Checked(rows, errors) ==
    IF errors = {} /\ Live(env, rows) /\ ~Ready(env, rows) /\ ~Locked(env, Phase)
    THEN [rows EXCEPT ![Phase] = "review"] ELSE rows

settings_update(clear, values) ==
    LET errors == Errors(clear, values)
    IN  /\ stored' = Checked(Rows(clear, Asks(values), values), errors)
        /\ last' = IF errors = {} THEN "clean" ELSE "refused"
        /\ UNCHANGED env

\* The server is killed within a request: the first writes of it are there.
UpdateKilled(clear, values) ==
    /\ \E cleared \in SUBSET clear : stored' = Rows(cleared, {}, values)
       \/ \E set \in SUBSET Asks(values) : stored' = Rows(clear, set, values)
    /\ last' = "killed"
    /\ UNCHANGED env

\* The server starts again, with environment e and perhaps another APP_SECRET_KEY.
Restart(e, rotated) ==
    /\ env' = e
    /\ stored' = IF rotated
                 THEN [k \in Key |-> IF stored[k] = None THEN None ELSE Unreadable]
                 ELSE stored
    /\ last' = "restart"

(***************************************************************************)
(* The settings by themselves; Request bounds the requests considered.     *)
(***************************************************************************)
CONSTANT Request    \* the requests of the interface: records of clear and values

ASSUME RequestAssumption ==
    \A q \in Request :
        /\ q.clear \subseteq Key /\ DOMAIN q.values \subseteq Key
        /\ \A k \in DOMAIN q.values : q.values[k] \in Accepted[k] \cup {Refused, Blank}

SettingsNext ==
    \/ \E q \in Request : settings_update(q.clear, q.values)
    \/ \E q \in Request : UpdateKilled(q.clear, q.values)
    \/ \E e \in Environment, rotated \in BOOLEAN : Restart(e, rotated)

SettingsSpec == SettingsInit /\ [][SettingsNext]_settings

(***************************************************************************)
(* Properties                                                              *)
(***************************************************************************)

\* SPEC: "Live cannot be enabled through the UI without a viable email
\* configuration."
LiveIsReady ==
    [][last' \in {"clean", "refused"} /\ ~Live(env, stored) /\ Live(env', stored')
         => Ready(env', stored')]_settings

=============================================================================
