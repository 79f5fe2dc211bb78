------------------------------- MODULE Config -------------------------------
(***************************************************************************)
(* How a run comes by its settings and its password: internal/config and    *)
(* the first half of run in cmd/mdtree/main.go.  Four sources are laid over *)
(* one another, the result is checked, and the hash to sign in against is   *)
(* taken from it.                                                           *)
(*                                                                          *)
(* Unset is a key the file does not have, an empty variable, an empty flag  *)
(* or a port of 0 on the command line.  An empty string or a 0 in the file  *)
(* is a value as any other, except that an empty password is none.  Values  *)
(* stand for what Normalize makes of them.                                  *)
(***************************************************************************)
EXTENDS Naturals

CONSTANTS
    Setting,      \* names of settings, of the six below
    Value,        \* their values
    Valid,        \* the values that Validate accepts
    Usual,        \* the value of a default
    NotANumber,   \* what the environment may say of the port
    Unset

ASSUME ConfigAssumption ==
    /\ Setting \subseteq {"host", "port", "root", "log_level", "password", "password_hash"}
    /\ {"password", "password_hash"} \subseteq Setting
    /\ Valid \subseteq Value
    /\ Usual \in Valid
    /\ Unset \notin Value /\ NotANumber \notin Value \cup {Unset}

VARIABLES
    given,   \* what each source says
    conf,    \* the settings so far
    phase,   \* how far run is
    secret   \* what the hash to sign in against is made from

configVars == <<given, conf, phase, secret>>

Secrets == {"password", "password_hash"}
Checked == {"port", "root", "log_level"} \cap Setting

Layer == [Setting -> Value \cup {Unset}]
Flags == {l \in Layer : \A s \in Secrets : l[s] = Unset}
Environment == {e \in [Setting -> Value \cup {Unset, NotANumber}] :
                  \A s \in Setting : e[s] = NotANumber => s = "port"}

Defaults == [s \in Setting |-> IF s \in Secrets THEN Unset ELSE Usual]

Secret(from, value) == [from |-> from, value |-> value]

ConfigInit ==
    /\ given \in [file : Layer, env : Environment, flags : Flags]
    /\ conf = Defaults
    /\ phase = "start"
    /\ secret = Secret("nothing", Unset)

-----------------------------------------------------------------------------

Over(above, below) == [s \in Setting |-> IF above[s] \in Value THEN above[s] ELSE below[s]]

Refuse == phase' = "refused" /\ UNCHANGED <<given, conf, secret>>

\* Mutant: the environment is applied to the defaults, and the file to that.
LoadEnvFirst ==
    /\ phase = "start"
    /\ conf' = Over(given.file, Over(given.env, conf))
    /\ phase' = "loaded"
    /\ UNCHANGED <<given, secret>>

\* Load, with applyEnv, which passes over a port that is no number.
Load ==
    /\ phase = "start"
    /\ conf' = Over(given.env, Over(given.file, conf))
    /\ phase' = "loaded"
    /\ UNCHANGED <<given, secret>>

\* The file cannot be read or parsed.  (That it is not there is no error.)
LoadFails == phase = "start" /\ Refuse

ApplyFlags ==
    /\ phase = "loaded"
    /\ conf' = Over(given.flags, conf)
    /\ phase' = "complete"
    /\ UNCHANGED <<given, secret>>

\* (Also refused is a session lifetime, which only the file gives, of 0.)
ValidateConfig ==
    /\ phase = "complete"
    /\ IF \A s \in Checked : conf[s] \in Valid
       THEN phase' = "valid" /\ UNCHANGED <<given, conf, secret>>
       ELSE Refuse

TakesSecret(s) == phase' = "ready" /\ secret' = s /\ UNCHANGED <<given, conf>>

\* resolvePassword: the hash as it stands, the password hashed, or a new one.
ResolvePassword ==
    /\ phase = "valid"
    /\ \/ conf["password_hash"] # Unset /\ TakesSecret(Secret("password_hash", conf["password_hash"]))
       \/ /\ conf["password_hash"] = Unset
          /\ \/ conf["password"] # Unset /\ TakesSecret(Secret("password", conf["password"]))
             \/ conf["password"] = Unset /\ TakesSecret(Secret("random", Unset))
             \/ Refuse

ConfigSettled == phase \in {"ready", "refused"} /\ UNCHANGED configVars

ConfigNext ==
    Load \/ LoadFails \/ ApplyFlags \/ ValidateConfig \/ ResolvePassword \/ ConfigSettled

ConfigSpec == ConfigInit /\ [][ConfigNext]_configVars

-----------------------------------------------------------------------------

(***************************************************************************)
(* "Precedence, lowest to highest: defaults < config.yaml < env vars <      *)
(* flags", setting by setting, in what a run serves with.  So a hash from   *)
(* anywhere wins over a password from anywhere: a password in the           *)
(* environment is without effect beside a hash in the file.  A password is  *)
(* made up only where no source gives either.                               *)
(***************************************************************************)
Sources == <<Defaults, given.file, given.env, given.flags>>

Gives(i, s) == Sources[i][s] \in Value

Given(s) == {i \in DOMAIN Sources : Gives(i, s)}

InForce(s) ==
    IF Given(s) = {} THEN Unset
    ELSE Sources[CHOOSE i \in Given(s) : \A j \in Given(s) : j <= i][s]

ServesAsGiven ==
    phase = "ready" =>
        /\ \A s \in Setting : conf[s] = InForce(s)
        /\ secret.from = IF Given("password_hash") # {} THEN "password_hash"
                         ELSE IF Given("password") # {} THEN "password"
                         ELSE "random"
        /\ secret.from \in Secrets => secret.value = InForce(secret.from)

=============================================================================
