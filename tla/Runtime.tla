------------------------------ MODULE Runtime ------------------------------
(***************************************************************************)
(* load_settings (config/settings.py) and start_runtime (runtime.py): from *)
(* layers of configuration to a runtime with the capabilities of its mode, *)
(* or to an error.                                                         *)
(*                                                                         *)
(* A layer is a function from some fields to values.  What a caller hands  *)
(* to start_runtime is a record of what each argument turns out to be.     *)
(* The two side effects of starting, asking the guard and calling the      *)
(* write factory, are kept in the order they happen.                       *)
(***************************************************************************)
EXTENDS Integers, Sequences, FiniteSets

CONSTANTS Boots,   \* the boots to check: [layers, supplied]
          Unset

VARIABLE boot

BootInit == boot \in Boots
BootNext == UNCHANGED boot

-----------------------------------------------------------------------------
(* Settings                                                                *)

(* The fields, nested ones under their path, and their defaults.           *)
Defaults ==
  [env |-> "development", mode |-> "paper", enabled |-> FALSE, approval |-> TRUE,
   hours |-> TRUE, limits |-> TRUE, ai_policy |-> "locked",
   staging_token |-> FALSE, staging_id |-> Unset, staging_recipients |-> <<>>,
   staging_enabled |-> FALSE,
   production_token |-> FALSE, production_id |-> Unset, production_recipients |-> <<>>,
   production_enabled |-> FALSE,
   origin |-> Unset, rp |-> Unset, credentials |-> <<>>, closed |-> TRUE]

BotFields ==
  {"staging_token", "staging_id", "staging_recipients", "staging_enabled",
   "production_token", "production_id", "production_recipients", "production_enabled"}

Restrict(layer, fields) == [f \in DOMAIN layer \cap fields |-> layer[f]]

(* dotenv hides the account number; token files carry the two tokens and   *)
(* nothing else; the stock files carry no bot.                             *)
DotEnv(layer) == Restrict(layer, DOMAIN layer \ {"account"})
TokenFiles(layer) == Restrict(layer, {"staging_token", "production_token"})
StockFiles(layer) == Restrict(layer, DOMAIN Defaults \ BotFields)

(* explicit > env > dotenv > token files > stock files > YAML              *)
Visible(layers) ==
  << layers.explicit, Restrict(layers.env, DOMAIN Defaults), DotEnv(layers.dotenv),
     TokenFiles(layers.tokens), StockFiles(layers.files),
     Restrict(layers.yaml, {"risk", "strategies"}) >>

(* The first source that has a field gives it.                             *)
Layered(layers) ==
  LET v == Visible(layers) IN
  [f \in DOMAIN Defaults |->
     LET from == {i \in 1..Len(v) : f \in DOMAIN v[i]} IN
     IF from = {} THEN Defaults[f]
     ELSE v[CHOOSE i \in from : \A j \in from : i <= j][f]]

(* extra = "forbid": an unknown field is refused, given explicitly or in   *)
(* dotenv; and so is a YAML document of an unknown shape.                  *)
Unknown(layers) ==
  \/ ~(DOMAIN layers.explicit \subseteq DOMAIN Defaults)
  \/ ~(DOMAIN layers.dotenv \subseteq DOMAIN Defaults \cup {"account"})
  \/ ~(DOMAIN layers.yaml \subseteq {"risk", "strategies"})

Injective(s) == Cardinality({s[i] : i \in 1..Len(s)}) = Len(s)

(* TelegramBotSettings                                                     *)
BotValid(token, id, recipients, enabled) ==
  Injective(recipients) /\ (enabled => token /\ id # Unset /\ recipients # <<>>)

(* WebAuthnSettings: distinct credentials, and the origin's host is rp_id. *)
PasskeyValid(s) ==
  Injective(s.credentials) /\ (s.origin # Unset /\ s.rp # Unset => s.origin = s.rp)

IsCompleteForLive(s) ==
  /\ s.origin # Unset /\ s.rp # Unset
  /\ Len(s.credentials) >= 2 /\ Injective(s.credentials) /\ s.closed

UnsafeCombination(s) ==
  LET live == s.mode = "live" \/ s.enabled IN
  \/ s.mode = "live" /\ ~s.enabled
  \/ s.enabled /\ s.mode # "live"
  \/ live /\ ~s.approval
  \/ live /\ ~IsCompleteForLive(s)
  \/ s.staging_id # Unset /\ s.staging_id = s.production_id

(* The locks of the first release, then the parts, then the whole.         *)
SettingsValid(s) ==
  /\ s.hours /\ s.limits /\ s.ai_policy = "locked"
  /\ BotValid(s.staging_token, s.staging_id, s.staging_recipients, s.staging_enabled)
  /\ BotValid(s.production_token, s.production_id, s.production_recipients,
              s.production_enabled)
  /\ PasskeyValid(s)
  /\ ~UnsafeCombination(s)

(* load_settings; a token file that cannot be read, or does not hold a     *)
(* token, refuses the whole.                                               *)
Loads(layers) ==
  layers.readable /\ ~Unknown(layers) /\ SettingsValid(Layered(layers))

-----------------------------------------------------------------------------
(* Capabilities                                                            *)

(* MODE_CAPABILITY_MATRIX                                                  *)
ResearchCapabilities ==
  [packages |-> {"data", "research_agent"}, secrets |-> {"openai", "data"},
   broker |-> {}, jobs |-> {"research"}]

PaperCapabilities ==
  [packages |-> {"data", "research_agent", "strategy", "risk", "approval", "execution", "telegram"},
   secrets |-> {"openai", "data", "telegram_bot", "robinhood_read"},
   broker |-> {"read_only", "paper_write"},
   jobs |-> {"research", "strategy", "signal_expiry", "approval_expiry", "paper_execution",
             "monitoring", "reconciliation"}]

LiveCapabilities ==
  [packages |-> {"data", "research_agent", "strategy", "risk", "approval", "execution", "webauthn"},
   secrets |-> {"openai", "data", "robinhood_read", "webauthn", "robinhood_write"},
   broker |-> {"read_only", "robinhood_write"},
   jobs |-> {"research", "strategy", "signal_expiry", "approval_expiry", "live_execution",
             "monitoring", "reconciliation"}]

Capabilities(mode) ==
  CASE mode = "research" -> ResearchCapabilities
    [] mode = "paper" -> PaperCapabilities
    [] mode = "live" -> LiveCapabilities

-----------------------------------------------------------------------------
(* start_runtime                                                           *)

Failed(code, effects) == [code |-> code, effects |-> effects, broker |-> {}, write |-> "none"]
Ready(broker, write, effects) ==
  [code |-> "READY", effects |-> effects, broker |-> broker, write |-> write]

(* _validate_settings checks the locks again.                              *)
SettingsRefused(s) ==
  \/ ~s.hours \/ ~s.limits
  \/ s.mode = "live" /\ (~s.enabled \/ ~s.approval)
  \/ s.mode # "live" /\ s.enabled

(* _validate_read_port                                                     *)
ReadPortError(read) ==
  CASE read \in {"none", "ok"} -> "NONE"
    [] read = "other" -> "INVALID_BROKER_PORT"
    [] read = "writes_too" -> "CAPABILITY_NOT_ALLOWED"

(* _validate_write_port: no replacement, no reading.                       *)
WritePortError(port) ==
  CASE port = "ok" -> "NONE"
    [] port = "other" -> "INVALID_BROKER_PORT"
    [] port \in {"replaces_too", "reads_too"} -> "CAPABILITY_NOT_ALLOWED"

ReadOnly(read) == IF read = "none" THEN {} ELSE {"read_only"}

StartPaper(x) ==
  IF x.guard # "none" \/ x.factory # "none" THEN Failed("CAPABILITY_NOT_ALLOWED", <<>>)
  ELSE IF x.paper = "none" THEN Failed("PAPER_BROKER_REQUIRED", <<>>)
  ELSE IF x.paper = "other" THEN Failed("INVALID_BROKER_PORT", <<>>)
  ELSE Ready({"paper_write"} \cup ReadOnly(x.read), "paper", <<>>)

(* A plausible slip: the factory builds the port before the guard is asked.*)
StartLiveEager(x) ==
  IF x.paper # "none" THEN Failed("CAPABILITY_NOT_ALLOWED", <<>>)
  ELSE IF x.guard \in {"none", "other"} THEN Failed("LIVE_GUARD_REQUIRED", <<>>)
  ELSE IF x.factory = "none" THEN Failed("LIVE_WRITE_FACTORY_REQUIRED", <<>>)
  ELSE IF x.factory = "raises" THEN Failed("LIVE_WRITE_FACTORY_FAILED", <<"factory">>)
  ELSE IF x.guard \in {"refuses", "raises"} THEN Failed("LIVE_GUARD_REJECTED", <<"factory", "authorize">>)
  ELSE Ready({"robinhood_write"} \cup ReadOnly(x.read), "guarded", <<"factory", "authorize">>)

StartLive(x) ==
  IF x.paper # "none" THEN Failed("CAPABILITY_NOT_ALLOWED", <<>>)
  ELSE IF x.guard = "none" THEN Failed("LIVE_GUARD_REQUIRED", <<>>)
  ELSE IF x.factory = "none" THEN Failed("LIVE_WRITE_FACTORY_REQUIRED", <<>>)
  ELSE IF x.guard = "other" THEN Failed("LIVE_GUARD_REQUIRED", <<>>)
  ELSE IF x.guard \in {"refuses", "raises"} THEN Failed("LIVE_GUARD_REJECTED", <<"authorize">>)
  ELSE IF x.factory = "raises" THEN Failed("LIVE_WRITE_FACTORY_FAILED", <<"authorize", "factory">>)
  ELSE IF WritePortError(x.factory) # "NONE"
         THEN Failed(WritePortError(x.factory), <<"authorize", "factory">>)
  ELSE Ready({"robinhood_write"} \cup ReadOnly(x.read), "guarded", <<"authorize", "factory">>)

StartRuntime(s, x) ==
  IF SettingsRefused(s) THEN Failed("INVALID_SETTINGS", <<>>)
  ELSE IF s.mode = "research"
    THEN IF \E f \in {"read", "paper", "guard", "factory"} : x[f] # "none"
           THEN Failed("CAPABILITY_NOT_ALLOWED", <<>>) ELSE Ready({}, "none", <<>>)
  ELSE IF s.mode = "live" /\ s.env = "production" THEN Failed("PRODUCTION_LIVE_DISABLED", <<>>)
  ELSE IF ReadPortError(x.read) # "NONE" THEN Failed(ReadPortError(x.read), <<>>)
  ELSE IF s.mode = "paper" THEN StartPaper(x) ELSE StartLive(x)

-----------------------------------------------------------------------------
(* However the configuration is layered and whatever is supplied: a        *)
(* runtime holds no broker capability its mode lacks; the factory of a     *)
(* live write port is called only in a non-production Live mode with       *)
(* approval and complete passkeys, after a guard has agreed; and what it   *)
(* built is only ever reached through the guard (start_runtime; LiveGuard, *)
(* "Authorize non-production Live composition before factory invocation"). *)
LiveIsDeliberate ==
  LET s == Layered(boot.layers)
      r == StartRuntime(s, boot.supplied)
      called == \E i \in 1..Len(r.effects) : r.effects[i] = "factory" IN
  Loads(boot.layers) =>
    /\ r.broker \subseteq Capabilities(s.mode).broker
    /\ ("robinhood_write" \in r.broker) <=> (r.write = "guarded")
    /\ r.write = "guarded" => called
    /\ called =>
         /\ s.mode = "live" /\ s.enabled /\ s.approval /\ s.env # "production"
         /\ IsCompleteForLive(s)
         /\ boot.supplied.guard = "agrees" /\ r.effects[1] = "authorize"
-----------------------------------------------------------------------------
(***************************************************************************)
(* SecretAccessService (secrets.py): one service per role, in front of a   *)
(* provider whose material changes while services hold references to it.   *)
(* The memory provider is rotated; the development provider looks into a   *)
(* live environment mapping, where its own presence check and its read are *)
(* separate steps; the production one is a placeholder.                    *)
(*                                                                         *)
(* The registry a service is built from maps secret ids to provider        *)
(* references and is the same for all roles.                               *)
(***************************************************************************)
CONSTANTS
  Roles, Registry,   \* secret id -> reference, for the configured ids
  Servable,           \* the references the memory provider may serve
  Bindings,          \* reference -> environment key, of the development provider
  Material,          \* secret values; "" is what SecretValue refuses
  Ids,               \* the ids callers ask for, known or not
  None

VARIABLES
  provider, \* "memory" | "development" | "production"
  store,    \* reference or environment key -> material, for what is present
  asking,   \* per role: the get between the provider's check and its read
  told,     \* the last answer without a value: [role, by, id, status]
  handed    \* every value handed out: [role, id, value]

secretvars == <<provider, store, asking, told, handed>>

(* DEFAULT_ROLE_GRANTS                                                     *)
RoleGrants ==
  [research |-> {"openai_api_key", "data_provider_credential", "research_database_credential"},
   approval |-> {"telegram_bot_token", "telegram_webhook_secret", "webauthn_server_secret",
                 "approval_database_credential"},
   read_broker |-> {"robinhood_read_credential"},
   write_broker |-> {"robinhood_write_credential"}]

SecretIds == UNION {RoleGrants[r] : r \in DOMAIN RoleGrants}

(* The constructor keeps the references its role is granted.               *)
References(role) == [id \in DOMAIN Registry \cap RoleGrants[role] |-> Registry[id]]

(* A plausible slip: what is configured may be read.                       *)
AuthorizeConfigured(role, id) ==
  IF id \notin SecretIds THEN "UNKNOWN_SECRET"
  ELSE IF id \notin DOMAIN Registry THEN "REFERENCE_UNCONFIGURED"
  ELSE "NONE"

(* _authorize, before the provider is asked.                               *)
Authorize(role, id) ==
  IF id \notin SecretIds THEN "UNKNOWN_SECRET"
  ELSE IF id \notin RoleGrants[role] THEN "DENIED"
  ELSE IF id \notin DOMAIN References(role) THEN "REFERENCE_UNCONFIGURED"
  ELSE "NONE"

EnvironmentKeys == {Bindings[ref] : ref \in DOMAIN Bindings}

SecretInit ==
  /\ \/ provider = "memory" /\ store \in UNION {[R -> Material \ {""}] : R \in SUBSET Servable}
     \/ provider = "development" /\ store \in UNION {[K -> Material] : K \in SUBSET EnvironmentKeys}
     \/ provider = "production" /\ store = <<>>
  /\ asking = [r \in Roles |-> None]
  /\ told = None
  /\ handed = {}

(* The presence checks of the three providers, without reading a value.    *)
MemoryProbe(ref) ==
  IF ref \notin Servable THEN "PERMISSION_DENIED"
  ELSE IF ref \notin DOMAIN store THEN "MISSING"
  ELSE "PRESENT"

DevelopmentProbe(ref) ==
  IF ref \notin DOMAIN Bindings THEN "PERMISSION_DENIED"
  ELSE IF Bindings[ref] \notin DOMAIN store THEN "MISSING"
  ELSE "PRESENT"

UnavailableProbe(ref) == "UNAVAILABLE"

ProviderProbe(ref) ==
  CASE provider = "memory" -> MemoryProbe(ref)
    [] provider = "development" -> DevelopmentProbe(ref)
    [] provider = "production" -> UnavailableProbe(ref)

(* What the read after the check finds: a key that went away, a value that *)
(* SecretValue refuses, or a value.                                        *)
Key(ref) == IF provider = "development" THEN Bindings[ref] ELSE ref

ReadStatus(ref) ==
  IF Key(ref) \notin DOMAIN store THEN "MISSING"
  ELSE IF store[Key(ref)] = "" THEN "ERROR"
  ELSE "PRESENT"

(* _translate_provider_status                                              *)
Translated(status) ==
  CASE status = "PRESENT" -> "AVAILABLE"
    [] status = "MISSING" -> "MISSING"
    [] status = "PERMISSION_DENIED" -> "PROVIDER_PERMISSION_DENIED"
    [] status = "UNAVAILABLE" -> "PROVIDER_UNAVAILABLE"
    [] OTHER -> "PROVIDER_ERROR"

(* _translate_provider_exception: a failure never says available.          *)
TranslatedFailure(status) ==
  IF Translated(status) = "AVAILABLE" THEN "PROVIDER_ERROR" ELSE Translated(status)

Tell(role, by, id, status) == told' = [role |-> role, by |-> by, id |-> id, status |-> status]

Probe(role, id) ==
  /\ Tell(role, "probe", id,
          IF Authorize(role, id) # "NONE" THEN Authorize(role, id)
          ELSE Translated(ProviderProbe(Registry[id])))
  /\ UNCHANGED <<provider, store, asking, handed>>

(* get is refused before the provider, or by the provider's check.         *)
GetRefused(role, id) ==
  /\ asking[role] = None
  /\ \/ /\ Authorize(role, id) # "NONE"
        /\ Tell(role, "get", id, Authorize(role, id))
     \/ /\ Authorize(role, id) = "NONE" /\ ProviderProbe(Registry[id]) # "PRESENT"
        /\ Tell(role, "get", id, TranslatedFailure(ProviderProbe(Registry[id])))
  /\ UNCHANGED <<provider, store, asking, handed>>

GetBegins(role, id) ==
  /\ asking[role] = None
  /\ Authorize(role, id) = "NONE" /\ ProviderProbe(Registry[id]) = "PRESENT"
  /\ asking' = [asking EXCEPT ![role] = id]
  /\ UNCHANGED <<provider, store, told, handed>>

(* The provider reads: a fresh copy for the caller, or an error without    *)
(* the value.                                                              *)
GetEnds(role) ==
  LET id == asking[role]
      ref == Registry[id]
  IN  /\ id # None
      /\ \/ /\ ReadStatus(ref) = "PRESENT"
            /\ handed' = handed \cup {[role |-> role, id |-> id, value |-> store[Key(ref)]]}
            /\ UNCHANGED told
         \/ /\ ReadStatus(ref) # "PRESENT"
            /\ Tell(role, "get", id, TranslatedFailure(ReadStatus(ref)))
            /\ UNCHANGED handed
      /\ asking' = [asking EXCEPT ![role] = None]
      /\ UNCHANGED <<provider, store>>

Set(key, value) == [k \in DOMAIN store \cup {key} |-> IF k = key THEN value ELSE store[k]]

(* rotate: new material behind a reference the memory provider serves.     *)
Rotate(ref, value) ==
  /\ provider = "memory" /\ ref \in Servable /\ value # ""
  /\ store' = Set(ref, value)
  /\ UNCHANGED <<provider, asking, told, handed>>

(* The environment mapping of the development provider is the process's    *)
(* own: a key is set, emptied or removed at any time.                      *)
EnvironmentChanges(key) ==
  /\ provider = "development"
  /\ \/ \E value \in Material : store' = Set(key, value)
     \/ store' = [k \in DOMAIN store \ {key} |-> store[k]]
  /\ UNCHANGED <<provider, asking, told, handed>>

SecretNext ==
  \/ \E role \in Roles :
       \/ \E id \in Ids : Probe(role, id) \/ GetRefused(role, id) \/ GetBegins(role, id)
       \/ GetEnds(role)
  \/ \E ref \in Servable, value \in Material : Rotate(ref, value)
  \/ \E key \in EnvironmentKeys : EnvironmentChanges(key)

-----------------------------------------------------------------------------
(* A secret is handed only to the one role it is granted to, never empty   *)
(* though it was withdrawn between the provider's check and its read; only *)
(* to that role does the service admit what the provider knows of it, and  *)
(* a refused get never says that the secret is available                   *)
(* (SecretAccessService, "Default-deny provider boundary permanently bound *)
(* to one service role").                                                  *)
SecretsScoped ==
  /\ \A h \in handed :
       /\ h.id \in RoleGrants[h.role] /\ h.value # ""
       /\ \A r \in Roles \ {h.role} : h.id \notin RoleGrants[r]
  /\ told # None =>
       /\ told.status \in {"AVAILABLE", "MISSING", "PROVIDER_PERMISSION_DENIED",
                           "PROVIDER_UNAVAILABLE", "PROVIDER_ERROR"} =>
            told.id \in RoleGrants[told.role]
       /\ told.by = "get" => told.status # "AVAILABLE"
=============================================================================
