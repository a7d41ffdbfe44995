------------------------- MODULE ProviderSelection -------------------------
(***************************************************************************)
(* The way from ProviderSettings to a provider: the compatibility check of     *)
(* governance.py, ProviderRegistry.resolve of registry.py with its fallback,   *)
(* and the two that compose them: ProductionAIRuntime.from_settings (check,    *)
(* then resolve without fallback) and ConfiguredAIRuntime.from_settings        *)
(* (resolve, with the fallback its caller allows).                             *)
(***************************************************************************)
EXTENDS FiniteSets

CONSTANTS
    Capabilities,  \* ModelCapability
    Text,          \* TEXT_GENERATION
    Models,        \* model names, DeterministicModel among them
    DeterministicModel

ASSUME SelectionAssumption ==
    /\ Text \in Capabilities
    /\ DeterministicModel \in Models

VARIABLES
    settings,   \* the ProviderSettings
    required,   \* required_capabilities
    custom,     \* how the provider that the application registers itself behaves
    composer,   \* "production", or "configured" with or without fallback
    report,     \* valid of the CompatibilityReport
    selection   \* the ProviderSelection, or the RegistryErrorCode

selectionVars == <<settings, required, custom, composer, report, selection>>

----------------------------------------------------------------------------
BuiltIn == {"deterministic", "openai", "openai-compatible"}

\* What load_provider_settings and ProviderSettings let through: a key and the
\* mode that needs one come together.
Settings ==
    {s \in [provider_id : BuiltIn \cup {"custom"}, model : Models,
            auth_mode : {"none", "api_key"}, api_key : BOOLEAN, base_url : BOOLEAN] :
        (s.auth_mode = "api_key") = s.api_key}

\* A descriptor whose models are empty declares all of them.
Descriptor(id) ==
    CASE id = "deterministic" -> [models |-> {DeterministicModel}, capabilities |-> {Text}]
      [] id \in {"openai", "openai-compatible"} -> [models |-> {}, capabilities |-> {Text}]
      [] id = "custom" -> [models |-> Models \ {DeterministicModel}, capabilities |-> Capabilities]

Registered(id) == id \in BuiltIn \/ custom # "absent"

DeclaresModel(id, model) ==
    Descriptor(id).models # {} => model \in Descriptor(id).models

\* Mutant: the compatible endpoint need not be named.
CompatibleAnywhere(s) ==
    /\ Registered(s.provider_id)
    /\ DeclaresModel(s.provider_id, s.model)
    /\ required \subseteq Descriptor(s.provider_id).capabilities
    /\ (s.provider_id = "deterministic") = ~s.api_key

\* check_configuration_compatibility finds no error.
Compatible(s) ==
    /\ Registered(s.provider_id)
    /\ DeclaresModel(s.provider_id, s.model)
    /\ required \subseteq Descriptor(s.provider_id).capabilities
    /\ IF s.provider_id = "deterministic"
       THEN s.auth_mode = "none" /\ ~s.api_key /\ ~s.base_url
       ELSE /\ s.auth_mode = "api_key" /\ s.api_key
            /\ s.provider_id = "openai-compatible" => s.base_url

\* What the factory of a registered provider makes of the settings.
Made(s) ==
    CASE s.provider_id = "deterministic" -> "provider"
      [] s.provider_id = "custom" -> custom
      [] s.provider_id \in {"openai", "openai-compatible"} ->
           IF s.api_key /\ (s.provider_id = "openai-compatible" => s.base_url)
           THEN "provider" ELSE "unavailable"

Selected(s, fallback) ==
    [code |-> "selected", provider |-> s.provider_id, model |-> s.model,
     credentials |-> s.api_key \/ s.base_url, used_fallback |-> fallback]

Refused(code) == [code |-> code]

\* _validate_requirements, the factory, _validate_instance
Create(s, fallback) ==
    CASE ~DeclaresModel(s.provider_id, s.model) -> Refused("model_not_supported")
      [] DeclaresModel(s.provider_id, s.model)
           /\ ~(required \subseteq Descriptor(s.provider_id).capabilities) ->
           Refused("capability_not_supported")
      [] OTHER -> CASE Made(s) = "provider" -> Selected(s, fallback)
                    [] Made(s) = "unavailable" -> Refused("provider_unavailable")
                    [] Made(s) = "invalid" -> Refused("invalid_provider")
                    [] Made(s) = "mismatch" -> Refused("descriptor_mismatch")

\* Mutant: the endpoint and key of the remote provider go to the fallback.
FallbackSettingsKept(s) ==
    [s EXCEPT !.provider_id = "deterministic", !.model = DeterministicModel]

\* replace(settings, ...) of _resolve_deterministic_fallback
FallbackSettings(s) ==
    [provider_id |-> "deterministic", model |-> DeterministicModel,
     auth_mode |-> "none", api_key |-> FALSE, base_url |-> FALSE]

\* resolve: only an unknown or unavailable provider leads to the fallback.
Resolve(s, allowed) ==
    LET made == IF Registered(s.provider_id) THEN Create(s, FALSE)
                ELSE Refused("provider_not_found")
    IN  IF allowed /\ made.code \in {"provider_not_found", "provider_unavailable"}
        THEN Create(FallbackSettings(s), TRUE) ELSE made

SelectionInit ==
    /\ settings \in Settings
    /\ required \in {c \in SUBSET Capabilities : Text \in c}
    /\ custom \in {"absent", "provider", "unavailable", "invalid", "mismatch"}
    /\ composer \in {"production", "configured", "configured with fallback"}
    /\ report = "none"
    /\ selection = Refused("none")

\* ProductionAIRuntime.from_settings, its check
Check ==
    /\ composer = "production" /\ report = "none"
    /\ report' = IF Compatible(settings) THEN "valid" ELSE "invalid"
    /\ UNCHANGED <<settings, required, custom, composer, selection>>

MayResolve == composer # "production" \/ report = "valid"

\* ConfiguredAIRuntime.from_settings
Select ==
    /\ selection = Refused("none")
    /\ MayResolve
    /\ selection' = Resolve(settings, composer = "configured with fallback")
    /\ UNCHANGED <<settings, required, custom, composer, report>>

SelectionNext == Check \/ Select

SelectionSpec == SelectionInit /\ [][SelectionNext]_selectionVars

----------------------------------------------------------------------------
\* The shape of the settings, the report and the selection.
SelectionTypes ==
    /\ settings \in Settings
    /\ required \subseteq Capabilities
    /\ report \in {"none", "valid", "invalid"}
    /\ selection \in
         [code : {"selected"}, provider : BuiltIn \cup {"custom"}, model : Models,
          credentials : BOOLEAN, used_fallback : BOOLEAN]
         \cup [code : {"none", "provider_not_found", "provider_unavailable",
                       "model_not_supported", "capability_not_supported",
                       "descriptor_mismatch", "invalid_provider"}]

\* The check and the selection are written apart, and agree: production never
\* refuses to build what it found compatible, unless the factory that the
\* application registered is itself at fault; and what production never checked it
\* never builds.
CompatibleIsSelected ==
    composer = "production" /\ selection.code # "none" =>
        /\ report = "valid"
        /\ selection.code # "selected" =>
              settings.provider_id = "custom" /\ custom \in {"unavailable", "invalid", "mismatch"}

\* Whatever the way that led to it, the provider that was selected declares the
\* model it will be asked for and every capability required; without fallback it is
\* the one the settings name.
SelectedIsAble ==
    selection.code = "selected" =>
        /\ DeclaresModel(selection.provider, selection.model)
        /\ required \subseteq Descriptor(selection.provider).capabilities
        /\ ~selection.used_fallback =>
              selection.provider = settings.provider_id /\ selection.model = settings.model

\* The fallback hides no incompatibility, is used only where it is allowed, and is
\* given neither the key nor the address of the provider it replaces ("Une
\* incompatibilité de modèle ou de capacité n'est jamais masquée par un fallback").
FallbackHidesNothing ==
    selection.code = "selected" /\ selection.used_fallback =>
        /\ composer = "configured with fallback"
        /\ ~selection.credentials
        /\ ~Registered(settings.provider_id)
             \/ (DeclaresModel(settings.provider_id, settings.model)
                 /\ required \subseteq Descriptor(settings.provider_id).capabilities)

\* The check of the settings and the selection, written apart, agree; the provider
\* selected is able to do what is asked of it; and the fallback hides nothing.
SelectionAgrees ==
    SelectionTypes /\ CompatibleIsSelected /\ SelectedIsAble /\ FallbackHidesNothing
============================================================================
