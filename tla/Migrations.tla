----------------------------- MODULE Migrations -----------------------------
(* What activation does before anything else: the migrations of renamed and   *)
(* removed settings (runSettingsMigrations), whose progress is one number in  *)
(* the global state of all windows, and the move of a plaintext key to        *)
(* SecretStorage (migratePlaintextSettingToSecret).  Windows activate side by *)
(* side, are closed at any step and opened again.                             *)
EXTENDS Naturals

CONSTANTS
  Window,      \* extension hosts
  Workspace,   \* the workspaces' own settings
  Global,      \* the user's settings
  HomeOf,      \* the workspace each window opens
  Theme, Key,  \* values a user may have set
  None,        \* not set
  MaxCloses    \* closes of windows

Scope == Workspace \cup {Global}

ASSUME MigrationsAssumption ==
  /\ Global \notin Workspace
  /\ HomeOf \in [Window -> Workspace]
  /\ None \notin Theme \cup Key \cup {"codex", "copilot", "openai"}
  /\ MaxCloses \in Nat

VARIABLES
  legacyTheme,  \* kicadstudio.viewerTheme in each scope
  theme,        \* kicadstudio.viewer.theme
  provider,     \* kicadstudio.ai.provider
  plainKey,     \* the deprecated plaintext key
  secret,       \* the key in SecretStorage
  stored,       \* kicadstudio.settingsSchemaVersion
  step,         \* where the activation of each window stands
  migration,    \* the migration it is at
  left,         \* the scopes that migration has still to change
  sawLegacy, sawTheme,  \* what the two calls of inspect returned
  sawKey,       \* the plaintext key it read
  failed,       \* failedMigration is set
  closes,
  firstLegacy, firstTheme, firstKey  \* history: the values before any window

settings == <<legacyTheme, theme, provider>>
keys     == <<plainKey, secret, sawKey>>
firsts   == <<firstLegacy, firstTheme, firstKey>>
migrationsVars == <<settings, keys, firsts, stored, step, migration, left,
                    sawLegacy, sawTheme, failed, closes>>

(* DEFAULT_SETTINGS_MIGRATIONS.                                               *)
Seed == 1
RenameTheme == 2
ReplaceCodex == 3
Latest == ReplaceCodex

(* The scopes inspect knows a value of, changed in this order.                *)
Places(w) == {Global, HomeOf[w]}
NextPlace(w) == IF Global \in left[w] THEN Global ELSE HomeOf[w]

MigrationsInit ==
  /\ legacyTheme \in [Scope -> Theme \cup {None}]
  /\ theme \in [Scope -> Theme \cup {None}]
  /\ provider \in [Scope -> {None, "codex", "openai"}]
  /\ plainKey \in [Scope -> Key \cup {None}]
  /\ secret = None
  /\ stored = 0
  /\ step = [w \in Window |-> "closed"]
  /\ migration = [w \in Window |-> 0]
  /\ left = [w \in Window |-> {}]
  /\ sawLegacy = [w \in Window |-> legacyTheme]
  /\ sawTheme = [w \in Window |-> theme]
  /\ sawKey = [w \in Window |-> None]
  /\ failed = [w \in Window |-> FALSE]
  /\ closes = 0
  /\ firstLegacy = legacyTheme /\ firstTheme = theme /\ firstKey = plainKey

Goes(w, to) == step' = [step EXCEPT ![w] = to]

(* runSettingsMigrations reads the number once.                               *)
Activate(w) ==
  /\ step[w] = "closed"
  /\ Goes(w, "next")
  /\ migration' = [migration EXCEPT ![w] = stored + 1]
  /\ failed' = [failed EXCEPT ![w] = FALSE]
  /\ UNCHANGED <<settings, keys, firsts, stored, left, sawLegacy, sawTheme, closes>>

ApplyEverywhere(w) ==
  /\ step[w] = "next" /\ migration[w] <= Latest
  /\ sawLegacy' = [sawLegacy EXCEPT ![w] = legacyTheme]
  /\ sawTheme' = [sawTheme EXCEPT ![w] = theme]
  /\ left' = [left EXCEPT ![w] =
       CASE migration[w] = Seed -> {}
         [] migration[w] = RenameTheme -> {s \in Scope : legacyTheme[s] # None}
         [] migration[w] = ReplaceCodex -> {s \in Scope : provider[s] = "codex"}]
  /\ Goes(w, "scopes")
  /\ UNCHANGED <<settings, keys, firsts, stored, migration, failed, closes>>

(* apply up to its first await: what is set now decides what it will do.      *)
Apply(w) ==
  /\ step[w] = "next" /\ migration[w] <= Latest
  /\ sawLegacy' = [sawLegacy EXCEPT ![w] = legacyTheme]
  /\ sawTheme' = [sawTheme EXCEPT ![w] = theme]
  /\ left' = [left EXCEPT ![w] =
       CASE migration[w] = Seed -> {}
         [] migration[w] = RenameTheme -> {s \in Places(w) : legacyTheme[s] # None}
         [] migration[w] = ReplaceCodex -> {s \in Places(w) : provider[s] = "codex"}]
  /\ Goes(w, "scopes")
  /\ UNCHANGED <<settings, keys, firsts, stored, migration, failed, closes>>

CopyThemeOver(w) ==
  /\ step[w] = "scopes" /\ left[w] # {} /\ migration[w] = RenameTheme
  /\ theme' = [theme EXCEPT ![NextPlace(w)] = sawLegacy[w][NextPlace(w)]]
  /\ Goes(w, "clear")
  /\ UNCHANGED <<legacyTheme, provider, keys, firsts, stored, migration, left,
                 sawLegacy, sawTheme, failed, closes>>

(* The renamed setting gets the value unless it has one, then the old one is  *)
(* cleared, each with an await.                                               *)
CopyTheme(w) ==
  /\ step[w] = "scopes" /\ left[w] # {} /\ migration[w] = RenameTheme
  /\ theme' = IF sawTheme[w][NextPlace(w)] = None
                THEN [theme EXCEPT ![NextPlace(w)] = sawLegacy[w][NextPlace(w)]]
                ELSE theme
  /\ Goes(w, "clear")
  /\ UNCHANGED <<legacyTheme, provider, keys, firsts, stored, migration, left,
                 sawLegacy, sawTheme, failed, closes>>

ClearTheme(w) ==
  /\ step[w] = "clear"
  /\ legacyTheme' = [legacyTheme EXCEPT ![NextPlace(w)] = None]
  /\ left' = [left EXCEPT ![w] = @ \ {NextPlace(w)}]
  /\ Goes(w, "scopes")
  /\ UNCHANGED <<theme, provider, keys, firsts, stored, migration, sawLegacy,
                 sawTheme, failed, closes>>

Replace(w) ==
  /\ step[w] = "scopes" /\ left[w] # {} /\ migration[w] = ReplaceCodex
  /\ provider' = [provider EXCEPT ![NextPlace(w)] = "copilot"]
  /\ left' = [left EXCEPT ![w] = @ \ {NextPlace(w)}]
  /\ UNCHANGED <<legacyTheme, theme, keys, firsts, stored, step, migration,
                 sawLegacy, sawTheme, failed, closes>>

(* The number is stored after each migration, by whichever window is there.   *)
StoreVersion(w) ==
  /\ step[w] = "scopes" /\ left[w] = {}
  /\ stored' = migration[w]
  /\ migration' = [migration EXCEPT ![w] = @ + 1]
  /\ Goes(w, "next")
  /\ UNCHANGED <<settings, keys, firsts, left, sawLegacy, sawTheme, failed, closes>>

FailedMigrationIsSkipped(w) ==
  /\ step[w] \in {"scopes", "clear"}
  /\ failed' = [failed EXCEPT ![w] = TRUE]
  /\ migration' = [migration EXCEPT ![w] = @ + 1]
  /\ Goes(w, "next")
  /\ UNCHANGED <<settings, keys, firsts, stored, left, sawLegacy, sawTheme, closes>>

(* An update rejects: the loop stops, and activation goes on without it.      *)
MigrationFails(w) ==
  /\ step[w] \in {"scopes", "clear"}
  /\ failed' = [failed EXCEPT ![w] = TRUE]
  /\ Goes(w, "key")
  /\ UNCHANGED <<settings, keys, firsts, stored, migration, left, sawLegacy,
                 sawTheme, closes>>

MigrationsDone(w) ==
  /\ step[w] = "next" /\ migration[w] > Latest
  /\ Goes(w, "key")
  /\ UNCHANGED <<settings, keys, firsts, stored, migration, left, sawLegacy,
                 sawTheme, failed, closes>>

(* migratePlaintextSettingToSecret reads the value in effect in the window.   *)
EffectiveKey(w) ==
  IF plainKey[HomeOf[w]] # None THEN plainKey[HomeOf[w]] ELSE plainKey[Global]

ReadKey(w) ==
  /\ step[w] = "key"
  /\ sawKey' = [sawKey EXCEPT ![w] = EffectiveKey(w)]
  /\ Goes(w, IF EffectiveKey(w) = None THEN "active" ELSE "secret")
  /\ UNCHANGED <<settings, plainKey, secret, firsts, stored, migration, left,
                 sawLegacy, sawTheme, failed, closes>>

AskSecretThenClear(w) ==
  /\ step[w] = "secret"
  /\ Goes(w, "clearKey")
  /\ left' = [left EXCEPT ![w] = Places(w)]
  /\ UNCHANGED <<settings, keys, firsts, stored, migration, sawLegacy, sawTheme,
                 failed, closes>>

(* secrets.get, and secrets.store only where there is none yet.               *)
AskSecret(w) ==
  /\ step[w] = "secret"
  /\ Goes(w, IF secret = None THEN "storeKey" ELSE "clearKey")
  /\ left' = [left EXCEPT ![w] = Places(w)]
  /\ UNCHANGED <<settings, keys, firsts, stored, migration, sawLegacy, sawTheme,
                 failed, closes>>

StoreKey(w) ==
  /\ step[w] = "storeKey"
  /\ secret' = sawKey[w]
  /\ Goes(w, "clearKey")
  /\ UNCHANGED <<settings, plainKey, sawKey, firsts, stored, migration, left,
                 sawLegacy, sawTheme, failed, closes>>

(* SecretStorage rejects, which ends the activation.                          *)
SecretFails(w) ==
  /\ step[w] \in {"secret", "storeKey"}
  /\ Goes(w, "closed")
  /\ UNCHANGED <<settings, keys, firsts, stored, migration, left, sawLegacy,
                 sawTheme, failed, closes>>

(* Each scope is cleared; one that cannot be is logged and skipped.           *)
ClearKey(w) ==
  /\ step[w] = "clearKey" /\ left[w] # {}
  /\ plainKey' \in {plainKey, [plainKey EXCEPT ![NextPlace(w)] = None]}
  /\ left' = [left EXCEPT ![w] = @ \ {NextPlace(w)}]
  /\ UNCHANGED <<settings, secret, sawKey, firsts, stored, step, migration,
                 sawLegacy, sawTheme, failed, closes>>

KeyDone(w) ==
  /\ step[w] = "clearKey" /\ left[w] = {}
  /\ Goes(w, "active")
  /\ UNCHANGED <<settings, keys, firsts, stored, migration, left, sawLegacy,
                 sawTheme, failed, closes>>

(* The window is closed, or its host dies, at any step.                       *)
CloseWindow(w) ==
  /\ step[w] # "closed" /\ closes < MaxCloses
  /\ Goes(w, "closed")
  /\ closes' = closes + 1
  /\ UNCHANGED <<settings, keys, firsts, stored, migration, left, sawLegacy,
                 sawTheme, failed>>

MigrationsNext ==
  \E w \in Window :
    \/ Activate(w) \/ Apply(w) \/ CopyTheme(w) \/ ClearTheme(w) \/ Replace(w)
    \/ StoreVersion(w) \/ MigrationFails(w) \/ MigrationsDone(w)
    \/ ReadKey(w) \/ AskSecret(w) \/ StoreKey(w) \/ SecretFails(w)
    \/ ClearKey(w) \/ KeyDone(w) \/ CloseWindow(w)

MigrationsSpec == MigrationsInit /\ [][MigrationsNext]_migrationsVars
-----------------------------------------------------------------------------
(* The types, and that a window only ever has scopes to change that its own   *)
(* configuration knows.                                                       *)
MigrationsTypeOK ==
  /\ legacyTheme \in [Scope -> Theme \cup {None}]
  /\ theme \in [Scope -> Theme \cup {None}]
  /\ provider \in [Scope -> {None, "codex", "copilot", "openai"}]
  /\ plainKey \in [Scope -> Key \cup {None}]
  /\ secret \in Key \cup {None}
  /\ stored \in 0 .. Latest
  /\ step \in [Window -> {"closed", "next", "scopes", "clear", "key", "secret",
                          "storeKey", "clearKey", "active"}]
  /\ migration \in [Window -> 0 .. Latest + 1]
  /\ left \in [Window -> SUBSET Scope]
  /\ \A w \in Window : left[w] \subseteq Places(w)
  /\ sawLegacy \in [Window -> [Scope -> Theme \cup {None}]]
  /\ sawTheme \in [Window -> [Scope -> Theme \cup {None}]]
  /\ sawKey \in [Window -> Key \cup {None}]
  /\ failed \in [Window -> BOOLEAN]
  /\ closes \in 0 .. MaxCloses

(* No theme a user had chosen is lost or overwritten: one set under the new   *)
(* name stays, and one under the old name is there under one of them, however *)
(* many windows migrate at once, fail or are closed half-way.                 *)
ThemeKept ==
  \A s \in Scope :
    IF firstTheme[s] # None THEN theme[s] = firstTheme[s]
    ELSE \/ theme[s] = firstLegacy[s]
         \/ theme[s] = None /\ legacyTheme[s] = firstLegacy[s]

(* The number never runs ahead of the user's settings: once it is stored that *)
(* a migration ran, no window will look again.                                *)
GlobalMigrated ==
  /\ stored >= RenameTheme => legacyTheme[Global] = None
  /\ stored >= ReplaceCodex => provider[Global] # "codex"

(* Plaintext keys are cleared only once SecretStorage has one.                *)
KeyKept == secret # None \/ plainKey = firstKey

(* What AI_PROVIDERS.md says of legacy settings: an activated window has no   *)
(* "codex" in effect.                                                         *)
CodexMigrated ==
  \A w \in Window :
    step[w] = "active" /\ ~failed[w] => provider[HomeOf[w]] # "codex"
=============================================================================
