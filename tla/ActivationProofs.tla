--------------------------- MODULE ActivationProofs ---------------------------
(* The inductive invariants of what starts with a window: the migrations, for *)
(* any number of windows and workspaces, all values of the settings and any   *)
(* number of closes, and the discovery of projects, for any number of         *)
(* projects and of moves.                                                     *)
EXTENDS Migrations, WorkspaceContext, WellFoundedInduction, TLAPS

(* Migrations.                                                                *)

SettingsType ==
  /\ legacyTheme \in [Scope -> Theme \cup {None}]
  /\ theme \in [Scope -> Theme \cup {None}]
  /\ provider \in [Scope -> {None, "codex", "copilot", "openai"}]
  /\ stored \in 0 .. Latest
  /\ closes \in 0 .. MaxCloses

KeysType ==
  /\ plainKey \in [Scope -> Key \cup {None}]
  /\ secret \in Key \cup {None}
  /\ sawKey \in [Window -> Key \cup {None}]

WindowType ==
  /\ step \in [Window -> {"closed", "next", "scopes", "clear", "key", "secret",
                          "storeKey", "clearKey", "active"}]
  /\ migration \in [Window -> 0 .. Latest + 1]
  /\ left \in [Window -> SUBSET Scope]
  /\ \A w \in Window : left[w] \subseteq Places(w)
  /\ sawLegacy \in [Window -> [Scope -> Theme \cup {None}]]
  /\ sawTheme \in [Window -> [Scope -> Theme \cup {None}]]

FailedType == failed \in [Window -> BOOLEAN]

\* A window that migrates is at one of the migrations there are, and one that
\* clears the old name of the theme is at the one that renames it.
AtMigration ==
  \A w \in Window :
    /\ step[w] = "next" => migration[w] >= Seed
    /\ step[w] \in {"scopes", "clear"} => migration[w] \in Seed .. Latest
    /\ step[w] = "clear" => migration[w] = RenameTheme /\ left[w] # {}

TypeInv == SettingsType /\ KeysType /\ WindowType /\ FailedType /\ AtMigration

LEMMA PlacesType ==
  ASSUME NEW w \in Window
  PROVE  Places(w) \subseteq Scope /\ Global # HomeOf[w]
BY MigrationsAssumption DEF Places, Scope

\* The scope a window changes next is one it has still to change.
LEMMA NextPlaceLeft ==
  ASSUME NEW w \in Window, left[w] \subseteq Places(w), left[w] # {}
  PROVE  NextPlace(w) \in left[w] /\ NextPlace(w) \in Scope
BY PlacesType DEF NextPlace, Places

LEMMA TypeInit == MigrationsInit => TypeInv
BY MigrationsAssumption
   DEF MigrationsInit, TypeInv, SettingsType, KeysType, WindowType, FailedType,
       AtMigration, Latest, ReplaceCodex, Seed

LEMMA FailedNext ==
  ASSUME FailedType, [MigrationsNext]_migrationsVars
  PROVE  FailedType'
<1> USE DEF FailedType
<1>1. CASE \E w \in Window : failed' \in {[failed EXCEPT ![w] = TRUE], [failed EXCEPT ![w] = FALSE]}
  BY <1>1
<1>2. CASE UNCHANGED failed
  BY <1>2
<1> QED
  BY <1>1, <1>2
  DEF MigrationsNext, migrationsVars, Activate, Apply, CopyTheme, ClearTheme,
      Replace, StoreVersion, MigrationFails, MigrationsDone, ReadKey, AskSecret,
      StoreKey, SecretFails, ClearKey, KeyDone, CloseWindow

LEMMA KeysNext ==
  ASSUME TypeInv, [MigrationsNext]_migrationsVars
  PROVE  KeysType'
<1> USE DEF TypeInv, KeysType
<1>1. CASE UNCHANGED keys
  BY <1>1 DEF keys
<1>2. ASSUME NEW w \in Window, ReadKey(w) PROVE KeysType'
  BY <1>2, MigrationsAssumption DEF ReadKey, EffectiveKey, Scope
<1>3. ASSUME NEW w \in Window, StoreKey(w) PROVE KeysType'
  BY <1>3 DEF StoreKey
<1>4. ASSUME NEW w \in Window, ClearKey(w) PROVE KeysType'
  <2>1. NextPlace(w) \in Scope
    BY <1>4, NextPlaceLeft DEF ClearKey, WindowType
  <2> QED BY <1>4, <2>1 DEF ClearKey
<1> QED
  BY <1>1, <1>2, <1>3, <1>4
  DEF MigrationsNext, migrationsVars, keys, Activate, Apply, CopyTheme, ClearTheme,
      Replace, StoreVersion, MigrationFails, MigrationsDone, AskSecret,
      SecretFails, KeyDone, CloseWindow

\* Each action keeps the types of the settings and of the windows, and leaves
\* every window at a migration that its step is about.
LEMMA WindowNext ==
  ASSUME TypeInv, [MigrationsNext]_migrationsVars
  PROVE  SettingsType' /\ WindowType' /\ AtMigration'
<1> USE DEF TypeInv, SettingsType, WindowType, AtMigration, settings, keys, firsts,
            Goes, Latest, ReplaceCodex, RenameTheme, Seed
<1>1. ASSUME NEW w \in Window, Activate(w)
      PROVE  SettingsType' /\ WindowType' /\ AtMigration'
  BY <1>1 DEF Activate
<1>2. ASSUME NEW w \in Window, Apply(w)
      PROVE  SettingsType' /\ WindowType' /\ AtMigration'
  <2>1. migration[w] \in Seed .. Latest
    BY <1>2 DEF Apply
  <2>2. PICK S : left' = [left EXCEPT ![w] = S]
    BY <1>2, Zenon DEF Apply
  <2>3. left'[w] = S
    BY <2>2
  <2>4. S \in SUBSET Scope /\ S \subseteq Places(w)
    BY <1>2, <2>1, <2>3, PlacesType DEF Apply
  <2> QED BY <1>2, <2>1, <2>2, <2>4 DEF Apply
<1>3. ASSUME NEW w \in Window, CopyTheme(w)
      PROVE  SettingsType' /\ WindowType' /\ AtMigration'
  <2>1. NextPlace(w) \in Scope
    BY <1>3, NextPlaceLeft DEF CopyTheme
  <2>2. theme' \in [Scope -> Theme \cup {None}]
    BY <1>3, <2>1 DEF CopyTheme
  <2> QED BY <1>3, <2>2 DEF CopyTheme
<1>4. ASSUME NEW w \in Window, ClearTheme(w)
      PROVE  SettingsType' /\ WindowType' /\ AtMigration'
  <2>1. NextPlace(w) \in Scope
    BY <1>4, NextPlaceLeft DEF ClearTheme
  <2> QED BY <1>4, <2>1 DEF ClearTheme
<1>5. ASSUME NEW w \in Window, Replace(w)
      PROVE  SettingsType' /\ WindowType' /\ AtMigration'
  <2>1. NextPlace(w) \in Scope
    BY <1>5, NextPlaceLeft DEF Replace
  <2> QED BY <1>5, <2>1 DEF Replace
<1>6. ASSUME NEW w \in Window, StoreVersion(w)
      PROVE  SettingsType' /\ WindowType' /\ AtMigration'
  BY <1>6 DEF StoreVersion
<1>7. ASSUME NEW w \in Window, MigrationFails(w) \/ MigrationsDone(w) \/ SecretFails(w)
      PROVE  SettingsType' /\ WindowType' /\ AtMigration'
  BY <1>7 DEF MigrationFails, MigrationsDone, SecretFails
<1>8. ASSUME NEW w \in Window, ReadKey(w) \/ StoreKey(w) \/ KeyDone(w)
      PROVE  SettingsType' /\ WindowType' /\ AtMigration'
  BY <1>8 DEF ReadKey, StoreKey, KeyDone
<1>9. ASSUME NEW w \in Window, AskSecret(w)
      PROVE  SettingsType' /\ WindowType' /\ AtMigration'
  BY <1>9, PlacesType DEF AskSecret
<1>10. ASSUME NEW w \in Window, ClearKey(w)
       PROVE  SettingsType' /\ WindowType' /\ AtMigration'
  BY <1>10, NextPlaceLeft DEF ClearKey
<1>11. ASSUME NEW w \in Window, CloseWindow(w)
       PROVE  SettingsType' /\ WindowType' /\ AtMigration'
  BY <1>11, MigrationsAssumption DEF CloseWindow
<1>12. CASE UNCHANGED migrationsVars
  BY <1>12 DEF migrationsVars
<1> QED
  BY <1>1, <1>2, <1>3, <1>4, <1>5, <1>6, <1>7, <1>8, <1>9, <1>10, <1>11, <1>12
  DEF MigrationsNext

LEMMA TypeNext ==
  ASSUME TypeInv, [MigrationsNext]_migrationsVars
  PROVE  TypeInv'
BY FailedNext, KeysNext, WindowNext DEF TypeInv

\* Every reachable state of the migrations has its types, and a window has only
\* scopes of its own configuration to change, however many windows activate and
\* are closed.
THEOREM MigrationsTypeCorrect == MigrationsSpec => []MigrationsTypeOK
<1>1. MigrationsInit => TypeInv
  BY TypeInit
<1>2. TypeInv /\ [MigrationsNext]_migrationsVars => TypeInv'
  BY TypeNext
<1>3. TypeInv => MigrationsTypeOK
  BY DEF TypeInv, SettingsType, KeysType, WindowType, FailedType, MigrationsTypeOK
<1> QED BY <1>1, <1>2, <1>3, PTL DEF MigrationsSpec
-----------------------------------------------------------------------------
\* What a window saw of the themes.  A new name that was ever set stays set, so
\* a window that saw none may have missed one, but never one of the user's; and
\* what it copies is the value the user's old name had.
ThemesSeen ==
  \A s \in Scope :
    /\ legacyTheme[s] \in {firstLegacy[s], None}
    /\ \A w \in Window :
         /\ firstTheme[s] # None => sawTheme[w][s] # None
         /\ sawTheme[w][s] # None => theme[s] # None
         /\ step[w] \in {"scopes", "clear"} /\ migration[w] = RenameTheme /\ s \in left[w]
              => sawLegacy[w][s] = firstLegacy[s] /\ firstLegacy[s] # None

\* The old name is cleared only where the new one is set.
CopiedBeforeClear ==
  \A w \in Window : step[w] = "clear" => theme[NextPlace(w)] # None

ThemeInv == ThemesSeen /\ CopiedBeforeClear /\ ThemeKept

LEMMA ThemeInit == MigrationsInit => ThemeInv
BY DEF MigrationsInit, ThemeInv, ThemesSeen, CopiedBeforeClear, ThemeKept

\* Steps that change neither name of the theme, nor what windows saw of them,
\* nor bring a window to the scopes of a migration.
ThemesLeftAlone ==
  /\ UNCHANGED <<legacyTheme, theme, sawLegacy, sawTheme, firsts>>
  /\ \A w \in Window :
       \/ step'[w] \notin {"scopes", "clear"}
       \/ /\ step'[w] = step[w] /\ migration'[w] = migration[w]
          /\ left'[w] \subseteq left[w]
          /\ step[w] = "clear" => left'[w] = left[w]

LEMMA ThemesLeftAloneKeeps ==
  ASSUME ThemeInv, ThemesLeftAlone
  PROVE  ThemeInv'
<1> USE DEF ThemeInv, ThemesLeftAlone, firsts
<1>1. ThemesSeen'
  BY DEF ThemesSeen
<1>2. CopiedBeforeClear'
  BY DEF CopiedBeforeClear, NextPlace
<1>3. ThemeKept'
  BY DEF ThemeKept
<1> QED BY <1>1, <1>2, <1>3

LEMMA ApplyKeepsThemes ==
  ASSUME TypeInv, ThemeInv, NEW w \in Window, Apply(w)
  PROVE  ThemeInv'
<1> USE DEF Apply, TypeInv, SettingsType, WindowType, ThemeInv, settings, firsts, Goes
<1>1. step' = [step EXCEPT ![w] = "scopes"]
      /\ sawLegacy' = [sawLegacy EXCEPT ![w] = legacyTheme]
      /\ sawTheme' = [sawTheme EXCEPT ![w] = theme]
      /\ UNCHANGED <<legacyTheme, theme, migration, firstLegacy, firstTheme>>
  OBVIOUS
<1>2. PICK S : left' = [left EXCEPT ![w] = S]
  BY Zenon
<1>3. left'[w] = S
  BY <1>2
<1>4. ASSUME migration[w] = RenameTheme
      PROVE  \A s \in left'[w] : s \in Scope /\ legacyTheme[s] # None
  <2>1. left'[w] = {s \in Places(w) : legacyTheme[s] # None}
    BY <1>4 DEF RenameTheme, ReplaceCodex, Seed
  <2> QED BY <2>1, PlacesType
<1>5. ThemesSeen'
  BY <1>1, <1>2, <1>4 DEF ThemesSeen, ThemeKept
<1>6. CopiedBeforeClear'
  BY <1>1, <1>2 DEF CopiedBeforeClear, NextPlace
<1>7. ThemeKept'
  BY <1>1 DEF ThemeKept
<1> QED BY <1>5, <1>6, <1>7

LEMMA CopyThemeKeepsThemes ==
  ASSUME TypeInv, ThemeInv, NEW w \in Window, CopyTheme(w)
  PROVE  ThemeInv'
<1> DEFINE p == NextPlace(w)
<1> USE DEF TypeInv, SettingsType, WindowType, ThemeInv, keys, firsts, Goes
<1>1. p \in left[w] /\ p \in Scope
  BY NextPlaceLeft DEF CopyTheme
<1>2. /\ step' = [step EXCEPT ![w] = "clear"]
      /\ UNCHANGED <<legacyTheme, migration, left, sawLegacy, sawTheme, firstLegacy, firstTheme>>
      /\ migration[w] = RenameTheme /\ step[w] = "scopes"
  BY DEF CopyTheme
<1>3. sawLegacy[w][p] = firstLegacy[p] /\ firstLegacy[p] # None
  BY <1>1, <1>2 DEF ThemesSeen
<1>4. \/ theme' = theme /\ sawTheme[w][p] # None
      \/ theme' = [theme EXCEPT ![p] = firstLegacy[p]] /\ sawTheme[w][p] = None
  BY <1>3 DEF CopyTheme
<1>5. theme'[p] # None /\ \A s \in Scope : theme[s] # None => theme'[s] # None
  BY <1>1, <1>3, <1>4 DEF ThemesSeen
<1>6. ThemesSeen'
  BY <1>2, <1>5 DEF ThemesSeen
<1>7. CopiedBeforeClear'
  <2> SUFFICES ASSUME NEW v \in Window, step'[v] = "clear"
               PROVE  theme'[NextPlace(v)'] # None
    BY DEF CopiedBeforeClear
  <2>1. NextPlace(v)' = NextPlace(v)
    BY <1>2 DEF NextPlace
  <2>2. CASE v = w
    BY <2>1, <2>2, <1>5
  <2>3. CASE v # w
    <3>1. step[v] = "clear" /\ left[v] # {}
      BY <2>3, <1>2 DEF AtMigration
    <3>2. NextPlace(v) \in Scope
      BY <3>1, NextPlaceLeft
    <3> QED BY <2>1, <3>1, <3>2, <1>5 DEF CopiedBeforeClear
  <2> QED BY <2>2, <2>3
<1>8. ThemeKept'
  BY <1>1, <1>2, <1>3, <1>4 DEF ThemeKept, ThemesSeen
<1> QED BY <1>6, <1>7, <1>8

LEMMA ClearThemeKeepsThemes ==
  ASSUME TypeInv, ThemeInv, NEW w \in Window, ClearTheme(w)
  PROVE  ThemeInv'
<1> DEFINE p == NextPlace(w)
<1> USE DEF TypeInv, SettingsType, WindowType, ThemeInv, keys, firsts, Goes
<1>1. left[w] # {} /\ step[w] = "clear" /\ migration[w] = RenameTheme
  BY DEF ClearTheme, AtMigration
<1>2. p \in left[w] /\ p \in Scope /\ theme[p] # None
  BY <1>1, NextPlaceLeft DEF CopiedBeforeClear
<1>3. /\ step' = [step EXCEPT ![w] = "scopes"]
      /\ left' = [left EXCEPT ![w] = @ \ {p}]
      /\ legacyTheme' = [legacyTheme EXCEPT ![p] = None]
      /\ UNCHANGED <<theme, migration, sawLegacy, sawTheme, firstLegacy, firstTheme>>
  BY DEF ClearTheme
<1>4. ThemesSeen'
  BY <1>1, <1>2, <1>3 DEF ThemesSeen
<1>5. CopiedBeforeClear'
  BY <1>3 DEF CopiedBeforeClear, NextPlace
<1>6. ThemeKept'
  BY <1>2, <1>3 DEF ThemeKept
<1> QED BY <1>4, <1>5, <1>6

LEMMA ThemeNext ==
  ASSUME TypeInv, ThemeInv, [MigrationsNext]_migrationsVars
  PROVE  ThemeInv'
<1> USE DEF ThemesLeftAlone, settings, keys, firsts, Goes, TypeInv, WindowType
<1>1. ASSUME NEW w \in Window,
             \/ Activate(w) \/ StoreVersion(w) \/ MigrationFails(w)
             \/ MigrationsDone(w) \/ ReadKey(w)
      PROVE  ThemesLeftAlone
  BY <1>1 DEF Activate, StoreVersion, MigrationFails, MigrationsDone, ReadKey
<1>2. ASSUME NEW w \in Window,
             \/ AskSecret(w) \/ StoreKey(w) \/ SecretFails(w) \/ ClearKey(w)
             \/ KeyDone(w) \/ CloseWindow(w)
      PROVE  ThemesLeftAlone
  BY <1>2 DEF AskSecret, StoreKey, SecretFails, ClearKey, KeyDone, CloseWindow
<1>3. ASSUME NEW w \in Window, Replace(w) PROVE ThemesLeftAlone
  BY <1>3 DEF Replace
<1>4. UNCHANGED migrationsVars => ThemesLeftAlone
  BY DEF migrationsVars
<1> QED
  BY <1>1, <1>2, <1>3, <1>4, ThemesLeftAloneKeeps, ApplyKeepsThemes,
     CopyThemeKeepsThemes, ClearThemeKeepsThemes
  DEF MigrationsNext

\* No theme a user had chosen is lost or overwritten, however many windows
\* migrate at once, fail half-way or are closed.
THEOREM ThemeKeptAlways == MigrationsSpec => []ThemeKept
<1>1. MigrationsInit => TypeInv /\ ThemeInv
  BY TypeInit, ThemeInit
<1>2. TypeInv /\ ThemeInv /\ [MigrationsNext]_migrationsVars => (TypeInv /\ ThemeInv)'
  BY TypeNext, ThemeNext
<1>3. ThemeInv => ThemeKept
  BY DEF ThemeInv
<1> QED BY <1>1, <1>2, <1>3, PTL DEF MigrationsSpec
-----------------------------------------------------------------------------
\* What stands behind the stored number: a window past a migration, or at its
\* last scopes, knows that the user's settings are migrated.
VersionSound ==
  /\ GlobalMigrated
  /\ \A w \in Window :
       /\ step[w] \in {"next", "scopes", "clear"} =>
            /\ migration[w] > RenameTheme => legacyTheme[Global] = None
            /\ migration[w] > ReplaceCodex => provider[Global] # "codex"
       /\ step[w] \in {"scopes", "clear"} /\ Global \notin left[w] =>
            /\ migration[w] = RenameTheme => legacyTheme[Global] = None
            /\ migration[w] = ReplaceCodex => provider[Global] # "codex"

LEMMA VersionInit == MigrationsInit => VersionSound
BY DEF MigrationsInit, VersionSound, GlobalMigrated, RenameTheme, ReplaceCodex

LEMMA VersionNext ==
  ASSUME TypeInv, VersionSound, [MigrationsNext]_migrationsVars
  PROVE  VersionSound'
<1> USE DEF TypeInv, SettingsType, WindowType, AtMigration, VersionSound, GlobalMigrated,
            RenameTheme, ReplaceCodex, Seed, Latest, settings, keys, Goes
<1>1. ASSUME NEW w \in Window, Activate(w) PROVE VersionSound'
  BY <1>1 DEF Activate
<1>2. ASSUME NEW w \in Window, Apply(w) PROVE VersionSound'
  <2>1. /\ step[w] = "next" /\ step' = [step EXCEPT ![w] = "scopes"]
        /\ UNCHANGED <<legacyTheme, provider, stored, migration>>
    BY <1>2 DEF Apply
  <2>2. PICK S : left' = [left EXCEPT ![w] = S]
    BY <1>2, Zenon DEF Apply
  <2>3. left'[w] = S
    BY <2>2
  <2>4. Global \in Places(w)
    BY DEF Places
  <2>5. migration[w] = RenameTheme => left'[w] = {s \in Places(w) : legacyTheme[s] # None}
    BY <1>2 DEF Apply
  <2>6. migration[w] = ReplaceCodex => left'[w] = {s \in Places(w) : provider[s] = "codex"}
    BY <1>2 DEF Apply
  <2>7. Global \notin left'[w] =>
          /\ migration[w] = RenameTheme => legacyTheme[Global] = None
          /\ migration[w] = ReplaceCodex => provider[Global] # "codex"
    BY <2>4, <2>5, <2>6
  <2> QED BY <2>1, <2>2, <2>3, <2>7
<1>3. ASSUME NEW w \in Window, CopyTheme(w) PROVE VersionSound'
  BY <1>3 DEF CopyTheme
<1>4. ASSUME NEW w \in Window, ClearTheme(w) PROVE VersionSound'
  <2>1. step[w] = "clear" /\ migration[w] = RenameTheme /\ NextPlace(w) \in Scope
    BY <1>4, NextPlaceLeft DEF ClearTheme
  <2>2. legacyTheme[Global] = None => legacyTheme'[Global] = None
    BY <1>4, <2>1 DEF ClearTheme, Scope
  <2>3. Global \notin left'[w] => legacyTheme'[Global] = None
    BY <1>4, <2>1, <2>2 DEF ClearTheme, Scope
  <2> QED BY <1>4, <2>1, <2>2, <2>3 DEF ClearTheme
<1>5. ASSUME NEW w \in Window, Replace(w) PROVE VersionSound'
  <2>1. step[w] = "scopes" /\ migration[w] = ReplaceCodex /\ NextPlace(w) \in Scope
    BY <1>5, NextPlaceLeft DEF Replace
  <2>2. provider[Global] # "codex" => provider'[Global] # "codex"
    BY <1>5, <2>1 DEF Replace, Scope
  <2>3. Global \notin left'[w] => provider'[Global] # "codex"
    BY <1>5, <2>1, <2>2 DEF Replace, Scope
  <2> QED BY <1>5, <2>1, <2>2, <2>3 DEF Replace
<1>6. ASSUME NEW w \in Window, StoreVersion(w) PROVE VersionSound'
  BY <1>6 DEF StoreVersion
<1>7. ASSUME NEW w \in Window, MigrationFails(w) \/ MigrationsDone(w) \/ SecretFails(w)
      PROVE  VersionSound'
  BY <1>7 DEF MigrationFails, MigrationsDone, SecretFails
<1>8. ASSUME NEW w \in Window,
             ReadKey(w) \/ StoreKey(w) \/ KeyDone(w) \/ AskSecret(w) \/ ClearKey(w)
      PROVE  VersionSound'
  BY <1>8 DEF ReadKey, StoreKey, KeyDone, AskSecret, ClearKey
<1>9. ASSUME NEW w \in Window, CloseWindow(w) PROVE VersionSound'
  BY <1>9 DEF CloseWindow
<1>10. CASE UNCHANGED migrationsVars
  BY <1>10 DEF migrationsVars
<1> QED
  BY <1>1, <1>2, <1>3, <1>4, <1>5, <1>6, <1>7, <1>8, <1>9, <1>10 DEF MigrationsNext

\* The stored number never runs ahead of the user's settings: no window stores
\* a migration that did not change them, and none sets an old value again.
THEOREM GlobalMigratedAlways == MigrationsSpec => []GlobalMigrated
<1>1. MigrationsInit => TypeInv /\ VersionSound
  BY TypeInit, VersionInit
<1>2. TypeInv /\ VersionSound /\ [MigrationsNext]_migrationsVars => (TypeInv /\ VersionSound)'
  BY TypeNext, VersionNext
<1>3. VersionSound => GlobalMigrated
  BY DEF VersionSound
<1> QED BY <1>1, <1>2, <1>3, PTL DEF MigrationsSpec
-----------------------------------------------------------------------------
\* A window that asks SecretStorage has read a key, and one that clears the
\* plaintext has seen or stored a key there.
KeyInv ==
  /\ KeyKept
  /\ \A w \in Window :
       /\ step[w] \in {"secret", "storeKey"} => sawKey[w] # None
       /\ step[w] = "clearKey" => secret # None

LEMMA KeyInit == MigrationsInit => KeyInv
BY DEF MigrationsInit, KeyInv, KeyKept

LEMMA KeyNext ==
  ASSUME TypeInv, KeyInv, [MigrationsNext]_migrationsVars
  PROVE  KeyInv'
<1> USE DEF TypeInv, KeysType, WindowType, KeyInv, KeyKept, settings, keys, firsts, Goes
<1>1. ASSUME NEW w \in Window,
             \/ Activate(w) \/ Apply(w) \/ CopyTheme(w) \/ ClearTheme(w) \/ Replace(w)
             \/ StoreVersion(w) \/ MigrationFails(w) \/ MigrationsDone(w)
             \/ KeyDone(w) \/ CloseWindow(w) \/ SecretFails(w)
      PROVE  KeyInv'
  <2>1. /\ UNCHANGED <<plainKey, secret, sawKey, firstKey>>
        /\ \A v \in Window : step'[v] \in {"secret", "storeKey", "clearKey"} => step'[v] = step[v]
    BY <1>1
    DEF Activate, Apply, CopyTheme, ClearTheme, Replace, StoreVersion, MigrationFails,
        MigrationsDone, KeyDone, CloseWindow, SecretFails
  <2> QED BY <2>1
<1>2. ASSUME NEW w \in Window, ReadKey(w) PROVE KeyInv'
  BY <1>2 DEF ReadKey
<1>3. ASSUME NEW w \in Window, AskSecret(w) PROVE KeyInv'
  BY <1>3 DEF AskSecret
<1>4. ASSUME NEW w \in Window, StoreKey(w) PROVE KeyInv'
  BY <1>4 DEF StoreKey
<1>5. ASSUME NEW w \in Window, ClearKey(w) PROVE KeyInv'
  BY <1>5 DEF ClearKey
<1>6. CASE UNCHANGED migrationsVars
  BY <1>6 DEF migrationsVars
<1> QED BY <1>1, <1>2, <1>3, <1>4, <1>5, <1>6 DEF MigrationsNext

\* Plaintext keys are cleared only once SecretStorage has one, whichever window
\* stored it and wherever another window was stopped.
THEOREM KeyKeptAlways == MigrationsSpec => []KeyKept
<1>1. MigrationsInit => TypeInv /\ KeyInv
  BY TypeInit, KeyInit
<1>2. TypeInv /\ KeyInv /\ [MigrationsNext]_migrationsVars => (TypeInv /\ KeyInv)'
  BY TypeNext, KeyNext
<1>3. KeyInv => KeyKept
  BY DEF KeyInv
<1> QED BY <1>1, <1>2, <1>3, PTL DEF MigrationsSpec

-----------------------------------------------------------------------------
(* The workspace context.                                                     *)

LEMMA NoProjectIsNone == NoProject \notin Project
BY DEF NoProject, Project

\* A set of projects that is not empty has a first one.
LEMMA FirstProject ==
  ASSUME NEW projects \in SUBSET Project, projects # {}
  PROVE  (CHOOSE p \in projects : \A q \in projects : p <= q) \in projects
<1>1. projects \in SUBSET Nat
  BY WorkspaceAssumption DEF Project
<1> DEFINE Before == {ss \in Nat \X Nat : ss[1] < ss[2]}
<1>2. IsWellFoundedOn(Before, Nat)
  BY NatLessThanWellFounded DEF OpToRel
<1>3. PICK p \in projects : \A q \in projects : <<q, p>> \notin Before
  <2> HIDE DEF Before
  <2> QED BY <1>1, <1>2, WFMin
<1>4. \A q \in projects : p <= q
  <2> SUFFICES ASSUME NEW q \in projects PROVE p <= q
    OBVIOUS
  <2>1. ~(q < p)
    BY <1>1, <1>3
  <2> QED BY <1>1, <2>1
<1> QED BY <1>4

\* What is picked is one of the projects, if there is any: the active one first,
\* then the persisted one.
LEMMA PickType ==
  ASSUME NEW projects \in SUBSET Project, NEW previous, NEW ofEditor
  PROVE  /\ PickActiveProject(projects, previous, ofEditor) \in Project \cup {NoProject}
         /\ previous \in projects => PickActiveProject(projects, previous, ofEditor) = previous
         /\ previous \notin projects /\ persisted \in projects
              => PickActiveProject(projects, previous, ofEditor) = persisted
<1>1. CASE previous \in projects
  BY <1>1 DEF PickActiveProject
<1>2. CASE previous \notin projects /\ persisted \in projects
  BY <1>2 DEF PickActiveProject
<1>3. CASE {previous, persisted} \cap projects = {} /\ ofEditor \in projects
  BY <1>3 DEF PickActiveProject
<1>4. CASE previous \notin projects /\ persisted \notin projects /\ ofEditor \notin projects
  <2>1. PickActiveProject(projects, previous, ofEditor) =
          IF projects = {} THEN NoProject
          ELSE CHOOSE p \in projects : \A q \in projects : p <= q
    BY <1>4 DEF PickActiveProject
  <2> QED BY <1>4, <2>1, FirstProject
<1> QED BY <1>1, <1>2, <1>3, <1>4
-----------------------------------------------------------------------------
ProjectsType ==
  /\ onDisk \subseteq Project /\ found \subseteq Project /\ known \subseteq Project
  /\ known \subseteq seen /\ seen \subseteq Project
  /\ {editor, sawEditor, active, persisted, selecting, snapshot, shownEditor,
      bar, chosen} \subseteq Project \cup {NoProject}
  /\ moves \in 0 .. MaxMoves

ProbeType ==
  /\ {capability, answer, shownAnswer} \subseteq Answer
  /\ probe \in Answer \cup {"unknown"}
  /\ stage \in {"idle", "discovering", "detecting", "probing", "ready", "publishing"}

TimerType == {projectTimer, contextTimer, queued, lost} \subseteq BOOLEAN

QueuedBehind == queued = TRUE => stage # "idle"

ContextType == ProjectsType /\ ProbeType /\ TimerType /\ QueuedBehind

LEMMA ContextInit == WorkspaceInit => ContextType
<1> SUFFICES ASSUME WorkspaceInit PROVE ContextType
  OBVIOUS
<1> USE DEF WorkspaceInit
<1>1. ProjectsType
  BY WorkspaceAssumption DEF ProjectsType
<1>2. ProbeType
  BY DEF ProbeType, Answer
<1>3. TimerType
  BY DEF TimerType
<1>4. QueuedBehind
  BY DEF QueuedBehind
<1> QED BY <1>1, <1>2, <1>3, <1>4 DEF ContextType

LEMMA ProjectsNext ==
  ASSUME ProjectsType, [WorkspaceNext]_workspaceVars
  PROVE  ProjectsType'
<1> USE DEF ProjectsType, disk, timers, reading, store, shownState
<1>1. ASSUME Refresh, UNCHANGED editor PROVE sawEditor' \in {sawEditor, editor}
  BY <1>1 DEF Refresh, Begin
<1>2. ASSUME End, UNCHANGED editor PROVE sawEditor' \in {sawEditor, editor}
  BY <1>2 DEF End, Begin
<1>3. CASE ProjectTimer \/ ContextTimer
  <2>1. CASE ProjectTimer BY <1>1, <2>1 DEF ProjectTimer
  <2>2. CASE ContextTimer BY <1>1, <2>2 DEF ContextTimer
  <2> QED BY <1>3, <2>1, <2>2
<1>4. CASE RefreshCommand
  BY <1>1, <1>4, WorkspaceAssumption DEF RefreshCommand, Move
<1>5. CASE Discovered \/ AskProbe \/ ProbeAnswered
  BY <1>5 DEF Discovered, AskProbe, ProbeAnswered
<1>6. CASE Publish
  <2>1. active' \in Project \cup {NoProject}
    BY <1>6, PickType DEF Publish
  <2>2. /\ UNCHANGED <<onDisk, found, editor, sawEditor, persisted, selecting,
                       shownEditor, bar, moves>>
        /\ known' = found /\ seen' = seen \cup found /\ snapshot' = active'
        /\ chosen' \in {chosen, NoProject}
    BY <1>6 DEF Publish
  <2> QED BY <2>1, <2>2
<1>7. CASE Published \/ RefreshFails
  BY <1>2, <1>7 DEF Published, RefreshFails
<1>8. ASSUME NEW p \in Project, Select(p) PROVE ProjectsType'
  BY <1>8, WorkspaceAssumption DEF Select, Move
<1>9. CASE Selected
  BY <1>9 DEF Selected
<1>10. ASSUME NEW p \in Project, ProjectCreatedOrDeleted(p) PROVE ProjectsType'
  BY <1>10, WorkspaceAssumption DEF ProjectCreatedOrDeleted, Move
<1>11. ASSUME NEW p \in Project \cup {NoProject}, SwitchEditor(p) PROVE ProjectsType'
  BY <1>11, WorkspaceAssumption DEF SwitchEditor, Move
<1>12. CASE ChangeCli
  BY <1>12, WorkspaceAssumption DEF ChangeCli, Move
<1>13. CASE UNCHANGED workspaceVars
  BY <1>13 DEF workspaceVars
<1> QED
  BY <1>3, <1>4, <1>5, <1>6, <1>7, <1>8, <1>9, <1>10, <1>11, <1>12, <1>13
  DEF WorkspaceNext, RefreshStep

LEMMA ProbeNext ==
  ASSUME ProbeType, [WorkspaceNext]_workspaceVars
  PROVE  ProbeType'
<1> USE DEF ProbeType, disk, timers, reading, store, shownState
<1>1. ASSUME Refresh PROVE stage' \in {stage, "discovering"}
  BY <1>1 DEF Refresh, Begin
<1>2. ASSUME End PROVE stage' \in {"idle", "discovering"}
  BY <1>2 DEF End, Begin
<1>3. CASE ProjectTimer \/ ContextTimer \/ RefreshCommand
  BY <1>1, <1>3 DEF ProjectTimer, ContextTimer, RefreshCommand
<1>4. CASE Discovered \/ AskProbe \/ ProbeAnswered
  BY <1>4 DEF Discovered, AskProbe, ProbeAnswered, Answer
<1>5. CASE Publish \/ Selected \/ UNCHANGED workspaceVars
  BY <1>5 DEF Publish, Selected, workspaceVars
<1>6. CASE Published \/ RefreshFails
  BY <1>2, <1>6 DEF Published, RefreshFails
<1>7. CASE ChangeCli
  <2>1. \E a \in Answer : a # capability
    BY DEF Answer
  <2>2. (CHOOSE a \in Answer : a # capability) \in Answer
    BY <2>1
  <2> QED BY <1>7, <2>2 DEF ChangeCli
<1>8. ASSUME NEW p, Select(p) \/ ProjectCreatedOrDeleted(p) \/ SwitchEditor(p)
      PROVE  ProbeType'
  BY <1>8 DEF Select, ProjectCreatedOrDeleted, SwitchEditor
<1> QED BY <1>3, <1>4, <1>5, <1>6, <1>7, <1>8 DEF WorkspaceNext, RefreshStep

\* What a step makes of the timers and of the refresh that waits.
LEMMA QueueNext ==
  ASSUME TimerType, QueuedBehind, [WorkspaceNext]_workspaceVars
  PROVE  TimerType' /\ QueuedBehind'
<1> USE DEF TimerType, QueuedBehind, disk, timers, reading, store, shownState
<1>1. ASSUME Refresh
      PROVE  queued' \in BOOLEAN /\ (queued' = TRUE => stage' # "idle")
  BY <1>1 DEF Refresh, Begin
<1>2. ASSUME End
      PROVE  queued' = FALSE
  BY <1>2 DEF End
<1>3. CASE ProjectTimer \/ ContextTimer \/ RefreshCommand
  BY <1>1, <1>3 DEF ProjectTimer, ContextTimer, RefreshCommand
<1>4. CASE Discovered \/ AskProbe \/ ProbeAnswered \/ Publish
  BY <1>4 DEF Discovered, AskProbe, ProbeAnswered, Publish
<1>5. CASE Published \/ RefreshFails
  BY <1>2, <1>5 DEF Published, RefreshFails
<1>6. CASE Selected \/ ChangeCli \/ UNCHANGED workspaceVars
  BY <1>6 DEF Selected, ChangeCli, workspaceVars
<1>7. ASSUME NEW p, Select(p) \/ ProjectCreatedOrDeleted(p) \/ SwitchEditor(p)
      PROVE  TimerType' /\ QueuedBehind'
  BY <1>7 DEF Select, ProjectCreatedOrDeleted, SwitchEditor
<1> QED BY <1>3, <1>4, <1>5, <1>6, <1>7 DEF WorkspaceNext, RefreshStep

LEMMA ContextNext ==
  ASSUME ContextType, [WorkspaceNext]_workspaceVars
  PROVE  ContextType'
BY ProjectsNext, ProbeNext, QueueNext DEF ContextType

\* Every reachable state has its types, and a refresh is queued only behind one
\* in flight, whether that one ends well or fails.
THEOREM WorkspaceTypeCorrect == WorkspaceSpec => []WorkspaceTypeOK
<1>1. WorkspaceInit => ContextType
  BY ContextInit
<1>2. ContextType /\ [WorkspaceNext]_workspaceVars => ContextType'
  BY ContextNext
<1>3. ContextType => WorkspaceTypeOK
  BY DEF ContextType, ProjectsType, ProbeType, TimerType, QueuedBehind, WorkspaceTypeOK
<1> QED BY <1>1, <1>2, <1>3, PTL DEF WorkspaceSpec
-----------------------------------------------------------------------------
\* The user's selection is the active project, or it is one of the last window
\* that no discovery has looked for yet.
SelectionHeld ==
  chosen # NoProject =>
    \/ active = chosen
    \/ active = NoProject /\ seen = {} /\ persisted = chosen

LEMMA SelectionNext ==
  ASSUME ContextType, SelectionHeld, [WorkspaceNext]_workspaceVars
  PROVE  SelectionHeld'
<1> USE DEF SelectionHeld, disk, timers, reading, store, shownState
<1>1. CASE Publish
  <2>1. CASE chosen \in found /\ active = chosen
    BY <1>1, <2>1, PickType DEF Publish, ContextType, ProjectsType
  <2>2. CASE chosen \in found /\ active = NoProject /\ persisted = chosen
    <3>1. active \notin found
      BY <2>2, NoProjectIsNone DEF ContextType, ProjectsType
    <3> QED BY <1>1, <2>2, <3>1, PickType DEF Publish, ContextType, ProjectsType
  <2>3. CASE chosen \notin found
    BY <1>1, <2>3 DEF Publish
  <2>4. CASE chosen = NoProject
    BY <1>1, <2>4 DEF Publish
  <2> QED BY <2>1, <2>2, <2>3, <2>4
<1>2. ASSUME NEW p \in Project, Select(p) PROVE SelectionHeld'
  BY <1>2 DEF Select
<1>3. CASE Selected
  BY <1>3 DEF Selected
<1>4. CASE ProjectTimer \/ ContextTimer \/ RefreshCommand \/ Discovered \/ AskProbe
           \/ ProbeAnswered \/ Published \/ RefreshFails \/ ChangeCli
  BY <1>4 DEF ProjectTimer, ContextTimer, RefreshCommand, Discovered, AskProbe,
              ProbeAnswered, Published, RefreshFails, ChangeCli
<1>5. ASSUME NEW p, ProjectCreatedOrDeleted(p) \/ SwitchEditor(p) PROVE SelectionHeld'
  BY <1>5 DEF ProjectCreatedOrDeleted, SwitchEditor
<1>6. CASE UNCHANGED workspaceVars
  BY <1>6 DEF workspaceVars
<1> QED BY <1>1, <1>2, <1>3, <1>4, <1>5, <1>6 DEF WorkspaceNext, RefreshStep

\* A selection stays active, whatever a refresh under way had read before it,
\* until a discovery does not find the project.
THEOREM SelectionSticksAlways == WorkspaceSpec => []SelectionSticks
<1>1. WorkspaceInit => ContextType /\ SelectionHeld
  BY ContextInit DEF WorkspaceInit, SelectionHeld
<1>2. ContextType /\ SelectionHeld /\ [WorkspaceNext]_workspaceVars => (ContextType /\ SelectionHeld)'
  BY ContextNext, SelectionNext
<1>3. ContextType /\ SelectionHeld => SelectionSticks
  BY DEF ContextType, ProjectsType, SelectionHeld, SelectionSticks
<1> QED BY <1>1, <1>2, <1>3, PTL DEF WorkspaceSpec
-----------------------------------------------------------------------------
\* An event is not lost: what it changed was read since, or a refresh is to come.
DisksSeen ==
  \/ projectTimer = TRUE \/ queued = TRUE \/ stage = "discovering"
  \/ stage \in {"detecting", "probing", "ready"} /\ found = onDisk
  \/ stage = "publishing" /\ known = onDisk
  \/ stage = "idle" /\ (lost = TRUE \/ known = onDisk)

EditorSeen ==
  \/ contextTimer = TRUE \/ queued = TRUE
  \/ stage # "idle" /\ sawEditor = editor
  \/ stage = "idle" /\ (lost = TRUE \/ shownEditor = editor)

LEMMA DisksSeenNext ==
  ASSUME ContextType, DisksSeen, [WorkspaceNext]_workspaceVars
  PROVE  DisksSeen'
<1> USE DEF DisksSeen, disk, timers, reading, store, shownState
<1>1. CASE ProjectTimer \/ ContextTimer \/ RefreshCommand
  BY <1>1 DEF ProjectTimer, ContextTimer, RefreshCommand, Refresh, Begin
<1>2. CASE Discovered \/ AskProbe \/ ProbeAnswered \/ Publish
  BY <1>2 DEF Discovered, AskProbe, ProbeAnswered, Publish
<1>3. CASE Published
  BY <1>3 DEF Published, End, Begin
<1>4. CASE RefreshFails
  BY <1>4 DEF RefreshFails, End, Begin
<1>5. CASE Selected \/ ChangeCli \/ UNCHANGED workspaceVars
  BY <1>5 DEF Selected, ChangeCli, workspaceVars
<1>6. ASSUME NEW p, Select(p) \/ ProjectCreatedOrDeleted(p) \/ SwitchEditor(p)
      PROVE  DisksSeen'
  BY <1>6 DEF Select, ProjectCreatedOrDeleted, SwitchEditor
<1> QED BY <1>1, <1>2, <1>3, <1>4, <1>5, <1>6 DEF WorkspaceNext, RefreshStep

LEMMA EditorSeenNext ==
  ASSUME ContextType, EditorSeen, [WorkspaceNext]_workspaceVars
  PROVE  EditorSeen'
<1> USE DEF EditorSeen, disk, timers, reading, store, shownState
<1>1. CASE ProjectTimer \/ ContextTimer \/ RefreshCommand
  BY <1>1 DEF ProjectTimer, ContextTimer, RefreshCommand, Refresh, Begin
<1>2. CASE Discovered \/ AskProbe \/ ProbeAnswered \/ Publish
  BY <1>2 DEF Discovered, AskProbe, ProbeAnswered, Publish
<1>3. CASE Published
  BY <1>3 DEF Published, End, Begin
<1>4. CASE RefreshFails
  BY <1>4 DEF RefreshFails, End, Begin
<1>5. CASE Selected \/ ChangeCli \/ UNCHANGED workspaceVars
  BY <1>5 DEF Selected, ChangeCli, workspaceVars
<1>6. ASSUME NEW p, Select(p) \/ ProjectCreatedOrDeleted(p) \/ SwitchEditor(p)
      PROVE  EditorSeen'
  BY <1>6 DEF Select, ProjectCreatedOrDeleted, SwitchEditor
<1> QED BY <1>1, <1>2, <1>3, <1>4, <1>5, <1>6 DEF WorkspaceNext, RefreshStep

\* At rest the projects and the editor shown are those there are, unless the
\* last refresh failed: no event falls between the overlap guard, the queue and
\* the two debounces.
THEOREM ShowsWorkspaceAlways == WorkspaceSpec => []ShowsWorkspace
<1>1. WorkspaceInit => ContextType /\ DisksSeen /\ EditorSeen
  BY ContextInit DEF WorkspaceInit, DisksSeen, EditorSeen
<1>2. ContextType /\ DisksSeen /\ EditorSeen /\ [WorkspaceNext]_workspaceVars
        => (ContextType /\ DisksSeen /\ EditorSeen)'
  BY ContextNext, DisksSeenNext, EditorSeenNext
<1>3. ContextType /\ DisksSeen /\ EditorSeen => ShowsWorkspace
  BY DEF ContextType, TimerType, QueuedBehind, DisksSeen, EditorSeen, ShowsWorkspace, AtRest
<1> QED BY <1>1, <1>2, <1>3, PTL DEF WorkspaceSpec
=============================================================================
