----------------------------- MODULE MCServices -----------------------------
(* Instances for TLC of four services of the extension that share no state:   *)
(* the migrations of activation, the discovery of projects, the package       *)
(* manager and the component search, whose cache and whose view are explored  *)
(* apart.  One of them moves in a behaviour while the others stay as they are. *)
EXTENDS Migrations, WorkspaceContext, PcmInstall, ComponentSearch

CONSTANTS
  Part,             \* the services that may move
  w1, w2, s1, s2,   \* two windows, each with its own workspace
  t1, t2,           \* two themes
  a, b,             \* two packages
  q1                \* a query

VARIABLE part

Homes == [w \in Window |-> IF w = w1 THEN s1 ELSE s2]

Unset(values) == \A s \in Scope : values[s] = None

\* Users with old settings of one kind each; themes and keys are those of the
\* user and of one workspace, and where both names of the theme are set they
\* differ.
OneOldSetting ==
  /\ \/ Unset(provider) /\ Unset(plainKey)
     \/ Unset(legacyTheme) /\ Unset(theme) /\ Unset(plainKey)
     \/ Unset(legacyTheme) /\ Unset(theme) /\ Unset(provider)
  /\ {legacyTheme[s2], theme[s2], plainKey[s2]} = {None}
  /\ \A s \in Scope : legacyTheme[s] # t2 /\ theme[s] # t1

MCInit ==
  /\ part \in Part
  /\ MigrationsInit /\ OneOldSetting
  /\ part # "migrations" => Unset(provider) /\ Unset(plainKey) /\ Unset(legacyTheme)
                            /\ Unset(theme)
  /\ WorkspaceInit
  /\ capability = "yes" /\ editor = NoProject /\ persisted # 1
  /\ part # "workspace" => onDisk = {} /\ persisted = NoProject
  /\ PcmInit
  /\ part # "packages" => ~cliInstalls
  /\ SearchInit

\* Only package a gets a second version and is updated, and where kicad-cli
\* installs none does and no window restarts; only b is one KiCad installs too.
\* The cache is explored with commands, the view with its own searches.
MCNext ==
  \/ /\ part = "migrations" /\ MigrationsNext
     /\ UNCHANGED <<part, workspaceVars, pcmVars, searchVars>>
  \/ /\ part = "workspace" /\ WorkspaceNext
     /\ UNCHANGED <<part, migrationsVars, pcmVars, searchVars>>
  \/ /\ part = "packages" /\ PcmNext
     /\ published'[b] = 1 /\ byKiCad'[a] = 0
     /\ cliInstalls => published'[a] = 1 /\ restarts' = 0
     /\ \A o \in Op : ~(kind'[o] = "update" /\ package'[o] = b)
     /\ UNCHANGED <<part, migrationsVars, workspaceVars, searchVars>>
  \/ /\ part = "cache" /\ SearchNext
     /\ inline' = {} /\ viewOpen'
     /\ UNCHANGED <<part, migrationsVars, workspaceVars, pcmVars>>
  \/ /\ part = "view" /\ SearchNext
     /\ \A s \in Search :
          /\ query'[s] \in {q1, NoQuery}
          /\ searchStep[s] = "idle" /\ searchStep'[s] # "idle" => s \in inline'
     /\ UNCHANGED <<part, migrationsVars, workspaceVars, pcmVars>>

MCSpec ==
  /\ MCInit
  /\ [][MCNext]_<<part, migrationsVars, workspaceVars, pcmVars, searchVars>>
  /\ WorkspaceFairness
=============================================================================
