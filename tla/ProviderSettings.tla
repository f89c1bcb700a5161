-------------------------- MODULE ProviderSettings --------------------------
(***************************************************************************)
(* The stored settings and the dialog that changes them. One row holds the *)
(* provider routes of the generation profiles and the Assistant's          *)
(* connection under one revision; the key of the connection is a row of    *)
(* its own.  A command compares the revision its caller has seen and       *)
(* writes in one transaction.  A connection is tested before that, outside *)
(* the process, with a key that may have been read before the test.        *)
(***************************************************************************)
EXTENDS Naturals, Sequences, SequencesExt

CONSTANTS
  Urls, Models, Keys,   \* what the user may enter and the provider list
  MaxMounts,            \* bound: how often a section of the dialog is mounted
  MaxCommands           \* bound: commands that change the settings

VARIABLES
  config,      \* the stored configuration: none before the first start, or one
  credential,  \* the stored key of the Assistant, or NoKey
  host,        \* "Down", "Up", or "Refused": a startup that failed
  pending,     \* the commands under way
  dialog,      \* SettingsDialog
  panel,       \* AssistantProviderSettingsPanel
  mounts,      \* how many sections were mounted
  commands,    \* how many commands were sent
  tested,      \* history: the connections that passed the test
  launched     \* the connection a sidecar was last launched with, if any

stored == <<config, credential>>
screen == <<dialog, panel, mounts, commands>>
settingsVars == <<stored, host, pending, screen, tested, launched>>

NoKey == "no key"
NoModel == "no model"
NoView == [revision |-> 0]

----------------------------------------------------------------------------
(* The configuration.  A profile stands for its only route: the contracts  *)
(* offer no other and reading admits no other.                             *)

Routes == <<"image", "speech", "video">>
Default == [revision |-> 1, routes |-> Routes, enabled |-> FALSE, url |-> "default",
            model |-> NoModel]

Rank(profile) == CHOOSE i \in DOMAIN Routes : Routes[i] = profile

\* Reading refuses routes that are not strictly in the order of their profiles.
Decodes(row) ==
  \A i, j \in DOMAIN row.routes : i < j => Rank(row.routes[i]) < Rank(row.routes[j])
\* The Assistant's view asks for more.
Restores(row, key) == Decodes(row) /\ (row.enabled => row.model # NoModel /\ key # NoKey)

RoutesView(row) == [revision |-> row.revision, bound |-> ToSet(row.routes)]
AssistantView(row, key) ==
  [revision |-> row.revision, enabled |-> row.enabled, url |-> row.url, model |-> row.model,
   hasKey |-> key # NoKey]
Connection(row, key) == [url |-> row.url, model |-> row.model, key |-> key]

\* A binding that was not there goes to the end.
MutatedRoutes(routes, action) ==
  IF action.remove THEN SelectSeq(routes, LAMBDA p : p # action.profile)
  ELSE IF Contains(routes, action.profile) THEN routes ELSE Append(routes, action.profile)

\* A tested connection replaces the one there is; disabling keeps it.
MutatedConnection(row, c) ==
  IF c.op = "disable" THEN [row EXCEPT !.revision = @ + 1, !.enabled = FALSE]
  ELSE [row EXCEPT !.revision = @ + 1, !.enabled = TRUE, !.url = c.arg.url, !.model = c.arg.model]

----------------------------------------------------------------------------
(* Commands: [op, by, arg, stage, key, answer], by whom it is awaited.     *)

Command(op, by, arg) ==
  [op |-> op, by |-> by, arg |-> arg, stage |-> "asked", key |-> NoKey, answer |-> [is |-> "none"]]
\* The command c at a later stage of its own.
Advanced(c, stage, key, answer) ==
  [op |-> c.op, by |-> c.by, arg |-> c.arg, stage |-> stage, key |-> key, answer |-> answer]
Becomes(c, next) == pending' = (pending \ {c}) \cup {next}
Answer(c, answer) == Becomes(c, Advanced(c, "answered", c.key, answer))
Refuse(c, why) == Answer(c, [is |-> why]) /\ UNCHANGED stored
Ok(view) == [is |-> "ok", view |-> view]

\* generation_provider_settings_get and assistant_provider_settings_get.
LoadSettings(c) ==
  /\ c.stage = "asked" /\ c.op \in {"routes", "assistant"}
  /\ LET row == config[1] IN
     \/ c.op = "routes" /\ Decodes(row) /\ Answer(c, Ok(RoutesView(row)))
     \/ /\ c.op = "assistant" /\ Restores(row, credential)
        /\ Answer(c, Ok(AssistantView(row, credential)))
     \/ ~Decodes(row) /\ Answer(c, [is |-> "storage"])
  /\ UNCHANGED <<stored, tested>>

\* generation_provider_settings_apply: nothing to change is no new revision.
ApplyRoute(c) ==
  /\ c.stage = "asked" /\ c.op = "bind"
  /\ LET row == config[1]
         next == [row EXCEPT !.revision = @ + 1, !.routes = MutatedRoutes(@, c.arg)] IN
     \/ ~Decodes(row) /\ Refuse(c, "storage")
     \/ Decodes(row) /\ row.revision # c.arg.expected /\ Refuse(c, "conflict")
     \/ /\ Decodes(row) /\ row.revision = c.arg.expected /\ next.routes = row.routes
        /\ Answer(c, Ok(RoutesView(row))) /\ UNCHANGED stored
     \/ /\ Decodes(row) /\ row.revision = c.arg.expected /\ next.routes # row.routes
        /\ config' = <<next>> /\ Answer(c, Ok(RoutesView(next))) /\ UNCHANGED credential
  /\ UNCHANGED tested

\* A candidate without a key of its own is tried with the stored one.
ResolveKey(c) ==
  /\ c.stage = "asked" /\ c.op \in {"list", "test"}
  /\ LET key == IF c.arg.key = NoKey THEN credential ELSE c.arg.key IN
     \/ key = NoKey /\ Answer(c, [is |-> "missing"])
     \/ key # NoKey /\ Becomes(c, Advanced(c, "probed", key, c.answer))
  /\ UNCHANGED <<stored, tested>>

\* The provider answers, or it does not.
Probe(c) ==
  /\ c.stage = "probed"
  /\ \/ Answer(c, [is |-> "provider"]) /\ UNCHANGED tested
     \/ c.op = "list" /\ Answer(c, [is |-> "ok", models |-> Models]) /\ UNCHANGED tested
     \/ /\ c.op = "test" /\ Becomes(c, Advanced(c, "tested", c.key, c.answer))
        /\ tested' = tested \cup {Connection(c.arg, c.key)}
  /\ UNCHANGED stored

\* assistant_provider_settings_test_and_apply after its test, and _disable.
ApplyConnection(c) ==
  /\ \/ c.op = "test" /\ c.stage = "tested"
     \/ c.op = "disable" /\ c.stage = "asked"
  /\ LET row == config[1]
         next == MutatedConnection(row, c)
         key == IF c.op = "test" /\ c.arg.key # NoKey THEN c.arg.key ELSE credential IN
     \/ ~Restores(row, credential) /\ Refuse(c, "storage")
     \/ /\ Restores(row, credential) /\ row.revision # c.arg.expected
        /\ Refuse(c, "conflict")
     \/ /\ Restores(row, credential) /\ row.revision = c.arg.expected
        /\ config' = <<next>> /\ credential' = key
        /\ Answer(c, Ok(AssistantView(next, key)))
  /\ UNCHANGED tested

Backend ==
  /\ host = "Up"
  /\ \E c \in pending : LoadSettings(c) \/ ApplyRoute(c) \/ ResolveKey(c) \/ Probe(c)
                        \/ ApplyConnection(c)
  /\ UNCHANGED <<host, screen, launched>>

\* A sidecar is launched with what is stored when it is.
Launch ==
  /\ host = "Up" /\ config[1].enabled /\ Restores(config[1], credential)
  /\ launched' = <<Connection(config[1], credential)>>
  /\ UNCHANGED <<stored, host, pending, screen, tested>>

----------------------------------------------------------------------------
(* The dialog.                                                             *)

Closed == [section |-> "closed", mount |-> 0, view |-> NoView, busy |-> FALSE]
NoPanel == [mount |-> 0, view |-> NoView, url |-> "default", key |-> NoKey, list |-> {},
            model |-> NoModel, busy |-> TRUE]

Sent(c) == pending' = pending \cup {c}
Replaced(old, c) == pending' = (pending \ {old}) \cup {c}
Show(section, mount) ==
  panel' = IF section = "assistant" THEN [NoPanel EXCEPT !.mount = mount] ELSE NoPanel
Gets(section, mount) ==
  IF section = "assistant" THEN {Command("assistant", mount, NoView)} ELSE {}

\* What was fetched for an earlier opening is dropped when it comes.
Open(section) ==
  /\ dialog.section = "closed" /\ mounts < MaxMounts
  /\ mounts' = mounts + 1
  /\ dialog' = [dialog EXCEPT !.section = section, !.mount = mounts', !.busy = TRUE]
  /\ Show(section, mounts')
  /\ pending' = pending \cup {Command("routes", mounts', [reload |-> FALSE])} \cup Gets(section, mounts')
  /\ UNCHANGED commands
Select(section) ==
  /\ dialog.section \notin {"closed", section} /\ mounts < MaxMounts
  /\ mounts' = mounts + 1
  /\ dialog' = [dialog EXCEPT !.section = section]
  /\ Show(section, mounts')
  /\ pending' = pending \cup Gets(section, mounts')
  /\ UNCHANGED commands
Close ==
  /\ dialog.section # "closed"
  /\ dialog' = [dialog EXCEPT !.section = "closed", !.mount = 0]
  /\ panel' = NoPanel
  /\ UNCHANGED <<pending, mounts, commands>>

\* The switch of a profile.
Toggle(profile) ==
  /\ dialog.section = "models" /\ ~dialog.busy /\ dialog.view # NoView
  /\ commands < MaxCommands /\ commands' = commands + 1
  /\ dialog' = [dialog EXCEPT !.busy = TRUE]
  /\ Sent(Command("bind", 0, [expected |-> dialog.view.revision, profile |-> profile,
                              remove |-> profile \in dialog.view.bound]))
  /\ UNCHANGED <<panel, mounts>>

EditForm ==
  /\ panel.mount # 0 /\ ~panel.busy
  /\ \/ \E u \in Urls \ {panel.url} : panel' = [panel EXCEPT !.url = u, !.list = {}, !.model = NoModel]
     \/ \E k \in (Keys \cup {NoKey}) \ {panel.key} :
          panel' = [panel EXCEPT !.key = k, !.list = {}, !.model = NoModel]
     \/ \E m \in panel.list \ {panel.model} : panel' = [panel EXCEPT !.model = m]
  /\ UNCHANGED <<pending, dialog, mounts, commands>>
LoadModels ==
  /\ panel.mount # 0 /\ ~panel.busy
  /\ panel.key # NoKey \/ (panel.view # NoView /\ panel.view.hasKey)
  /\ panel' = [panel EXCEPT !.busy = TRUE]
  /\ Sent(Command("list", panel.mount, [url |-> panel.url, key |-> panel.key]))
  /\ UNCHANGED <<dialog, mounts, commands>>
TestAndSave ==
  /\ panel.mount # 0 /\ ~panel.busy /\ panel.view # NoView /\ panel.model \in panel.list
  /\ commands < MaxCommands /\ commands' = commands + 1
  /\ panel' = [panel EXCEPT !.busy = TRUE]
  /\ Sent(Command("test", panel.mount, [expected |-> panel.view.revision, url |-> panel.url,
                                        key |-> panel.key, model |-> panel.model]))
  /\ UNCHANGED <<dialog, mounts>>
Disable ==
  /\ panel.mount # 0 /\ ~panel.busy /\ panel.view # NoView /\ panel.view.enabled
  /\ commands < MaxCommands /\ commands' = commands + 1
  /\ panel' = [panel EXCEPT !.busy = TRUE]
  /\ Sent(Command("disable", panel.mount, [expected |-> panel.view.revision]))
  /\ UNCHANGED <<dialog, mounts>>

\* The dialog takes the answer to a change whatever is shown by then.
AnswerDialog(c) ==
  /\ c.stage = "answered" /\ c.op \in {"routes", "bind"}
  /\ LET answer == c.answer IN
     \/ /\ c.op = "routes" /\ ~c.arg.reload /\ c.by # dialog.mount
        /\ UNCHANGED dialog /\ pending' = pending \ {c}
     \/ /\ c.op = "bind" /\ answer.is = "conflict"
        /\ UNCHANGED dialog /\ Replaced(c, Command("routes", 0, [reload |-> TRUE]))
     \/ /\ \/ c.op = "bind" /\ answer.is # "conflict"
           \/ c.op = "routes" /\ (c.arg.reload \/ c.by = dialog.mount)
        /\ dialog' = [dialog EXCEPT !.view = IF answer.is = "ok" THEN answer.view ELSE @, !.busy = FALSE]
        /\ pending' = pending \ {c}
  /\ UNCHANGED <<panel, mounts, commands>>

\* A panel that is gone takes none; one that is there starts over when its
\* settings were fetched, and after a conflict it fetches them.
AnswerPanel(c) ==
  /\ c.stage = "answered" /\ c.op \in {"assistant", "list", "test", "disable"}
  /\ LET answer == c.answer
         form(view) == [panel EXCEPT !.view = view, !.url = view.url, !.model = view.model, !.busy = FALSE] IN
     \/ c.by # panel.mount /\ UNCHANGED panel /\ pending' = pending \ {c}
     \/ /\ c.by = panel.mount /\ c.op = "test" /\ answer.is = "conflict"
        /\ UNCHANGED panel /\ Replaced(c, Command("assistant", c.by, NoView))
     \/ /\ c.by = panel.mount /\ pending' = pending \ {c}
        /\ \/ /\ answer.is \notin {"ok", "conflict"}
              /\ panel' = [panel EXCEPT !.busy = FALSE,
                                        !.list = IF c.op = "assistant" THEN {} ELSE @]
           \/ c.op = "disable" /\ answer.is = "conflict" /\ panel' = [panel EXCEPT !.busy = FALSE]
           \/ /\ answer.is = "ok" /\ c.op = "assistant"
              /\ panel' = [form(answer.view) EXCEPT !.list = {}]
           \/ /\ answer.is = "ok" /\ c.op = "list"
              /\ \E first \in answer.models :
                   panel' = [panel EXCEPT !.list = answer.models, !.busy = FALSE,
                                          !.model = IF @ \in answer.models THEN @ ELSE first]
           \/ answer.is = "ok" /\ c.op = "test" /\ panel' = [form(answer.view) EXCEPT !.key = NoKey]
           \/ /\ answer.is = "ok" /\ c.op = "disable"
              /\ panel' = [panel EXCEPT !.view = answer.view, !.busy = FALSE]
  /\ UNCHANGED <<dialog, mounts, commands>>

User ==
  /\ host = "Up"
  /\ \/ \E section \in {"models", "assistant"} : Open(section) \/ Select(section)
     \/ Close \/ EditForm \/ LoadModels \/ TestAndSave \/ Disable
     \/ \E i \in DOMAIN Routes : Toggle(Routes[i])
     \/ \E c \in pending : AnswerDialog(c) \/ AnswerPanel(c)
  /\ UNCHANGED <<stored, host, tested, launched>>

----------------------------------------------------------------------------
(* The application is started, for the first time or after a crash or the  *)
(* user has quit it, which ends the commands under way.                    *)

Start ==
  /\ host = "Down"
  /\ config' = IF config = <<>> THEN <<Default>> ELSE config
  /\ host' = IF Decodes(config'[1]) THEN "Up" ELSE "Refused"
  /\ UNCHANGED <<credential, pending, screen, tested, launched>>
Stop ==
  /\ host = "Up"
  /\ host' = "Down" /\ pending' = {} /\ dialog' = Closed /\ panel' = NoPanel
  /\ UNCHANGED <<stored, mounts, commands, tested, launched>>

SettingsInit ==
  /\ config = <<>> /\ credential = NoKey /\ host = "Down" /\ pending = {} /\ launched = <<>>
  /\ dialog = Closed /\ panel = NoPanel /\ mounts = 0 /\ commands = 0 /\ tested = {}

SettingsNext == Backend \/ Launch \/ User \/ Start \/ Stop
SettingsSpec == SettingsInit /\ [][SettingsNext]_settingsVars

----------------------------------------------------------------------------
(* Properties.                                                             *)

\* A connection that is enabled, or that a sidecar was launched with, passed
\* the test as a whole: address, model and key together, although the key is
\* read, the provider asked and the settings written at three moments, and
\* another command may change the key between them.
TestedTogether ==
  /\ config # <<>> /\ config[1].enabled => Connection(config[1], credential) \in tested
  /\ \A i \in DOMAIN launched : launched[i] \in tested

\* Settings on the screen that carry the revision of the stored ones are the
\* stored ones: a command that is admitted by its revision was decided on what
\* it changes.
RevisionNamesSettings ==
  config # <<>> =>
    /\ dialog.view.revision = config[1].revision => dialog.view = RoutesView(config[1])
    /\ panel.view.revision = config[1].revision => panel.view = AssistantView(config[1], credential)

\* What the settings commands store can be read again, by the next command and
\* by the next start.
StoredSettingsReadBack == config # <<>> => Restores(config[1], credential)
=============================================================================
