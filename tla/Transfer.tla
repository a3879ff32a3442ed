------------------------------ MODULE Transfer ------------------------------
(***************************************************************************)
(* Configuration export and import (adapters/config_transfer.py,           *)
(* ui/routers/config_transfer.py, the single-adapter import of             *)
(* ui/routers/adapters.py) while other administrators edit the same        *)
(* tables.  A file is checked by a dry run when it is uploaded and once    *)
(* more when its import is confirmed, then applied record by record, each  *)
(* in transactions of its own.                                             *)
(*                                                                         *)
(* A file names a record at most once, so the order of the records of a    *)
(* section does not matter and a section is a set.                         *)
(***************************************************************************)
EXTENDS Settings

CONSTANTS Unknown,     \* a setting the catalog does not have
          Misfit,      \* a value of the wrong type: the form takes it, the import does not
          PolicyNames, DefaultPolicy, Incoherent, \* a policy body set_policy refuses
          Feeds, Bodies,   \* sources and configs; `Code` are those of custom adapters
          Code,
          Files,       \* files written by hand
          Installs,    \* tables at the start
          FreshInstall,\* the tables of an install nobody has touched
          Troubles,    \* bound on failed writes and crashes
          Nothing

VARIABLES
    policy, source, adapter,   \* the tables: functions whose domains are the rows
    devTools,    \* UI_DEV_TOOLS_ENABLED
    page,        \* the preview that is open
    job,         \* the import that is being applied
    troubles,
    \* history: custom configs that an import has stored, and those that were
    \* listed on a page whose box was ticked
    stored, reviewed

transferVars == <<policy, source, adapter, devTools, page, job, troubles, stored, reviewed>>
allVars      == <<settingsVars, transferVars>>

\* An entry of a file.  `body` is a setting's value, a policy's or an adapter's content,
\* a source's display name; an adapter brings its policy and its display name along.
Entry(section, key, body) ==
    [section |-> section, key |-> key, body |-> body, policy |-> Nothing, display |-> Nothing]
\* A mutant first: a source's own record comes last.
SourcesLast == <<"settings", "policies", "adapters", "sources">>
Sections    == <<"settings", "policies", "sources", "adapters">>
Of(file, section) == {e \in file : e.section = section}

\* What a file may hold and the tables may: keys of their section, settings that are text, and
\* only adapters bring a policy and a display name along.
Fits(e) == /\ e.section \in ToSet(Sections)
           /\ e.key \in (CASE e.section = "settings" -> Keys \cup {Unknown}
                           [] e.section = "policies" -> PolicyNames
                           [] OTHER                  -> Feeds)
           /\ e.section = "settings" => e.body \in Values \cup {Blank}
           /\ e.section # "adapters" => e.policy = Nothing /\ e.display = Nothing

\* A file is finite and names a record at most once; a table is a function.
Named(file) == /\ IsFiniteSet(file) /\ Nothing \notin file
               /\ \A e, d \in file : e.section = d.section /\ e.key = d.key => e = d
IsTable(f)  == f = [k \in DOMAIN f |-> f[k]]

ASSUME FilesAssumption    == \A f \in Files : \A e \in f : Fits(e)
ASSUME NamesAssumption    == \A f \in Files : Named(f)
ASSUME FiniteAssumption   == IsFiniteSet(Keys) /\ IsFiniteSet(PolicyNames) /\ IsFiniteSet(Feeds)
ASSUME InstallsAssumption ==
    \A t \in Installs : /\ DOMAIN t.settings \subseteq Keys
                         /\ t.settings \in [DOMAIN t.settings -> Values \cup {Blank}]
                         /\ DOMAIN t.policies \subseteq PolicyNames /\ DOMAIN t.sources \subseteq Feeds
                         /\ DOMAIN t.adapters \subseteq Feeds
                         /\ \A s \in DOMAIN t.adapters : t.adapters[s].body \in Bodies
\* What set_policy and set_source let in: no incoherent policy, no source without a name.
Stock(t) ==
    /\ IsTable(t.policies) /\ \A n \in DOMAIN t.policies : t.policies[n] # Incoherent
    /\ IsTable(t.sources)  /\ \A n \in DOMAIN t.sources : t.sources[n] # Nothing
    /\ IsTable(t.adapters) /\ \A n \in DOMAIN t.adapters :
          t.adapters[n] = [body |-> t.adapters[n].body, policy |-> t.adapters[n].policy]
ASSUME StockAssumption ==
    \A t \in Installs : Stock(t) /\ t = [settings |-> t.settings, policies |-> t.policies,
                                        sources |-> t.sources, adapters |-> t.adapters]
ASSUME FreshAssumption    == FreshInstall \in Installs
ASSUME TroublesAssumption == Troubles \in Nat

Tables  == [settings |-> settings, policies |-> policy, sources |-> source, adapters |-> adapter]
Upsert(f, k, v) == [j \in DOMAIN f \cup {k} |-> IF j = k THEN v ELSE f[j]]

-----------------------------------------------------------------------------
\* build_export: no secrets; a source goes with its adapter if it has one.
Export(t) ==
    {Entry("settings", k, t.settings[k]) : k \in DOMAIN t.settings \ Secrets}
    \cup {Entry("policies", n, t.policies[n]) : n \in DOMAIN t.policies}
    \cup {Entry("sources", s, t.sources[s]) : s \in DOMAIN t.sources \ DOMAIN t.adapters}
    \cup {[section |-> "adapters", key |-> s, body |-> t.adapters[s].body,
           policy |-> t.adapters[s].policy,
           display |-> IF s \in DOMAIN t.sources THEN t.sources[s] ELSE Nothing] :
              s \in DOMAIN t.adapters}

\* Which records are skipped.  The policies' own check is part of set_policy, and so of
\* the real import only.  A mutant first: a secret is a setting like any other.
AcceptsSecrets(e, dev) ==
    CASE e.section = "settings" -> e.key # Unknown /\ e.body # Misfit
      [] e.section = "policies" -> TRUE
      [] e.section = "sources"  -> e.body # Nothing
      [] OTHER                  -> e.body \in Bodies /\ (e.body \in Code => dev)
Accepts(e, dev) ==
    CASE e.section = "settings" -> e.key \notin Secrets \cup {Unknown} /\ e.body # Misfit
      [] e.section = "policies" -> TRUE
      [] e.section = "sources"  -> e.body # Nothing
      [] OTHER                  -> e.body \in Bodies /\ (e.body \in Code => dev)
Takes(e, dev) == Accepts(e, dev) /\ ~(e.section = "policies" /\ e.body = Incoherent)

\* One ImportItemResult.  `known` are the policies an adapter may name without a warning.
Verdict(e, ok, existing, known) ==
    [section |-> e.section, key |-> e.key,
     action |-> IF ~ok THEN "skipped" ELSE IF e.key \in existing THEN "updated" ELSE "created",
     warned |-> ok /\ e.section = "adapters" /\ e.policy \notin known \cup {DefaultPolicy, Nothing}]

\* A mutant first: only the policies that predate the file count.
KnownBefore(t, file) == DOMAIN t.policies
KnownInDryRun(t, file) == DOMAIN t.policies \cup {e.key : e \in Of(file, "policies")}

DryRun(t, file, dev) ==
    {Verdict(e, Accepts(e, dev), DOMAIN t[e.section], KnownInDryRun(t, file)) : e \in file}

\* The writes of one record: set_setting, set_policy, set_source, or the two of an
\* adapter, the second only when it brings a display name.  A mutant first.
WithoutDisplay(t, e) == t
WithDisplay(t, e) == IF e.display = Nothing THEN t ELSE [t EXCEPT !.sources = Upsert(@, e.key, e.display)]
WithRow(t, e) ==
    IF e.section = "adapters"
    THEN [t EXCEPT !.adapters = Upsert(@, e.key, [body |-> e.body, policy |-> e.policy])]
    ELSE [t EXCEPT ![e.section] = Upsert(@, e.key, e.body)]

\* An import at once, section by section: of a source and an adapter that both bring a
\* display name, the adapter's stays.
Written(t, records, dev) ==
    FoldSet(LAMBDA e, acc : IF Takes(e, dev) THEN WithDisplay(WithRow(acc, e), e) ELSE acc, t, records)
Import(t, file, dev) ==
    LET In(acc, s) == Written(acc, Of(file, s), dev)
    IN  In(In(In(In(t, "settings"), "policies"), "sources"), "adapters")

-----------------------------------------------------------------------------
Result == [section : ToSet(Sections), key : Keys \cup {Unknown} \cup PolicyNames \cup Feeds,
           action : {"created", "updated", "skipped"}, warned : BOOLEAN]

TransferTypeOK ==
    /\ DOMAIN policy \subseteq PolicyNames /\ DOMAIN source \subseteq Feeds
    /\ DOMAIN adapter \subseteq Feeds /\ \A s \in DOMAIN adapter : adapter[s].body \in Bodies
    /\ devTools \in BOOLEAN /\ troubles \in 0 .. Troubles
    /\ stored \subseteq Feeds \X Code /\ reviewed \subseteq Feeds \X Code
    /\ page # Nothing => page.summary \subseteq Result
    /\ job # Nothing => /\ job.stage \in 1 .. 4 /\ job.todo \subseteq job.file
                        /\ job.results \subseteq Result

TransferInit ==
    /\ \E t \in Installs : /\ SettingsInit({t.settings})
                           /\ policy = t.policies /\ source = t.sources /\ adapter = t.adapters
    /\ devTools \in BOOLEAN /\ page = Nothing /\ job = Nothing /\ troubles = 0
    /\ stored = {} /\ reviewed = {}

Custom(file)     == {<<e.key, e.body>> : e \in {x \in Of(file, "adapters") : x.body \in Code}}
Listed(file, dev) == {c \in Custom(file) : dev}
Page(file, single) == [file |-> file, single |-> single, summary |-> DryRun(Tables, file, devTools),
                       listed |-> Listed(file, devTools)]
Replaces(summary) == \E r \in summary : r.action # "skipped"

\* The import starts: the rows of the first section are listed.
Start(file, first, asked) ==
    job' = [file |-> file, stage |-> first, todo |-> Of(file, Sections[first]),
            existing |-> DOMAIN Tables[Sections[first]], known |-> DOMAIN policy,
            half |-> Nothing, results |-> {}, asked |-> asked,
            expect |-> DryRun(Tables, file, devTools), dev |-> devTools, before |-> Tables,
            alone |-> TRUE]

Upload(file) == /\ page = Nothing /\ job = Nothing /\ page' = Page(file, FALSE)
                /\ Turn /\ UNCHANGED <<settings, form, untouched, disturbed, policy, source, adapter,
                                      devTools, job, troubles, stored, reviewed>>

\* A single adapter: a new one without code needs no page.
UploadOne(e) ==
    LET p == Page({e}, TRUE)
    IN  /\ page = Nothing /\ job = Nothing
        /\ IF (\A r \in p.summary : r.action = "created") /\ e.body \notin Code
           THEN Start({e}, 4, {}) /\ UNCHANGED page
           ELSE page' = p /\ UNCHANGED job
        /\ Turn
        /\ UNCHANGED <<settings, form, untouched, disturbed, policy, source, adapter, devTools, troubles,
                       stored, reviewed>>

\* The page has a box only for what it lists; what is asked is decided anew from a second
\* dry run, and a box that is missing brings the page back with its lists up to date.
ToReviewThen(p) == page.listed    \* a mutant: the first dry run is trusted
ToReview(p)     == p.listed

Confirm(overwrite, code) ==
    LET p == Page(page.file, page.single)
        replaced == IF p.single THEN \E r \in p.summary : r.action = "updated" ELSE Replaces(p.summary)
        refused == \/ p.single /\ \E r \in p.summary : r.action = "skipped"
                   \/ replaced /\ ~overwrite
                   \/ ToReview(p) # {} /\ ~code
    IN  /\ page # Nothing /\ (code => page.listed # {})
        /\ reviewed' = IF code THEN reviewed \cup page.listed ELSE reviewed
        /\ IF refused THEN page' = p /\ UNCHANGED job
           ELSE /\ page' = Nothing
                /\ Start(p.file, IF p.single THEN 4 ELSE 1,
                         IF overwrite THEN {e.key : e \in p.file} ELSE {})
        /\ UNCHANGED <<settingsVars, policy, source, adapter, devTools, troubles, stored>>

CloseTab == /\ page # Nothing /\ page' = Nothing
            /\ UNCHANGED <<settingsVars, policy, source, adapter, devTools, job, troubles, stored, reviewed>>

Becomes(t) == settings' = t.settings /\ policy' = t.policies /\ source' = t.sources /\ adapter' = t.adapters

Finish(e, ok, t) ==
    /\ Becomes(t)
    /\ job' = [job EXCEPT !.todo = @ \ {e}, !.half = Nothing,
                          !.known = IF ok /\ e.section = "policies" THEN @ \cup {e.key} ELSE @,
                          !.results = @ \cup {Verdict(e, ok, job.existing, job.known)}]

Seen(e) == disturbed' = [d \in Desks |-> IF e.section = "settings" THEN disturbed[d] \cup {e.key}
                                         ELSE disturbed[d]]

ImportRecord(e) ==
    /\ job # Nothing /\ e \in job.todo /\ job.half = Nothing
    /\ IF ~Takes(e, job.dev)
       THEN Finish(e, FALSE, Tables) /\ UNCHANGED <<stored, disturbed>>
       ELSE /\ IF e.section = "adapters" /\ e.display # Nothing
               THEN Becomes(WithRow(Tables, e)) /\ job' = [job EXCEPT !.half = e]
               ELSE Finish(e, TRUE, WithRow(Tables, e))
            /\ stored' = IF e.section = "adapters" /\ e.body \in Code
                         THEN stored \cup {<<e.key, e.body>>} ELSE stored
            /\ Seen(e)
    /\ UNCHANGED <<form, turns, untouched, devTools, page, troubles, reviewed>>

ImportDisplay ==
    /\ job # Nothing /\ job.half # Nothing /\ Finish(job.half, TRUE, WithDisplay(Tables, job.half))
    /\ UNCHANGED <<form, turns, untouched, disturbed, devTools, page, troubles, stored, reviewed>>

\* A locked database skips the record, whatever of it is written already.
ImportFails ==
    /\ job # Nothing /\ troubles < Troubles /\ troubles' = troubles + 1
    /\ \E e \in job.todo :
          /\ job.half \in {e, Nothing}
          /\ job' = [job EXCEPT !.todo = @ \ {e}, !.half = Nothing, !.alone = FALSE,
                                !.results = @ \cup {Verdict(e, FALSE, {}, {})}]
    /\ UNCHANGED <<settingsVars, policy, source, adapter, devTools, page, stored, reviewed>>

NextSection ==
    /\ job # Nothing /\ job.todo = {} /\ job.stage < 4
    /\ LET s == Sections[job.stage + 1]
       IN  job' = [job EXCEPT !.stage = @ + 1, !.todo = Of(job.file, s), !.existing = DOMAIN Tables[s],
                              !.known = IF s = "policies" THEN DOMAIN policy ELSE @]
    /\ UNCHANGED <<settingsVars, policy, source, adapter, devTools, page, troubles, stored, reviewed>>

ImportEnds == /\ job # Nothing /\ job.todo = {} /\ job.stage = 4 /\ job' = Nothing
              /\ UNCHANGED <<settingsVars, policy, source, adapter, devTools, page, troubles, stored,
                             reviewed>>

\* The ui stops or is killed: what is written stays, forms and pages are in the browser.
Crash == /\ job # Nothing /\ troubles < Troubles /\ troubles' = troubles + 1 /\ job' = Nothing
         /\ UNCHANGED <<settingsVars, policy, source, adapter, devTools, page, stored, reviewed>>

-----------------------------------------------------------------------------
(* The others: another form, page or command that edits the same tables.    *)

Meanwhile == job' = IF job = Nothing THEN job ELSE [job EXCEPT !.alone = FALSE]

EditAdapter(s, row) ==
    /\ adapter' = Upsert(adapter, s, row) /\ Turn /\ Meanwhile
    /\ UNCHANGED <<settings, form, untouched, disturbed, policy, source, devTools, page, troubles, stored, reviewed>>

DropPolicy(n) ==
    /\ n \in DOMAIN policy /\ policy' = [m \in DOMAIN policy \ {n} |-> policy[m]]
    /\ Turn /\ Meanwhile
    /\ UNCHANGED <<settings, form, untouched, disturbed, source, adapter, devTools, page, troubles, stored, reviewed>>

SwitchDevTools ==
    /\ devTools' = ~devTools /\ Turn /\ Meanwhile
    /\ UNCHANGED <<settings, form, untouched, disturbed, policy, source, adapter, page, troubles, stored, reviewed>>

Others == /\ SettingsNext
          /\ IF settings' # settings THEN Meanwhile ELSE UNCHANGED job
          /\ UNCHANGED <<policy, source, adapter, devTools, page, troubles, stored, reviewed>>

Rows == [body : Bodies \ Code, policy : PolicyNames \cup {Nothing}]

TransferNext ==
    \/ \E f \in Files : Upload(f)
    \/ \E f \in Files : \E e \in Of(f, "adapters") : UploadOne(e)
    \/ \E overwrite, code \in BOOLEAN : Confirm(overwrite, code)
    \/ CloseTab \/ NextSection \/ ImportDisplay \/ ImportFails \/ ImportEnds \/ Crash
    \/ job # Nothing /\ \E e \in job.todo : ImportRecord(e)
    \/ \E s \in Feeds, row \in Rows : EditAdapter(s, row)
    \/ \E n \in PolicyNames : DropPolicy(n)
    \/ SwitchDevTools \/ Others

TransferSpec == TransferInit /\ [][TransferNext]_allVars

-----------------------------------------------------------------------------
\* What an install exports, a fresh install imports: everything but secrets, unknown
\* settings and values that do not fit their type arrives, a source's name with it
\* (build_export against import_config).
Over(f, g) == [x \in DOMAIN f \cup DOMAIN g |-> IF x \in DOMAIN f THEN f[x] ELSE g[x]]
Portable(t) == {k \in DOMAIN t.settings \ (Secrets \cup {Unknown}) : t.settings[k] # Misfit}
RoundTrip ==
    LET t == Tables
        u == Import(FreshInstall, Export(t), TRUE)
    IN  /\ u.settings = Over([k \in Portable(t) |-> t.settings[k]], FreshInstall.settings)
        /\ u.policies = Over(t.policies, FreshInstall.policies)
        /\ u.sources = Over(t.sources, FreshInstall.sources)
        /\ u.adapters = Over(t.adapters, FreshInstall.adapters)

\* "dry_run=True runs every validation (including correct created-vs-updated
\* classification)" (config_transfer.py:451): an import that nobody and nothing disturbs
\* does with each record what its dry run said, but for the policies that only set_policy
\* refuses and the adapters that name one.
Refused(file) == {e.key : e \in {x \in Of(file, "policies") : x.body = Incoherent}}
PreviewIsKept ==
    job # Nothing /\ job.alone =>
        \A r \in job.results :
            \/ r \in job.expect
            \/ r.section = "policies" /\ r.key \in Refused(job.file)
            \/ \E e \in Of(job.file, "adapters") : e.key = r.key /\ e.policy \in Refused(job.file)

\* An import deletes nothing, writes no secret and replaces no adapter unless its page
\* asked; no custom config is stored that was not listed on a page whose box was ticked,
\* whatever the switch for custom code did between the pages.
NothingUnasked ==
    /\ stored \subseteq reviewed
    /\ job # Nothing /\ job.alone =>
          /\ DOMAIN job.before.policies \subseteq DOMAIN policy
          /\ \A k \in Secrets : k \in DOMAIN settings =>
                k \in DOMAIN job.before.settings /\ settings[k] = job.before.settings[k]
          /\ \A s \in DOMAIN job.before.adapters :
                s \in DOMAIN adapter /\ (adapter[s] = job.before.adapters[s] \/ s \in job.asked)

\* An import is many transactions, but one that nobody and nothing disturbs is as good as
\* atomic: at each of its commits the tables are what importing the records it has come to
\* at once would make of those it found, whatever order it takes them in ("a bulk import is
\* indistinguishable from the same edits made one at a time", config_transfer.py:9).
Passed(j) == {e \in j.file : \E i \in 1 .. j.stage - 1 : e.section = Sections[i]}
             \cup (Of(j.file, Sections[j.stage]) \ j.todo)
ImportIsAtomic ==
    job # Nothing /\ job.alone =>
        LET t == Import(job.before, Passed(job), job.dev)
        IN  Tables = IF job.half = Nothing THEN t ELSE WithRow(t, job.half)

\* What an import that nobody disturbs is to its administrator: what the page said, nothing
\* else, and all of it (config_transfer.py's module comment, import_config).
ImportKeepsItsWord == PreviewIsKept /\ NothingUnasked /\ ImportIsAtomic
=============================================================================
