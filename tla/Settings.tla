------------------------------ MODULE Settings ------------------------------
(***************************************************************************)
(* The settings table and the two ways an administrator writes it from the *)
(* ui: a form over several settings (routers/config.py, and the pages of   *)
(* the setup wizard, which save through the same function) and the quick   *)
(* controls of the dashboard.  A form shows the values that are in force   *)
(* when it is opened and sends all of them back; each setting is written   *)
(* in a transaction of its own.                                            *)
(***************************************************************************)
EXTENDS Integers, Sequences, FiniteSetsExt, SequencesExt

CONSTANTS Desks,       \* administrators, each with a form open or not
          Keys,        \* the settings of the form
          Secrets,     \* those whose value is never shown
          Required,    \* those the form does not accept blank
          DbOnly,      \* those no environment variable stands in for
          Toggles,     \* those the dashboard's quick controls may write
          Values,      \* what may be typed
          Strip,       \* what str.strip() makes of a field: outer blanks go
          Env,         \* the environment: [Keys -> a value, or Unset]
          Fallback,    \* the catalog's defaults, Blank for none
          Blank, Mask, \* an empty field, and SECRET_SENTINEL
          Unset,
          Patience     \* bound on what administrators begin

ASSUME KeysAssumption == Secrets \cup Required \cup DbOnly \cup Toggles \subseteq Keys
ASSUME RequiredAssumption == Required \cap Secrets = {}
ASSUME PatienceAssumption == Patience \in Nat
ASSUME EnvAssumption      == Env \in [Keys -> Values \cup {Blank, Unset}]
ASSUME FallbackAssumption == Fallback \in [Keys -> Values \cup {Blank}]

VARIABLES
    settings,    \* the table: a function whose domain is the rows
    form,        \* [Desks -> the open form]
    turns,       \* how often an administrator has begun something
    \* history: what each desk has not touched since it opened its form, and what
    \* somebody else wrote in the meantime
    untouched, disturbed

settingsVars == <<settings, form, turns, untouched, disturbed>>

Field == Values \cup {Blank, Mask}

\* Blanks alone leave an empty field; the mask has no outer blanks.
ASSUME StripAssumption ==
    /\ Strip \in [Field -> Field]
    /\ Strip[Blank] = Blank /\ Strip[Mask] = Mask
    /\ \A v \in Values : Strip[v] \in Values \cup {Blank} /\ Strip[Strip[v]] = Strip[v]

Form  == [pc : {"edit", "saving"}, field : [Keys -> Field], todo : SUBSET Keys,
          before : [Keys -> Values \cup {Blank, Unset}]]
NoForm == [pc |-> "none"]

SettingsTypeOK ==
    /\ DOMAIN settings \subseteq Keys /\ settings \in [DOMAIN settings -> Field]
    /\ form \in [Desks -> Form \cup {NoForm}] /\ turns \in 0 .. Patience
    /\ untouched \in [Desks -> SUBSET Keys] /\ disturbed \in [Desks -> SUBSET Keys]

\* get_setting: the row, the environment, the default.
Effective(table, k) ==
    CASE k \in DOMAIN table                                        -> table[k]
      [] k \notin DOMAIN table /\ k \notin DbOnly /\ Env[k] # Unset -> Env[k]
      [] OTHER                                                     -> Fallback[k]

SettingsInit(tables) ==
    /\ settings \in tables /\ form = [d \in Desks |-> NoForm] /\ turns = 0
    /\ untouched = [d \in Desks |-> {}] /\ disturbed = [d \in Desks |-> {}]

\* set_setting and delete_setting, by one desk (or an import) under the eyes of others.
Put(k, v) == [j \in DOMAIN settings \cup {k} |-> IF j = k THEN v ELSE settings[j]]
Turn         == turns < Patience /\ turns' = turns + 1
Wrote(by, k) == disturbed' = [d \in Desks |-> IF d \in by THEN disturbed[d] ELSE disturbed[d] \cup {k}]

-----------------------------------------------------------------------------
\* _build_fields: the mask for a secret that has a row, else the value in force.
Shown(k) == IF k \in Secrets THEN (IF k \in DOMAIN settings THEN Mask ELSE Blank)
            ELSE Effective(settings, k)

\* What a form is about to change: of a secret, the row.
InForce(k) == IF k \in Secrets /\ k \notin DOMAIN settings THEN Unset ELSE Effective(settings, k)

OpenForm(d) ==
    /\ form[d] = NoForm
    /\ form' = [form EXCEPT ![d] = [pc |-> "edit", field |-> [k \in Keys |-> Shown(k)], todo |-> {},
                                    before |-> [k \in Keys |-> InForce(k)]]]
    /\ untouched' = [untouched EXCEPT ![d] = Keys] /\ disturbed' = [disturbed EXCEPT ![d] = {}]
    /\ Turn /\ UNCHANGED settings

Type(d, k, v) ==
    /\ form[d].pc = "edit" /\ k \in untouched[d]
    /\ form' = [form EXCEPT ![d].field[k] = v] /\ untouched' = [untouched EXCEPT ![d] = @ \ {k}]
    /\ Turn /\ UNCHANGED <<settings, disturbed>>

\* save_settings strips every field.  A required one that is blank then refuses them all,
\* and the form comes back with what was sent, stripped; a blank field and the mask are no
\* change.  A mutant first.
Raw(d, k)     == Strip[form[d].field[k]]
SentMasked(d) == {k \in Keys : Raw(d, k) # Blank}
Sent(d)       == {k \in Keys : Raw(d, k) # Blank /\ ~(k \in Secrets /\ Raw(d, k) = Mask)}

Save(d) ==
    /\ form[d].pc = "edit"
    /\ LET sent == [form[d] EXCEPT !.field = [k \in Keys |-> Raw(d, k)]]
       IN  form' = [form EXCEPT ![d] = IF \E k \in Required : Raw(d, k) = Blank THEN sent
                                       ELSE [sent EXCEPT !.pc = "saving", !.todo = Sent(d)]]
    /\ UNCHANGED <<settings, turns, untouched, disturbed>>

WriteField(d) ==
    /\ form[d].pc = "saving" /\ form[d].todo # {}
    /\ \E k \in form[d].todo :
          /\ settings' = Put(k, form[d].field[k]) /\ Wrote({d}, k)
          /\ form' = [form EXCEPT ![d].todo = @ \ {k}]
    /\ UNCHANGED <<turns, untouched>>

Saved(d) == /\ form[d].pc = "saving" /\ form[d].todo = {}
            /\ form' = [form EXCEPT ![d] = NoForm]
            /\ UNCHANGED <<settings, turns, untouched, disturbed>>

\* config_setting_reset_action: the row goes, the environment and the default are left.
Reset(d, k) ==
    /\ form[d] = NoForm /\ settings' = [j \in DOMAIN settings \ {k} |-> settings[j]]
    /\ Turn /\ Wrote({}, k) /\ UNCHANGED <<form, untouched>>

\* dashboard_toggle.
Quick(d, k, v) ==
    /\ form[d] = NoForm /\ k \in Toggles /\ settings' = Put(k, v)
    /\ Turn /\ Wrote({}, k) /\ UNCHANGED <<form, untouched>>

SettingsNext ==
    \E d \in Desks :
        \/ OpenForm(d) \/ Save(d) \/ WriteField(d) \/ Saved(d)
        \/ \E k \in Keys : Reset(d, k)
        \/ \E k \in Keys, v \in Values : Quick(d, k, v)
        \/ \E k \in Keys, v \in Values \cup {Blank} : Type(d, k, v)

-----------------------------------------------------------------------------
\* A form that is saved changes what its administrator typed and nothing else: a field
\* nobody touched keeps the value in force, secret or not, unless somebody else wrote
\* that setting while the form was open (save_settings, the whole form is sent back).
\* But for its outer blanks, where its value is shown: the form shows them and saving it
\* strips them, also those of the default voice prefix and suffix.
UntouchedKeepsItsValue ==
    \A d \in Desks : form[d].pc = "saving" =>
        \A k \in untouched[d] \ disturbed[d] :
            \/ InForce(k) = form[d].before[k]
            \/ k \notin Secrets /\ InForce(k) = Strip[form[d].before[k]]
=============================================================================
