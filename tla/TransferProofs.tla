--------------------------- MODULE TransferProofs ---------------------------
(***************************************************************************)
(* What administrators do to the configuration at the same time, for any   *)
(* settings, files, tables and number of administrators: a form changes    *)
(* what was typed (Settings); an import does what its page said, comes to  *)
(* what one write of its file would, and brings back what was exported     *)
(* (Transfer); and beside the accounts all of it still holds (Desk).       *)
(***************************************************************************)
EXTENDS Desk, AccountsProofs

-----------------------------------------------------------------------------
(* The settings and their forms.  A secret's field holds a mask or nothing  *)
(* until somebody types into it, any other field the value in force when    *)
(* the form was opened, with its outer blanks or, once it was sent, without *)
(* them; neither the mask nor an empty field is written.                    *)

Texts          == Values \cup {Blank}
KeptField(old) == {old, Strip[old]}

RowsOK  == DOMAIN settings \subseteq Keys /\ settings \in [DOMAIN settings -> Texts]
FormOK(d) ==
    form[d].pc # "none" =>
        /\ \A k \in Keys \ Secrets : form[d].field[k] \in Texts
        /\ \A k \in untouched[d] : IF k \in Secrets THEN form[d].field[k] \in {Mask, Blank}
                                   ELSE form[d].before[k] \in Texts /\ form[d].field[k] \in KeptField(form[d].before[k])
        /\ form[d].pc = "saving" => /\ form[d].todo \subseteq Sent(d)
                                    /\ \A k \in Keys : form[d].field[k] = Raw(d, k)
        /\ \A k \in untouched[d] \ disturbed[d] :
             \/ InForce(k) = form[d].before[k]
             \/ k \notin Secrets /\ InForce(k) = Strip[form[d].before[k]]
FormsInv == SettingsTypeOK /\ RowsOK /\ \A d \in Desks : FormOK(d)

LEMMA StripType ==
    /\ \A v \in Field : Strip[v] \in Field /\ Strip[Strip[v]] = Strip[v]
    /\ \A v \in Texts : Strip[v] \in Texts
BY StripAssumption DEF Field, Texts

LEMMA EffectiveType == ASSUME RowsOK, NEW k \in Keys PROVE Effective(settings, k) \in Texts
BY EnvAssumption, FallbackAssumption DEF RowsOK, Effective, Texts

LEMMA ShownType ==
    ASSUME RowsOK, NEW k \in Keys
    PROVE  Shown(k) \in Field /\ IF k \in Secrets THEN Shown(k) \in {Mask, Blank} ELSE Shown(k) \in Texts
BY EffectiveType DEF Shown, Field, Texts

\* Writing a row or deleting it changes what is in force for that setting alone.
LEMMA OthersInForce ==
    ASSUME NEW k, NEW j, j # k,
           \/ \E v : settings' = Upsert(settings, k, v)
           \/ settings' = [i \in DOMAIN settings \ {k} |-> settings[i]]
    PROVE  InForce(j)' = InForce(j)
BY DEF InForce, Effective, Upsert

LEMMA PutIsUpsert == ASSUME NEW k, NEW v PROVE Put(k, v) = Upsert(settings, k, v)
BY DEF Put, Upsert

\* A write that disturbs everybody, by a control of the dashboard or by an import.
LEMMA ForeignWrite ==
    ASSUME FormsInv, NEW k \in Keys,
           \/ \E v \in Texts : settings' = Upsert(settings, k, v)
           \/ settings' = [i \in DOMAIN settings \ {k} |-> settings[i]],
           disturbed' = [d \in Desks |-> disturbed[d] \cup {k}],
           UNCHANGED <<form, untouched>>, turns' \in 0 .. Patience
    PROVE  FormsInv'
<1>1. RowsOK'
    <2>1. CASE \E v \in Texts : settings' = Upsert(settings, k, v)
        <3>1. PICK v \in Texts : settings' = Upsert(settings, k, v)
            BY <2>1
        <3> QED BY <3>1 DEF Upsert, FormsInv, RowsOK
    <2>2. CASE settings' = [i \in DOMAIN settings \ {k} |-> settings[i]]
        BY <2>2 DEF FormsInv, RowsOK
    <2> QED BY <2>1, <2>2
<1>2. SettingsTypeOK'
    <2>1. settings' \in [DOMAIN settings' -> Field] /\ DOMAIN settings' \subseteq Keys
        BY <1>1 DEF RowsOK, Texts, Field
    <2>2. disturbed' \in [Desks -> SUBSET Keys]
        BY DEF FormsInv, SettingsTypeOK
    <2> QED BY <2>1, <2>2 DEF FormsInv, SettingsTypeOK
<1>3. ASSUME NEW d \in Desks PROVE FormOK(d)'
    <2>1. \A j : j # k => InForce(j)' = InForce(j)
        BY OthersInForce
    <2>2. disturbed'[d] = disturbed[d] \cup {k}
        OBVIOUS
    <2> QED BY <2>1, <2>2 DEF FormsInv, FormOK, Sent, Raw
<1> QED BY <1>1, <1>2, <1>3 DEF FormsInv

LEMMA FormsKept ==
    ASSUME FormsInv, UNCHANGED <<settings, form, untouched, disturbed>>, turns' \in 0 .. Patience PROVE FormsInv'
BY DEF FormsInv, SettingsTypeOK, RowsOK, FormOK, Sent, Raw, InForce

LEMMA TurnType == ASSUME FormsInv, Turn PROVE turns' \in 0 .. Patience
BY PatienceAssumption DEF FormsInv, SettingsTypeOK, Turn

LEMMA OpenFormStep == ASSUME FormsInv, NEW d \in Desks, OpenForm(d) PROVE FormsInv'
<1> DEFINE fresh == [pc |-> "edit", field |-> [k \in Keys |-> Shown(k)], todo |-> {},
                      before |-> [k \in Keys |-> InForce(k)]]
<1>1. /\ form' = [form EXCEPT ![d] = fresh]
      /\ untouched' = [untouched EXCEPT ![d] = Keys] /\ disturbed' = [disturbed EXCEPT ![d] = {}]
      /\ UNCHANGED settings
    BY DEF OpenForm, InForce
<1>2. \A k \in Keys : InForce(k) \in Values \cup {Blank, Unset}
    BY EffectiveType DEF FormsInv, InForce, Texts
<1>3. fresh \in Form
    BY <1>2, ShownType DEF Form, FormsInv
<1>4. turns' \in 0 .. Patience
    BY TurnType DEF OpenForm
<1>5. SettingsTypeOK'
    <2>1. form' \in [Desks -> Form \cup {NoForm}]
        BY <1>1, <1>3 DEF FormsInv, SettingsTypeOK
    <2>2. untouched' \in [Desks -> SUBSET Keys] /\ disturbed' \in [Desks -> SUBSET Keys]
        BY <1>1 DEF FormsInv, SettingsTypeOK
    <2> QED BY <1>1, <1>4, <2>1, <2>2 DEF FormsInv, SettingsTypeOK
<1>6. ASSUME NEW e \in Desks PROVE FormOK(e)'
    <2>0. \A k : InForce(k)' = InForce(k)
        BY <1>1 DEF InForce
    <2>1. CASE e = d
        <3>1. form'[e] = fresh /\ untouched'[e] = Keys /\ disturbed'[e] = {}
            BY <1>1, <2>1 DEF FormsInv, SettingsTypeOK
        <3>2. \A k \in Keys : IF k \in Secrets THEN Shown(k) \in {Mask, Blank} ELSE Shown(k) \in Texts
            BY ShownType DEF FormsInv
        <3>3. \A k \in Keys \ Secrets : Shown(k) = InForce(k)
            BY DEF Shown, InForce
        <3>4. /\ form'[e].pc = "edit" /\ \A k \in Keys : form'[e].field[k] = Shown(k)
              /\ \A k \in Keys : form'[e].before[k] = InForce(k)
            BY <3>1
        <3> QED BY <2>0, <3>1, <3>2, <3>3, <3>4 DEF FormOK, KeptField
    <2>2. CASE e # d
        <3>1. form'[e] = form[e] /\ untouched'[e] = untouched[e] /\ disturbed'[e] = disturbed[e]
            BY <1>1, <2>2 DEF FormsInv, SettingsTypeOK
        <3> QED BY <2>0, <3>1 DEF FormsInv, FormOK, Sent, Raw
    <2> QED BY <2>1, <2>2
<1>7. RowsOK'
    BY <1>1 DEF FormsInv, RowsOK
<1> QED BY <1>5, <1>6, <1>7 DEF FormsInv

\* What a desk does with its own form leaves the others'.
LEMMA OwnForm ==
    ASSUME FormsInv, NEW d \in Desks, NEW f \in Form \cup {NoForm}, form' = [form EXCEPT ![d] = f],
           NEW u \in SUBSET Keys, untouched' = [untouched EXCEPT ![d] = u],
           UNCHANGED <<settings, disturbed>>, turns' \in 0 .. Patience, FormOK(d)'
    PROVE  FormsInv'
<1>1. SettingsTypeOK'
    BY DEF FormsInv, SettingsTypeOK
<1>2. \A k : InForce(k)' = InForce(k)
    BY DEF InForce
<1>3. ASSUME NEW e \in Desks, e # d PROVE FormOK(e)'
    <2>1. form'[e] = form[e] /\ untouched'[e] = untouched[e] /\ disturbed'[e] = disturbed[e]
        BY <1>3 DEF FormsInv, SettingsTypeOK
    <2> QED BY <1>2, <2>1 DEF FormsInv, FormOK, Sent, Raw
<1>4. RowsOK'
    BY DEF FormsInv, RowsOK
<1> QED BY <1>1, <1>3, <1>4 DEF FormsInv

LEMMA OpenedForm ==
    ASSUME FormsInv, NEW d \in Desks, form[d].pc # "none"
    PROVE  /\ form[d] \in Form /\ FormOK(d) /\ untouched[d] \subseteq Keys /\ disturbed[d] \subseteq Keys
BY DEF FormsInv, SettingsTypeOK, NoForm

LEMMA TypedStep ==
    ASSUME FormsInv, NEW d \in Desks, NEW k \in Keys, NEW v \in Texts, Type(d, k, v) PROVE FormsInv'
<1> DEFINE typed == [form[d] EXCEPT !.field[k] = v]
<1>1. form[d].pc = "edit" /\ form' = [form EXCEPT ![d] = typed] /\ UNCHANGED <<settings, disturbed>>
    BY DEF Type
<1>2. untouched' = [untouched EXCEPT ![d] = untouched[d] \ {k}]
    BY DEF Type
<1>3. form[d] \in Form /\ FormOK(d) /\ untouched[d] \subseteq Keys
    BY <1>1, OpenedForm
<1>4. v \in Field
    BY DEF Texts, Field
<1>5. /\ typed \in Form /\ typed.pc = "edit" /\ typed.before = form[d].before /\ typed.field[k] = v
      /\ \A j \in Keys \ {k} : typed.field[j] = form[d].field[j]
    BY <1>1, <1>3, <1>4 DEF Form
<1>6. turns' \in 0 .. Patience
    BY TurnType DEF Type
<1> HIDE DEF typed
<1>7. form'[d] = typed /\ untouched'[d] = untouched[d] \ {k} /\ disturbed'[d] = disturbed[d]
    BY <1>1, <1>2 DEF FormsInv, SettingsTypeOK
<1>8. \A j : InForce(j)' = InForce(j)
    BY <1>1 DEF InForce
<1>9. FormOK(d)'
    BY <1>1, <1>3, <1>5, <1>7, <1>8 DEF FormOK
<1>10. untouched[d] \ {k} \in SUBSET Keys
    BY <1>3
<1> QED BY <1>1, <1>2, <1>5, <1>6, <1>9, <1>10, OwnForm

LEMMA SaveStep == ASSUME FormsInv, NEW d \in Desks, Save(d) PROVE FormsInv'
<1> DEFINE sent == [form[d] EXCEPT !.field = [k \in Keys |-> Raw(d, k)]]
<1> DEFINE saving == [sent EXCEPT !.pc = "saving", !.todo = Sent(d)]
<1>1. form[d].pc = "edit" /\ UNCHANGED <<settings, turns, untouched, disturbed>>
    BY DEF Save
<1>2. form[d] \in Form /\ FormOK(d) /\ untouched[d] \subseteq Keys
    BY <1>1, OpenedForm
<1>3. turns' \in 0 .. Patience
    BY <1>1 DEF FormsInv, SettingsTypeOK
<1>4. PICK f \in {sent, saving} : form' = [form EXCEPT ![d] = f]
    BY DEF Save
\* A field that was stripped is stripped.
<1>5. /\ f \in Form /\ f.before = form[d].before /\ f.todo \subseteq Keys
      /\ \A k \in Keys : f.field[k] = Strip[form[d].field[k]]
      /\ f.pc = "saving" => f.todo = Sent(d)
    <2>1. \A k \in Keys : form[d].field[k] \in Field /\ Raw(d, k) \in Field
        BY <1>2, StripType DEF Form, Raw
    <2>2. Sent(d) \subseteq Keys
        BY DEF Sent
    <2>3. /\ sent \in Form /\ sent.before = form[d].before /\ sent.pc = "edit"
          /\ \A k \in Keys : sent.field[k] = Strip[form[d].field[k]]
        BY <1>1, <1>2, <2>1 DEF Form, Raw
    <2> HIDE DEF sent
    <2>4. /\ saving \in Form /\ saving.before = sent.before /\ saving.field = sent.field /\ saving.todo = Sent(d)
        BY <2>2, <2>3 DEF Form
    <2> QED BY <1>4, <2>3, <2>4 DEF Form
<1> HIDE DEF sent, saving
<1>6. form'[d] = f /\ untouched'[d] = untouched[d] /\ disturbed'[d] = disturbed[d]
    BY <1>1, <1>4 DEF FormsInv, SettingsTypeOK
<1>7. \A j : InForce(j)' = InForce(j)
    BY <1>1 DEF InForce
<1>8. \A k \in Keys : /\ Raw(d, k)' = Raw(d, k) /\ f.field[k] = Raw(d, k)
                     /\ form[d].field[k] \in Field
    BY <1>2, <1>5, <1>6, StripType DEF Form, Raw
<1>9. Sent(d)' = Sent(d)
    BY <1>8 DEF Sent
<1>10. FormOK(d)'
    <2>1. \A k \in Keys \ Secrets : f.field[k] \in Texts
        BY <1>2, <1>1, <1>5, StripType DEF FormOK
    <2>2. ASSUME NEW k \in untouched[d]
          PROVE  IF k \in Secrets THEN f.field[k] \in {Mask, Blank}
                 ELSE form[d].before[k] \in Texts /\ f.field[k] \in KeptField(form[d].before[k])
        <3>1. k \in Keys /\ f.field[k] = Strip[form[d].field[k]]
            BY <1>2, <1>5
        <3>2. CASE k \in Secrets
            BY <1>1, <1>2, <3>1, <3>2, StripAssumption DEF FormOK
        <3>3. CASE k \notin Secrets
            <4>1. form[d].before[k] \in Texts /\ form[d].field[k] \in KeptField(form[d].before[k])
                BY <1>1, <1>2, <3>3 DEF FormOK
            <4>2. Strip[Strip[form[d].before[k]]] = Strip[form[d].before[k]]
                BY <4>1, StripType DEF Texts, Field
            <4> QED BY <3>1, <3>3, <4>1, <4>2 DEF KeptField
        <3> QED BY <3>2, <3>3
    <2>3. \A k \in Keys : f.field[k] = Raw(d, k)'
        BY <1>8
    <2> QED BY <1>1, <1>2, <1>5, <1>6, <1>7, <1>9, <2>1, <2>2, <2>3 DEF FormOK
<1>11. untouched' = [untouched EXCEPT ![d] = untouched[d]]
    BY <1>1 DEF FormsInv, SettingsTypeOK
<1> QED BY <1>1, <1>2, <1>3, <1>4, <1>5, <1>10, <1>11, OwnForm

LEMMA SavedStep == ASSUME FormsInv, NEW d \in Desks, Saved(d) PROVE FormsInv'
<1>1. form' = [form EXCEPT ![d] = NoForm] /\ UNCHANGED <<settings, turns, untouched, disturbed>>
    BY DEF Saved
<1>2. form'[d] = NoForm
    BY <1>1 DEF FormsInv, SettingsTypeOK
<1>3. FormOK(d)'
    BY <1>2 DEF FormOK, NoForm
<1>4. untouched' = [untouched EXCEPT ![d] = untouched[d]] /\ untouched[d] \in SUBSET Keys /\ turns' \in 0 .. Patience
    BY <1>1 DEF FormsInv, SettingsTypeOK
<1> QED BY <1>1, <1>3, <1>4, OwnForm

\* The form that is saved writes what it shows: an untouched field the value in force.
LEMMA WriteFieldStep == ASSUME FormsInv, NEW d \in Desks, WriteField(d) PROVE FormsInv'
<1>1. PICK k \in form[d].todo :
        /\ settings' = Upsert(settings, k, form[d].field[k]) /\ Wrote({d}, k)
        /\ form' = [form EXCEPT ![d].todo = @ \ {k}]
    BY PutIsUpsert DEF WriteField
<1>2. form[d].pc = "saving" /\ UNCHANGED <<turns, untouched>>
    BY DEF WriteField
<1>3. form[d] \in Form /\ FormOK(d) /\ untouched[d] \subseteq Keys
    BY <1>2, OpenedForm
<1>4. k \in Keys /\ k \in Sent(d) /\ form[d].field[k] \in Field /\ form[d].field[k] # Blank /\ form[d].field[k] = Raw(d, k)
    BY <1>1, <1>2, <1>3 DEF Form, FormOK, Sent
<1>5. form[d].field[k] \in Texts
    <2>1. CASE k \in Secrets
        <3>1. form[d].field[k] # Mask
            BY <1>4, <2>1 DEF Sent
        <3> QED BY <1>4, <3>1 DEF Texts, Field
    <2>2. CASE k \notin Secrets
        BY <1>2, <1>3, <1>4, <2>2 DEF FormOK
    <2> QED BY <2>1, <2>2
<1> DEFINE rest == [form[d] EXCEPT !.todo = form[d].todo \ {k}]
<1>6. form' = [form EXCEPT ![d] = rest]
    BY <1>1 DEF FormsInv, SettingsTypeOK
<1>7. /\ rest \in Form /\ rest.pc = "saving" /\ rest.before = form[d].before /\ rest.field = form[d].field
      /\ rest.todo = form[d].todo \ {k}
    BY <1>2, <1>3 DEF Form
<1> HIDE DEF rest
<1>8. /\ form'[d] = rest /\ disturbed'[d] = disturbed[d]
      /\ \A e \in Desks \ {d} : form'[e] = form[e] /\ disturbed'[e] = disturbed[e] \cup {k}
    BY <1>1, <1>6 DEF FormsInv, SettingsTypeOK, Wrote
<1>9. \A j : j # k => InForce(j)' = InForce(j)
    BY <1>1, OthersInForce
<1>10. RowsOK'
    BY <1>1, <1>4, <1>5 DEF Upsert, FormsInv, RowsOK
<1>11. SettingsTypeOK'
    <2>1. settings' \in [DOMAIN settings' -> Field] /\ DOMAIN settings' \subseteq Keys
        BY <1>10 DEF RowsOK, Texts, Field
    <2>2. disturbed' \in [Desks -> SUBSET Keys]
        BY <1>1, <1>4 DEF FormsInv, SettingsTypeOK, Wrote
    <2>3. form' \in [Desks -> Form \cup {NoForm}]
        BY <1>6, <1>7 DEF FormsInv, SettingsTypeOK
    <2> QED BY <1>2, <2>1, <2>2, <2>3 DEF FormsInv, SettingsTypeOK
<1>12. k \in untouched[d] => k \notin Secrets /\ InForce(k)' \in KeptField(form[d].before[k])
    <2> SUFFICES ASSUME k \in untouched[d] PROVE k \notin Secrets /\ InForce(k)' \in KeptField(form[d].before[k])
        OBVIOUS
    <2>1. k \notin Secrets /\ form[d].field[k] \in KeptField(form[d].before[k])
        BY <1>2, <1>3, <1>4 DEF FormOK, Sent
    <2>2. k \in DOMAIN settings' /\ settings'[k] = form[d].field[k]
        BY <1>1 DEF Upsert
    <2> QED BY <2>1, <2>2 DEF InForce, Effective
<1>13. FormOK(d)'
    <2>1. Sent(d)' = Sent(d) /\ \A j \in Keys : Raw(d, j)' = Raw(d, j)
        BY <1>7, <1>8 DEF Sent, Raw
    <2> QED BY <1>2, <1>3, <1>7, <1>8, <1>9, <1>12, <2>1 DEF FormOK, KeptField
<1>14. ASSUME NEW e \in Desks, e # d PROVE FormOK(e)'
    <2>1. form'[e] = form[e] /\ disturbed'[e] = disturbed[e] \cup {k} /\ untouched'[e] = untouched[e]
        BY <1>2, <1>8, <1>14
    <2> QED BY <1>9, <2>1 DEF FormsInv, FormOK, Sent, Raw
<1> QED BY <1>10, <1>11, <1>13, <1>14 DEF FormsInv

LEMMA SettingsStep == ASSUME FormsInv, SettingsNext PROVE FormsInv'
<1>1. PICK d \in Desks :
        \/ OpenForm(d) \/ Save(d) \/ WriteField(d) \/ Saved(d)
        \/ \E k \in Keys : Reset(d, k)
        \/ \E k \in Keys, v \in Values : Quick(d, k, v)
        \/ \E k \in Keys, v \in Texts : Type(d, k, v)
    BY DEF SettingsNext, Texts
<1>2. CASE \E k \in Keys : Reset(d, k)
    <2>1. PICK k \in Keys : Reset(d, k)
        BY <1>2
    <2>2. settings' = [j \in DOMAIN settings \ {k} |-> settings[j]] /\ UNCHANGED <<form, untouched>>
        BY <2>1 DEF Reset
    <2>3. disturbed' = [e \in Desks |-> disturbed[e] \cup {k}]
        BY <2>1 DEF Reset, Wrote
    <2>4. turns' \in 0 .. Patience
        BY <2>1, TurnType DEF Reset
    <2> QED BY <2>2, <2>3, <2>4, ForeignWrite
<1>3. CASE \E k \in Keys, v \in Values : Quick(d, k, v)
    <2>1. PICK k \in Keys, v \in Values : Quick(d, k, v)
        BY <1>3
    <2>2. settings' = Upsert(settings, k, v) /\ UNCHANGED <<form, untouched>> /\ v \in Texts
        BY <2>1, PutIsUpsert DEF Quick, Texts
    <2>3. disturbed' = [e \in Desks |-> disturbed[e] \cup {k}]
        BY <2>1 DEF Quick, Wrote
    <2>4. turns' \in 0 .. Patience
        BY <2>1, TurnType DEF Quick
    <2> QED BY <2>2, <2>3, <2>4, ForeignWrite
<1> QED BY <1>1, <1>2, <1>3, OpenFormStep, SaveStep, WriteFieldStep, SavedStep, TypedStep

-----------------------------------------------------------------------------
(* The import.  A page that is open lists all the custom code of its file   *)
(* or none of it; an import knows what its dry run saw and has confirmed    *)
(* what it will take; while it is alone, the tables of the sections it has  *)
(* not come to are as they were.                                            *)

PageInv ==
    page # Nothing => /\ \A e \in page.file : Fits(e)
                      /\ page.listed \in {{}, Custom(page.file)}
                      /\ page.single => \A e \in page.file : e.section = "adapters"

IsJob(j) ==
    j = [file |-> j.file, stage |-> j.stage, todo |-> j.todo, existing |-> j.existing, known |-> j.known,
         half |-> j.half, results |-> j.results, asked |-> j.asked, expect |-> j.expect, dev |-> j.dev,
         before |-> j.before, alone |-> j.alone]

JobInv(j) ==
    /\ IsJob(j) /\ j.stage \in 1 .. 4 /\ j.dev \in BOOLEAN
    /\ \A e \in j.file : Fits(e)
    /\ j.todo \subseteq Of(j.file, Sections[j.stage])
    /\ j.half # Nothing => j.half \in j.todo /\ j.half.section = "adapters" /\ Takes(j.half, j.dev)
    /\ j.results \subseteq Result
    /\ j.expect = DryRun(j.before, j.file, j.dev)
    /\ \A e \in Of(j.file, "adapters") : Takes(e, j.dev) => e.key \in j.asked \/ e.key \notin DOMAIN j.before.adapters

\* What the administrator has ticked covers the code the import will store.
ReviewedInv(j, ticked) ==
    \A e \in Of(j.file, "adapters") : Takes(e, j.dev) /\ e.body \in Code => <<e.key, e.body>> \in ticked

\* The policies an adapter may name without a warning are the old ones and those taken.
Coherent(file) == {e.key : e \in {x \in Of(file, "policies") : x.body # Incoherent}}
KnownInv(j) ==
    /\ j.stage = 2 => j.known = DOMAIN j.before.policies \cup Coherent(j.file \ j.todo)
    /\ j.stage > 2 => j.known = DOMAIN j.before.policies \cup Coherent(j.file)

Promised(j, r) ==
    \/ r \in j.expect
    \/ r.section = "policies" /\ r.key \in Refused(j.file)
    \/ \E e \in Of(j.file, "adapters") : e.key = r.key /\ e.policy \in Refused(j.file)

\* Tables t under the import j.
TablesInv(j, t) ==
    /\ j.stage < 2 => t.policies = j.before.policies
    /\ j.stage < 3 => t.sources = j.before.sources
    /\ j.stage < 4 => t.adapters = j.before.adapters
    /\ DOMAIN j.before.policies \subseteq DOMAIN t.policies
    /\ \A k \in Secrets : k \in DOMAIN t.settings =>
          k \in DOMAIN j.before.settings /\ t.settings[k] = j.before.settings[k]
    /\ \A s \in DOMAIN j.before.adapters :
          s \in DOMAIN t.adapters /\ (t.adapters[s] = j.before.adapters[s] \/ s \in j.asked)

AloneInv(j, t) ==
    j.alone => /\ TablesInv(j, t) /\ KnownInv(j)
               /\ j.existing = DOMAIN j.before[Sections[j.stage]]
               /\ \A r \in j.results : Promised(j, r)

ImportInv == /\ TransferTypeOK /\ PageInv /\ stored \subseteq reviewed
             /\ job # Nothing => JobInv(job) /\ ReviewedInv(job, reviewed) /\ AloneInv(job, Tables)

LEMMA SectionNames ==
    /\ ToSet(Sections) = {"settings", "policies", "sources", "adapters"}
    /\ Sections[1] = "settings" /\ Sections[2] = "policies" /\ Sections[3] = "sources" /\ Sections[4] = "adapters"
<1>1. DOMAIN Sections = 1 .. 4
    BY DEF Sections
<1>2. Sections[1] = "settings" /\ Sections[2] = "policies" /\ Sections[3] = "sources" /\ Sections[4] = "adapters"
    BY DEF Sections
<1>3. ToSet(Sections) = {Sections[i] : i \in 1 .. 4}
    BY <1>1 DEF ToSet
<1>4. \A i \in 1 .. 4 : i = 1 \/ i = 2 \/ i = 3 \/ i = 4
    OBVIOUS
<1>5. ASSUME NEW x PROVE x \in {Sections[i] : i \in 1 .. 4} <=> x \in {Sections[1], Sections[2], Sections[3], Sections[4]}
    BY <1>4
<1> QED BY <1>2, <1>3, <1>5

\* What a dry run says of a record does not depend on the tables if it is skipped.
LEMMA VerdictType ==
    ASSUME NEW e, Fits(e), NEW ok \in BOOLEAN, NEW existing, NEW known
    PROVE  /\ Verdict(e, ok, existing, known) \in Result
           /\ Verdict(e, ok, existing, known).section = e.section /\ Verdict(e, ok, existing, known).key = e.key
<1>1. e.section \in ToSet(Sections) /\ e.key \in Keys \cup {Unknown} \cup PolicyNames \cup Feeds
    BY DEF Fits
<1> DEFINE act  == IF ~ok THEN "skipped" ELSE IF e.key \in existing THEN "updated" ELSE "created"
           warn == ok /\ e.section = "adapters" /\ e.policy \notin known \cup {DefaultPolicy, Nothing}
<1>2. act \in {"created", "updated", "skipped"} /\ warn \in BOOLEAN
    OBVIOUS
<1>3. Verdict(e, ok, existing, known) = [section |-> e.section, key |-> e.key, action |-> act, warned |-> warn]
    BY DEF Verdict
<1> HIDE DEF act, warn
<1> QED BY <1>1, <1>2, <1>3 DEF Result

LEMMA AcceptsType == ASSUME NEW e, Fits(e), NEW dev \in BOOLEAN PROVE Accepts(e, dev) \in BOOLEAN
BY SectionNames DEF Fits, Accepts

LEMMA AcceptsBySection ==
    ASSUME NEW e, NEW dev
    PROVE  /\ e.section = "settings" => (Accepts(e, dev) <=> e.key \notin Secrets \cup {Unknown} /\ e.body # Misfit)
           /\ e.section = "policies" => Accepts(e, dev)
           /\ e.section = "adapters" => (Accepts(e, dev) <=> e.body \in Bodies /\ (e.body \in Code => dev))
BY DEF Accepts

LEMMA DryRunType ==
    ASSUME NEW file, \A e \in file : Fits(e), NEW dev \in BOOLEAN, NEW t PROVE DryRun(t, file, dev) \subseteq Result
<1>1. ASSUME NEW e \in file PROVE Verdict(e, Accepts(e, dev), DOMAIN t[e.section], KnownInDryRun(t, file)) \in Result
    BY AcceptsType, VerdictType
<1> QED BY <1>1 DEF DryRun

LEMMA CustomType ==
    ASSUME NEW file, \A e \in file : Fits(e) PROVE Custom(file) \subseteq Feeds \X Code
BY DEF Custom, Of, Fits

\* The writes of a record, table by table.
IsTables(t) == t = [settings |-> t.settings, policies |-> t.policies, sources |-> t.sources, adapters |-> t.adapters]

LEMMA RowWritten ==
    ASSUME NEW t, IsTables(t), NEW e, e.section \in ToSet(Sections), NEW u, u = WithRow(t, e)
    PROVE  /\ IsTables(u)
           /\ u.settings = IF e.section = "settings" THEN Upsert(t.settings, e.key, e.body) ELSE t.settings
           /\ u.policies = IF e.section = "policies" THEN Upsert(t.policies, e.key, e.body) ELSE t.policies
           /\ u.sources  = IF e.section = "sources" THEN Upsert(t.sources, e.key, e.body) ELSE t.sources
           /\ u.adapters = IF e.section = "adapters"
                           THEN Upsert(t.adapters, e.key, [body |-> e.body, policy |-> e.policy]) ELSE t.adapters
<1>1. CASE e.section = "adapters"
    <2>1. u = [t EXCEPT !.adapters = Upsert(t.adapters, e.key, [body |-> e.body, policy |-> e.policy])]
        BY <1>1 DEF WithRow
    <2> QED BY <1>1, <2>1 DEF IsTables
<1>2. CASE e.section = "settings"
    <2>1. u = [t EXCEPT !.settings = Upsert(t.settings, e.key, e.body)]
        BY <1>2 DEF WithRow
    <2> QED BY <1>2, <2>1 DEF IsTables
<1>3. CASE e.section = "policies"
    <2>1. u = [t EXCEPT !.policies = Upsert(t.policies, e.key, e.body)]
        BY <1>3 DEF WithRow
    <2> QED BY <1>3, <2>1 DEF IsTables
<1>4. CASE e.section = "sources"
    <2>1. u = [t EXCEPT !.sources = Upsert(t.sources, e.key, e.body)]
        BY <1>4 DEF WithRow
    <2> QED BY <1>4, <2>1 DEF IsTables
<1> QED BY <1>1, <1>2, <1>3, <1>4, SectionNames

LEMMA DisplayWritten ==
    ASSUME NEW t, IsTables(t), NEW e, NEW u, u = WithDisplay(t, e)
    PROVE  /\ IsTables(u) /\ u.settings = t.settings /\ u.policies = t.policies /\ u.adapters = t.adapters
           /\ u.sources = t.sources \/ u.sources = Upsert(t.sources, e.key, e.display)
BY DEF WithDisplay, IsTables

TablesOK(t) ==
    /\ DOMAIN t.policies \subseteq PolicyNames /\ DOMAIN t.sources \subseteq Feeds
    /\ DOMAIN t.adapters \subseteq Feeds /\ \A s \in DOMAIN t.adapters : t.adapters[s].body \in Bodies

LEMMA RowType ==
    ASSUME NEW t, IsTables(t), TablesOK(t), NEW e, Fits(e), NEW dev, Accepts(e, dev), NEW u, u = WithRow(t, e)
    PROVE  TablesOK(u)
<1> DEFINE row == [body |-> e.body, policy |-> e.policy]
<1>0. e.section \in ToSet(Sections)
    BY DEF Fits
<1>1. /\ u.policies = IF e.section = "policies" THEN Upsert(t.policies, e.key, e.body) ELSE t.policies
      /\ u.sources  = IF e.section = "sources" THEN Upsert(t.sources, e.key, e.body) ELSE t.sources
      /\ u.adapters = IF e.section = "adapters" THEN Upsert(t.adapters, e.key, row) ELSE t.adapters
    BY <1>0, RowWritten
<1>2. row.body = e.body
    OBVIOUS
<1> HIDE DEF row
<1>3. /\ e.section = "policies" => e.key \in PolicyNames
      /\ e.section \in {"sources", "adapters"} => e.key \in Feeds
      /\ e.section = "adapters" => e.body \in Bodies
    BY AcceptsBySection DEF Fits
<1>4. DOMAIN u.policies \subseteq PolicyNames
    <2>1. CASE e.section = "policies"
        <3>1. u.policies = Upsert(t.policies, e.key, e.body)
            BY <1>1, <2>1
        <3>2. DOMAIN u.policies = DOMAIN t.policies \cup {e.key}
            BY <3>1 DEF Upsert
        <3> QED BY <1>3, <2>1, <3>2 DEF TablesOK
    <2> QED BY <1>1, <2>1 DEF TablesOK
<1>5. DOMAIN u.sources \subseteq Feeds
    <2>1. CASE e.section = "sources"
        <3>1. u.sources = Upsert(t.sources, e.key, e.body)
            BY <1>1, <2>1
        <3>2. DOMAIN u.sources = DOMAIN t.sources \cup {e.key}
            BY <3>1 DEF Upsert
        <3> QED BY <1>3, <2>1, <3>2 DEF TablesOK
    <2> QED BY <1>1, <2>1 DEF TablesOK
<1>6. DOMAIN u.adapters \subseteq Feeds /\ \A s \in DOMAIN u.adapters : u.adapters[s].body \in Bodies
    <2>1. CASE e.section = "adapters"
        <3>1. /\ DOMAIN u.adapters = DOMAIN t.adapters \cup {e.key} /\ u.adapters[e.key] = row
              /\ \A s \in DOMAIN t.adapters \ {e.key} : u.adapters[s] = t.adapters[s]
            <4>1. u.adapters = Upsert(t.adapters, e.key, row)
                BY <1>1, <2>1
            <4> QED BY <4>1 DEF Upsert
        <3> QED BY <1>2, <1>3, <2>1, <3>1 DEF TablesOK
    <2> QED BY <1>1, <2>1 DEF TablesOK
<1> QED BY <1>4, <1>5, <1>6 DEF TablesOK

LEMMA DisplayType ==
    ASSUME NEW t, IsTables(t), TablesOK(t), NEW e, Fits(e), e.section = "adapters", NEW u, u = WithDisplay(t, e)
    PROVE  TablesOK(u)
<1>1. e.key \in Feeds
    BY DEF Fits
<1>2. /\ u.policies = t.policies /\ u.adapters = t.adapters
      /\ u.sources = t.sources \/ u.sources = Upsert(t.sources, e.key, e.display)
    BY DisplayWritten, ZenonT(30)
<1>3. DOMAIN u.sources \subseteq Feeds
    <2>1. CASE u.sources = t.sources
        BY <2>1 DEF TablesOK
    <2>2. CASE u.sources = Upsert(t.sources, e.key, e.display)
        <3>1. DOMAIN u.sources = DOMAIN t.sources \cup {e.key}
            BY <2>2 DEF Upsert
        <3> QED BY <1>1, <3>1 DEF TablesOK
    <2> QED BY <1>2, <2>1, <2>2
<1> QED BY <1>2, <1>3 DEF TablesOK

\* The record in hand is of the file and of the section the import is in.
LEMMA InHand ==
    ASSUME NEW j, JobInv(j), NEW e \in j.todo
    PROVE  e \in j.file /\ e.section = Sections[j.stage] /\ Fits(e) /\ e \in Of(j.file, e.section)
BY DEF JobInv, Of

LEMMA StageOf ==
    ASSUME NEW j, JobInv(j), NEW e \in j.todo
    PROVE  /\ (e.section = "settings" <=> j.stage = 1) /\ (e.section = "policies" <=> j.stage = 2)
           /\ (e.section = "sources" <=> j.stage = 3) /\ (e.section = "adapters" <=> j.stage = 4)
<1>1. j.stage = 1 \/ j.stage = 2 \/ j.stage = 3 \/ j.stage = 4
    BY DEF JobInv
<1> QED BY <1>1, InHand, SectionNames

\* A record that the import takes leaves the tables of the later sections alone, deletes
\* nothing, touches no secret and replaces only what was asked.
LEMMA RowUnasked ==
    ASSUME NEW j, JobInv(j), NEW t, IsTables(t), TablesInv(j, t), NEW e \in j.todo, Takes(e, j.dev),
           NEW u, u = WithRow(t, e)
    PROVE  TablesInv(j, u)
<1> DEFINE row == [body |-> e.body, policy |-> e.policy]
<1>0. e \in j.file /\ Fits(e) /\ e \in Of(j.file, e.section) /\ e.section \in ToSet(Sections)
    BY InHand DEF Fits
<1>1. /\ u.settings = IF e.section = "settings" THEN Upsert(t.settings, e.key, e.body) ELSE t.settings
      /\ u.policies = IF e.section = "policies" THEN Upsert(t.policies, e.key, e.body) ELSE t.policies
      /\ u.sources  = IF e.section = "sources" THEN Upsert(t.sources, e.key, e.body) ELSE t.sources
      /\ u.adapters = IF e.section = "adapters" THEN Upsert(t.adapters, e.key, row) ELSE t.adapters
    BY <1>0, RowWritten
<1> HIDE DEF row
<1>2. /\ j.stage \in 1 .. 4
      /\ (e.section = "policies" => j.stage = 2) /\ (e.section = "sources" => j.stage = 3)
      /\ (e.section = "adapters" => j.stage = 4)
    BY StageOf DEF JobInv
<1>3. /\ j.stage < 2 => u.policies = j.before.policies
      /\ j.stage < 3 => u.sources = j.before.sources
      /\ j.stage < 4 => u.adapters = j.before.adapters
    BY <1>1, <1>2 DEF TablesInv
<1>4. DOMAIN j.before.policies \subseteq DOMAIN u.policies
    <2>1. CASE e.section = "policies"
        <3>1. u.policies = Upsert(t.policies, e.key, e.body)
            BY <1>1, <2>1
        <3>2. DOMAIN u.policies = DOMAIN t.policies \cup {e.key}
            BY <3>1 DEF Upsert
        <3> QED BY <3>2 DEF TablesInv
    <2> QED BY <1>1, <2>1 DEF TablesInv
<1>5. ASSUME NEW k \in Secrets, k \in DOMAIN u.settings
      PROVE  k \in DOMAIN j.before.settings /\ u.settings[k] = j.before.settings[k]
    <2>1. CASE e.section = "settings"
        <3>1. e.key # k
            BY <2>1, AcceptsBySection DEF Takes
        <3>2. k \in DOMAIN t.settings /\ u.settings[k] = t.settings[k]
            <4>1. u.settings = Upsert(t.settings, e.key, e.body)
                BY <1>1, <2>1
            <4>2. /\ DOMAIN u.settings = DOMAIN t.settings \cup {e.key}
                  /\ \A i \in DOMAIN t.settings \ {e.key} : u.settings[i] = t.settings[i]
                BY <4>1 DEF Upsert
            <4> QED BY <1>5, <3>1, <4>2
        <3> QED BY <3>2 DEF TablesInv
    <2> QED BY <1>1, <1>5, <2>1 DEF TablesInv
<1>6. ASSUME NEW s \in DOMAIN j.before.adapters
      PROVE  s \in DOMAIN u.adapters /\ (u.adapters[s] = j.before.adapters[s] \/ s \in j.asked)
    <2>1. s \in DOMAIN t.adapters /\ (t.adapters[s] = j.before.adapters[s] \/ s \in j.asked)
        BY <1>6 DEF TablesInv
    <2>2. CASE e.section = "adapters"
        <3>1. e.key \in j.asked \/ e.key \notin DOMAIN j.before.adapters
            BY <1>0, <2>2 DEF JobInv
        <3>2. s \in DOMAIN u.adapters /\ (s # e.key => u.adapters[s] = t.adapters[s])
            <4>1. u.adapters = Upsert(t.adapters, e.key, row)
                BY <1>1, <2>2
            <4>2. /\ DOMAIN u.adapters = DOMAIN t.adapters \cup {e.key}
                  /\ \A i \in DOMAIN t.adapters \ {e.key} : u.adapters[i] = t.adapters[i]
                BY <4>1 DEF Upsert
            <4> QED BY <2>1, <4>2
        <3> QED BY <1>6, <2>1, <3>1, <3>2
    <2> QED BY <1>1, <2>1, <2>2
<1> QED BY <1>3, <1>4, <1>5, <1>6 DEF TablesInv

LEMMA DisplayUnasked ==
    ASSUME NEW j, JobInv(j), NEW t, IsTables(t), TablesInv(j, t), j.half # Nothing,
           NEW u, u = WithDisplay(t, j.half)
    PROVE  TablesInv(j, u)
<1>1. j.stage = 4
    BY StageOf DEF JobInv
<1>2. u.settings = t.settings /\ u.policies = t.policies /\ u.adapters = t.adapters
    BY DisplayWritten
<1> QED BY <1>1, <1>2 DEF TablesInv

\* The row of a settings record is one a form could have written.
LEMMA SettingFits ==
    ASSUME NEW e, Fits(e), NEW dev, Accepts(e, dev), e.section = "settings" PROVE e.key \in Keys /\ e.body \in Texts
BY AcceptsBySection DEF Fits, Texts

-----------------------------------------------------------------------------
(* The steps of an import, as what becomes of its job.                      *)

\* The record is done with; `ok` says whether its writes were made.
FinishedJob(j, e, ok) ==
    [j EXCEPT !.todo = @ \ {e}, !.half = Nothing,
              !.known = IF ok /\ e.section = "policies" THEN @ \cup {e.key} ELSE @,
              !.results = @ \cup {Verdict(e, ok, j.existing, j.known)}]

SameJob(j, k) ==
    /\ IsJob(k) /\ k.file = j.file /\ k.stage = j.stage /\ k.existing = j.existing /\ k.asked = j.asked
    /\ k.expect = j.expect /\ k.dev = j.dev /\ k.before = j.before /\ k.alone = j.alone

Worked(j, k, e, ok) ==
    /\ k.todo = j.todo \ {e} /\ k.half = Nothing
    /\ k.known = IF ok /\ e.section = "policies" THEN j.known \cup {e.key} ELSE j.known
    /\ k.results = j.results \cup {Verdict(e, ok, j.existing, j.known)}

LEMMA FinishedFields ==
    ASSUME NEW j, JobInv(j), NEW e, NEW ok \in BOOLEAN, NEW k, k = FinishedJob(j, e, ok)
    PROVE  SameJob(j, k) /\ Worked(j, k, e, ok)
<1> DEFINE known == IF ok /\ e.section = "policies" THEN j.known \cup {e.key} ELSE j.known
           results == j.results \cup {Verdict(e, ok, j.existing, j.known)}
           todo == j.todo \ {e}
<1>1. k = [j EXCEPT !.todo = todo, !.half = Nothing, !.known = known, !.results = results]
    BY DEF FinishedJob
<1> HIDE DEF known, results, todo
<1>2. SameJob(j, k) /\ k.todo = todo /\ k.half = Nothing /\ k.known = known /\ k.results = results
    BY <1>1 DEF IsJob, JobInv, SameJob
<1> QED BY <1>2 DEF known, results, todo, Worked

LEMMA FinishedIsJob ==
    ASSUME NEW j, JobInv(j), NEW e \in j.todo, NEW ok \in BOOLEAN, NEW k, k = FinishedJob(j, e, ok)
    PROVE  JobInv(k)
<1>1. /\ IsJob(k) /\ k.file = j.file /\ k.stage = j.stage /\ k.asked = j.asked
      /\ k.expect = j.expect /\ k.dev = j.dev /\ k.before = j.before
      /\ k.todo = j.todo \ {e} /\ k.half = Nothing
      /\ k.results = j.results \cup {Verdict(e, ok, j.existing, j.known)}
    <2>1. SameJob(j, k) /\ Worked(j, k, e, ok)
        BY FinishedFields
    <2> QED BY <2>1 DEF SameJob, Worked
<1>2. Verdict(e, ok, j.existing, j.known) \in Result
    BY InHand, VerdictType
<1>3. k.results \subseteq Result /\ k.todo \subseteq Of(k.file, Sections[k.stage])
    BY <1>1, <1>2 DEF JobInv
<1> QED BY <1>1, <1>3 DEF JobInv

\* The result of a record is the one the dry run gave, when nobody interfered.
LEMMA ResultIsPromised ==
    ASSUME NEW j, JobInv(j), KnownInv(j), j.existing = DOMAIN j.before[Sections[j.stage]], NEW e \in j.todo,
           NEW ok \in BOOLEAN, ok <=> Takes(e, j.dev)
    PROVE  Promised(j, Verdict(e, ok, j.existing, j.known))
<1> DEFINE r == Verdict(e, ok, j.existing, j.known)
           said == Verdict(e, Accepts(e, j.dev), DOMAIN j.before[e.section], KnownInDryRun(j.before, j.file))
<1>1. e \in j.file /\ e.section = Sections[j.stage] /\ Fits(e) /\ e \in Of(j.file, e.section)
    BY InHand
<1>2. said \in j.expect
    BY <1>1 DEF JobInv, DryRun
<1>3. r.section = e.section /\ r.key = e.key
    BY <1>1, VerdictType
<1>4. Accepts(e, j.dev) \in BOOLEAN
    BY <1>1, AcceptsType DEF JobInv
<1>5. CASE ~ok
    <2>1. CASE Accepts(e, j.dev)
        <3>1. e.section = "policies" /\ e.body = Incoherent
            BY <1>5, <2>1 DEF Takes
        <3>2. e.key \in Refused(j.file)
            BY <1>1, <3>1 DEF Refused
        <3> QED BY <1>3, <3>1, <3>2 DEF Promised
    <2>2. CASE ~Accepts(e, j.dev)
        <3>1. ok = FALSE /\ Accepts(e, j.dev) = FALSE
            BY <1>4, <1>5, <2>2
        <3>2. r = said
            BY <3>1 DEF Verdict
        <3> QED BY <1>2, <3>2 DEF Promised
    <2> QED BY <2>1, <2>2
<1>6. CASE ok
    <2>1. ok = TRUE /\ Accepts(e, j.dev) = TRUE
        BY <1>4, <1>6 DEF Takes
    <2>2. j.existing = DOMAIN j.before[e.section]
        BY <1>1
    <2>3. CASE e.section # "adapters"
        <3>1. r = said
            BY <2>1, <2>2, <2>3 DEF Verdict
        <3> QED BY <1>2, <3>1 DEF Promised
    <2>4. CASE e.section = "adapters"
        <3>1. j.stage = 4
            BY <2>4, StageOf
        <3>2. CASE e.policy \in Refused(j.file)
            BY <1>1, <1>3, <2>4, <3>2 DEF Promised
        <3>3. CASE e.policy \notin Refused(j.file)
            <4>1. e.policy \in j.known <=> e.policy \in KnownInDryRun(j.before, j.file)
                BY <3>1, <3>3 DEF KnownInv, Coherent, KnownInDryRun, Refused, Of
            <4>2. (e.policy \notin j.known \cup {DefaultPolicy, Nothing})
                    = (e.policy \notin KnownInDryRun(j.before, j.file) \cup {DefaultPolicy, Nothing})
                BY <4>1
            <4>3. r = said
                BY <2>1, <2>2, <4>2 DEF Verdict
            <4> QED BY <1>2, <4>3 DEF Promised
        <3> QED BY <3>2, <3>3
    <2> QED BY <2>3, <2>4
<1> QED BY <1>5, <1>6

LEMMA FinishedIsKnown ==
    ASSUME NEW j, JobInv(j), KnownInv(j), NEW e \in j.todo, NEW ok \in BOOLEAN, ok <=> Takes(e, j.dev),
           NEW k, k = FinishedJob(j, e, ok)
    PROVE  KnownInv(k)
<1>1. /\ k.file = j.file /\ k.stage = j.stage /\ k.before = j.before /\ k.todo = j.todo \ {e}
      /\ k.known = IF ok /\ e.section = "policies" THEN j.known \cup {e.key} ELSE j.known
    <2>1. SameJob(j, k) /\ Worked(j, k, e, ok)
        BY FinishedFields
    <2> QED BY <2>1 DEF SameJob, Worked
<1>2. e \in j.file /\ j.stage \in 1 .. 4
    BY InHand DEF JobInv
<1>3. CASE j.stage = 2
    <2>1. e.section = "policies" /\ (ok <=> e.body # Incoherent)
        <3>1. e.section = "policies"
            BY <1>3, StageOf
        <3> QED BY <3>1, AcceptsBySection DEF Takes
    <2>2. e \in Of(j.file, "policies")
        BY <1>2, <2>1 DEF Of
    <2>3. Coherent(j.file \ (j.todo \ {e})) = Coherent(j.file \ j.todo) \cup (IF ok THEN {e.key} ELSE {})
        <3>1. Of(j.file \ (j.todo \ {e}), "policies") = Of(j.file \ j.todo, "policies") \cup {e}
            BY <1>2, <2>1 DEF Of
        <3> QED BY <2>1, <3>1 DEF Coherent
    <2>4. k.known = j.known \cup (IF ok THEN {e.key} ELSE {})
        BY <1>1, <2>1
    <2> QED BY <1>1, <1>3, <2>3, <2>4 DEF KnownInv
<1>4. CASE j.stage # 2
    <2>1. e.section # "policies"
        BY <1>4, StageOf
    <2> QED BY <1>1, <1>4, <2>1 DEF KnownInv
<1> QED BY <1>3, <1>4

LEMMA FinishedIsAlone ==
    ASSUME NEW j, JobInv(j), NEW e \in j.todo, NEW ok \in BOOLEAN, ok <=> Takes(e, j.dev),
           NEW t, AloneInv(j, t), NEW u, j.alone => TablesInv(j, u), NEW k, k = FinishedJob(j, e, ok)
    PROVE  AloneInv(k, u)
<1> SUFFICES ASSUME k.alone PROVE AloneInv(k, u)
    BY DEF AloneInv
<1>1. /\ k.file = j.file /\ k.stage = j.stage /\ k.existing = j.existing /\ k.asked = j.asked
      /\ k.expect = j.expect /\ k.before = j.before /\ k.alone = j.alone
      /\ k.results = j.results \cup {Verdict(e, ok, j.existing, j.known)}
    <2>1. SameJob(j, k) /\ Worked(j, k, e, ok)
        BY FinishedFields
    <2> QED BY <2>1 DEF SameJob, Worked
<1>2. TablesInv(k, u)
    BY <1>1 DEF TablesInv
<1>3. KnownInv(k)
    BY <1>1, FinishedIsKnown DEF AloneInv
<1>4. k.existing = DOMAIN k.before[Sections[k.stage]]
    BY <1>1 DEF AloneInv
<1>5. Promised(j, Verdict(e, ok, j.existing, j.known))
    BY <1>1, ResultIsPromised DEF AloneInv
<1>6. \A r \in k.results : Promised(k, r)
    BY <1>1, <1>5 DEF AloneInv, Promised
<1> QED BY <1>2, <1>3, <1>4, <1>6 DEF AloneInv

\* An adapter's row is written, its display name is not.
LEMMA HalfIsJob ==
    ASSUME NEW j, JobInv(j), NEW e \in j.todo, Takes(e, j.dev), e.section = "adapters",
           NEW t, AloneInv(j, t), NEW u, j.alone => TablesInv(j, u), NEW k, k = [j EXCEPT !.half = e]
    PROVE  JobInv(k) /\ SameJob(j, k) /\ AloneInv(k, u)
<1>1. /\ SameJob(j, k) /\ k.todo = j.todo /\ k.half = e /\ k.known = j.known /\ k.results = j.results
    BY DEF IsJob, JobInv, SameJob
<1>2. JobInv(k)
    BY <1>1 DEF JobInv, SameJob
<1>3. TablesInv(j, u) => TablesInv(k, u)
    BY <1>1 DEF TablesInv, SameJob
<1>4. KnownInv(j) => KnownInv(k)
    BY <1>1 DEF KnownInv, SameJob
<1>5. AloneInv(k, u)
    BY <1>1, <1>3, <1>4 DEF AloneInv, Promised, SameJob
<1> QED BY <1>1, <1>2, <1>5

\* A failure skips the record; from then on the import is not what its dry run saw.
LEMMA FailedIsJob ==
    ASSUME NEW j, JobInv(j), NEW e \in j.todo, NEW k,
           k = [j EXCEPT !.todo = j.todo \ {e}, !.half = Nothing, !.alone = FALSE,
                         !.results = j.results \cup {Verdict(e, FALSE, {}, {})}]
    PROVE  JobInv(k) /\ ~k.alone /\ k.file = j.file /\ k.dev = j.dev
<1> DEFINE todo == j.todo \ {e}
           results == j.results \cup {Verdict(e, FALSE, {}, {})}
<1>1. k = [j EXCEPT !.todo = todo, !.half = Nothing, !.alone = FALSE, !.results = results]
    OBVIOUS
<1>2. results \subseteq Result
    <2>1. \A ok \in BOOLEAN : Verdict(e, ok, {}, {}) \in Result
        BY InHand, VerdictType
    <2>2. Verdict(e, FALSE, {}, {}) \in Result
        BY <2>1
    <2> QED BY <2>2 DEF JobInv
<1>3. todo \subseteq Of(j.file, Sections[j.stage])
    BY DEF JobInv
<1> HIDE DEF todo, results
<1>4. /\ IsJob(k) /\ k.file = j.file /\ k.stage = j.stage /\ k.asked = j.asked
      /\ k.expect = j.expect /\ k.dev = j.dev /\ k.before = j.before /\ k.alone = FALSE
      /\ k.todo = todo /\ k.half = Nothing /\ k.results = results
    BY <1>1 DEF IsJob, JobInv
<1> QED BY <1>2, <1>3, <1>4 DEF JobInv

LEMMA DisturbedIsJob ==
    ASSUME NEW j, JobInv(j), NEW k, k = [j EXCEPT !.alone = FALSE]
    PROVE  JobInv(k) /\ ~k.alone /\ k.file = j.file /\ k.dev = j.dev
<1>1. /\ IsJob(k) /\ k.file = j.file /\ k.stage = j.stage /\ k.asked = j.asked /\ k.half = j.half
      /\ k.expect = j.expect /\ k.dev = j.dev /\ k.before = j.before /\ k.alone = FALSE
      /\ k.todo = j.todo /\ k.results = j.results
    BY DEF IsJob, JobInv
<1> QED BY <1>1 DEF JobInv

\* The next section: its rows are listed when nothing has written them yet.
NextJob(j, t, s) ==
    [j EXCEPT !.stage = @ + 1, !.todo = Of(j.file, s), !.existing = DOMAIN t[s],
              !.known = IF s = "policies" THEN DOMAIN t.policies ELSE @]

LEMMA NextIsJob ==
    ASSUME NEW j, JobInv(j), j.todo = {}, j.stage < 4, NEW t, AloneInv(j, t),
           NEW s, s = Sections[j.stage + 1], NEW k, k = NextJob(j, t, s)
    PROVE  JobInv(k) /\ AloneInv(k, t) /\ k.file = j.file /\ k.dev = j.dev
<1> DEFINE stage == j.stage + 1
           todo == Of(j.file, s)
           existing == DOMAIN t[s]
           known == IF s = "policies" THEN DOMAIN t.policies ELSE j.known
<1>1. k = [j EXCEPT !.stage = stage, !.todo = todo, !.existing = existing, !.known = known]
    BY DEF NextJob
<1>2. j.half = Nothing /\ j.stage \in 1 .. 3 /\ stage \in 1 .. 4 /\ stage = j.stage + 1 /\ s = Sections[stage]
    BY DEF JobInv
<1> HIDE DEF stage, todo, existing, known
<1>3. /\ IsJob(k) /\ k.file = j.file /\ k.stage = stage /\ k.asked = j.asked /\ k.half = j.half
      /\ k.expect = j.expect /\ k.dev = j.dev /\ k.before = j.before /\ k.alone = j.alone
      /\ k.todo = todo /\ k.results = j.results /\ k.existing = existing /\ k.known = known
    BY <1>1 DEF IsJob, JobInv
<1>4. JobInv(k)
    BY <1>2, <1>3 DEF JobInv, todo
<1>5. ASSUME k.alone PROVE TablesInv(k, t) /\ KnownInv(k) /\ k.existing = DOMAIN k.before[Sections[k.stage]]
    <2>1. TablesInv(j, t) /\ KnownInv(j)
        BY <1>3, <1>5 DEF AloneInv
    <2>2. TablesInv(k, t)
        BY <1>2, <1>3, <2>1 DEF TablesInv
    <2>3. CASE j.stage = 1
        <3>1. s = "policies" /\ stage = 2
            BY <1>2, <2>3, SectionNames
        <3>2. t.policies = j.before.policies
            BY <2>1, <2>3 DEF TablesInv
        <3>3. Coherent(j.file \ todo) = {}
            BY <3>1 DEF Coherent, Of, todo
        <3>4. k.known = DOMAIN k.before.policies \cup Coherent(k.file \ k.todo)
            BY <1>3, <3>1, <3>2, <3>3 DEF known
        <3>5. k.existing = DOMAIN k.before[Sections[k.stage]]
            BY <1>2, <1>3, <3>1, <3>2 DEF existing
        <3> QED BY <1>3, <2>2, <3>1, <3>4, <3>5 DEF KnownInv
    <2>4. CASE j.stage = 2
        <3>1. s = "sources" /\ stage = 3
            BY <1>2, <2>4, SectionNames
        <3>2. t.sources = j.before.sources
            BY <2>1, <2>4 DEF TablesInv
        <3>3. j.file \ j.todo = j.file
            OBVIOUS
        <3>4. k.known = DOMAIN k.before.policies \cup Coherent(k.file)
            BY <1>3, <2>1, <2>4, <3>1, <3>3 DEF known, KnownInv
        <3>5. k.existing = DOMAIN k.before[Sections[k.stage]]
            BY <1>2, <1>3, <3>1, <3>2 DEF existing
        <3> QED BY <1>3, <2>2, <3>1, <3>4, <3>5 DEF KnownInv
    <2>5. CASE j.stage = 3
        <3>1. s = "adapters" /\ stage = 4
            BY <1>2, <2>5, SectionNames
        <3>2. t.adapters = j.before.adapters
            BY <2>1, <2>5 DEF TablesInv
        <3>4. k.known = DOMAIN k.before.policies \cup Coherent(k.file)
            BY <1>3, <2>1, <2>5, <3>1 DEF known, KnownInv
        <3>5. k.existing = DOMAIN k.before[Sections[k.stage]]
            BY <1>2, <1>3, <3>1, <3>2 DEF existing
        <3> QED BY <1>3, <2>2, <3>1, <3>4, <3>5 DEF KnownInv
    <2> QED BY <1>2, <2>3, <2>4, <2>5
<1>6. AloneInv(k, t)
    BY <1>3, <1>5 DEF AloneInv, Promised
<1> QED BY <1>3, <1>4, <1>6

\* An import starts with what its dry run has just seen.
LEMMA StartIsJob ==
    ASSUME devTools \in BOOLEAN, NEW file, \A e \in file : Fits(e),
           NEW first \in {1, 4}, first = 4 => \A e \in file : e.section = "adapters",
           NEW asked, Start(file, first, asked),
           \A e \in Of(file, "adapters") : Takes(e, devTools) => e.key \in asked \/ e.key \notin DOMAIN adapter
    PROVE  JobInv(job') /\ AloneInv(job', Tables) /\ job'.file = file /\ job'.dev = devTools
<1>1. /\ IsJob(job') /\ job'.file = file /\ job'.stage = first /\ job'.asked = asked /\ job'.half = Nothing
      /\ job'.expect = DryRun(Tables, file, devTools) /\ job'.dev = devTools /\ job'.before = Tables
      /\ job'.todo = Of(file, Sections[first]) /\ job'.results = {}
      /\ job'.existing = DOMAIN Tables[Sections[first]] /\ job'.known = DOMAIN policy
    BY DEF Start, IsJob
<1>2. Tables.adapters = adapter /\ Tables.policies = policy
    BY DEF Tables
<1>3. JobInv(job')
    BY <1>1, <1>2 DEF JobInv
<1>4. TablesInv(job', Tables)
    BY <1>1 DEF TablesInv
<1>5. KnownInv(job')
    <2>1. CASE first = 1
        BY <1>1, <2>1 DEF KnownInv
    <2>2. CASE first = 4
        <3>1. Coherent(file) = {}
            BY <2>2 DEF Coherent, Of
        <3> QED BY <1>1, <1>2, <2>2, <3>1 DEF KnownInv
    <2> QED BY <2>1, <2>2
<1>6. AloneInv(job', Tables)
    BY <1>1, <1>4, <1>5 DEF AloneInv
<1> QED BY <1>1, <1>3, <1>6

-----------------------------------------------------------------------------
(* Every step.                                                              *)

\* What a step that does not touch the page has to show.
LEMMA Together ==
    ASSUME ImportInv, TablesOK(Tables'), devTools' \in BOOLEAN, troubles' \in 0 .. Troubles,
           stored' \subseteq reviewed', UNCHANGED <<page, reviewed>>,
           job' # Nothing => JobInv(job') /\ ReviewedInv(job', reviewed) /\ AloneInv(job', Tables')
    PROVE  ImportInv'
<1>1. job' # Nothing => job'.stage \in 1 .. 4 /\ job'.todo \subseteq job'.file /\ job'.results \subseteq Result
    BY DEF JobInv, Of
<1>2. reviewed' \subseteq Feeds \X Code
    BY DEF ImportInv, TransferTypeOK
<1>3. PageInv' /\ (page' # Nothing => page'.summary \subseteq Result)
    BY DEF ImportInv, TransferTypeOK, PageInv
<1>4. /\ DOMAIN policy' \subseteq PolicyNames /\ DOMAIN source' \subseteq Feeds
      /\ DOMAIN adapter' \subseteq Feeds /\ \A s \in DOMAIN adapter' : adapter'[s].body \in Bodies
    BY DEF TablesOK, Tables
<1>5. TransferTypeOK'
    BY <1>1, <1>2, <1>3, <1>4 DEF TransferTypeOK
<1> QED BY <1>3, <1>5 DEF ImportInv

LEMMA TheTables ==
    /\ Tables.settings = settings /\ Tables.policies = policy /\ Tables.sources = source /\ Tables.adapters = adapter
    /\ IsTables(Tables)
BY DEF Tables, IsTables

LEMMA TablesType == ASSUME TransferTypeOK PROVE TablesOK(Tables)
BY TheTables DEF TransferTypeOK, TablesOK

\* Writing the four tables makes them the record that was written.
LEMMA BecomesTables == ASSUME NEW t, IsTables(t), Becomes(t) PROVE Tables' = t
BY DEF Becomes, Tables, IsTables

LEMMA ImportRecordStep ==
    ASSUME ImportInv, FormsInv, job # Nothing, NEW e \in job.todo, ImportRecord(e) PROVE ImportInv' /\ FormsInv'
<1>1. JobInv(job) /\ ReviewedInv(job, reviewed) /\ AloneInv(job, Tables) /\ stored \subseteq reviewed
    BY DEF ImportInv
<1>2. UNCHANGED <<form, turns, untouched, devTools, page, troubles, reviewed>>
    BY DEF ImportRecord
<1>3. e \in job.file /\ Fits(e) /\ e \in Of(job.file, e.section) /\ e.section \in ToSet(Sections)
    BY <1>1, InHand DEF Fits
<1>4. TablesOK(Tables) /\ IsTables(Tables) /\ devTools \in BOOLEAN /\ troubles \in 0 .. Troubles
    BY TablesType, TheTables DEF ImportInv, TransferTypeOK
<1>5. turns' \in 0 .. Patience
    BY <1>2 DEF FormsInv, SettingsTypeOK
<1>6. CASE ~Takes(e, job.dev)
    <2>1. Finish(e, FALSE, Tables) /\ UNCHANGED <<stored, disturbed>>
        BY <1>6 DEF ImportRecord
    <2>2. Tables' = Tables /\ settings' = settings
        BY <1>4, <2>1, BecomesTables, TheTables DEF Finish, Becomes
    <2>3. job' = FinishedJob(job, e, FALSE)
        BY <2>1 DEF Finish, FinishedJob
    <2>4. \E ok \in BOOLEAN : (ok <=> Takes(e, job.dev)) /\ job' = FinishedJob(job, e, ok)
        BY <1>6, <2>3
    <2>5. PICK ok \in BOOLEAN : (ok <=> Takes(e, job.dev)) /\ job' = FinishedJob(job, e, ok)
        BY <2>4
    <2>6. job.alone => TablesInv(job, Tables)
        BY <1>1 DEF AloneInv
    <2>7. JobInv(job') /\ AloneInv(job', Tables)
        BY <1>1, <2>5, <2>6, FinishedIsJob, FinishedIsAlone
    <2>8. SameJob(job, job')
        BY <1>1, <2>5, FinishedFields
    <2>9. ReviewedInv(job', reviewed)
        BY <1>1, <2>8 DEF ReviewedInv, SameJob
    <2>10. FormsInv'
        BY <1>2, <1>5, <2>1, <2>2, FormsKept
    <2> QED BY <1>1, <1>2, <1>4, <2>1, <2>2, <2>7, <2>9, <2>10, Together
<1>7. CASE Takes(e, job.dev)
    <2> DEFINE t == WithRow(Tables, e)
    <2>1. /\ \/ e.section = "adapters" /\ Becomes(t) /\ job' = [job EXCEPT !.half = e]
             \/ Finish(e, TRUE, t)
          /\ stored' = IF e.section = "adapters" /\ e.body \in Code
                       THEN stored \cup {<<e.key, e.body>>} ELSE stored
          /\ Seen(e)
        BY <1>7 DEF ImportRecord
    <2>2. /\ IsTables(t)
          /\ t.settings = IF e.section = "settings" THEN Upsert(settings, e.key, e.body) ELSE settings
        <3>1. t = WithRow(Tables, e)
            OBVIOUS
        <3> HIDE DEF t
        <3>2. /\ IsTables(t)
              /\ t.settings = IF e.section = "settings" THEN Upsert(Tables.settings, e.key, e.body) ELSE Tables.settings
            BY <1>3, <1>4, <3>1, RowWritten
        <3> QED BY <3>2, TheTables
    <2>3. Becomes(t)
        BY <2>1 DEF Finish
    <2>4. Accepts(e, job.dev)
        BY <1>7 DEF Takes
    <2>5. TablesOK(t)
        BY <1>3, <1>4, <2>4, RowType
    <2>6. job.alone => TablesInv(job, t)
        BY <1>1, <1>4, <1>7, RowUnasked DEF AloneInv
    <2> HIDE DEF t
    <2>7. Tables' = t /\ settings' = t.settings
        BY <2>2, <2>3, BecomesTables DEF Becomes
    <2>8. JobInv(job') /\ SameJob(job, job') /\ AloneInv(job', t)
        <3>1. CASE e.section = "adapters" /\ job' = [job EXCEPT !.half = e]
            BY <1>1, <1>7, <2>6, <3>1, HalfIsJob
        <3>2. CASE Finish(e, TRUE, t)
            <4>1. job' = FinishedJob(job, e, TRUE)
                BY <3>2 DEF Finish, FinishedJob
            <4>2. \E ok \in BOOLEAN : (ok <=> Takes(e, job.dev)) /\ job' = FinishedJob(job, e, ok)
                BY <1>7, <4>1
            <4>3. PICK ok \in BOOLEAN : (ok <=> Takes(e, job.dev)) /\ job' = FinishedJob(job, e, ok)
                BY <4>2
            <4>4. JobInv(job') /\ AloneInv(job', t)
                BY <1>1, <2>6, <4>3, FinishedIsJob, FinishedIsAlone
            <4>5. SameJob(job, job')
                BY <1>1, <4>3, FinishedFields
            <4> QED BY <4>4, <4>5
        <3> QED BY <2>1, <3>1, <3>2
    <2>9. ReviewedInv(job', reviewed)
        BY <1>1, <2>8 DEF ReviewedInv, SameJob
    <2>10. stored' \subseteq reviewed
        <3>1. CASE e.section = "adapters" /\ e.body \in Code
            <4>1. <<e.key, e.body>> \in reviewed
                BY <1>1, <1>3, <1>7, <3>1 DEF ReviewedInv
            <4> QED BY <1>1, <2>1, <3>1, <4>1
        <3> QED BY <1>1, <2>1, <3>1
    <2>11. FormsInv'
        <3>1. CASE e.section = "settings"
            <4>1. e.key \in Keys /\ e.body \in Texts
                BY <1>3, <2>4, <3>1, SettingFits
            <4>2. settings' = Upsert(settings, e.key, e.body)
                BY <2>2, <2>7, <3>1
            <4>3. disturbed' = [d \in Desks |-> disturbed[d] \cup {e.key}]
                BY <2>1, <3>1 DEF Seen
            <4> QED BY <1>2, <1>5, <4>1, <4>2, <4>3, ForeignWrite
        <3>2. CASE e.section # "settings"
            <4>1. settings' = settings
                BY <2>2, <2>7, <3>2
            <4>2. disturbed' = disturbed
                BY <2>1, <3>2 DEF Seen, FormsInv, SettingsTypeOK
            <4> QED BY <1>2, <1>5, <4>1, <4>2, FormsKept
        <3> QED BY <3>1, <3>2
    <2> QED BY <1>2, <1>4, <2>5, <2>7, <2>8, <2>9, <2>10, <2>11, Together
<1> QED BY <1>6, <1>7

LEMMA ImportDisplayStep == ASSUME ImportInv, FormsInv, ImportDisplay PROVE ImportInv' /\ FormsInv'
<1> DEFINE e == job.half
           t == WithDisplay(Tables, e)
<1>1. JobInv(job) /\ ReviewedInv(job, reviewed) /\ AloneInv(job, Tables) /\ stored \subseteq reviewed
    BY DEF ImportInv, ImportDisplay
<1>2. /\ UNCHANGED <<form, turns, untouched, disturbed, devTools, page, troubles, stored, reviewed>>
      /\ job # Nothing /\ e # Nothing /\ Becomes(t) /\ job' = FinishedJob(job, e, TRUE)
    BY DEF ImportDisplay, Finish, FinishedJob
<1>3. e \in job.todo /\ e.section = "adapters" /\ Takes(e, job.dev)
    BY <1>1, <1>2 DEF JobInv
<1>4. Fits(e)
    BY <1>1, <1>3, InHand
<1>5. TablesOK(Tables) /\ IsTables(Tables) /\ devTools \in BOOLEAN /\ troubles \in 0 .. Troubles
    BY TablesType, TheTables DEF ImportInv, TransferTypeOK
<1>6. \E ok \in BOOLEAN : (ok <=> Takes(e, job.dev)) /\ job' = FinishedJob(job, e, ok)
    BY <1>2, <1>3
<1>7. PICK ok \in BOOLEAN : (ok <=> Takes(e, job.dev)) /\ job' = FinishedJob(job, e, ok)
    BY <1>6
<1>8. IsTables(t) /\ t.settings = Tables.settings
    BY <1>5, DisplayWritten
<1>9. TablesOK(t)
    BY <1>3, <1>4, <1>5, DisplayType
<1>10. job.alone => TablesInv(job, t)
    BY <1>1, <1>2, <1>5, DisplayUnasked DEF AloneInv
<1> HIDE DEF t, e
<1>11. Tables' = t /\ settings' = settings
    BY <1>2, <1>8, BecomesTables, TheTables DEF Becomes
<1>12. JobInv(job') /\ AloneInv(job', t)
    BY <1>1, <1>3, <1>7, <1>10, FinishedIsJob, FinishedIsAlone
<1>13. SameJob(job, job')
    BY <1>1, <1>7, FinishedFields
<1>14. ReviewedInv(job', reviewed)
    BY <1>1, <1>13 DEF ReviewedInv, SameJob
<1>15. turns' \in 0 .. Patience
    BY <1>2 DEF FormsInv, SettingsTypeOK
<1>16. FormsInv'
    BY <1>2, <1>11, <1>15, FormsKept
<1> QED BY <1>1, <1>2, <1>5, <1>9, <1>11, <1>12, <1>14, <1>16, Together

\* A step that leaves the tables, but may fail the import or go on to the next section.
LEMMA ImportFailsStep == ASSUME ImportInv, FormsInv, ImportFails PROVE ImportInv' /\ FormsInv'
<1>1. /\ JobInv(job) /\ ReviewedInv(job, reviewed) /\ stored \subseteq reviewed /\ troubles' \in 0 .. Troubles
      /\ UNCHANGED <<settingsVars, policy, source, adapter, devTools, page, stored, reviewed>>
    BY TroublesAssumption DEF ImportInv, ImportFails, TransferTypeOK
<1>2. PICK e \in job.todo :
        job' = [job EXCEPT !.todo = @ \ {e}, !.half = Nothing, !.alone = FALSE,
                           !.results = @ \cup {Verdict(e, FALSE, {}, {})}]
    BY DEF ImportFails
<1>3. JobInv(job') /\ ~job'.alone /\ job'.file = job.file /\ job'.dev = job.dev
    BY <1>1, <1>2, FailedIsJob
<1>4. ReviewedInv(job', reviewed) /\ AloneInv(job', Tables')
    BY <1>1, <1>3 DEF ReviewedInv, AloneInv
<1>5. TablesOK(Tables) /\ devTools \in BOOLEAN /\ turns \in 0 .. Patience
    BY TablesType DEF ImportInv, TransferTypeOK, FormsInv, SettingsTypeOK
<1>6. Tables' = Tables
    BY <1>1 DEF Tables, settingsVars
<1>7. FormsInv'
    BY <1>1, <1>5, FormsKept DEF settingsVars
<1> QED BY <1>1, <1>3, <1>4, <1>5, <1>6, <1>7, Together

LEMMA NextSectionStep == ASSUME ImportInv, FormsInv, NextSection PROVE ImportInv' /\ FormsInv'
<1>1. /\ JobInv(job) /\ ReviewedInv(job, reviewed) /\ AloneInv(job, Tables) /\ stored \subseteq reviewed
      /\ UNCHANGED <<settingsVars, policy, source, adapter, devTools, page, troubles, stored, reviewed>>
      /\ job.todo = {} /\ job.stage < 4
    BY DEF ImportInv, NextSection
<1>2. job' = NextJob(job, Tables, Sections[job.stage + 1])
    BY TheTables DEF NextSection, NextJob
<1>3. JobInv(job') /\ AloneInv(job', Tables) /\ job'.file = job.file /\ job'.dev = job.dev
    BY <1>1, <1>2, NextIsJob
<1>4. ReviewedInv(job', reviewed)
    BY <1>1, <1>3 DEF ReviewedInv
<1>5. TablesOK(Tables) /\ devTools \in BOOLEAN /\ troubles \in 0 .. Troubles /\ turns \in 0 .. Patience
    BY TablesType DEF ImportInv, TransferTypeOK, FormsInv, SettingsTypeOK
<1>6. Tables' = Tables
    BY <1>1 DEF Tables, settingsVars
<1>7. FormsInv'
    BY <1>1, <1>5, FormsKept DEF settingsVars
<1> QED BY <1>1, <1>3, <1>4, <1>5, <1>6, <1>7, Together

\* The import is over, or the ui dies in the middle of it.
LEMMA NoJobStep ==
    ASSUME ImportInv, FormsInv, job' = Nothing, troubles' \in 0 .. Troubles,
           UNCHANGED <<settingsVars, policy, source, adapter, devTools, page, stored, reviewed>>
    PROVE  ImportInv' /\ FormsInv'
<1>1. TablesOK(Tables) /\ devTools \in BOOLEAN /\ turns \in 0 .. Patience /\ stored \subseteq reviewed
    BY TablesType DEF ImportInv, TransferTypeOK, FormsInv, SettingsTypeOK
<1>2. Tables' = Tables
    BY DEF Tables, settingsVars
<1>3. FormsInv'
    BY <1>1, FormsKept DEF settingsVars
<1> QED BY <1>1, <1>2, <1>3, Together

\* Somebody else changes the tables: the import is not alone any more.
LEMMA MeanwhileStep ==
    ASSUME ImportInv, TablesOK(Tables'), devTools' \in BOOLEAN, UNCHANGED <<page, troubles, stored, reviewed>>,
           Meanwhile \/ (UNCHANGED job /\ Tables' = Tables)
    PROVE  ImportInv'
<1>1. stored \subseteq reviewed /\ troubles \in 0 .. Troubles
    BY DEF ImportInv, TransferTypeOK
<1>2. ASSUME job' # Nothing PROVE JobInv(job') /\ ReviewedInv(job', reviewed) /\ AloneInv(job', Tables')
    <2>1. CASE UNCHANGED job /\ Tables' = Tables
        BY <1>2, <2>1 DEF ImportInv
    <2>2. CASE Meanwhile
        <3>1. job # Nothing /\ job' = [job EXCEPT !.alone = FALSE]
            BY <1>2, <2>2 DEF Meanwhile
        <3>2. JobInv(job) /\ ReviewedInv(job, reviewed)
            BY <3>1 DEF ImportInv
        <3>3. JobInv(job') /\ ~job'.alone /\ job'.file = job.file /\ job'.dev = job.dev
            BY <3>1, <3>2, DisturbedIsJob
        <3> QED BY <3>2, <3>3 DEF ReviewedInv, AloneInv
    <2> QED BY <2>1, <2>2
<1> QED BY <1>1, <1>2, Together

\* A page shows the dry run of its file.
LEMMA PageType ==
    ASSUME devTools \in BOOLEAN, NEW file, \A e \in file : Fits(e), NEW single,
           NEW p, p = Page(file, single)
    PROVE  /\ p.file = file /\ p.single = single /\ p.summary = DryRun(Tables, file, devTools)
           /\ p.summary \subseteq Result
           /\ p.listed = Listed(file, devTools) /\ p.listed \in {{}, Custom(file)}
<1>1. p.file = file /\ p.single = single /\ p.summary = DryRun(Tables, file, devTools) /\ p.listed = Listed(file, devTools)
    BY DEF Page
<1>2. DryRun(Tables, file, devTools) \subseteq Result
    BY DryRunType
<1>3. Listed(file, devTools) \in {{}, Custom(file)}
    <2>1. CASE devTools
        BY <2>1 DEF Listed
    <2>2. CASE ~devTools
        BY <2>2 DEF Listed
    <2> QED BY <2>1, <2>2
<1> QED BY <1>1, <1>2, <1>3

\* What a step at a page has to show: the tables stay as they are.
PageOK(p) == /\ p.summary \subseteq Result /\ \A e \in p.file : Fits(e)
             /\ p.listed \in {{}, Custom(p.file)}
             /\ p.single => \A e \in p.file : e.section = "adapters"

LEMMA AtThePage ==
    ASSUME ImportInv, UNCHANGED <<settings, policy, source, adapter, devTools, troubles, stored>>,
           reviewed \subseteq reviewed', reviewed' \subseteq Feeds \X Code,
           page' # Nothing => PageOK(page'),
           job' # job /\ job' # Nothing => JobInv(job') /\ ReviewedInv(job', reviewed') /\ AloneInv(job', Tables)
    PROVE  ImportInv'
<1>1. Tables' = Tables
    BY DEF Tables
<1>2. PageInv' /\ (page' # Nothing => page'.summary \subseteq Result)
    BY DEF PageInv, PageOK
<1>3. job' # Nothing => JobInv(job') /\ ReviewedInv(job', reviewed') /\ AloneInv(job', Tables')
    <2>1. CASE job' = job
        BY <1>1, <2>1 DEF ImportInv, ReviewedInv
    <2> QED BY <1>1, <2>1
<1>4. job' # Nothing => job'.stage \in 1 .. 4 /\ job'.todo \subseteq job'.file /\ job'.results \subseteq Result
    BY <1>3 DEF JobInv, Of
<1>5. TransferTypeOK'
    BY <1>2, <1>4 DEF ImportInv, TransferTypeOK
<1>6. stored' \subseteq reviewed'
    BY DEF ImportInv
<1> QED BY <1>2, <1>3, <1>5, <1>6 DEF ImportInv

LEMMA UploadStep == ASSUME ImportInv, FormsInv, NEW f \in Files, Upload(f) PROVE ImportInv' /\ FormsInv'
<1>1. /\ page' = Page(f, FALSE) /\ Turn
      /\ UNCHANGED <<settings, form, untouched, disturbed, policy, source, adapter, devTools, job, troubles,
                     stored, reviewed>>
    BY DEF Upload
<1>2. devTools \in BOOLEAN /\ reviewed \subseteq Feeds \X Code /\ \A e \in f : Fits(e)
    BY FilesAssumption DEF ImportInv, TransferTypeOK
<1>3. \E single \in BOOLEAN : ~single /\ page' = Page(f, single)
    BY <1>1
<1>4. PICK single \in BOOLEAN : ~single /\ page' = Page(f, single)
    BY <1>3
<1>5. /\ page'.file = f /\ page'.single = single /\ page'.summary \subseteq Result
      /\ page'.listed \in {{}, Custom(f)}
    BY <1>2, <1>4, PageType
<1>6. ImportInv'
    <2>1. page' # Nothing => PageOK(page')
        BY <1>2, <1>4, <1>5 DEF PageOK
    <2>2. reviewed \subseteq reviewed' /\ reviewed' \subseteq Feeds \X Code
        BY <1>1, <1>2
    <2> QED BY <1>1, <2>1, <2>2, AtThePage
<1>7. FormsInv'
    BY <1>1, TurnType, FormsKept
<1> QED BY <1>6, <1>7

LEMMA UploadOneStep ==
    ASSUME ImportInv, FormsInv, NEW f \in Files, NEW e \in Of(f, "adapters"), UploadOne(e) PROVE ImportInv' /\ FormsInv'
<1>1. /\ page = Nothing /\ job = Nothing /\ Turn
      /\ \/ /\ \A r \in Page({e}, TRUE).summary : r.action = "created"
            /\ e.body \notin Code /\ Start({e}, 4, {}) /\ UNCHANGED page
         \/ page' = Page({e}, TRUE) /\ UNCHANGED job
      /\ UNCHANGED <<settings, form, untouched, disturbed, policy, source, adapter, devTools, troubles,
                     stored, reviewed>>
    BY DEF UploadOne
<1>2. /\ devTools \in BOOLEAN /\ reviewed \subseteq Feeds \X Code
      /\ \A x \in {e} : Fits(x) /\ x.section = "adapters"
    BY FilesAssumption DEF ImportInv, TransferTypeOK, Of
<1>3. PICK p : p = Page({e}, TRUE)
    OBVIOUS
<1>4. p.file = {e} /\ p.summary = DryRun(Tables, {e}, devTools) /\ p.summary \subseteq Result /\ p.listed \in {{}, Custom({e})}
    BY <1>2, <1>3, PageType
<1>5. ASSUME page' = Page({e}, TRUE), UNCHANGED job PROVE ImportInv'
    <2>1. PageOK(p)
        BY <1>2, <1>4 DEF PageOK
    <2>2. page' = p
        BY <1>3, <1>5
    <2>3. page' # Nothing => PageOK(page')
        BY <2>1, <2>2
    <2>4. reviewed \subseteq reviewed' /\ reviewed' \subseteq Feeds \X Code
        BY <1>1, <1>2
    <2> QED BY <1>1, <1>5, <2>3, <2>4, AtThePage
<1>6. ASSUME \A r \in p.summary : r.action = "created",
             e.body \notin Code, Start({e}, 4, {}), UNCHANGED page
      PROVE  ImportInv'
    <2>1. ASSUME Takes(e, devTools) PROVE e.key \notin DOMAIN adapter
        <3> DEFINE v == Verdict(e, Accepts(e, devTools), DOMAIN Tables[e.section], KnownInDryRun(Tables, {e}))
        <3>1. v \in p.summary
            BY <1>4 DEF DryRun
        <3>2. v.action = "created"
            BY <1>6, <3>1
        <3>3. e.key \notin DOMAIN Tables[e.section]
            BY <3>2 DEF Verdict
        <3> QED BY <1>2, <3>3 DEF Tables
    <2>2. \A x \in Of({e}, "adapters") : Takes(x, devTools) => x.key \in {} \/ x.key \notin DOMAIN adapter
        BY <2>1 DEF Of
    <2>3. JobInv(job') /\ AloneInv(job', Tables) /\ job'.file = {e} /\ job'.dev = devTools
        BY <1>2, <1>6, <2>2, StartIsJob
    <2>4. ReviewedInv(job', reviewed')
        BY <1>6, <2>3 DEF ReviewedInv, Of
    <2>5. page' # Nothing => PageOK(page')
        BY <1>1, <1>6
    <2>6. reviewed \subseteq reviewed' /\ reviewed' \subseteq Feeds \X Code
        BY <1>1, <1>2
    <2> QED BY <1>1, <2>3, <2>4, <2>5, <2>6, AtThePage
<1>7. ImportInv'
    BY <1>1, <1>3, <1>5, <1>6
<1>8. FormsInv'
    BY <1>1, TurnType, FormsKept
<1> QED BY <1>7, <1>8

\* A dry run that replaces nothing: what the import takes was not there.
LEMMA NothingReplaced ==
    ASSUME NEW file, NEW e \in Of(file, "adapters"), Takes(e, devTools),
           \/ \A r \in DryRun(Tables, file, devTools) : r.action = "skipped"
           \/ \A r \in DryRun(Tables, file, devTools) : r.action # "updated"
    PROVE  e.key \notin DOMAIN adapter
<1> DEFINE v == Verdict(e, Accepts(e, devTools), DOMAIN Tables[e.section], KnownInDryRun(Tables, file))
<1>1. v \in DryRun(Tables, file, devTools) /\ e.section = "adapters" /\ Accepts(e, devTools)
    BY DEF DryRun, Of, Takes
<1>2. v.action # "skipped" /\ (e.key \in DOMAIN Tables[e.section] => v.action = "updated")
    BY <1>1 DEF Verdict
<1>3. e.key \notin DOMAIN Tables[e.section]
    BY <1>1, <1>2
<1> QED BY <1>1, <1>3 DEF Tables

LEMMA ConfirmStep ==
    ASSUME ImportInv, FormsInv, NEW overwrite \in BOOLEAN, NEW code \in BOOLEAN, Confirm(overwrite, code)
    PROVE  ImportInv' /\ FormsInv'
<1>1. PICK p : p = Page(page.file, page.single)
    OBVIOUS
<1>2. page # Nothing /\ (code => page.listed # {})
    BY DEF Confirm
<1>3. /\ devTools \in BOOLEAN /\ reviewed \subseteq Feeds \X Code /\ \A e \in page.file : Fits(e)
      /\ page.listed \in {{}, Custom(page.file)}
      /\ page.single => \A e \in page.file : e.section = "adapters"
    BY <1>2 DEF ImportInv, TransferTypeOK, PageInv
<1>4. /\ p.file = page.file /\ p.single = page.single /\ p.summary = DryRun(Tables, page.file, devTools)
      /\ p.summary \subseteq Result
      /\ p.listed = Listed(page.file, devTools) /\ p.listed \in {{}, Custom(page.file)}
    BY <1>1, <1>3, PageType
<1>5. /\ reviewed' = (IF code THEN reviewed \cup page.listed ELSE reviewed)
      /\ UNCHANGED <<settingsVars, policy, source, adapter, devTools, troubles, stored>>
    BY DEF Confirm
<1>6. reviewed \subseteq reviewed' /\ reviewed' \subseteq Feeds \X Code
    BY <1>3, <1>5, CustomType
<1>7. ASSUME page' = p, UNCHANGED job PROVE ImportInv'
    <2>1. PageOK(p)
        BY <1>3, <1>4 DEF PageOK
    <2>2. page' # Nothing => PageOK(page')
        BY <1>7, <2>1
    <2>3. UNCHANGED <<settings, policy, source, adapter, devTools, troubles, stored>>
        BY <1>5 DEF settingsVars
    <2> QED BY <1>6, <1>7, <2>2, <2>3, AtThePage
<1>8. ASSUME page' = Nothing, ToReview(p) = {} \/ code,
             overwrite \/ ~(IF p.single THEN \E r \in p.summary : r.action = "updated" ELSE Replaces(p.summary)),
             Start(p.file, IF p.single THEN 4 ELSE 1, IF overwrite THEN {e.key : e \in p.file} ELSE {})
      PROVE  ImportInv'
    <2> DEFINE first == IF p.single THEN 4 ELSE 1
               asked == IF overwrite THEN {e.key : e \in p.file} ELSE {}
    <2>1. first \in {1, 4} /\ (first = 4 => \A e \in page.file : e.section = "adapters")
        BY <1>3, <1>4
    <2>2. ASSUME NEW e \in Of(page.file, "adapters"), Takes(e, devTools)
          PROVE  e.key \in asked \/ e.key \notin DOMAIN adapter
        <3>1. CASE overwrite
            BY <1>4, <3>1 DEF Of
        <3>2. CASE ~overwrite
            <4>1. \/ \A r \in p.summary : r.action = "skipped"
                  \/ \A r \in p.summary : r.action # "updated"
                BY <1>8, <3>2 DEF Replaces
            <4> QED BY <1>4, <2>2, <4>1, NothingReplaced
        <3> QED BY <3>1, <3>2
    <2>3. Start(page.file, first, asked)
        BY <1>4, <1>8
    <2> HIDE DEF first, asked
    <2>4. JobInv(job') /\ AloneInv(job', Tables) /\ job'.file = page.file /\ job'.dev = devTools
        BY <1>3, <2>1, <2>2, <2>3, StartIsJob
    <2>5. ASSUME NEW e \in Of(page.file, "adapters"), Takes(e, devTools), e.body \in Code
          PROVE  <<e.key, e.body>> \in reviewed'
        <3>1. devTools /\ <<e.key, e.body>> \in Custom(page.file)
            <4>1. devTools
                BY <2>5, AcceptsBySection DEF Takes, Of
            <4> QED BY <2>5, <4>1 DEF Custom
        <3>2. <<e.key, e.body>> \in p.listed
            BY <1>4, <3>1 DEF Listed
        <3>3. code
            BY <1>8, <3>2 DEF ToReview
        <3>4. page.listed = Custom(page.file)
            BY <1>2, <1>3, <3>3
        <3> QED BY <1>5, <3>1, <3>3, <3>4
    <2>6. ReviewedInv(job', reviewed')
        BY <2>4, <2>5 DEF ReviewedInv
    <2>7. UNCHANGED <<settings, policy, source, adapter, devTools, troubles, stored>>
        BY <1>5 DEF settingsVars
    <2>8. page' # Nothing => PageOK(page')
        BY <1>8
    <2> QED BY <1>6, <2>4, <2>6, <2>7, <2>8, AtThePage
<1>9. ImportInv'
    BY <1>1, <1>7, <1>8 DEF Confirm
<1>10. FormsInv'
    <2>1. turns' \in 0 .. Patience
        BY <1>5 DEF settingsVars, FormsInv, SettingsTypeOK
    <2> QED BY <1>5, <2>1, FormsKept DEF settingsVars
<1> QED BY <1>9, <1>10

LEMMA CloseTabStep == ASSUME ImportInv, FormsInv, CloseTab PROVE ImportInv' /\ FormsInv'
<1>1. /\ page' = Nothing
      /\ UNCHANGED <<settingsVars, policy, source, adapter, devTools, job, troubles, stored, reviewed>>
    BY DEF CloseTab
<1>2. reviewed \subseteq reviewed' /\ reviewed' \subseteq Feeds \X Code /\ turns' \in 0 .. Patience
    BY <1>1 DEF ImportInv, TransferTypeOK, FormsInv, SettingsTypeOK, settingsVars
<1>3. UNCHANGED <<settings, form, untouched, disturbed, policy, source, adapter, devTools, troubles, stored>>
    BY <1>1 DEF settingsVars
<1>4. ImportInv'
    BY <1>1, <1>2, <1>3, AtThePage
<1> QED BY <1>2, <1>3, <1>4, FormsKept

LEMMA OthersStep == ASSUME ImportInv, FormsInv, Others PROVE ImportInv' /\ FormsInv'
<1>1. /\ SettingsNext /\ UNCHANGED <<policy, source, adapter, devTools, page, troubles, stored, reviewed>>
      /\ Meanwhile \/ (UNCHANGED job /\ settings' = settings)
    BY DEF Others
<1>2. TablesOK(Tables') /\ devTools' \in BOOLEAN
    BY <1>1 DEF Tables, TablesOK, ImportInv, TransferTypeOK
<1>3. settings' = settings => Tables' = Tables
    BY <1>1 DEF Tables
<1>4. ImportInv'
    BY <1>1, <1>2, <1>3, MeanwhileStep
<1>5. FormsInv'
    BY <1>1, SettingsStep
<1> QED BY <1>4, <1>5

LEMMA ElsewhereStep ==
    ASSUME ImportInv, FormsInv,
           \/ \E s \in Feeds, row \in Rows : EditAdapter(s, row)
           \/ \E n \in PolicyNames : DropPolicy(n)
           \/ SwitchDevTools
    PROVE  ImportInv' /\ FormsInv'
<1>1. /\ Turn /\ Meanwhile
      /\ UNCHANGED <<settings, form, untouched, disturbed, source, page, troubles, stored, reviewed>>
    BY DEF EditAdapter, DropPolicy, SwitchDevTools
<1>2. TablesOK(Tables') /\ devTools' \in BOOLEAN
    <2>1. ASSUME NEW s \in Feeds, NEW row \in Rows, EditAdapter(s, row) PROVE TablesOK(Tables') /\ devTools' \in BOOLEAN
        <3>1. adapter' = Upsert(adapter, s, row) /\ row.body \in Bodies /\ UNCHANGED <<policy, source, devTools>>
            BY <2>1 DEF EditAdapter, Rows
        <3>2. /\ DOMAIN adapter' = DOMAIN adapter \cup {s} /\ adapter'[s] = row
              /\ \A i \in DOMAIN adapter \ {s} : adapter'[i] = adapter[i]
            BY <3>1 DEF Upsert
        <3>3. DOMAIN adapter' \subseteq Feeds /\ \A i \in DOMAIN adapter' : adapter'[i].body \in Bodies
            BY <3>1, <3>2 DEF ImportInv, TransferTypeOK
        <3> QED BY <3>1, <3>3 DEF Tables, TablesOK, ImportInv, TransferTypeOK
    <2>2. ASSUME NEW n \in PolicyNames, DropPolicy(n) PROVE TablesOK(Tables') /\ devTools' \in BOOLEAN
        <3>1. DOMAIN policy' \subseteq DOMAIN policy /\ UNCHANGED <<source, adapter, devTools>>
            BY <2>2 DEF DropPolicy
        <3> QED BY <3>1 DEF Tables, TablesOK, ImportInv, TransferTypeOK
    <2>3. CASE SwitchDevTools
        <3>1. devTools' = ~devTools /\ UNCHANGED <<policy, source, adapter>>
            BY <2>3 DEF SwitchDevTools
        <3> QED BY <3>1 DEF Tables, TablesOK, ImportInv, TransferTypeOK
    <2> QED BY <2>1, <2>2, <2>3
<1>3. ImportInv'
    BY <1>1, <1>2, MeanwhileStep
<1>4. FormsInv'
    BY <1>1, TurnType, FormsKept
<1> QED BY <1>3, <1>4

LEMMA TransferStep == ImportInv /\ FormsInv /\ [TransferNext]_allVars => ImportInv' /\ FormsInv'
<1> SUFFICES ASSUME ImportInv, FormsInv, [TransferNext]_allVars PROVE ImportInv' /\ FormsInv'
    OBVIOUS
<1>1. ASSUME NEW f \in Files, Upload(f) PROVE ImportInv' /\ FormsInv'
    BY <1>1, UploadStep
<1>2. ASSUME NEW f \in Files, NEW e \in Of(f, "adapters"), UploadOne(e) PROVE ImportInv' /\ FormsInv'
    BY <1>2, UploadOneStep
<1>3. ASSUME NEW overwrite \in BOOLEAN, NEW code \in BOOLEAN, Confirm(overwrite, code) PROVE ImportInv' /\ FormsInv'
    BY <1>3, ConfirmStep
<1>4. CASE CloseTab
    BY <1>4, CloseTabStep
<1>5. CASE NextSection
    BY <1>5, NextSectionStep
<1>6. CASE ImportDisplay
    BY <1>6, ImportDisplayStep
<1>7. CASE ImportFails
    BY <1>7, ImportFailsStep
<1>8. CASE ImportEnds \/ Crash
    <2>1. /\ job' = Nothing
          /\ UNCHANGED <<settingsVars, policy, source, adapter, devTools, page, stored, reviewed>>
        BY <1>8 DEF ImportEnds, Crash
    <2>2. troubles' \in 0 .. Troubles
        BY <1>8, TroublesAssumption DEF ImportEnds, Crash, ImportInv, TransferTypeOK
    <2> QED BY <2>1, <2>2, NoJobStep
<1>9. ASSUME job # Nothing, NEW e \in job.todo, ImportRecord(e) PROVE ImportInv' /\ FormsInv'
    BY <1>9, ImportRecordStep
<1>10. CASE \/ \E s \in Feeds, row \in Rows : EditAdapter(s, row)
            \/ \E n \in PolicyNames : DropPolicy(n)
            \/ SwitchDevTools
    BY <1>10, ElsewhereStep
<1>11. CASE Others
    BY <1>11, OthersStep
<1>12. CASE UNCHANGED allVars
    <2>1. UNCHANGED <<settings, form, untouched, disturbed, policy, source, adapter, devTools, page, job, troubles,
                      stored, reviewed>> /\ turns' = turns
        BY <1>12 DEF allVars, settingsVars, transferVars
    <2>2. turns' \in 0 .. Patience
        BY <2>1 DEF FormsInv, SettingsTypeOK
    <2>3. Tables' = Tables
        BY <2>1 DEF Tables
    <2>4. ImportInv'
        BY <2>1, <2>3 DEF ImportInv, TransferTypeOK, PageInv
    <2> QED BY <2>1, <2>2, <2>4, FormsKept
<1> QED BY <1>1, <1>2, <1>3, <1>4, <1>5, <1>6, <1>7, <1>8, <1>9, <1>10, <1>11, <1>12 DEF TransferNext

LEMMA TransferStart == TransferInit => ImportInv /\ FormsInv
<1> SUFFICES ASSUME TransferInit PROVE ImportInv /\ FormsInv
    OBVIOUS
<1>1. PICK t \in Installs : /\ SettingsInit({t.settings})
                            /\ policy = t.policies /\ source = t.sources /\ adapter = t.adapters
    BY DEF TransferInit
<1>2. /\ devTools \in BOOLEAN /\ page = Nothing /\ job = Nothing /\ troubles = 0
      /\ stored = {} /\ reviewed = {}
    BY DEF TransferInit
<1>3. /\ settings = t.settings /\ form = [d \in Desks |-> NoForm] /\ turns = 0
      /\ untouched = [d \in Desks |-> {}] /\ disturbed = [d \in Desks |-> {}]
    BY <1>1 DEF SettingsInit
<1>4. /\ DOMAIN t.settings \subseteq Keys /\ t.settings \in [DOMAIN t.settings -> Values \cup {Blank}]
      /\ DOMAIN t.policies \subseteq PolicyNames /\ DOMAIN t.sources \subseteq Feeds
      /\ DOMAIN t.adapters \subseteq Feeds /\ \A s \in DOMAIN t.adapters : t.adapters[s].body \in Bodies
    BY InstallsAssumption
<1>5. TransferTypeOK
    BY <1>1, <1>2, <1>4, TroublesAssumption DEF TransferTypeOK
<1>6. ImportInv
    BY <1>2, <1>5 DEF ImportInv, PageInv
<1>7. RowsOK
    BY <1>3, <1>4 DEF RowsOK, Texts
<1>8. SettingsTypeOK
    <2>1. settings \in [DOMAIN settings -> Field] /\ DOMAIN settings \subseteq Keys
        BY <1>7 DEF RowsOK, Texts, Field
    <2> QED BY <1>3, <2>1, PatienceAssumption DEF SettingsTypeOK
<1>9. \A d \in Desks : FormOK(d)
    BY <1>3 DEF FormOK, NoForm
<1> QED BY <1>6, <1>7, <1>8, <1>9 DEF FormsInv

LEMMA TransferHolds == TransferSpec => [](ImportInv /\ FormsInv)
BY TransferStart, TransferStep, PTL DEF TransferSpec

\* The tables, forms, pages and imports keep their types: a setting in the table is one of
\* the form, a stored policy, source or adapter has a name there is.
THEOREM ConfigurationTypeCorrect == TransferSpec => [](SettingsTypeOK /\ TransferTypeOK)
<1>1. ImportInv /\ FormsInv => SettingsTypeOK /\ TransferTypeOK
    BY DEF ImportInv, FormsInv
<1> QED BY <1>1, TransferHolds, PTL

\* A form that is saved changes what was typed and nothing else, whatever forms, controls
\* and imports write meanwhile: a field nobody touched keeps the value in force, but for the outer
\* blanks of a value that was shown.
THEOREM UntouchedIsKept == TransferSpec => []UntouchedKeepsItsValue
<1>1. FormsInv => UntouchedKeepsItsValue
    <2> SUFFICES ASSUME FormsInv, NEW d \in Desks, form[d].pc = "saving", NEW k \in untouched[d] \ disturbed[d]
                 PROVE  \/ InForce(k) = form[d].before[k]
                        \/ k \notin Secrets /\ InForce(k) = Strip[form[d].before[k]]
        BY DEF UntouchedKeepsItsValue
    <2>1. form[d].pc # "none" /\ FormOK(d)
        BY DEF FormsInv
    <2> QED BY <2>1 DEF FormOK
<1> QED BY <1>1, TransferHolds, PTL

\* What a running import has done so far is what its preview said, and nothing that was not asked.
LEMMA WordKept == ImportInv => PreviewIsKept /\ NothingUnasked
<1> SUFFICES ASSUME ImportInv PROVE PreviewIsKept /\ NothingUnasked
    OBVIOUS
<1>1. stored \subseteq reviewed
    BY DEF ImportInv
<1>2. ASSUME job # Nothing, job.alone PROVE TablesInv(job, Tables) /\ \A r \in job.results : Promised(job, r)
    BY <1>2 DEF ImportInv, AloneInv
<1>3. PreviewIsKept
    BY <1>2 DEF PreviewIsKept, Promised
<1>4. NothingUnasked
    BY <1>1, <1>2, TheTables DEF NothingUnasked, TablesInv
<1> QED BY <1>3, <1>4

-----------------------------------------------------------------------------
(* Importing a set of records at once.  A fold over a finite set is proved  *)
(* about by its least counterexample: if some subset were wrong, one that   *)
(* contains no other wrong one would be, and taking a record out of it      *)
(* makes it right.                                                          *)

\* What one record does to the tables.
Step(e, acc, dev) == IF Takes(e, dev) THEN WithDisplay(WithRow(acc, e), e) ELSE acc
Pick(s) == CHOOSE x \in s : TRUE
Iterates(g, t, S, dev) ==
    g = [s \in SUBSET S |-> IF s = {} THEN t ELSE Step(Pick(s), g[s \ {Pick(s)}], dev)]

\* A set of subsets of a finite set has one that contains no other: induction, as the
\* search for a least counterexample.
LEMMA LeastSubset ==
    ASSUME NEW S, IsFiniteSet(S), NEW T \in SUBSET (SUBSET S), T # {}
    PROVE  \E m \in T : \A u \in T : u \subseteq m => u = m
<1>1. IsWellFoundedOn(StrictSubsetOrdering(S), SUBSET S)
    BY FS_StrictSubsetOrderingWellFounded, FS_FiniteSubsetsOfFinite
<1>2. PICK m \in T : \A u \in T : ~(<<u, m>> \in StrictSubsetOrdering(S))
    BY <1>1, WFMin
<1>3. ASSUME NEW u \in T, u \subseteq m PROVE u = m
    <2>1. u \in SUBSET S /\ m \in SUBSET S
        OBVIOUS
    <2> QED BY <1>2, <1>3, <2>1 DEF StrictSubsetOrdering
<1> QED BY <1>3

LEMMA Picked == ASSUME NEW s, s # {} PROVE Pick(s) \in s
BY DEF Pick

LEMMA IteratesAt ==
    ASSUME NEW g, NEW t, NEW S, NEW dev, Iterates(g, t, S, dev), NEW s \in SUBSET S
    PROVE  g[s] = IF s = {} THEN t ELSE Step(Pick(s), g[s \ {Pick(s)}], dev)
<1>1. g = [u \in SUBSET S |-> IF u = {} THEN t ELSE Step(Pick(u), g[u \ {Pick(u)}], dev)]
    BY DEF Iterates
<1> HIDE DEF Iterates
<1> QED BY <1>1, Zenon

LEMMA IteratesAgree ==
    ASSUME NEW t, NEW dev, NEW D, IsFiniteSet(D), NEW E, D \subseteq E,
           NEW g, Iterates(g, t, D, dev), NEW h, Iterates(h, t, E, dev)
    PROVE  \A s \in SUBSET D : g[s] = h[s]
<1> DEFINE T == {s \in SUBSET D : g[s] # h[s]}
<1> SUFFICES ASSUME T # {} PROVE FALSE
    OBVIOUS
<1>1. PICK m \in T : \A u \in T : u \subseteq m => u = m
    <2>1. T \in SUBSET (SUBSET D)
        OBVIOUS
    <2> HIDE DEF T
    <2> QED BY <2>1, LeastSubset
<1>2. m \in SUBSET D /\ m \in SUBSET E /\ g[m] # h[m]
    BY <1>1
<1>3. m # {}
    BY <1>2, IteratesAt
<1>4. g[m \ {Pick(m)}] = h[m \ {Pick(m)}]
    BY <1>1, <1>2, <1>3, Picked
<1> QED BY <1>2, <1>3, <1>4, IteratesAt

LEMMA IteratesSame ==
    ASSUME NEW t, NEW dev, NEW D, IsFiniteSet(D), NEW E, D \subseteq E,
           NEW g, Iterates(g, t, D, dev), NEW h, Iterates(h, t, E, dev)
    PROVE  g[D] = h[D]
<1>1. \A s \in SUBSET D : g[s] = h[s]
    BY IteratesAgree
<1> QED BY <1>1

LEMMA IteratesExists ==
    ASSUME NEW t, NEW dev, NEW D, IsFiniteSet(D)
    PROVE  \E g : Iterates(g, t, D, dev)
<1> DEFINE T == {s \in SUBSET D : ~ \E g : Iterates(g, t, s, dev)}
<1> SUFFICES ASSUME T # {} PROVE FALSE
    OBVIOUS
<1>1. PICK m \in T : \A u \in T : u \subseteq m => u = m
    <2>1. T \in SUBSET (SUBSET D)
        OBVIOUS
    <2> HIDE DEF T
    <2> QED BY <2>1, LeastSubset
<1> DEFINE G(u) == CHOOSE g : Iterates(g, t, u, dev)
           f == [s \in SUBSET m |-> IF s = {} THEN t
                                    ELSE Step(Pick(s), G(s \ {Pick(s)})[s \ {Pick(s)}], dev)]
<1>2. m \in SUBSET D /\ IsFiniteSet(m)
    BY FS_Subset
<1>3. ASSUME NEW u \in SUBSET m, u # m PROVE Iterates(G(u), t, u, dev)
    <2>1. \E g : Iterates(g, t, u, dev)
        BY <1>1, <1>2, <1>3
    <2> QED BY <2>1
<1> HIDE DEF G
<1>4. ASSUME NEW s \in SUBSET m, s # {}
      PROVE  f[s \ {Pick(s)}] = G(s \ {Pick(s)})[s \ {Pick(s)}]
    <2> DEFINE u == s \ {Pick(s)}
    <2>1. u \in SUBSET m /\ u # m
        BY <1>4, Picked
    <2>2. Iterates(G(u), t, u, dev)
        BY <1>3, <2>1
    <2> HIDE DEF u
    <2>3. CASE u = {}
        BY <2>1, <2>2, <2>3, IteratesAt DEF f, u
    <2>4. CASE u # {}
        <3> DEFINE v == u \ {Pick(u)}
        <3>1. v \in SUBSET m /\ v # m /\ v \subseteq u
            BY <2>1, <2>4, Picked
        <3>2. Iterates(G(v), t, v, dev)
            BY <1>3, <3>1
        <3>3. IsFiniteSet(v)
            BY <1>2, <3>1, FS_Subset
        <3>4. G(v)[v] = G(u)[v]
            <4>1. PICK g, h : g = G(v) /\ h = G(u)
                OBVIOUS
            <4>2. Iterates(g, t, v, dev) /\ Iterates(h, t, u, dev)
                BY <2>2, <3>2, <4>1
            <4> HIDE DEF v
            <4>3. g[v] = h[v]
                BY <3>1, <3>3, <4>2, IteratesSame
            <4> QED BY <4>1, <4>3
        <3>5. G(u)[u] = Step(Pick(u), G(u)[v], dev)
            BY <2>2, <2>4, IteratesAt
        <3>6. f[u] = Step(Pick(u), G(v)[v], dev)
            BY <2>1, <2>4 DEF f
        <3> QED BY <3>4, <3>5, <3>6 DEF u
    <2> QED BY <2>3, <2>4
<1>5. Iterates(f, t, m, dev)
    <2>1. f = [s \in SUBSET m |-> IF s = {} THEN t ELSE Step(Pick(s), f[s \ {Pick(s)}], dev)]
        BY <1>4
    <2> QED BY <2>1 DEF Iterates
<1> QED BY <1>1, <1>5

LEMMA WrittenIsIterated ==
    ASSUME NEW t, NEW S, NEW dev
    PROVE  Written(t, S, dev) = (CHOOSE g : Iterates(g, t, S, dev))[S]
BY DEF Written, FoldSet, MapThenFoldSet, Iterates, Pick, Step

LEMMA WrittenUnfolds ==
    ASSUME NEW t, NEW S, IsFiniteSet(S), NEW dev
    PROVE  Written(t, S, dev) = IF S = {} THEN t
                                ELSE Step(Pick(S), Written(t, S \ {Pick(S)}, dev), dev)
<1> DEFINE v == S \ {Pick(S)}
           g == CHOOSE x : Iterates(x, t, S, dev)
           h == CHOOSE x : Iterates(x, t, v, dev)
<1>1. IsFiniteSet(v) /\ v \subseteq S /\ v \in SUBSET v /\ S \in SUBSET S
    BY FS_Subset
<1>2. Iterates(g, t, S, dev) /\ Iterates(h, t, v, dev)
    BY <1>1, IteratesExists
<1>3. Written(t, S, dev) = g[S] /\ Written(t, v, dev) = h[v]
    BY WrittenIsIterated
<1> HIDE DEF g, h
<1>4. h[v] = g[v]
    <2> HIDE DEF v
    <2> QED BY <1>1, <1>2, IteratesSame
<1>5. g[S] = IF S = {} THEN t ELSE Step(Pick(S), g[v], dev)
    BY <1>1, <1>2, IteratesAt
<1> QED BY <1>3, <1>4, <1>5

-----------------------------------------------------------------------------
(* The rows a section writes: what its records bring, else what was there.  *)
(* They do not depend on the order the records are taken in.                *)

\* A row of a table, if it has one, what a record brings to it and what a section does.
Row(f, k) == IF k \in DOMAIN f THEN {f[k]} ELSE {}
Brings(e, s, dev) ==
    IF ~Takes(e, dev) THEN {}
    ELSE IF e.section = s THEN {IF s = "adapters" THEN [body |-> e.body, policy |-> e.policy] ELSE e.body}
    ELSE IF e.section = "adapters" /\ s = "sources" /\ e.display # Nothing THEN {e.display} ELSE {}
Brought(S, s, k, dev) == UNION {Brings(e, s, dev) : e \in {x \in S : x.key = k}}

Proper(t) == /\ IsTables(t) /\ IsTable(t.settings) /\ IsTable(t.policies)
             /\ IsTable(t.sources) /\ IsTable(t.adapters)
Alike(S) == \A e, d \in S : /\ Fits(e) /\ e.section = d.section /\ (e.key = d.key => e = d)

RowsAre(f, g, S, s, dev) ==
    \A k : Row(f, k) = IF Brought(S, s, k, dev) = {} THEN Row(g, k) ELSE Brought(S, s, k, dev)
Writes(u, t, S, dev) ==
    /\ Proper(u)
    /\ RowsAre(u.settings, t.settings, S, "settings", dev) /\ RowsAre(u.policies, t.policies, S, "policies", dev)
    /\ RowsAre(u.sources, t.sources, S, "sources", dev) /\ RowsAre(u.adapters, t.adapters, S, "adapters", dev)

Updated(f, g, B, k) == \/ B = {} /\ f = g
                       \/ \E v : B = {v} /\ f = Upsert(g, k, v)
StepUpdates(u, t, e, dev) ==
    /\ Updated(u.settings, t.settings, Brings(e, "settings", dev), e.key)
    /\ Updated(u.policies, t.policies, Brings(e, "policies", dev), e.key)
    /\ Updated(u.sources, t.sources, Brings(e, "sources", dev), e.key)
    /\ Updated(u.adapters, t.adapters, Brings(e, "adapters", dev), e.key)

LEMMA UpsertRow ==
    ASSUME NEW f, NEW k, NEW v
    PROVE  /\ IsTable(Upsert(f, k, v))
           /\ \A j : Row(Upsert(f, k, v), j) = IF j = k THEN {v} ELSE Row(f, j)
BY DEF IsTable, Upsert, Row

LEMMA UpdatedRow ==
    ASSUME NEW f, NEW g, NEW k, NEW B, Updated(f, g, B, k), NEW j
    PROVE  Row(f, j) = IF j = k /\ B # {} THEN B ELSE Row(g, j)
BY UpsertRow DEF Updated

LEMMA SameRows ==
    ASSUME NEW f, NEW g, IsTable(f), IsTable(g), \A k : Row(f, k) = Row(g, k)
    PROVE  f = g
<1>1. \A k : k \in DOMAIN f <=> Row(f, k) # {}
    BY DEF Row
<1>2. \A k : k \in DOMAIN g <=> Row(g, k) # {}
    BY DEF Row
<1>3. DOMAIN f = DOMAIN g
    BY <1>1, <1>2
<1>4. ASSUME NEW k \in DOMAIN f PROVE f[k] = g[k]
    <2>1. {f[k]} = {g[k]}
        BY <1>3, <1>4 DEF Row
    <2> QED BY <2>1
<1> QED BY <1>3, <1>4 DEF IsTable

\* What a record writes, table by table.
LEMMA StepRows ==
    ASSUME NEW t, Proper(t), NEW e, Fits(e), NEW dev
    PROVE  Proper(Step(e, t, dev)) /\ StepUpdates(Step(e, t, dev), t, e, dev)
<1> DEFINE u == Step(e, t, dev)
           w == WithRow(t, e)
<1>0. e.section \in ToSet(Sections) /\ (e.section # "adapters" => e.display = Nothing)
    BY DEF Fits
<1>1. CASE ~Takes(e, dev)
    <2>1. u = t
        BY <1>1 DEF Step
    <2>2. \A s : Brings(e, s, dev) = {}
        BY <1>1 DEF Brings
    <2> QED BY <2>1, <2>2 DEF StepUpdates, Updated
<1>2. CASE Takes(e, dev)
    <2>1. u = WithDisplay(w, e)
        BY <1>2 DEF Step
    <2>2. IsTables(t)
        BY DEF Proper
    <2>3. w = WithRow(t, e)
        OBVIOUS
    <2> HIDE DEF u, w
    <2>4. /\ IsTables(w)
          /\ w.settings = IF e.section = "settings" THEN Upsert(t.settings, e.key, e.body) ELSE t.settings
          /\ w.policies = IF e.section = "policies" THEN Upsert(t.policies, e.key, e.body) ELSE t.policies
          /\ w.sources  = IF e.section = "sources" THEN Upsert(t.sources, e.key, e.body) ELSE t.sources
          /\ w.adapters = IF e.section = "adapters"
                          THEN Upsert(t.adapters, e.key, [body |-> e.body, policy |-> e.policy]) ELSE t.adapters
        BY <1>0, <2>2, <2>3, RowWritten
    <2>5. /\ IsTables(u) /\ u.settings = w.settings /\ u.policies = w.policies /\ u.adapters = w.adapters
          /\ u.sources = IF e.display = Nothing THEN w.sources ELSE Upsert(w.sources, e.key, e.display)
        BY <2>1, <2>4 DEF WithDisplay, IsTables
    <2>6. /\ u.settings = IF e.section = "settings" THEN Upsert(t.settings, e.key, e.body) ELSE t.settings
          /\ u.policies = IF e.section = "policies" THEN Upsert(t.policies, e.key, e.body) ELSE t.policies
          /\ u.adapters = IF e.section = "adapters"
                          THEN Upsert(t.adapters, e.key, [body |-> e.body, policy |-> e.policy]) ELSE t.adapters
          /\ u.sources  = IF e.section = "sources" THEN Upsert(t.sources, e.key, e.body)
                          ELSE IF e.section = "adapters" /\ e.display # Nothing
                               THEN Upsert(t.sources, e.key, e.display) ELSE t.sources
        BY <1>0, <2>4, <2>5
    <2>7. Proper(u)
        BY <2>5, <2>6, UpsertRow DEF Proper
    <2>8. /\ Brings(e, "settings", dev) = IF e.section = "settings" THEN {e.body} ELSE {}
          /\ Brings(e, "policies", dev) = IF e.section = "policies" THEN {e.body} ELSE {}
          /\ Brings(e, "adapters", dev) = IF e.section = "adapters"
                                          THEN {[body |-> e.body, policy |-> e.policy]} ELSE {}
          /\ Brings(e, "sources", dev) = IF e.section = "sources" THEN {e.body}
                                         ELSE IF e.section = "adapters" /\ e.display # Nothing THEN {e.display} ELSE {}
        BY <1>2 DEF Brings
    <2>9. /\ Updated(u.settings, t.settings, Brings(e, "settings", dev), e.key)
          /\ Updated(u.policies, t.policies, Brings(e, "policies", dev), e.key)
        BY <2>6, <2>8 DEF Updated
    <2>10. Updated(u.sources, t.sources, Brings(e, "sources", dev), e.key)
        BY <2>6, <2>8 DEF Updated
    <2>11. Updated(u.adapters, t.adapters, Brings(e, "adapters", dev), e.key)
        BY <2>6, <2>8 DEF Updated
    <2> QED BY <2>7, <2>9, <2>10, <2>11 DEF u, StepUpdates
<1> QED BY <1>1, <1>2

\* One more record with a name of its own.
LEMMA BroughtMore ==
    ASSUME NEW S, NEW e, NEW s, NEW k, NEW dev, \A d \in S : d.key # e.key
    PROVE  Brought(S \cup {e}, s, k, dev) = IF k = e.key THEN Brings(e, s, dev) ELSE Brought(S, s, k, dev)
<1>1. CASE k = e.key
    <2>1. {x \in S \cup {e} : x.key = k} = {e}
        BY <1>1
    <2> QED BY <1>1, <2>1 DEF Brought
<1>2. CASE k # e.key
    <2>1. {x \in S \cup {e} : x.key = k} = {x \in S : x.key = k}
        BY <1>2
    <2> QED BY <1>2, <2>1 DEF Brought
<1> QED BY <1>1, <1>2

LEMMA BroughtNothing ==
    ASSUME NEW S, NEW s, NEW k, NEW dev, \A d \in S : d.key # k PROVE Brought(S, s, k, dev) = {}
BY DEF Brought

LEMMA RowsMore ==
    ASSUME NEW S, NEW e, NEW s, NEW dev, \A d \in S : d.key # e.key,
           NEW f, NEW g, NEW h, RowsAre(g, h, S, s, dev),
           Updated(f, g, Brings(e, s, dev), e.key)
    PROVE  RowsAre(f, h, S \cup {e}, s, dev)
<1> SUFFICES ASSUME NEW k
             PROVE  Row(f, k) = IF Brought(S \cup {e}, s, k, dev) = {} THEN Row(h, k)
                                ELSE Brought(S \cup {e}, s, k, dev)
    BY DEF RowsAre
<1>1. Row(g, k) = IF Brought(S, s, k, dev) = {} THEN Row(h, k) ELSE Brought(S, s, k, dev)
    BY DEF RowsAre
<1>2. k = e.key => Brought(S, s, k, dev) = {}
    BY BroughtNothing
<1>3. Row(f, k) = IF k = e.key /\ Brings(e, s, dev) # {} THEN Brings(e, s, dev) ELSE Row(g, k)
    BY UpdatedRow
<1> QED BY <1>1, <1>2, <1>3, BroughtMore

LEMMA WritesMore ==
    ASSUME NEW t, NEW S, NEW e, e \notin S, Alike(S \cup {e}), NEW dev, NEW u, Writes(u, t, S, dev)
    PROVE  Writes(Step(e, u, dev), t, S \cup {e}, dev)
<1>1. Fits(e) /\ \A d \in S : d.key # e.key
    BY DEF Alike
<1>2. Proper(u)
    BY DEF Writes
<1> DEFINE w == Step(e, u, dev)
<1>3. Proper(w) /\ StepUpdates(w, u, e, dev)
    BY <1>1, <1>2, StepRows
<1> HIDE DEF w
<1>4. /\ RowsAre(w.settings, t.settings, S \cup {e}, "settings", dev)
      /\ RowsAre(w.policies, t.policies, S \cup {e}, "policies", dev)
    BY <1>1, <1>3, RowsMore DEF Writes, StepUpdates
<1>5. /\ RowsAre(w.sources, t.sources, S \cup {e}, "sources", dev)
      /\ RowsAre(w.adapters, t.adapters, S \cup {e}, "adapters", dev)
    BY <1>1, <1>3, RowsMore DEF Writes, StepUpdates
<1>6. Writes(w, t, S \cup {e}, dev)
    BY <1>3, <1>4, <1>5 DEF Writes
<1> QED BY <1>6 DEF w

LEMMA WritesNothing == ASSUME NEW t, Proper(t), NEW dev PROVE Writes(t, t, {}, dev)
BY DEF Writes, RowsAre, Brought

\* The rows that are written determine the tables.
LEMMA WritesOnce ==
    ASSUME NEW t, NEW S, NEW dev, NEW u, Writes(u, t, S, dev), NEW w, Writes(w, t, S, dev)
    PROVE  u = w
<1>1. u.settings = w.settings /\ u.policies = w.policies
    BY SameRows DEF Writes, RowsAre, Proper
<1>2. u.sources = w.sources /\ u.adapters = w.adapters
    BY SameRows DEF Writes, RowsAre, Proper
<1> QED BY <1>1, <1>2 DEF Writes, Proper, IsTables

\* So the order in which a section is taken does not matter.
LEMMA WrittenRows ==
    ASSUME NEW t, Proper(t), NEW S, IsFiniteSet(S), Alike(S), NEW dev
    PROVE  Writes(Written(t, S, dev), t, S, dev)
<1> DEFINE T == {s \in SUBSET S : ~Writes(Written(t, s, dev), t, s, dev)}
<1> SUFFICES ASSUME T # {} PROVE FALSE
    OBVIOUS
<1>1. PICK m \in T : \A u \in T : u \subseteq m => u = m
    <2>1. T \in SUBSET (SUBSET S)
        OBVIOUS
    <2> HIDE DEF T
    <2> QED BY <2>1, LeastSubset
<1>2. m \in SUBSET S /\ ~Writes(Written(t, m, dev), t, m, dev) /\ IsFiniteSet(m) /\ Alike(m)
    BY <1>1, FS_Subset DEF Alike
<1>3. m # {}
    BY <1>2, WrittenUnfolds, WritesNothing
<1> DEFINE e == Pick(m)
           v == m \ {e}
<1>4. e \in m /\ m = v \cup {e} /\ e \notin v
    BY <1>3, Picked
<1>5. Writes(Written(t, v, dev), t, v, dev)
    BY <1>1, <1>2, <1>4
<1>6. Written(t, m, dev) = Step(e, Written(t, v, dev), dev)
    BY <1>2, <1>3, WrittenUnfolds
<1> HIDE DEF e, v
<1>7. Writes(Step(e, Written(t, v, dev), dev), t, v \cup {e}, dev)
    BY <1>2, <1>4, <1>5, WritesMore
<1> QED BY <1>2, <1>4, <1>6, <1>7

LEMMA WrittenLast ==
    ASSUME NEW t, Proper(t), NEW S, IsFiniteSet(S), NEW e, e \notin S, Alike(S \cup {e}), NEW dev
    PROVE  Written(t, S \cup {e}, dev) = Step(e, Written(t, S, dev), dev)
<1>1. Alike(S) /\ IsFiniteSet(S \cup {e})
    BY FS_AddElement DEF Alike
<1>2. Writes(Written(t, S, dev), t, S, dev)
    BY <1>1, WrittenRows
<1>3. Writes(Step(e, Written(t, S, dev), dev), t, S \cup {e}, dev)
    BY <1>2, WritesMore
<1>4. Writes(Written(t, S \cup {e}, dev), t, S \cup {e}, dev)
    BY <1>1, WrittenRows
<1> QED BY <1>3, <1>4, WritesOnce

-----------------------------------------------------------------------------
(* An import at once, of one record more.                                   *)

\* The records of a file that is finite and names a record once, section by section.
LEMMA OneSection ==
    ASSUME NEW D, Named(D), \A e \in D : Fits(e), NEW s
    PROVE  IsFiniteSet(Of(D, s)) /\ Alike(Of(D, s))
<1>1. Of(D, s) \subseteq D
    BY DEF Of
<1>2. IsFiniteSet(Of(D, s))
    BY <1>1, FS_Subset DEF Named
<1>3. Alike(Of(D, s))
    BY DEF Alike, Of, Named
<1> QED BY <1>2, <1>3

LEMMA WrittenNothing == ASSUME NEW t, NEW dev PROVE Written(t, {}, dev) = t
BY WrittenUnfolds, FS_EmptySet

LEMMA WrittenProper ==
    ASSUME NEW t, Proper(t), NEW D, Named(D), \A e \in D : Fits(e), NEW s, NEW dev
    PROVE  Proper(Written(t, Of(D, s), dev))
BY OneSection, WrittenRows DEF Writes

LEMMA ImportNothing == ASSUME NEW t, NEW dev PROVE Import(t, {}, dev) = t
<1>1. \A s : Of({}, s) = {}
    BY DEF Of
<1> QED BY <1>1, WrittenNothing DEF Import

\* The record that comes last in its file is the last to be imported.
LEMMA ImportOneMore ==
    ASSUME NEW t, Proper(t), NEW D, NEW e, e \notin D, Named(D \cup {e}), \A d \in D \cup {e} : Fits(d), NEW dev,
           /\ e.section = "settings" => Of(D, "policies") = {}
           /\ e.section \in {"settings", "policies"} => Of(D, "sources") = {}
           /\ e.section \in {"settings", "policies", "sources"} => Of(D, "adapters") = {}
    PROVE  Import(t, D \cup {e}, dev) = Step(e, Import(t, D, dev), dev)
<1> DEFINE E == D \cup {e}
           a1 == Written(t, Of(D, "settings"), dev)
           a2 == Written(a1, Of(D, "policies"), dev)
           a3 == Written(a2, Of(D, "sources"), dev)
           a4 == Written(a3, Of(D, "adapters"), dev)
           b1 == Written(t, Of(E, "settings"), dev)
           b2 == Written(b1, Of(E, "policies"), dev)
           b3 == Written(b2, Of(E, "sources"), dev)
           b4 == Written(b3, Of(E, "adapters"), dev)
<1>1. Import(t, D, dev) = a4 /\ Import(t, E, dev) = b4
    BY DEF Import
<1>2. /\ Of(E, e.section) = Of(D, e.section) \cup {e} /\ e \notin Of(D, e.section)
      /\ \A s : s # e.section => Of(E, s) = Of(D, s)
    BY DEF Of
<1>3. Named(D) /\ \A d \in D : Fits(d)
    BY FS_Subset DEF Named
<1>4. Alike(Of(E, e.section)) /\ IsFiniteSet(Of(D, e.section))
    BY <1>3, OneSection
<1> HIDE DEF E
<1>5. Proper(a1)
    BY <1>3, WrittenProper
<1> HIDE DEF a1
<1>6. Proper(a2)
    BY <1>3, <1>5, WrittenProper
<1> HIDE DEF a2
<1>7. Proper(a3)
    BY <1>3, <1>6, WrittenProper
<1> HIDE DEF a3
<1>8. e.section \in {"settings", "policies", "sources", "adapters"}
    BY SectionNames DEF Fits
<1>9. ASSUME NEW u, Proper(u) PROVE Written(u, Of(E, e.section), dev) = Step(e, Written(u, Of(D, e.section), dev), dev)
    BY <1>2, <1>4, <1>9, WrittenLast
<1>10. CASE e.section = "adapters"
    <2>1. b3 = a3
        BY <1>2, <1>10 DEF a1, a2, a3
    <2> HIDE DEF b3
    <2>2. b4 = Step(e, a4, dev)
        BY <1>7, <1>9, <1>10, <2>1
    <2> QED BY <1>1, <2>2 DEF E
<1>11. CASE e.section = "sources"
    <2>1. b2 = a2
        BY <1>2, <1>11 DEF a1, a2
    <2> HIDE DEF b2
    <2>2. b3 = Step(e, a3, dev)
        BY <1>6, <1>9, <1>11, <2>1 DEF a3
    <2>3. a4 = a3 /\ b4 = b3
        BY <1>2, <1>11, WrittenNothing
    <2> QED BY <1>1, <2>2, <2>3 DEF E
<1>12. CASE e.section = "policies"
    <2>1. b1 = a1
        BY <1>2, <1>12 DEF a1
    <2> HIDE DEF b1
    <2>2. b2 = Step(e, a2, dev)
        BY <1>5, <1>9, <1>12, <2>1 DEF a2
    <2>3. a4 = a2 /\ b4 = b2
        BY <1>2, <1>12, WrittenNothing DEF a3
    <2> QED BY <1>1, <2>2, <2>3 DEF E
<1>13. CASE e.section = "settings"
    <2>1. b1 = Step(e, a1, dev)
        BY <1>9, <1>13 DEF a1
    <2>2. a4 = a1 /\ b4 = b1
        BY <1>2, <1>13, WrittenNothing DEF a2, a3
    <2> QED BY <1>1, <2>1, <2>2 DEF E
<1> QED BY <1>8, <1>10, <1>11, <1>12, <1>13

-----------------------------------------------------------------------------
(* An import that is alone is where importing at once what it has come to   *)
(* would be.  For that, the tables are functions whose rows set_policy and  *)
(* set_source let in, and a file names a record once.                       *)

Kept(t) == Stock(t) /\ IsTable(t.settings)
Whole(j, t) ==
    LET w == Import(j.before, Passed(j), j.dev)
    IN  t = IF j.half = Nothing THEN w ELSE WithRow(w, j.half)
WholeJob(j, t) == Named(j.file) /\ Proper(j.before) /\ (j.alone => Whole(j, t))
AtomicInv == /\ Kept(Tables)
             /\ page # Nothing => Named(page.file)
             /\ job # Nothing => WholeJob(job, Tables)

LEMMA KeptIsProper == ASSUME Kept(Tables) PROVE Proper(Tables)
BY TheTables DEF Kept, Stock, Proper

\* A write that is taken leaves no policy, source or adapter that set_policy and set_source
\* would have refused.
LEMMA RowKept ==
    ASSUME NEW t, IsTables(t), Kept(t), NEW e, Fits(e), NEW dev, Takes(e, dev), NEW u, u = WithRow(t, e)
    PROVE  Kept(u)
<1> DEFINE row == [body |-> e.body, policy |-> e.policy]
<1>1. e.section \in ToSet(Sections)
    BY DEF Fits
<1>2. /\ u.settings = IF e.section = "settings" THEN Upsert(t.settings, e.key, e.body) ELSE t.settings
      /\ u.policies = IF e.section = "policies" THEN Upsert(t.policies, e.key, e.body) ELSE t.policies
      /\ u.sources  = IF e.section = "sources" THEN Upsert(t.sources, e.key, e.body) ELSE t.sources
      /\ u.adapters = IF e.section = "adapters" THEN Upsert(t.adapters, e.key, row) ELSE t.adapters
    BY <1>1, RowWritten
<1>3. /\ e.section = "policies" => e.body # Incoherent
      /\ e.section = "sources" => e.body # Nothing
    BY DEF Takes, Accepts
<1>4. row = [body |-> row.body, policy |-> row.policy]
    OBVIOUS
<1> HIDE DEF row
<1>5. IsTable(u.settings)
    <2>1. CASE e.section = "settings"
        <3>1. u.settings = Upsert(t.settings, e.key, e.body)
            BY <1>2, <2>1
        <3> QED BY <3>1 DEF Upsert, IsTable
    <2> QED BY <1>2, <2>1 DEF Kept
<1>6. IsTable(u.policies) /\ \A n \in DOMAIN u.policies : u.policies[n] # Incoherent
    <2>1. CASE e.section = "policies"
        <3>1. u.policies = Upsert(t.policies, e.key, e.body)
            BY <1>2, <2>1
        <3>2. /\ IsTable(u.policies) /\ DOMAIN u.policies = DOMAIN t.policies \cup {e.key} /\ u.policies[e.key] = e.body
              /\ \A n \in DOMAIN t.policies \ {e.key} : u.policies[n] = t.policies[n]
            BY <3>1 DEF Upsert, IsTable
        <3> QED BY <1>3, <2>1, <3>2 DEF Kept, Stock
    <2> QED BY <1>2, <2>1 DEF Kept, Stock
<1>7. IsTable(u.sources) /\ \A n \in DOMAIN u.sources : u.sources[n] # Nothing
    <2>1. CASE e.section = "sources"
        <3>1. u.sources = Upsert(t.sources, e.key, e.body)
            BY <1>2, <2>1
        <3>2. /\ IsTable(u.sources) /\ DOMAIN u.sources = DOMAIN t.sources \cup {e.key} /\ u.sources[e.key] = e.body
              /\ \A n \in DOMAIN t.sources \ {e.key} : u.sources[n] = t.sources[n]
            BY <3>1 DEF Upsert, IsTable
        <3> QED BY <1>3, <2>1, <3>2 DEF Kept, Stock
    <2> QED BY <1>2, <2>1 DEF Kept, Stock
<1>8. IsTable(u.adapters) /\ \A n \in DOMAIN u.adapters :
            u.adapters[n] = [body |-> u.adapters[n].body, policy |-> u.adapters[n].policy]
    <2>1. CASE e.section = "adapters"
        <3>1. u.adapters = Upsert(t.adapters, e.key, row)
            BY <1>2, <2>1
        <3>2. /\ IsTable(u.adapters) /\ DOMAIN u.adapters = DOMAIN t.adapters \cup {e.key} /\ u.adapters[e.key] = row
              /\ \A n \in DOMAIN t.adapters \ {e.key} : u.adapters[n] = t.adapters[n]
            BY <3>1 DEF Upsert, IsTable
        <3> QED BY <1>4, <3>2 DEF Kept, Stock
    <2> QED BY <1>2, <2>1 DEF Kept, Stock
<1> QED BY <1>5, <1>6, <1>7, <1>8 DEF Kept, Stock

LEMMA DisplayKept ==
    ASSUME NEW t, IsTables(t), Kept(t), NEW e, NEW u, u = WithDisplay(t, e) PROVE Kept(u)
<1>1. CASE e.display = Nothing
    BY <1>1 DEF WithDisplay
<1>2. CASE e.display # Nothing
    <2>1. /\ u.settings = t.settings /\ u.policies = t.policies /\ u.adapters = t.adapters
          /\ u.sources = Upsert(t.sources, e.key, e.display)
        BY <1>2 DEF WithDisplay, IsTables
    <2>2. /\ IsTable(u.sources) /\ DOMAIN u.sources = DOMAIN t.sources \cup {e.key} /\ u.sources[e.key] = e.display
          /\ \A n \in DOMAIN t.sources \ {e.key} : u.sources[n] = t.sources[n]
        BY <2>1 DEF Upsert, IsTable
    <2>3. \A n \in DOMAIN u.sources : u.sources[n] # Nothing
        BY <1>2, <2>2 DEF Kept, Stock
    <2> QED BY <2>1, <2>2, <2>3 DEF Kept, Stock
<1> QED BY <1>1, <1>2

\* The record in hand is the last of those the import has come to.
LEMMA PassedOneMore ==
    ASSUME NEW j, JobInv(j), NEW e \in j.todo, NEW k, SameJob(j, k), k.todo = j.todo \ {e}
    PROVE  /\ Passed(k) = Passed(j) \cup {e} /\ e \notin Passed(j) /\ Passed(k) \subseteq j.file
           /\ e.section = "settings" => Of(Passed(j), "policies") = {}
           /\ e.section \in {"settings", "policies"} => Of(Passed(j), "sources") = {}
           /\ e.section \in {"settings", "policies", "sources"} => Of(Passed(j), "adapters") = {}
<1>1. e \in j.file /\ e.section = Sections[j.stage] /\ e \in Of(j.file, Sections[j.stage])
    BY InHand
<1>2. k.file = j.file /\ k.stage = j.stage
    BY DEF SameJob
<1>3. Passed(k) = Passed(j) \cup {e}
    BY <1>1, <1>2 DEF Passed
<1>4. j.stage \in 1 .. 4
    BY DEF JobInv
<1>5. \A i \in 1 .. j.stage - 1 : (i = 1 \/ i = 2 \/ i = 3) /\ i < j.stage
    BY <1>4
<1>6. \A i \in 1 .. j.stage - 1 : Sections[i] # Sections[j.stage]
    BY <1>4, <1>5, SectionNames
<1>7. e \notin Passed(j)
    BY <1>1, <1>6 DEF Passed
<1>8. \A d \in Passed(j) : d.section = e.section \/ \E i \in 1 .. j.stage - 1 : d.section = Sections[i]
    BY <1>1 DEF Passed, Of
<1>9. e.section = "settings" => \A d \in Passed(j) : d.section = "settings"
    BY <1>5, <1>8, StageOf
<1>10. e.section = "policies" => \A d \in Passed(j) : d.section \in {"settings", "policies"}
    BY <1>5, <1>8, StageOf, SectionNames
<1>11. e.section = "sources" => \A d \in Passed(j) : d.section \in {"settings", "policies", "sources"}
    BY <1>5, <1>8, StageOf, SectionNames
<1>12. Passed(k) \subseteq j.file
    BY <1>1, <1>3 DEF Passed, Of
<1> QED BY <1>3, <1>7, <1>9, <1>10, <1>11, <1>12 DEF Of

LEMMA WholeOneMore ==
    ASSUME NEW j, JobInv(j), Named(j.file), Proper(j.before), NEW e \in j.todo,
           NEW k, SameJob(j, k), k.todo = j.todo \ {e}
    PROVE  Import(k.before, Passed(k), k.dev) = Step(e, Import(j.before, Passed(j), j.dev), j.dev)
<1>1. k.before = j.before /\ k.dev = j.dev
    BY DEF SameJob
<1>2. Passed(k) = Passed(j) \cup {e} /\ e \notin Passed(j) /\ Passed(k) \subseteq j.file
    BY PassedOneMore
<1>3. Named(Passed(j) \cup {e}) /\ \A d \in Passed(j) \cup {e} : Fits(d)
    BY <1>2, FS_Subset DEF Named, JobInv
<1>4. /\ e.section = "settings" => Of(Passed(j), "policies") = {}
      /\ e.section \in {"settings", "policies"} => Of(Passed(j), "sources") = {}
      /\ e.section \in {"settings", "policies", "sources"} => Of(Passed(j), "adapters") = {}
    BY PassedOneMore
<1> HIDE DEF Passed
<1>5. Import(j.before, Passed(j) \cup {e}, j.dev) = Step(e, Import(j.before, Passed(j), j.dev), j.dev)
    BY <1>2, <1>3, <1>4, ImportOneMore
<1> QED BY <1>1, <1>2, <1>5

\* The record is done with: all its writes are made, or none if it is not taken.
LEMMA WholeFinished ==
    ASSUME NEW j, JobInv(j), NEW t, WholeJob(j, t), NEW e \in j.todo, NEW ok \in BOOLEAN,
           NEW k, k = FinishedJob(j, e, ok), NEW u,
           \/ j.half = Nothing /\ u = Step(e, t, j.dev)
           \/ j.half = e /\ e # Nothing /\ u = WithDisplay(t, e)
    PROVE  WholeJob(k, u)
<1>1. SameJob(j, k) /\ k.todo = j.todo \ {e} /\ k.half = Nothing
    <2>1. SameJob(j, k) /\ Worked(j, k, e, ok)
        BY FinishedFields
    <2> QED BY <2>1 DEF Worked
<1>2. Named(k.file) /\ Proper(k.before) /\ k.alone = j.alone
    BY <1>1 DEF WholeJob, SameJob
<1>3. ASSUME k.alone PROVE Whole(k, u)
    <2> DEFINE w == Import(j.before, Passed(j), j.dev)
    <2>1. t = IF j.half = Nothing THEN w ELSE WithRow(w, j.half)
        BY <1>2, <1>3 DEF WholeJob, Whole
    <2>2. Import(k.before, Passed(k), k.dev) = Step(e, w, j.dev)
        BY <1>1, WholeOneMore DEF WholeJob
    <2> HIDE DEF w
    <2>3. u = Step(e, w, j.dev)
        <3>1. CASE j.half = Nothing
            BY <2>1, <3>1
        <3>2. CASE j.half # Nothing
            <4>1. j.half = e /\ u = WithDisplay(WithRow(w, e), e) /\ Takes(e, j.dev)
                BY <2>1, <3>2 DEF JobInv
            <4> QED BY <4>1 DEF Step
        <3> QED BY <3>1, <3>2
    <2> QED BY <1>1, <2>2, <2>3 DEF Whole
<1> QED BY <1>2, <1>3 DEF WholeJob

LEMMA WholeHalf ==
    ASSUME NEW j, JobInv(j), NEW t, WholeJob(j, t), NEW e \in j.todo, j.half = Nothing,
           NEW k, k = [j EXCEPT !.half = e]
    PROVE  WholeJob(k, WithRow(t, e))
<1>1. SameJob(j, k) /\ k.todo = j.todo /\ k.half = e
    BY DEF IsJob, JobInv, SameJob
<1>2. e # Nothing
    BY InHand DEF WholeJob, Named
<1>3. Passed(k) = Passed(j)
    BY <1>1 DEF Passed, SameJob
<1> QED BY <1>1, <1>2, <1>3 DEF WholeJob, Whole, SameJob

LEMMA WholeNext ==
    ASSUME NEW j, JobInv(j), j.todo = {}, j.stage < 4, NEW t, WholeJob(j, t), NEW v,
           NEW s, s = Sections[j.stage + 1], NEW k, k = NextJob(j, v, s)
    PROVE  WholeJob(k, t)
<1> DEFINE stage == j.stage + 1
           todo == Of(j.file, s)
           existing == DOMAIN v[s]
           known == IF s = "policies" THEN DOMAIN v.policies ELSE j.known
<1>1. k = [j EXCEPT !.stage = stage, !.todo = todo, !.existing = existing, !.known = known]
    BY DEF NextJob
<1>2. j.stage \in 1 .. 3 /\ stage = j.stage + 1 /\ s = Sections[stage] /\ todo = Of(j.file, s)
    BY DEF JobInv
<1> HIDE DEF stage, todo, existing, known
<1>3. /\ k.file = j.file /\ k.stage = stage /\ k.half = j.half /\ k.dev = j.dev /\ k.before = j.before
      /\ k.alone = j.alone /\ k.todo = todo
    BY <1>1 DEF IsJob, JobInv
<1>4. Passed(k) = Passed(j)
    <2>1. Passed(k) = {e \in j.file : \E i \in 1 .. j.stage : e.section = Sections[i]}
        BY <1>2, <1>3 DEF Passed
    <2>2. \A i : i \in 1 .. j.stage <=> i \in 1 .. j.stage - 1 \/ i = j.stage
        BY <1>2
    <2> QED BY <2>1, <2>2 DEF Passed, Of
<1> QED BY <1>3, <1>4 DEF WholeJob, Whole

LEMMA WholeStart ==
    ASSUME Kept(Tables), NEW file, Named(file), NEW first \in {1, 4},
           first = 4 => \A e \in file : e.section = "adapters", NEW asked, Start(file, first, asked)
    PROVE  WholeJob(job', Tables)
<1>1. /\ job'.file = file /\ job'.stage = first /\ job'.half = Nothing
      /\ job'.dev = devTools /\ job'.before = Tables /\ job'.todo = Of(file, Sections[first])
    BY DEF Start
<1>2. ~ \E e \in file : \E i \in 1 .. first - 1 : e.section = Sections[i]
    <2>1. CASE first = 1
        BY <2>1
    <2>2. CASE first = 4
        <3>1. \A i \in 1 .. 3 : i = 1 \/ i = 2 \/ i = 3
            OBVIOUS
        <3>2. \A i \in 1 .. first - 1 : Sections[i] # "adapters"
            BY <2>2, <3>1, SectionNames
        <3> QED BY <2>2, <3>2
    <2> QED BY <2>1, <2>2
<1>3. Passed(job') = {}
    BY <1>1, <1>2 DEF Passed
<1>4. Import(Tables, {}, devTools) = Tables
    BY ImportNothing
<1> QED BY <1>1, <1>3, <1>4, KeptIsProper DEF WholeJob, Whole

-----------------------------------------------------------------------------
(* Every step keeps an import as good as atomic.                            *)

ConfigInv == ImportInv /\ FormsInv /\ AtomicInv

\* What a step with an import in hand has to show.
LEMMA AtomicTogether ==
    ASSUME AtomicInv, Kept(Tables'), UNCHANGED page, job' # Nothing => WholeJob(job', Tables') PROVE AtomicInv'
BY DEF AtomicInv

LEMMA AtomicRecordStep ==
    ASSUME ConfigInv, job # Nothing, NEW e \in job.todo, ImportRecord(e) PROVE AtomicInv'
<1>1. JobInv(job) /\ WholeJob(job, Tables) /\ Kept(Tables) /\ IsTables(Tables) /\ AtomicInv
    BY TheTables DEF ConfigInv, ImportInv, AtomicInv
<1>2. UNCHANGED page /\ job.half = Nothing
    BY DEF ImportRecord
<1>3. Fits(e) /\ e.section \in ToSet(Sections)
    BY <1>1, InHand DEF Fits
<1>4. CASE ~Takes(e, job.dev)
    <2>1. Becomes(Tables) /\ job' = FinishedJob(job, e, FALSE)
        BY <1>4 DEF ImportRecord, Finish, FinishedJob
    <2>2. Tables' = Tables
        BY <1>1, <2>1, BecomesTables
    <2>3. Tables = Step(e, Tables, job.dev)
        BY <1>4 DEF Step
    <2>4. WholeJob(job', Tables)
        <3>1. PICK ok \in BOOLEAN : job' = FinishedJob(job, e, ok)
            BY <2>1
        <3> QED BY <1>1, <1>2, <2>3, <3>1, WholeFinished
    <2> QED BY <1>1, <1>2, <2>2, <2>4, AtomicTogether
<1>5. CASE Takes(e, job.dev)
    <2>1. PICK t : t = WithRow(Tables, e)
        OBVIOUS
    <2>2. IsTables(t) /\ Kept(t)
        BY <1>1, <1>3, <1>5, <2>1, RowWritten, RowKept
    <2>3. CASE e.section = "adapters" /\ e.display # Nothing
        <3>1. Becomes(t) /\ job' = [job EXCEPT !.half = e]
            BY <1>5, <2>1, <2>3 DEF ImportRecord
        <3>2. Tables' = t
            BY <2>2, <3>1, BecomesTables
        <3>3. WholeJob(job', t)
            BY <1>1, <1>2, <2>1, <3>1, WholeHalf
        <3> QED BY <1>1, <1>2, <2>2, <3>2, <3>3, AtomicTogether
    <2>4. CASE ~(e.section = "adapters" /\ e.display # Nothing)
        <3>1. Becomes(t) /\ job' = FinishedJob(job, e, TRUE)
            BY <1>5, <2>1, <2>4 DEF ImportRecord, Finish, FinishedJob
        <3>2. Tables' = t
            BY <2>2, <3>1, BecomesTables
        <3>3. t = Step(e, Tables, job.dev)
            <4>1. e.display = Nothing
                BY <1>3, <2>4 DEF Fits
            <4> QED BY <1>5, <2>1, <4>1 DEF Step, WithDisplay
        <3>4. WholeJob(job', t)
            <4>1. PICK ok \in BOOLEAN : job' = FinishedJob(job, e, ok)
                BY <3>1
            <4> QED BY <1>1, <1>2, <3>3, <4>1, WholeFinished
        <3> QED BY <1>1, <1>2, <2>2, <3>2, <3>4, AtomicTogether
    <2> QED BY <2>3, <2>4
<1> QED BY <1>4, <1>5

LEMMA AtomicDisplayStep == ASSUME ConfigInv, ImportDisplay PROVE AtomicInv'
<1>1. JobInv(job) /\ WholeJob(job, Tables) /\ Kept(Tables) /\ IsTables(Tables) /\ AtomicInv
    BY TheTables DEF ConfigInv, ImportInv, AtomicInv, ImportDisplay
<1>2. PICK e : e = job.half
    OBVIOUS
<1>3. PICK t : t = WithDisplay(Tables, e)
    OBVIOUS
<1>4. UNCHANGED page /\ e # Nothing /\ Becomes(t) /\ job' = FinishedJob(job, e, TRUE)
    BY <1>2, <1>3 DEF ImportDisplay, Finish, FinishedJob
<1>5. e \in job.todo
    BY <1>1, <1>2, <1>4 DEF JobInv
<1>6. IsTables(t) /\ Kept(t)
    BY <1>1, <1>3, DisplayWritten, DisplayKept
<1>7. Tables' = t
    BY <1>4, <1>6, BecomesTables
<1>8. WholeJob(job', t)
    <2>1. PICK ok \in BOOLEAN : job' = FinishedJob(job, e, ok)
        BY <1>4
    <2> QED BY <1>1, <1>2, <1>3, <1>4, <1>5, <2>1, WholeFinished
<1> QED BY <1>1, <1>4, <1>6, <1>7, <1>8, AtomicTogether

LEMMA AtomicNextStep == ASSUME ConfigInv, NextSection PROVE AtomicInv'
<1>1. /\ JobInv(job) /\ WholeJob(job, Tables) /\ Kept(Tables) /\ AtomicInv
      /\ UNCHANGED page /\ job.todo = {} /\ job.stage < 4
    BY DEF ConfigInv, ImportInv, AtomicInv, NextSection
<1>2. Tables' = Tables
    BY DEF NextSection, Tables, settingsVars
<1>3. PICK s : s = Sections[job.stage + 1]
    OBVIOUS
<1>4. job' = NextJob(job, Tables, s)
    BY <1>3, TheTables DEF NextSection, NextJob
<1>5. WholeJob(job', Tables)
    BY <1>1, <1>3, <1>4, WholeNext
<1> QED BY <1>1, <1>2, <1>5, AtomicTogether

\* An import that something disturbs is not alone any more.
LEMMA WholeDisturbed ==
    ASSUME JobInv(job), WholeJob(job, Tables), ~job'.alone, job'.file = job.file, job'.before = job.before, NEW t
    PROVE  WholeJob(job', t)
BY DEF WholeJob

LEMMA AtomicFailsStep == ASSUME ConfigInv, ImportFails PROVE AtomicInv'
<1>1. JobInv(job) /\ WholeJob(job, Tables) /\ Kept(Tables) /\ AtomicInv /\ UNCHANGED page
    BY DEF ConfigInv, ImportInv, AtomicInv, ImportFails
<1>2. PICK e \in job.todo :
        job' = [job EXCEPT !.todo = @ \ {e}, !.half = Nothing, !.alone = FALSE,
                           !.results = @ \cup {Verdict(e, FALSE, {}, {})}]
    BY DEF ImportFails
<1>3. ~job'.alone /\ job'.file = job.file /\ job'.before = job.before
    BY <1>1, <1>2 DEF IsJob, JobInv
<1>4. Tables' = Tables
    BY DEF ImportFails, Tables, settingsVars
<1> QED BY <1>1, <1>3, <1>4, WholeDisturbed, AtomicTogether

LEMMA AtomicMeanwhile ==
    ASSUME ConfigInv, Kept(Tables'), UNCHANGED page, Meanwhile \/ (UNCHANGED job /\ Tables' = Tables) PROVE AtomicInv'
<1>1. ASSUME job' # Nothing PROVE WholeJob(job', Tables')
    <2>1. CASE UNCHANGED job /\ Tables' = Tables
        BY <1>1, <2>1 DEF ConfigInv, AtomicInv
    <2>2. CASE Meanwhile
        <3>1. job # Nothing /\ job' = [job EXCEPT !.alone = FALSE]
            BY <1>1, <2>2 DEF Meanwhile
        <3>2. JobInv(job) /\ WholeJob(job, Tables)
            BY <3>1 DEF ConfigInv, ImportInv, AtomicInv
        <3>3. ~job'.alone /\ job'.file = job.file /\ job'.before = job.before
            BY <3>1, <3>2 DEF IsJob, JobInv
        <3> QED BY <3>2, <3>3, WholeDisturbed
    <2> QED BY <2>1, <2>2
<1> QED BY <1>1, AtomicTogether DEF ConfigInv

\* The tables, each on its own.
SoundPolicies(f) == IsTable(f) /\ \A n \in DOMAIN f : f[n] # Incoherent
SoundSources(f)  == IsTable(f) /\ \A n \in DOMAIN f : f[n] # Nothing
SoundAdapters(f) == IsTable(f) /\ \A n \in DOMAIN f : f[n] = [body |-> f[n].body, policy |-> f[n].policy]

LEMMA KeptTables ==
    Kept(Tables) <=> IsTable(settings) /\ SoundPolicies(policy) /\ SoundSources(source) /\ SoundAdapters(adapter)
BY TheTables DEF Kept, Stock, SoundPolicies, SoundSources, SoundAdapters

LEMMA KeptTablesNext ==
    ASSUME IsTable(settings'), SoundPolicies(policy'), SoundSources(source'), SoundAdapters(adapter')
    PROVE  Kept(Tables')
<1>1. /\ Tables'.settings = settings' /\ Tables'.policies = policy' /\ Tables'.sources = source'
      /\ Tables'.adapters = adapter'
    BY DEF Tables
<1> QED BY <1>1 DEF Kept, Stock, SoundPolicies, SoundSources, SoundAdapters

LEMMA AtomicElsewhere ==
    ASSUME ConfigInv,
           \/ \E s \in Feeds, row \in Rows : EditAdapter(s, row)
           \/ \E n \in PolicyNames : DropPolicy(n)
           \/ SwitchDevTools
    PROVE  AtomicInv'
<1>1. Meanwhile /\ UNCHANGED <<settings, source, page>>
    BY DEF EditAdapter, DropPolicy, SwitchDevTools
<1>2. IsTable(settings) /\ SoundPolicies(policy) /\ SoundSources(source) /\ SoundAdapters(adapter)
    BY KeptTables DEF ConfigInv, AtomicInv
<1>3. SoundPolicies(policy') /\ SoundAdapters(adapter')
    <2>1. ASSUME NEW s \in Feeds, NEW row \in Rows, EditAdapter(s, row)
          PROVE  SoundPolicies(policy') /\ SoundAdapters(adapter')
        <3>1. adapter' = Upsert(adapter, s, row) /\ UNCHANGED policy /\ row = [body |-> row.body, policy |-> row.policy]
            BY <2>1 DEF EditAdapter, Rows
        <3>2. /\ IsTable(adapter') /\ DOMAIN adapter' = DOMAIN adapter \cup {s} /\ adapter'[s] = row
              /\ \A n \in DOMAIN adapter \ {s} : adapter'[n] = adapter[n]
            BY <3>1 DEF Upsert, IsTable
        <3> QED BY <1>2, <3>1, <3>2 DEF SoundAdapters
    <2>2. ASSUME NEW n \in PolicyNames, DropPolicy(n) PROVE SoundPolicies(policy') /\ SoundAdapters(adapter')
        <3>1. policy' = [m \in DOMAIN policy \ {n} |-> policy[m]] /\ UNCHANGED adapter
            BY <2>2 DEF DropPolicy
        <3> QED BY <1>2, <3>1 DEF SoundPolicies, IsTable
    <2>3. CASE SwitchDevTools
        BY <1>2, <2>3 DEF SwitchDevTools
    <2> QED BY <2>1, <2>2, <2>3
<1>4. Kept(Tables')
    BY <1>1, <1>2, <1>3, KeptTablesNext
<1> QED BY <1>1, <1>4, AtomicMeanwhile

LEMMA AtomicOthers == ASSUME ConfigInv, Others PROVE AtomicInv'
<1>1. /\ UNCHANGED <<policy, source, adapter, page>>
      /\ Meanwhile \/ (UNCHANGED job /\ settings' = settings)
    BY DEF Others
<1>2. FormsInv'
    BY OthersStep DEF ConfigInv
<1>3. IsTable(settings')
    BY <1>2 DEF FormsInv, RowsOK, IsTable
<1>4. Kept(Tables')
    BY <1>1, <1>3, KeptTables, KeptTablesNext DEF ConfigInv, AtomicInv
<1>5. settings' = settings => Tables' = Tables
    BY <1>1 DEF Tables
<1> QED BY <1>1, <1>4, <1>5, AtomicMeanwhile

\* A step at a page: the file is the one that was uploaded, and the tables stay.
LEMMA AtomicAtThePage ==
    ASSUME ConfigInv, UNCHANGED <<settings, policy, source, adapter>>,
           page' # Nothing => Named(page'.file),
           job' # job /\ job' # Nothing => WholeJob(job', Tables)
    PROVE  AtomicInv'
<1>1. Tables' = Tables
    BY DEF Tables
<1> QED BY <1>1 DEF ConfigInv, AtomicInv

LEMMA AtomicUpload == ASSUME ConfigInv, NEW f \in Files, Upload(f) PROVE AtomicInv'
<1>1. page'.file = f /\ UNCHANGED <<settings, policy, source, adapter, job>>
    BY DEF Upload, Page
<1> QED BY <1>1, NamesAssumption, AtomicAtThePage

LEMMA AtomicUploadOne == ASSUME ConfigInv, NEW f \in Files, NEW e \in Of(f, "adapters"), UploadOne(e) PROVE AtomicInv'
<1>1. /\ \/ Start({e}, 4, {}) /\ UNCHANGED page
         \/ page'.file = {e} /\ UNCHANGED job
      /\ page = Nothing /\ UNCHANGED <<settings, policy, source, adapter>>
    BY DEF UploadOne, Page
<1>2. Named({e}) /\ e.section = "adapters"
    BY NamesAssumption, FS_Singleton DEF Named, Of
<1>3. Kept(Tables)
    BY DEF ConfigInv, AtomicInv
<1>4. CASE page'.file = {e} /\ UNCHANGED job
    BY <1>1, <1>2, <1>4, AtomicAtThePage
<1>5. CASE Start({e}, 4, {}) /\ UNCHANGED page
    <2>1. WholeJob(job', Tables)
        BY <1>2, <1>3, <1>5, WholeStart
    <2> QED BY <1>1, <1>5, <2>1, AtomicAtThePage
<1> QED BY <1>1, <1>4, <1>5

LEMMA AtomicConfirm ==
    ASSUME ConfigInv, NEW overwrite \in BOOLEAN, NEW code \in BOOLEAN, Confirm(overwrite, code) PROVE AtomicInv'
<1>1. /\ page # Nothing /\ UNCHANGED <<settings, policy, source, adapter>>
      /\ \/ page'.file = page.file /\ UNCHANGED job
         \/ page' = Nothing /\ Start(page.file, IF page.single THEN 4 ELSE 1,
                                     IF overwrite THEN {e.key : e \in page.file} ELSE {})
    BY DEF Confirm, Page, settingsVars
<1>2. Kept(Tables) /\ Named(page.file) /\ (page.single => \A e \in page.file : e.section = "adapters")
    BY <1>1 DEF ConfigInv, AtomicInv, ImportInv, PageInv
<1>3. CASE page'.file = page.file /\ UNCHANGED job
    BY <1>1, <1>2, <1>3, AtomicAtThePage
<1>4. CASE page' = Nothing /\ Start(page.file, IF page.single THEN 4 ELSE 1,
                                    IF overwrite THEN {e.key : e \in page.file} ELSE {})
    <2>1. PICK first, asked : /\ first = (IF page.single THEN 4 ELSE 1) /\ Start(page.file, first, asked)
        BY <1>4
    <2>2. first \in {1, 4} /\ (first = 4 => \A e \in page.file : e.section = "adapters")
        BY <1>2, <2>1
    <2>3. WholeJob(job', Tables)
        BY <1>2, <2>1, <2>2, WholeStart
    <2> QED BY <1>1, <1>4, <2>3, AtomicAtThePage
<1> QED BY <1>1, <1>3, <1>4

LEMMA AtomicStep == ConfigInv /\ [TransferNext]_allVars => AtomicInv'
<1> SUFFICES ASSUME ConfigInv, [TransferNext]_allVars PROVE AtomicInv'
    OBVIOUS
<1>1. ASSUME NEW f \in Files, Upload(f) PROVE AtomicInv'
    BY <1>1, AtomicUpload
<1>2. ASSUME NEW f \in Files, NEW e \in Of(f, "adapters"), UploadOne(e) PROVE AtomicInv'
    BY <1>2, AtomicUploadOne
<1>3. ASSUME NEW overwrite \in BOOLEAN, NEW code \in BOOLEAN, Confirm(overwrite, code) PROVE AtomicInv'
    BY <1>3, AtomicConfirm
<1>4. CASE CloseTab
    <2>1. page' = Nothing /\ UNCHANGED <<settings, policy, source, adapter, job>>
        BY <1>4 DEF CloseTab, settingsVars
    <2> QED BY <2>1, AtomicAtThePage
<1>5. CASE NextSection
    BY <1>5, AtomicNextStep
<1>6. CASE ImportDisplay
    BY <1>6, AtomicDisplayStep
<1>7. CASE ImportFails
    BY <1>7, AtomicFailsStep
<1>8. CASE ImportEnds \/ Crash
    <2>1. job' = Nothing /\ UNCHANGED <<settings, policy, source, adapter, page>>
        BY <1>8 DEF ImportEnds, Crash, settingsVars
    <2> QED BY <2>1, AtomicAtThePage DEF ConfigInv, AtomicInv
<1>9. ASSUME job # Nothing, NEW e \in job.todo, ImportRecord(e) PROVE AtomicInv'
    BY <1>9, AtomicRecordStep
<1>10. CASE \/ \E s \in Feeds, row \in Rows : EditAdapter(s, row)
            \/ \E n \in PolicyNames : DropPolicy(n)
            \/ SwitchDevTools
    BY <1>10, AtomicElsewhere
<1>11. CASE Others
    BY <1>11, AtomicOthers
<1>12. CASE UNCHANGED allVars
    <2>1. UNCHANGED <<settings, policy, source, adapter, page, job>>
        BY <1>12 DEF allVars, settingsVars, transferVars
    <2> QED BY <2>1, AtomicAtThePage DEF ConfigInv, AtomicInv
<1> QED BY <1>1, <1>2, <1>3, <1>4, <1>5, <1>6, <1>7, <1>8, <1>9, <1>10, <1>11, <1>12 DEF TransferNext

LEMMA AtomicStart == TransferInit => AtomicInv
<1> SUFFICES ASSUME TransferInit PROVE AtomicInv
    OBVIOUS
<1>1. PICK t \in Installs : /\ settings = t.settings /\ policy = t.policies
                            /\ source = t.sources /\ adapter = t.adapters
    BY DEF TransferInit, SettingsInit
<1>2. Stock(t) /\ IsTable(t.settings)
    BY InstallsAssumption, StockAssumption DEF IsTable
<1>3. Kept(Tables)
    BY <1>1, <1>2, TheTables DEF Kept, Stock
<1> QED BY <1>3 DEF TransferInit, AtomicInv

LEMMA AtomicHolds == TransferSpec => []ConfigInv
<1>1. TransferInit => ConfigInv
    BY TransferStart, AtomicStart DEF ConfigInv
<1>2. ConfigInv /\ [TransferNext]_allVars => ConfigInv'
    BY TransferStep, AtomicStep DEF ConfigInv
<1> QED BY <1>1, <1>2, PTL DEF TransferSpec

\* An import that nobody and nothing disturbs is as good as atomic.
THEOREM ImportsAreAtomic == TransferSpec => []ImportIsAtomic
<1>1. ConfigInv => ImportIsAtomic
    BY DEF ConfigInv, AtomicInv, WholeJob, Whole, ImportIsAtomic
<1> QED BY <1>1, AtomicHolds, PTL

\* An import does with each record what its dry run said, stores no custom code that was not
\* reviewed, writes no secret, deletes nothing and replaces no adapter unasked, for every
\* file and whatever the other administrators and the failures of the database do; left alone, it
\* leaves what one write of the file would.
THEOREM ImportsKeepTheirWord == TransferSpec => []ImportKeepsItsWord
<1>1. ConfigInv => PreviewIsKept /\ NothingUnasked
    BY WordKept DEF ConfigInv
<1> QED BY <1>1, AtomicHolds, ImportsAreAtomic, PTL DEF ImportKeepsItsWord

-----------------------------------------------------------------------------
(* Export and import: what a section ships, what arrives, and the four      *)
(* sections together.                                                       *)

\* Records with names of their own, out of finitely many, are finitely many.
LEMMA FiniteByKey ==
    ASSUME NEW S, NEW K, IsFiniteSet(K), \A e \in S : e.key \in K, \A e, d \in S : e.key = d.key => e = d
    PROVE  IsFiniteSet(S)
<1> DEFINE f == [e \in S |-> e.key]
<1>1. f \in Injection(S, K)
    BY DEF Injection, IsInjective
<1> QED BY <1>1, FS_Injection

\* What is written for a name is what the record of that name brings.
LEMMA BroughtOne ==
    ASSUME NEW S, NEW e \in S, \A d \in S : e.key = d.key => e = d, NEW s, NEW dev
    PROVE  Brought(S, s, e.key, dev) = Brings(e, s, dev)
<1>1. {x \in S : x.key = e.key} = {e}
    OBVIOUS
<1> QED BY <1>1 DEF Brought

LEMMA BroughtElsewhere ==
    ASSUME NEW S, NEW s, NEW dev, NEW k,
           \A e \in S : e.section # s /\ ~(s = "sources" /\ e.section = "adapters")
    PROVE  Brought(S, s, k, dev) = {}
<1>1. \A e \in S : Brings(e, s, dev) = {}
    BY DEF Brings
<1> QED BY <1>1 DEF Brought

\* The four sections of an export.
Shipped(t, s) ==
    CASE s = "settings" -> {Entry("settings", k, t.settings[k]) : k \in DOMAIN t.settings \ Secrets}
      [] s = "policies" -> {Entry("policies", n, t.policies[n]) : n \in DOMAIN t.policies}
      [] s = "sources"  -> {Entry("sources", n, t.sources[n]) : n \in DOMAIN t.sources \ DOMAIN t.adapters}
      [] OTHER -> {[section |-> "adapters", key |-> n, body |-> t.adapters[n].body,
                    policy |-> t.adapters[n].policy,
                    display |-> IF n \in DOMAIN t.sources THEN t.sources[n] ELSE Nothing] : n \in DOMAIN t.adapters}

LEMMA ShippedSections ==
    ASSUME NEW t, NEW s \in {"settings", "policies", "sources", "adapters"}
    PROVE  Of(Export(t), s) = Shipped(t, s) /\ \A e \in Shipped(t, s) : e.section = s
<1>1. Export(t) = Shipped(t, "settings") \cup Shipped(t, "policies") \cup Shipped(t, "sources")
                  \cup Shipped(t, "adapters")
    BY DEF Export, Shipped
<1>2. /\ \A e \in Shipped(t, "settings") : e.section = "settings"
      /\ \A e \in Shipped(t, "policies") : e.section = "policies"
      /\ \A e \in Shipped(t, "sources") : e.section = "sources"
      /\ \A e \in Shipped(t, "adapters") : e.section = "adapters"
    BY DEF Shipped, Entry
<1> QED BY <1>1, <1>2 DEF Of

\* The rows that are exported, by their names.
LEMMA SettingsShipped ==
    ASSUME NEW t
    PROVE  /\ \A k \in DOMAIN t.settings \ Secrets : \E e \in Shipped(t, "settings") : e.key = k
           /\ \A e \in Shipped(t, "settings") :
                 /\ e.key \in DOMAIN t.settings \ Secrets /\ e.section = "settings"
                 /\ e.body = t.settings[e.key] /\ e.policy = Nothing /\ e.display = Nothing
           /\ \A e, d \in Shipped(t, "settings") : e.key = d.key => e = d
<1>1. Shipped(t, "settings") = {Entry("settings", k, t.settings[k]) : k \in DOMAIN t.settings \ Secrets}
    BY DEF Shipped
<1>2. \A k, b : LET e == Entry("settings", k, b)
                IN  e.key = k /\ e.section = "settings" /\ e.body = b /\ e.policy = Nothing /\ e.display = Nothing
    BY DEF Entry
<1> QED BY <1>1, <1>2

LEMMA PoliciesShipped ==
    ASSUME NEW t
    PROVE  /\ \A k \in DOMAIN t.policies : \E e \in Shipped(t, "policies") : e.key = k
           /\ \A e \in Shipped(t, "policies") :
                 /\ e.key \in DOMAIN t.policies /\ e.section = "policies"
                 /\ e.body = t.policies[e.key] /\ e.policy = Nothing /\ e.display = Nothing
           /\ \A e, d \in Shipped(t, "policies") : e.key = d.key => e = d
<1>1. Shipped(t, "policies") = {Entry("policies", k, t.policies[k]) : k \in DOMAIN t.policies}
    BY DEF Shipped
<1>2. \A k, b : LET e == Entry("policies", k, b)
                IN  e.key = k /\ e.section = "policies" /\ e.body = b /\ e.policy = Nothing /\ e.display = Nothing
    BY DEF Entry
<1> QED BY <1>1, <1>2

LEMMA SourcesShipped ==
    ASSUME NEW t
    PROVE  /\ \A k \in DOMAIN t.sources \ DOMAIN t.adapters : \E e \in Shipped(t, "sources") : e.key = k
           /\ \A e \in Shipped(t, "sources") :
                 /\ e.key \in DOMAIN t.sources \ DOMAIN t.adapters /\ e.section = "sources"
                 /\ e.body = t.sources[e.key] /\ e.policy = Nothing /\ e.display = Nothing
           /\ \A e, d \in Shipped(t, "sources") : e.key = d.key => e = d
<1>1. Shipped(t, "sources") = {Entry("sources", k, t.sources[k]) : k \in DOMAIN t.sources \ DOMAIN t.adapters}
    BY DEF Shipped
<1>2. \A k, b : LET e == Entry("sources", k, b)
                IN  e.key = k /\ e.section = "sources" /\ e.body = b /\ e.policy = Nothing /\ e.display = Nothing
    BY DEF Entry
<1> QED BY <1>1, <1>2

LEMMA AdaptersShipped ==
    ASSUME NEW t
    PROVE  /\ \A k \in DOMAIN t.adapters : \E e \in Shipped(t, "adapters") : e.key = k
           /\ \A e \in Shipped(t, "adapters") :
                 /\ e.key \in DOMAIN t.adapters /\ e.section = "adapters"
                 /\ e.body = t.adapters[e.key].body /\ e.policy = t.adapters[e.key].policy
                 /\ e.display = IF e.key \in DOMAIN t.sources THEN t.sources[e.key] ELSE Nothing
           /\ \A e, d \in Shipped(t, "adapters") : e.key = d.key => e = d
<1> DEFINE E(k) == [section |-> "adapters", key |-> k, body |-> t.adapters[k].body,
                    policy |-> t.adapters[k].policy,
                    display |-> IF k \in DOMAIN t.sources THEN t.sources[k] ELSE Nothing]
<1>1. Shipped(t, "adapters") = {E(k) : k \in DOMAIN t.adapters}
    BY DEF Shipped
<1>2. \A k : /\ E(k).key = k /\ E(k).section = "adapters" /\ E(k).body = t.adapters[k].body
             /\ E(k).policy = t.adapters[k].policy
             /\ E(k).display = IF k \in DOMAIN t.sources THEN t.sources[k] ELSE Nothing
    OBVIOUS
<1> HIDE DEF E
<1> QED BY <1>1, <1>2

\* Tables there are: what an export of them holds fits and is finite.
Sized(t) == /\ DOMAIN t.settings \subseteq Keys /\ \A k \in DOMAIN t.settings : t.settings[k] \in Values \cup {Blank}
            /\ TablesOK(t) /\ Kept(t) /\ IsTables(t)

LEMMA ShippedAlike ==
    ASSUME NEW t, Sized(t), NEW s \in {"settings", "policies", "sources", "adapters"}
    PROVE  IsFiniteSet(Shipped(t, s)) /\ Alike(Shipped(t, s))
<1>1. CASE s = "settings"
    <2>1. \A e \in Shipped(t, s) : e.key \in Keys /\ Fits(e) /\ e.section = "settings"
        BY <1>1, SettingsShipped, SectionNames DEF Sized, Fits
    <2>2. \A e, d \in Shipped(t, s) : e.key = d.key => e = d
        BY <1>1, SettingsShipped
    <2>3. IsFiniteSet(Shipped(t, s))
        BY <2>1, <2>2, FiniteByKey, FiniteAssumption
    <2> QED BY <2>1, <2>2, <2>3 DEF Alike
<1>2. CASE s = "policies"
    <2>1. \A e \in Shipped(t, s) : e.key \in PolicyNames /\ Fits(e) /\ e.section = "policies"
        BY <1>2, PoliciesShipped, SectionNames DEF Sized, TablesOK, Fits
    <2>2. \A e, d \in Shipped(t, s) : e.key = d.key => e = d
        BY <1>2, PoliciesShipped
    <2>3. IsFiniteSet(Shipped(t, s))
        BY <2>1, <2>2, FiniteByKey, FiniteAssumption
    <2> QED BY <2>1, <2>2, <2>3 DEF Alike
<1>3. CASE s = "sources"
    <2>1. \A e \in Shipped(t, s) : e.key \in Feeds /\ Fits(e) /\ e.section = "sources"
        BY <1>3, SourcesShipped, SectionNames DEF Sized, TablesOK, Fits
    <2>2. \A e, d \in Shipped(t, s) : e.key = d.key => e = d
        BY <1>3, SourcesShipped
    <2>3. IsFiniteSet(Shipped(t, s))
        BY <2>1, <2>2, FiniteByKey, FiniteAssumption
    <2> QED BY <2>1, <2>2, <2>3 DEF Alike
<1>4. CASE s = "adapters"
    <2>1. \A e \in Shipped(t, s) : e.key \in Feeds /\ Fits(e) /\ e.section = "adapters"
        BY <1>4, AdaptersShipped, SectionNames DEF Sized, TablesOK, Fits
    <2>2. \A e, d \in Shipped(t, s) : e.key = d.key => e = d
        BY <1>4, AdaptersShipped
    <2>3. IsFiniteSet(Shipped(t, s))
        BY <2>1, <2>2, FiniteByKey, FiniteAssumption
    <2> QED BY <2>1, <2>2, <2>3 DEF Alike
<1> QED BY <1>1, <1>2, <1>3, <1>4

\* What arrives of them.
LEMMA SettingsArrive ==
    ASSUME NEW t, NEW k
    PROVE  Brought(Shipped(t, "settings"), "settings", k, TRUE) = IF k \in Portable(t) THEN {t.settings[k]} ELSE {}
<1>0. PICK S : S = Shipped(t, "settings")
    OBVIOUS
<1>1. CASE k \in DOMAIN t.settings \ Secrets
    <2>1. PICK e \in S : e.key = k /\ \A d \in S : e.key = d.key => e = d
        BY <1>0, <1>1, SettingsShipped
    <2>2. e.section = "settings" /\ e.body = t.settings[k]
        BY <1>0, <2>1, SettingsShipped
    <2>3. Brought(S, "settings", k, TRUE) = Brings(e, "settings", TRUE)
        BY <2>1, BroughtOne
    <2>4. Takes(e, TRUE) <=> k \in Portable(t)
        BY <1>1, <2>1, <2>2, AcceptsBySection DEF Takes, Portable
    <2> QED BY <1>0, <2>2, <2>3, <2>4 DEF Brings
<1>2. CASE k \notin DOMAIN t.settings \ Secrets
    <2>1. \A d \in S : d.key # k
        BY <1>0, <1>2, SettingsShipped
    <2>2. Brought(S, "settings", k, TRUE) = {}
        BY <2>1, BroughtNothing
    <2> QED BY <1>0, <1>2, <2>2 DEF Portable
<1> QED BY <1>0, <1>1, <1>2

LEMMA PoliciesArrive ==
    ASSUME NEW t, Sized(t), NEW k PROVE Brought(Shipped(t, "policies"), "policies", k, TRUE) = Row(t.policies, k)
<1>0. PICK S : S = Shipped(t, "policies")
    OBVIOUS
<1>1. CASE k \in DOMAIN t.policies
    <2>1. PICK e \in S : e.key = k /\ \A d \in S : e.key = d.key => e = d
        BY <1>0, <1>1, PoliciesShipped
    <2>2. e.section = "policies" /\ e.body = t.policies[k]
        BY <1>0, <2>1, PoliciesShipped
    <2>3. Brought(S, "policies", k, TRUE) = Brings(e, "policies", TRUE)
        BY <2>1, BroughtOne
    <2>4. Takes(e, TRUE)
        BY <1>1, <2>2, AcceptsBySection DEF Takes, Sized, Kept, Stock
    <2> QED BY <1>0, <1>1, <2>2, <2>3, <2>4 DEF Brings, Row
<1>2. CASE k \notin DOMAIN t.policies
    <2>1. \A d \in S : d.key # k
        BY <1>0, <1>2, PoliciesShipped
    <2> QED BY <1>0, <1>2, <2>1, BroughtNothing DEF Row
<1> QED BY <1>0, <1>1, <1>2

LEMMA SourcesArrive ==
    ASSUME NEW t, Sized(t), NEW k
    PROVE  Brought(Shipped(t, "sources"), "sources", k, TRUE)
             = IF k \notin DOMAIN t.adapters THEN Row(t.sources, k) ELSE {}
<1>0. PICK S : S = Shipped(t, "sources")
    OBVIOUS
<1>1. CASE k \in DOMAIN t.sources \ DOMAIN t.adapters
    <2>1. PICK e \in S : e.key = k /\ \A d \in S : e.key = d.key => e = d
        BY <1>0, <1>1, SourcesShipped
    <2>2. e.section = "sources" /\ e.body = t.sources[k]
        BY <1>0, <2>1, SourcesShipped
    <2>3. Brought(S, "sources", k, TRUE) = Brings(e, "sources", TRUE)
        BY <2>1, BroughtOne
    <2>4. Takes(e, TRUE)
        BY <1>1, <2>2 DEF Takes, Accepts, Sized, Kept, Stock
    <2> QED BY <1>0, <1>1, <2>2, <2>3, <2>4 DEF Brings, Row
<1>2. CASE k \notin DOMAIN t.sources \ DOMAIN t.adapters
    <2>1. \A d \in S : d.key # k
        BY <1>0, <1>2, SourcesShipped
    <2> QED BY <1>0, <1>2, <2>1, BroughtNothing DEF Row
<1> QED BY <1>0, <1>1, <1>2

LEMMA AdaptersArrive ==
    ASSUME NEW t, Sized(t), NEW k
    PROVE  /\ Brought(Shipped(t, "adapters"), "adapters", k, TRUE) = Row(t.adapters, k)
           /\ Brought(Shipped(t, "adapters"), "sources", k, TRUE)
                = IF k \in DOMAIN t.adapters THEN Row(t.sources, k) ELSE {}
<1>0. PICK S : S = Shipped(t, "adapters")
    OBVIOUS
<1>1. CASE k \in DOMAIN t.adapters
    <2>1. PICK e \in S : e.key = k /\ \A d \in S : e.key = d.key => e = d
        BY <1>0, <1>1, AdaptersShipped
    <2>2. /\ e.section = "adapters" /\ e.body = t.adapters[k].body /\ e.policy = t.adapters[k].policy
          /\ e.display = IF k \in DOMAIN t.sources THEN t.sources[k] ELSE Nothing
        BY <1>0, <2>1, AdaptersShipped
    <2>3. /\ Brought(S, "adapters", k, TRUE) = Brings(e, "adapters", TRUE)
          /\ Brought(S, "sources", k, TRUE) = Brings(e, "sources", TRUE)
        BY <2>1, BroughtOne
    <2>4. Takes(e, TRUE)
        BY <1>1, <2>2, AcceptsBySection DEF Takes, Sized, TablesOK
    <2>5. t.adapters[k] = [body |-> e.body, policy |-> e.policy]
        BY <1>1, <2>2 DEF Sized, Kept, Stock
    <2>6. k \in DOMAIN t.sources => t.sources[k] # Nothing
        BY DEF Sized, Kept, Stock
    <2>7. Brings(e, "adapters", TRUE) = {t.adapters[k]}
        BY <2>2, <2>4, <2>5 DEF Brings
    <2>8. Brings(e, "sources", TRUE) = IF e.display # Nothing THEN {e.display} ELSE {}
        BY <2>2, <2>4 DEF Brings
    <2> QED BY <1>0, <1>1, <2>2, <2>3, <2>6, <2>7, <2>8 DEF Row
<1>2. CASE k \notin DOMAIN t.adapters
    <2>1. \A d \in S : d.key # k
        BY <1>0, <1>2, AdaptersShipped
    <2> QED BY <1>0, <1>2, <2>1, BroughtNothing DEF Row
<1> QED BY <1>0, <1>1, <1>2

RowsOver(h, f, g) == IsTable(h) /\ \A k : Row(h, k) = IF Row(f, k) = {} THEN Row(g, k) ELSE Row(f, k)

LEMMA OverRows == ASSUME NEW f, NEW g, NEW h, RowsOver(h, f, g) PROVE h = Over(f, g)
<1>1. IsTable(Over(f, g)) /\ \A k : Row(Over(f, g), k) = IF Row(f, k) = {} THEN Row(g, k) ELSE Row(f, k)
    BY DEF Over, IsTable, Row
<1> QED BY <1>1, SameRows DEF RowsOver

\* Section by section, on top of what the install has.
LEMMA ArrivesOver ==
    ASSUME NEW t, Sized(t), NEW g, Proper(g), NEW u, u = Import(g, Export(t), TRUE)
    PROVE  /\ u.settings = Over([k \in Portable(t) |-> t.settings[k]], g.settings)
           /\ u.policies = Over(t.policies, g.policies)
           /\ u.sources = Over(t.sources, g.sources)
           /\ u.adapters = Over(t.adapters, g.adapters)
<1>1. PICK S1, S2, S3, S4 : /\ S1 = Shipped(t, "settings") /\ S2 = Shipped(t, "policies")
                            /\ S3 = Shipped(t, "sources") /\ S4 = Shipped(t, "adapters")
    OBVIOUS
<1>2. PICK u1, u2, u3 : /\ u1 = Written(g, S1, TRUE) /\ u2 = Written(u1, S2, TRUE) /\ u3 = Written(u2, S3, TRUE)
    OBVIOUS
<1>3. u = Written(u3, S4, TRUE)
    BY <1>1, <1>2, ShippedSections DEF Import
<1>4. /\ IsFiniteSet(S1) /\ Alike(S1) /\ IsFiniteSet(S2) /\ Alike(S2)
      /\ IsFiniteSet(S3) /\ Alike(S3) /\ IsFiniteSet(S4) /\ Alike(S4)
    BY <1>1, ShippedAlike
<1>5. Writes(u1, g, S1, TRUE)
    BY <1>2, <1>4, WrittenRows
<1>6. Writes(u2, u1, S2, TRUE)
    BY <1>2, <1>4, <1>5, WrittenRows DEF Writes
<1>7. Writes(u3, u2, S3, TRUE)
    BY <1>2, <1>4, <1>6, WrittenRows DEF Writes
<1>8. Writes(u, u3, S4, TRUE)
    BY <1>3, <1>4, <1>7, WrittenRows DEF Writes
<1>9. /\ \A e \in S1 : e.section = "settings"
      /\ \A e \in S2 : e.section = "policies"
      /\ \A e \in S3 : e.section = "sources"
      /\ \A e \in S4 : e.section = "adapters"
    BY <1>1, ShippedSections
<1>10. \A k : /\ Brought(S1, "policies", k, TRUE) = {} /\ Brought(S1, "sources", k, TRUE) = {}
              /\ Brought(S1, "adapters", k, TRUE) = {}
              /\ Brought(S2, "settings", k, TRUE) = {} /\ Brought(S2, "sources", k, TRUE) = {}
              /\ Brought(S2, "adapters", k, TRUE) = {}
              /\ Brought(S3, "settings", k, TRUE) = {} /\ Brought(S3, "policies", k, TRUE) = {}
              /\ Brought(S3, "adapters", k, TRUE) = {}
              /\ Brought(S4, "settings", k, TRUE) = {} /\ Brought(S4, "policies", k, TRUE) = {}
    BY <1>9, BroughtElsewhere
<1>11. Proper(u)
    BY <1>8 DEF Writes
<1>16. /\ RowsAre(u1.settings, g.settings, S1, "settings", TRUE)
       /\ RowsAre(u2.settings, u1.settings, S2, "settings", TRUE)
       /\ RowsAre(u3.settings, u2.settings, S3, "settings", TRUE)
       /\ RowsAre(u.settings, u3.settings, S4, "settings", TRUE)
    BY <1>5, <1>6, <1>7, <1>8 DEF Writes
<1>17. /\ RowsAre(u1.policies, g.policies, S1, "policies", TRUE)
       /\ RowsAre(u2.policies, u1.policies, S2, "policies", TRUE)
       /\ RowsAre(u3.policies, u2.policies, S3, "policies", TRUE)
       /\ RowsAre(u.policies, u3.policies, S4, "policies", TRUE)
    BY <1>5, <1>6, <1>7, <1>8 DEF Writes
<1>18. /\ RowsAre(u1.sources, g.sources, S1, "sources", TRUE)
       /\ RowsAre(u2.sources, u1.sources, S2, "sources", TRUE)
       /\ RowsAre(u3.sources, u2.sources, S3, "sources", TRUE)
       /\ RowsAre(u.sources, u3.sources, S4, "sources", TRUE)
    BY <1>5, <1>6, <1>7, <1>8 DEF Writes
<1>19. /\ RowsAre(u1.adapters, g.adapters, S1, "adapters", TRUE)
       /\ RowsAre(u2.adapters, u1.adapters, S2, "adapters", TRUE)
       /\ RowsAre(u3.adapters, u2.adapters, S3, "adapters", TRUE)
       /\ RowsAre(u.adapters, u3.adapters, S4, "adapters", TRUE)
    BY <1>5, <1>6, <1>7, <1>8 DEF Writes
<1>20. IsTable(u.settings) /\ IsTable(u.policies) /\ IsTable(u.sources) /\ IsTable(u.adapters)
    BY <1>11 DEF Proper
<1>12. u.settings = Over([k \in Portable(t) |-> t.settings[k]], g.settings)
    <2>1. PICK f : f = [k \in Portable(t) |-> t.settings[k]]
        OBVIOUS
    <2>2. \A k : Row(f, k) = Brought(S1, "settings", k, TRUE)
        BY <1>1, <2>1, SettingsArrive DEF Row
    <2>3. ASSUME NEW k PROVE Row(u.settings, k) = IF Row(f, k) = {} THEN Row(g.settings, k) ELSE Row(f, k)
        <3>1. Row(u.settings, k) = Row(u1.settings, k)
            BY <1>10, <1>16 DEF RowsAre
        <3>2. Row(u1.settings, k) = IF Row(f, k) = {} THEN Row(g.settings, k) ELSE Row(f, k)
            BY <1>16, <2>2 DEF RowsAre
        <3> QED BY <3>1, <3>2
    <2>4. RowsOver(u.settings, f, g.settings)
        BY <1>20, <2>3 DEF RowsOver
    <2> QED BY <2>1, <2>4, OverRows
<1>13. u.policies = Over(t.policies, g.policies)
    <2>1. ASSUME NEW k
          PROVE  Row(u.policies, k) = IF Row(t.policies, k) = {} THEN Row(g.policies, k) ELSE Row(t.policies, k)
        <3>1. Row(u.policies, k) = Row(u2.policies, k) /\ Row(u1.policies, k) = Row(g.policies, k)
            BY <1>10, <1>17 DEF RowsAre
        <3>2. Row(t.policies, k) = Brought(S2, "policies", k, TRUE)
            BY <1>1, PoliciesArrive
        <3>3. Row(u2.policies, k) = IF Row(t.policies, k) = {} THEN Row(u1.policies, k) ELSE Row(t.policies, k)
            BY <1>17, <3>2 DEF RowsAre
        <3> QED BY <3>1, <3>3
    <2>2. RowsOver(u.policies, t.policies, g.policies)
        BY <1>20, <2>1 DEF RowsOver
    <2> QED BY <2>2, OverRows
<1>14. u.adapters = Over(t.adapters, g.adapters)
    <2>1. ASSUME NEW k
          PROVE  Row(u.adapters, k) = IF Row(t.adapters, k) = {} THEN Row(g.adapters, k) ELSE Row(t.adapters, k)
        <3>1. Row(u3.adapters, k) = Row(g.adapters, k)
            BY <1>10, <1>19 DEF RowsAre
        <3>2. Row(t.adapters, k) = Brought(S4, "adapters", k, TRUE)
            BY <1>1, AdaptersArrive
        <3>3. Row(u.adapters, k) = IF Row(t.adapters, k) = {} THEN Row(u3.adapters, k) ELSE Row(t.adapters, k)
            BY <1>19, <3>2 DEF RowsAre
        <3> QED BY <3>1, <3>3
    <2>2. RowsOver(u.adapters, t.adapters, g.adapters)
        BY <1>20, <2>1 DEF RowsOver
    <2> QED BY <2>2, OverRows
<1>15. u.sources = Over(t.sources, g.sources)
    <2>1. ASSUME NEW k
          PROVE  Row(u.sources, k) = IF Row(t.sources, k) = {} THEN Row(g.sources, k) ELSE Row(t.sources, k)
        <3>1. Row(u2.sources, k) = Row(g.sources, k)
            BY <1>10, <1>18 DEF RowsAre
        <3>2. Brought(S3, "sources", k, TRUE) = IF k \notin DOMAIN t.adapters THEN Row(t.sources, k) ELSE {}
            BY <1>1, SourcesArrive
        <3>3. Brought(S4, "sources", k, TRUE) = IF k \in DOMAIN t.adapters THEN Row(t.sources, k) ELSE {}
            BY <1>1, AdaptersArrive
        <3>4. /\ Row(u3.sources, k) = IF Brought(S3, "sources", k, TRUE) = {} THEN Row(u2.sources, k)
                                     ELSE Brought(S3, "sources", k, TRUE)
              /\ Row(u.sources, k) = IF Brought(S4, "sources", k, TRUE) = {} THEN Row(u3.sources, k)
                                     ELSE Brought(S4, "sources", k, TRUE)
            BY <1>18 DEF RowsAre
        <3> QED BY <3>1, <3>2, <3>3, <3>4
    <2>2. RowsOver(u.sources, t.sources, g.sources)
        BY <1>20, <2>1 DEF RowsOver
    <2> QED BY <2>2, OverRows
<1> QED BY <1>12, <1>13, <1>14, <1>15

\* An install with the exported configuration is what a fresh one becomes by importing it.
THEOREM ExportsComeBack == TransferSpec => []RoundTrip
<1>1. ConfigInv => RoundTrip
    <2> SUFFICES ASSUME ConfigInv PROVE RoundTrip
        OBVIOUS
    <2>1. Sized(Tables)
        <3>1. \A k \in DOMAIN settings : settings[k] \in Values \cup {Blank}
            BY DEF ConfigInv, FormsInv, RowsOK, Texts
        <3> QED BY <3>1, TheTables, TablesType DEF ConfigInv, FormsInv, RowsOK, ImportInv, AtomicInv, Sized
    <2>2. Proper(FreshInstall)
        BY FreshAssumption, StockAssumption, InstallsAssumption DEF Stock, Proper, IsTables, IsTable
    <2> QED BY <2>1, <2>2, ArrivesOver DEF RoundTrip
<1> QED BY <1>1, AtomicHolds, PTL
-----------------------------------------------------------------------------
(* The desk, where all of it happens side by side: whatever is proved of    *)
(* the accounts or of the configuration alone holds there.                  *)

\* No part of the desk takes a step that its own module does not allow.
THEOREM DeskIsBoth == DeskSpec => Spec /\ TransferSpec
<1>1. DeskInit => Init /\ TransferInit
    BY DEF DeskInit, AccountsAtRest, TransferAtRest
<1>2. [DeskNext]_<<vars, allVars, part>> => [Next]_vars /\ [TransferNext]_allVars
    BY DEF DeskNext
<1> QED BY <1>1, <1>2, PTL DEF DeskSpec, Spec, TransferSpec

\* Accounts, sessions, settings, forms, the import page and a running import keep their types,
\* whoever works beside whom.
THEOREM DeskTypeCorrect == DeskSpec => []DeskTypeOK
<1>1. TypeOK /\ SettingsTypeOK /\ TransferTypeOK => DeskTypeOK
    BY DEF DeskTypeOK
<1> QED BY <1>1, DeskIsBoth, TypeCorrect, ConfigurationTypeCorrect, PTL

\* What the desk's administrators rely on, together: sessions are their owner's and end, what
\* nobody touched is kept, imports keep their word and an export comes back.
THEOREM DeskIsSafe ==
    DeskSpec => /\ [](SessionsHold /\ UntouchedKeepsItsValue /\ RoundTrip /\ ImportKeepsItsWord)
                /\ LastAdminNeedsTwo
BY DeskIsBoth, SessionsHoldAlways, LastAdminIsGuarded, UntouchedIsKept, ExportsComeBack, ImportsKeepTheirWord, PTL
=============================================================================
