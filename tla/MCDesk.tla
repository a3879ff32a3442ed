------------------------------- MODULE MCDesk -------------------------------
(* Two accounts and three requests; two desks with three settings, three    *)
(* files and two installs.                                                  *)
EXTENDS Desk, TLC

CONSTANTS admin, ann, bob, old, new, nobody, one, two, callsign, apikey, tick, odd,
          a, b, misfit, blank, mask, unset, nothing, daily, default, bad, api, code

U(name, role) == [name |-> name, role |-> role, pw |-> old]
TwoAdmins == (1 :> U(admin, "admin")) @@ (2 :> U(ann, "admin"))
OneAdmin  == (1 :> U(admin, "admin")) @@ (2 :> U(ann, "user"))

Sc(table, f) == [users |-> table, fuel |-> [x \in Steps |-> IF x \in DOMAIN f THEN f[x] ELSE 0]]

MCScenarios == {
    Sc(TwoAdmins, [role |-> 1, delete |-> 2]),
    Sc(OneAdmin, [role |-> 2, delete |-> 1]),
    Sc(OneAdmin, [login |-> 1, reset |-> 1, cli |-> 1]),
    Sc(OneAdmin, [login |-> 1, delete |-> 1, create |-> 1]),
    Sc(OneAdmin, [page |-> 3, tick |-> 7, logout |-> 1]),
    Sc(OneAdmin, [login |-> 1, reset |-> 1, restart |-> 1]),
    Sc(OneAdmin, [cli |-> 2, restart |-> 2])}

MCEnv      == [k \in {callsign, apikey, tick} |-> IF k = tick THEN b ELSE unset]
MCFallback == [k \in {callsign, apikey, tick} |-> IF k = tick THEN a ELSE blank]
\* b is a with a blank behind it, as the default of the voice prefix has one.
MCStrip    == [v \in {a, b, misfit, blank, mask} |-> IF v = b THEN a ELSE v]

Adapter(s, body, p, display) ==
    [section |-> "adapters", key |-> s, body |-> body, policy |-> p, display |-> display]
MCFiles == {
    {Entry("settings", tick, a), Entry("settings", odd, a), Entry("policies", daily, a),
     Entry("sources", one, b), Adapter(one, api, daily, a)},
    {Entry("settings", apikey, b), Entry("policies", daily, bad), Adapter(one, code, daily, nothing),
     Entry("sources", two, b)},
    {Entry("settings", tick, misfit), Entry("sources", two, nothing), Adapter(two, api, daily, b)}}

Install(set, pol, src, ad) == [settings |-> set, policies |-> pol, sources |-> src, adapters |-> ad]
MCFresh == Install(<<>>, default :> a, <<>>, <<>>)
MCInstalls == {
    MCFresh,
    Install(callsign :> a @@ apikey :> a, default :> a @@ daily :> b, one :> b @@ two :> b,
            one :> [body |-> api, policy |-> daily])}
=============================================================================
