------------------------------ MODULE Accounts ------------------------------
(***************************************************************************)
(* Login accounts and sessions: adapters/auth.py, the handlers of the ui   *)
(* that use it (routers/users.py, routers/auth.py, current_user.py), the   *)
(* manage_users.py command, and the administrator that the ui creates when *)
(* it starts.                                                              *)
(*                                                                         *)
(* The ui serves each request on a thread of a pool with a connection of   *)
(* its own, and manage_users.py is a process, so a request (`Worker`) is   *)
(* interrupted between any two statements that are not one transaction:    *)
(* the account is read, the administrators are counted, the row is         *)
(* written, the sessions are deleted.                                      *)
(***************************************************************************)
EXTENDS Integers, FiniteSets

CONSTANTS Workers,     \* requests and commands that may be under way together
          Names,       \* users.username
          Admin,       \* the name of the account that bootstrap creates
          Passwords,
          MaxId,       \* bound on users.id
          MaxToken,    \* bound on the sessions ever opened
          Ttl,         \* SESSION_TTL_SECONDS
          Threshold,   \* SESSION_REFRESH_THRESHOLD_SECONDS
          Scenarios,   \* tables at the start and how often things may happen
          Nobody

Roles == {"admin", "user"}
Kinds == {"login", "logout", "create", "role", "reset", "delete", "page"}
Steps == Kinds \cup {"cli", "tick", "restart"}
Tokens == 1 .. MaxToken
Ids    == 1 .. MaxId

ASSUME AdminAssumption == Admin \in Names
ASSUME TtlAssumption   == Ttl \in Nat /\ Threshold \in 0 .. Ttl
ASSUME BoundsAssumption == MaxId \in Nat /\ MaxToken \in Nat /\ Passwords # {}

VARIABLES
    now,
    users,       \* the users table: a function whose domain is the ids
    lastId,      \* sqlite_sequence: AUTOINCREMENT never gives an id twice
    sessions,    \* the sessions table, by token
    ui,          \* "up", or "failed": an exception while it started
    req,         \* the requests
    fuel,
    \* history: how each session was opened, when it was last used, and those
    \* that a logout, a role change, a reset or a deletion has ended
    opened, seen, ended

history == <<opened, seen, ended>>
vars    == <<now, users, lastId, sessions, ui, req, fuel, history>>

User == [name : Names, role : Roles, pw : Passwords]

\* A scenario's accounts have the first ids, and each is signed in.
ASSUME ScenariosAssumption ==
    \A s \in Scenarios :
        /\ s.fuel \in [Steps -> Nat]
        /\ \E n \in 0 .. MaxId : n <= MaxToken /\ s.users \in [1 .. n -> User]
        /\ \A i, j \in DOMAIN s.users : s.users[i].name = s.users[j].name => i = j

\* `token` is the cookie, 0 for a command; `user` what was read of the account;
\* `admins` who was counted.
Request == [kind : Kinds, token : 0 .. MaxToken, id : Ids \cup {0}, name : Names, role : Roles,
            pw : Passwords, pc : {"auth", "look", "count", "verify", "write", "clear", "open"},
            user : User \cup {Nobody}, admins : SUBSET Ids]
ASSUME NobodyAssumption == Nobody \notin Request

TypeOK ==
    /\ now \in Nat /\ lastId \in 0 .. MaxId /\ ui \in {"up", "failed"}
    /\ DOMAIN users \subseteq 1 .. lastId /\ users \in [DOMAIN users -> User]
    /\ \A i, j \in DOMAIN users : users[i].name = users[j].name => i = j
    /\ DOMAIN sessions \subseteq DOMAIN opened
    /\ sessions \in [DOMAIN sessions -> [user : Ids, expires : Nat]]
    /\ req \in [Workers -> Request \cup {Nobody}] /\ fuel \in [Steps -> Nat]
    /\ DOMAIN opened \subseteq Tokens
    /\ opened \in [DOMAIN opened -> [name : Names, pw : Passwords, spared : BOOLEAN]]
    /\ seen \in [DOMAIN opened -> 0 .. now] /\ ended \subseteq DOMAIN opened

Init ==
    /\ \E s \in Scenarios :
         /\ users = s.users /\ fuel = s.fuel /\ lastId = Cardinality(DOMAIN s.users)
         /\ sessions = [t \in DOMAIN s.users |-> [user |-> t, expires |-> Ttl]]
         /\ opened = [t \in DOMAIN s.users |->
                         [name |-> s.users[t].name, pw |-> s.users[t].pw, spared |-> FALSE]]
         /\ seen = [t \in DOMAIN s.users |-> 0]
    /\ now = 0 /\ ui = "up" /\ ended = {} /\ req = [w \in Workers |-> Nobody]

Without(f, S) == [x \in DOMAIN f \ S |-> f[x]]
With(f, x, v) == [y \in DOMAIN f \cup {x} |-> IF y = x THEN v ELSE f[y]]

Admins         == {i \in DOMAIN users : users[i].role = "admin"}
IdNamed(name)  == {i \in DOMAIN users : users[i].name = name}
SessionsOf(id) == {t \in DOMAIN sessions : sessions[t].user = id}

-----------------------------------------------------------------------------
(* A request arrives, or a command is typed.                                *)

Says(id, name, role, pw) ==
    [kind |-> "page", token |-> 0, id |-> id, name |-> name, role |-> role, pw |-> pw,
     pc |-> "auth", user |-> Nobody, admins |-> {}]
AnyPassword == CHOOSE p \in Passwords : TRUE
Plain       == Says(0, Admin, "user", AnyPassword)

Spend(step) == fuel[step] > 0 /\ fuel' = [fuel EXCEPT ![step] = @ - 1]

Begin(w, r) == /\ req[w] = Nobody /\ req' = [req EXCEPT ![w] = r]
               /\ UNCHANGED <<now, users, lastId, sessions, ui, history>>

\* What each kind of request says; the other fields stay blank.
Forms(kind) ==
    CASE kind \in {"logout", "page"} -> {Plain}
      [] kind = "create" -> {Says(0, n, r, AnyPassword) : n \in Names, r \in Roles}
      [] kind = "role"   -> {Says(i, Admin, r, AnyPassword) : i \in 1 .. lastId, r \in Roles}
      [] kind = "reset"  -> {Says(i, Admin, "user", p) : i \in 1 .. lastId, p \in Passwords}
      [] OTHER           -> {Says(i, Admin, "user", AnyPassword) : i \in 1 .. lastId}

Post(w, kind, t) ==
    /\ ui = "up" /\ kind # "login" /\ t \in DOMAIN opened /\ Spend(kind)
    /\ \E f \in Forms(kind) : Begin(w, [f EXCEPT !.kind = kind, !.token = t])

Login(w, name, pw) ==
    /\ ui = "up" /\ Spend("login")
    /\ Begin(w, [Plain EXCEPT !.kind = "login", !.name = name, !.pw = pw, !.pc = "look"])

\* manage_users.py: the same functions, with nobody to authorise and no count.
Command(w, kind) ==
    /\ kind \in {"create", "role", "reset", "delete"} /\ Spend("cli")
    /\ \E f \in Forms(kind) :
          Begin(w, [f EXCEPT !.kind = kind, !.pc = IF kind = "create" THEN "write" ELSE "look"])

-----------------------------------------------------------------------------
(* Its steps.                                                               *)

At(w, pc)  == req[w] # Nobody /\ req[w].pc = pc
Go(w, pc)  == req' = [req EXCEPT ![w].pc = pc]
Done(w)    == req' = [req EXCEPT ![w] = Nobody]

\* validate_session, one transaction: prune, look up, slide.  A session slides when
\* less than the threshold is left of it.  A mutant first: when more is.
Live       == {t \in DOMAIN sessions : sessions[t].expires >= now}
SlidWrong(t) == IF sessions[t].expires - now > Threshold THEN now + Ttl ELSE sessions[t].expires
Slid(t)      == IF sessions[t].expires - now < Threshold THEN now + Ttl ELSE sessions[t].expires

Valid(t) == t \in Live /\ sessions[t].user \in DOMAIN users
Pruned   == Without(sessions, DOMAIN sessions \ Live)

\* The router's require_role: a page and a logout need any account, the rest an admin.
May(kind, id) == kind \in {"page", "logout"} \/ users[id].role = "admin"

Authorise(w) ==
    LET r == req[w]
    IN  /\ At(w, "auth")
        /\ IF Valid(r.token)
           THEN /\ sessions' = [Pruned EXCEPT ![r.token].expires = Slid(r.token)]
                /\ seen' = [seen EXCEPT ![r.token] = now]
                /\ IF r.kind = "page" \/ ~May(r.kind, sessions[r.token].user) THEN Done(w)
                   ELSE Go(w, CASE r.kind = "logout" -> "clear"
                                [] r.kind = "create" -> "write"
                                [] OTHER             -> "look")
           ELSE sessions' = Pruned /\ Done(w) /\ UNCHANGED seen
        /\ UNCHANGED <<now, users, lastId, ui, fuel, opened, ended>>

\* get_user, or get_user_by_username for a login: gone is 404, or a failed login.
Guarded(r) == /\ r.token # 0 /\ r.user.role = "admin"
              /\ r.kind = "delete" \/ (r.kind = "role" /\ r.role = "user")

Look(w) ==
    LET r     == req[w]
        found == IF r.kind = "login" THEN IdNamed(r.name) ELSE {r.id} \cap DOMAIN users
        read  == [r EXCEPT !.id = CHOOSE i \in found : TRUE,
                           !.user = users[CHOOSE i \in found : TRUE]]
    IN  /\ At(w, "look")
        /\ IF found = {} THEN Done(w)
           ELSE req' = [req EXCEPT ![w] = [read EXCEPT !.pc =
                    CASE r.kind = "login" -> "verify"
                      [] Guarded(read)    -> "count"
                      [] r.kind = "delete" /\ ~Guarded(read) -> "clear"
                      [] OTHER            -> "write"]]
        /\ UNCHANGED <<now, users, lastId, sessions, ui, fuel, history>>

\* _enabled_admin_count: one administrator left is not demoted or deleted.  A mutant
\* first.
CountUpTo(w, least) ==
    LET r == req[w]
    IN  /\ At(w, "count")
        /\ IF Cardinality(Admins) <= least THEN Done(w)
           ELSE req' = [req EXCEPT ![w].admins = Admins,
                                   ![w].pc = IF r.kind = "delete" THEN "clear" ELSE "write"]
        /\ UNCHANGED <<now, users, lastId, sessions, ui, fuel, history>>
CountNone(w) == CountUpTo(w, 0)
Count(w)     == CountUpTo(w, 1)

\* The row.  A role or a password that finds no row to update changes nothing more; a
\* name that is taken is an error; a deletion has deleted the sessions before.
\* Mutants: the id that SQLite gives without AUTOINCREMENT, names that need not differ.
FreshReused(highest) == highest + 1
Fresh(highest)       == lastId + 1
TakenNever(name)     == FALSE
Taken(name)          == IdNamed(name) # {}

Highest == IF DOMAIN users = {} THEN 0
           ELSE CHOOSE i \in DOMAIN users : \A j \in DOMAIN users : j <= i

Insert(row) == LET id == Fresh(Highest)
               IN  /\ id <= MaxId
                   /\ users' = With(users, id, row)
                   /\ lastId' = IF id > lastId THEN id ELSE lastId

CreateRow(w) ==
    LET r == req[w]
    IN  /\ At(w, "write") /\ r.kind = "create" /\ Done(w)
        /\ IF Taken(r.name) THEN UNCHANGED <<users, lastId>>
           ELSE Insert([name |-> r.name, role |-> r.role, pw |-> r.pw])
        /\ UNCHANGED <<now, sessions, ui, fuel, history>>

UpdateRow(w) ==
    LET r == req[w]
    IN  /\ At(w, "write") /\ r.kind \in {"role", "reset"}
        /\ IF r.id \in DOMAIN users
           THEN /\ users' = IF r.kind = "role" THEN [users EXCEPT ![r.id].role = r.role]
                            ELSE [users EXCEPT ![r.id].pw = r.pw]
                /\ Go(w, "clear")
           ELSE UNCHANGED users /\ Done(w)
        /\ UNCHANGED <<now, lastId, sessions, ui, fuel, history>>

DeleteRow(w) ==
    LET r == req[w]
    IN  /\ At(w, "write") /\ r.kind = "delete" /\ Done(w)
        /\ users' = Without(users, {r.id})
        /\ UNCHANGED <<now, lastId, sessions, ui, fuel, history>>

\* delete_session, delete_all_sessions_for_user.  A mutant first: only those in use.
ClearWith(w, mine) ==
    LET r    == req[w]
        gone == IF r.kind = "logout" THEN {r.token} ELSE mine
    IN  /\ At(w, "clear")
        /\ sessions' = Without(sessions, gone) /\ ended' = ended \cup (gone \cap DOMAIN opened)
        /\ IF r.kind = "delete" THEN Go(w, "write") ELSE Done(w)
        /\ UNCHANGED <<now, users, lastId, ui, fuel, opened, seen>>
ClearOthers(w) == ClearWith(w, SessionsOf(req[w].id) \ {req[w].token})
Clear(w)       == ClearWith(w, SessionsOf(req[w].id))

\* login_action reads the hash once more, and checks it; only then the session.
Verify(w) ==
    LET r == req[w]
    IN  /\ At(w, "verify")
        /\ IF r.id \in DOMAIN users /\ users[r.id].pw = r.pw THEN Go(w, "open") ELSE Done(w)
        /\ UNCHANGED <<now, users, lastId, sessions, ui, fuel, history>>

Open(w) ==
    LET r == req[w]
        t == Cardinality(DOMAIN opened) + 1
    IN  /\ At(w, "open") /\ t <= MaxToken /\ Done(w)
        /\ sessions' = With(sessions, t, [user |-> r.id, expires |-> now + Ttl])
        /\ opened' = With(opened, t, [name |-> r.user.name, pw |-> r.pw,
                             spared |-> r.id \notin DOMAIN users \/ users[r.id].pw # r.pw])
        /\ seen' = With(seen, t, now)
        /\ UNCHANGED <<now, users, lastId, ui, fuel, ended>>

-----------------------------------------------------------------------------
(* Time, and the ui's start: bootstrap_admin_if_missing, whose insert fails *)
(* if its name is taken by an account that is no administrator.             *)

Tick == Spend("tick") /\ now' = now + 1
        /\ UNCHANGED <<users, lastId, sessions, ui, req, history>>

Resetting(w, id) == At(w, "clear") /\ req[w].kind = "reset" /\ req[w].id = id
Cut == {t \in DOMAIN sessions :
          \E w \in Workers : Resetting(w, sessions[t].user) /\ req[w].token # 0}

Restart ==
    /\ Spend("restart")
    /\ req' = [w \in Workers |-> IF req[w] # Nobody /\ (req[w].token # 0 \/ req[w].kind = "login")
                                 THEN Nobody ELSE req[w]]
    /\ IF Admins # {} THEN ui' = "up" /\ UNCHANGED <<users, lastId>>
       ELSE IF Taken(Admin) THEN ui' = "failed" /\ UNCHANGED <<users, lastId>>
       ELSE ui' = "up" /\ Insert([name |-> Admin, role |-> "admin", pw |-> AnyPassword])
    /\ opened' = [t \in DOMAIN opened |-> [opened[t] EXCEPT !.spared = @ \/ t \in Cut]]
    /\ UNCHANGED <<now, sessions, seen, ended>>

Work(w) == \/ Authorise(w) \/ Look(w) \/ Count(w) \/ CreateRow(w) \/ UpdateRow(w) \/ DeleteRow(w)
           \/ Clear(w) \/ Verify(w) \/ Open(w)

Arrive(w) == \/ \E kind \in Kinds, t \in Tokens : Post(w, kind, t)
             \/ \E name \in Names, pw \in Passwords : Login(w, name, pw)
             \/ \E kind \in Kinds : Command(w, kind)

Next == Tick \/ Restart \/ \E w \in Workers : Arrive(w) \/ Work(w)

Spec == Init /\ [][Next]_vars

-----------------------------------------------------------------------------
\* "cannot demote the last remaining admin", "cannot delete the last remaining admin"
\* (users.py:116, 172).  The count and the write are two transactions, so two requests
\* can do it together; one alone cannot: whoever removes the last administrator had read of
\* him that he was none, or had counted one who has been removed since.  A command has
\* no such guard.
Stale(r) == users[r.id].role # r.user.role \/ ~(r.admins \subseteq Admins)
LastAdminNeedsTwo ==
    [][Admins # {} /\ Admins' = {} =>
         \E w \in Workers : /\ At(w, "write") /\ req'[w] # req[w]
                            /\ req[w].token = 0 \/ Stale(req[w])]_vars

\* A session speaks for the account that logged in, never for one created later
\* (validate_session's join over an id that is not used twice).
SessionsKeepTheirOwner ==
    \A t \in DOMAIN sessions :
        sessions[t].user \in DOMAIN users => users[sessions[t].user].name = opened[t].name

\* "Existing sessions invalidated" (manage_users.py:105): a session that was opened with
\* an earlier password is about to be deleted, or its login had checked that password
\* before the reset and opened the session after it, or the ui was killed between the two
\* commits of the reset.
ResetEndsSessions ==
    \A t \in DOMAIN sessions :
        LET id == sessions[t].user
        IN  id \in DOMAIN users =>
              \/ users[id].pw = opened[t].pw
              \/ opened[t].spared
              \/ \E w \in Workers : Resetting(w, id)

\* The sliding window: a session that nothing has ended is valid for at least the
\* threshold after its last use, and never longer than the time to live.
SessionsSlide ==
    /\ \A t \in DOMAIN opened \ ended :
          now - seen[t] <= Threshold => t \in DOMAIN sessions /\ sessions[t].expires >= now
    /\ \A t \in DOMAIN sessions : sessions[t].expires <= seen[t] + Ttl

\* A session is its owner's, while it is in use, until it is ended.
SessionsHold == SessionsKeepTheirOwner /\ ResetEndsSessions /\ SessionsSlide
=============================================================================
