--------------------------- MODULE AccountsProofs ---------------------------
(***************************************************************************)
(* What holds of accounts and sessions for every set of names, requests    *)
(* and scenarios: type correctness, whose session a session is and how     *)
(* long, and what the count of administrators guarantees.                  *)
(***************************************************************************)
EXTENDS Accounts, FiniteSetTheorems, TLAPS

-----------------------------------------------------------------------------
(* Sets and functions. *)

\* More than one of something is two different ones (_enabled_admin_count(conn) <= 1).
LEMMA MoreThanOne ==
    ASSUME NEW S, ~(Cardinality(S) <= 1) PROVE \E i, j \in S : i # j
<1> SUFFICES ASSUME \A i, j \in S : i = j PROVE FALSE
    OBVIOUS
<1>1. CASE S = {}
    BY <1>1, FS_EmptySet
<1>2. ASSUME NEW x \in S PROVE FALSE
    <2>1. S = {x}
        BY <1>2
    <2>2. Cardinality(S) = 1
        BY <2>1, FS_Singleton
    <2> QED BY <2>2
<1> QED BY <1>1, <1>2

-----------------------------------------------------------------------------
(* Type correctness.  A session is opened for what an earlier step of the   *)
(* sign-in has read, so its type rests on SignIn: a password is verified    *)
(* for an id that has been given away, and if its row is still there it is  *)
(* still the row of that name, since ids are never used twice and nobody is *)
(* renamed.                                                                 *)

SignIn ==
    \A w \in Workers : At(w, "verify") \/ At(w, "open") =>
        /\ req[w].id \in 1 .. lastId /\ req[w].user \in User
        /\ req[w].id \in DOMAIN users => users[req[w].id].name = req[w].user.name

Session == [user : Ids, expires : Nat]
Opened  == [name : Names, pw : Passwords, spared : BOOLEAN]

\* The parts of TypeOK that steps change together.
RequestsOK == req \in [Workers -> Request \cup {Nobody}] /\ fuel \in [Steps -> Nat]
AccountsOK == /\ lastId \in 0 .. MaxId /\ ui \in {"up", "failed"}
              /\ DOMAIN users \subseteq 1 .. lastId /\ users \in [DOMAIN users -> User]
              /\ \A i, j \in DOMAIN users : users[i].name = users[j].name => i = j
SessionsOK == /\ now \in Nat
              /\ DOMAIN sessions \subseteq DOMAIN opened
              /\ sessions \in [DOMAIN sessions -> Session]
              /\ DOMAIN opened \subseteq Tokens /\ opened \in [DOMAIN opened -> Opened]
              /\ seen \in [DOMAIN opened -> 0 .. now] /\ ended \subseteq DOMAIN opened

LEMMA TypeParts == TypeOK <=> RequestsOK /\ AccountsOK /\ SessionsOK
BY DEF TypeOK, RequestsOK, AccountsOK, SessionsOK, Session, Opened

LEMMA TypePartsNext == RequestsOK' /\ AccountsOK' /\ SessionsOK' => TypeOK'
BY DEF TypeOK, RequestsOK, AccountsOK, SessionsOK, Session, Opened

LEMMA InitType == Init => TypeOK
<1> SUFFICES ASSUME Init PROVE TypeOK
    OBVIOUS
<1>1. PICK s \in Scenarios :
        /\ users = s.users /\ fuel = s.fuel /\ lastId = Cardinality(DOMAIN s.users)
        /\ sessions = [t \in DOMAIN s.users |-> [user |-> t, expires |-> Ttl]]
        /\ opened = [t \in DOMAIN s.users |->
                        [name |-> s.users[t].name, pw |-> s.users[t].pw, spared |-> FALSE]]
        /\ seen = [t \in DOMAIN s.users |-> 0]
    BY DEF Init
<1>2. PICK n \in 0 .. MaxId : n <= MaxToken /\ users \in [1 .. n -> User]
    BY <1>1, ScenariosAssumption
<1>3. MaxId \in Nat /\ MaxToken \in Nat /\ Ttl \in Nat
    BY BoundsAssumption, TtlAssumption
<1>4. DOMAIN users = 1 .. n /\ lastId = n
    BY <1>1, <1>2, <1>3, FS_Interval
<1>5. RequestsOK
    BY <1>1, ScenariosAssumption DEF Init, RequestsOK
<1>6. AccountsOK
    BY <1>1, <1>2, <1>3, <1>4, ScenariosAssumption DEF Init, AccountsOK
<1>7. SessionsOK
    BY <1>1, <1>2, <1>3, <1>4 DEF Init, SessionsOK, Session, Opened, User, Ids, Tokens
<1> QED BY <1>5, <1>6, <1>7, TypeParts

\* What arrives is a request.
LEMMA SaysType ==
    ASSUME NEW i \in Ids \cup {0}, NEW n \in Names, NEW r \in Roles, NEW p \in Passwords
    PROVE  Says(i, n, r, p) \in Request /\ Says(i, n, r, p).pc = "auth"
BY BoundsAssumption DEF Says, Request, Kinds

LEMMA PlainType == AnyPassword \in Passwords /\ Plain \in Request /\ Plain.pc = "auth"
<1>1. AnyPassword \in Passwords
    BY BoundsAssumption DEF AnyPassword
<1> QED BY <1>1, SaysType, AdminAssumption DEF Plain, Roles

LEMMA FormsType ==
    ASSUME TypeOK, NEW kind \in Kinds, NEW f \in Forms(kind),
           NEW t \in 0 .. MaxToken, NEW pc \in {"auth", "look", "write"}
    PROVE  /\ f \in Request /\ f.pc = "auth"
           /\ [f EXCEPT !.kind = kind, !.token = t] \in Request
           /\ [f EXCEPT !.kind = kind, !.pc = pc] \in Request
<1>1. AnyPassword \in Passwords /\ Plain \in Request /\ Plain.pc = "auth" /\ Admin \in Names /\ "user" \in Roles
    BY PlainType, AdminAssumption DEF Roles
<1>2. 1 .. lastId \subseteq Ids
    BY BoundsAssumption DEF TypeOK, Ids
<1>3. f \in Request /\ f.pc = "auth"
    <2>1. \/ f = Plain
          \/ f \in {Says(0, n, r, AnyPassword) : n \in Names, r \in Roles}
          \/ f \in {Says(i, Admin, r, AnyPassword) : i \in 1 .. lastId, r \in Roles}
          \/ f \in {Says(i, Admin, "user", p) : i \in 1 .. lastId, p \in Passwords}
          \/ f \in {Says(i, Admin, "user", AnyPassword) : i \in 1 .. lastId}
        BY DEF Forms
    <2>2. \A i \in (1 .. lastId) \cup {0}, n \in Names, r \in Roles, p \in Passwords :
             Says(i, n, r, p) \in Request /\ Says(i, n, r, p).pc = "auth"
        BY <1>2, SaysType
    <2> QED BY <1>1, <2>1, <2>2
<1> QED BY <1>3 DEF Request

\* A request goes on, or is done with.
LEMMA GoType ==
    ASSUME RequestsOK, NEW w \in Workers, req[w] \in Request,
           NEW pc \in {"auth", "look", "count", "verify", "write", "clear", "open"},
           Go(w, pc) \/ Done(w), UNCHANGED fuel
    PROVE  RequestsOK'
BY DEF RequestsOK, Go, Done, Request

LEMMA AtIsARequest ==
    ASSUME RequestsOK, NEW w \in Workers, NEW pc, At(w, pc) PROVE req[w] \in Request
BY DEF RequestsOK, At

\* Steps that only move requests along.
LEMMA MovesType ==
    ASSUME TypeOK, RequestsOK', UNCHANGED <<now, users, lastId, sessions, ui, history>>
    PROVE  TypeOK'
BY TypeParts DEF TypeOK, RequestsOK, history

LEMMA ArriveType ==
    ASSUME TypeOK, NEW w \in Workers, Arrive(w) PROVE TypeOK'
<1>1. RequestsOK /\ 0 \in 0 .. MaxToken
    BY TypeParts, BoundsAssumption
<1>2. ASSUME NEW r \in Request, Begin(w, r), NEW step \in Steps, Spend(step) PROVE TypeOK'
    <2>1. RequestsOK'
        BY <1>1, <1>2 DEF RequestsOK, Begin, Spend
    <2> QED BY <1>2, <2>1, MovesType DEF Begin
<1>3. ASSUME NEW kind \in Kinds, NEW t \in Tokens, Post(w, kind, t) PROVE TypeOK'
    <2>1. PICK f \in Forms(kind) : Begin(w, [f EXCEPT !.kind = kind, !.token = t])
        BY <1>3 DEF Post
    <2>2. t \in 0 .. MaxToken /\ kind \in Steps /\ Spend(kind)
        BY <1>3, BoundsAssumption DEF Post, Tokens, Steps
    <2> QED BY <1>2, <2>1, <2>2, FormsType
<1>4. ASSUME NEW name \in Names, NEW pw \in Passwords, Login(w, name, pw) PROVE TypeOK'
    <2>1. Plain \in Request
        BY PlainType
    <2>2. [Plain EXCEPT !.kind = "login", !.name = name, !.pw = pw, !.pc = "look"] \in Request
        BY <2>1 DEF Request, Kinds
    <2> QED BY <1>2, <1>4, <2>2 DEF Login, Steps, Kinds
<1>5. ASSUME NEW kind \in Kinds, Command(w, kind) PROVE TypeOK'
    <2>1. PICK f \in Forms(kind) :
            Begin(w, [f EXCEPT !.kind = kind, !.pc = IF kind = "create" THEN "write" ELSE "look"])
        BY <1>5 DEF Command
    <2> QED BY <1>1, <1>2, <1>5, <2>1, FormsType DEF Command, Steps
<1> QED BY <1>3, <1>4, <1>5 DEF Arrive

\* The steps of a request that read, or write the table of accounts.
LEMMA ReadType ==
    ASSUME TypeOK, NEW w \in Workers, Look(w) \/ Count(w) \/ Verify(w) PROVE TypeOK'
<1>1. RequestsOK /\ AccountsOK
    BY TypeParts
<1>2. UNCHANGED <<now, users, lastId, sessions, ui, fuel, history>>
    BY DEF Look, Count, CountUpTo, Verify
<1>3. req[w] \in Request
    BY <1>1, AtIsARequest DEF Look, Count, CountUpTo, Verify
<1>4. DOMAIN users \subseteq Ids /\ users \in [DOMAIN users -> User]
    BY <1>1, BoundsAssumption DEF AccountsOK, Ids
<1>5. CASE Look(w)
    <2> DEFINE found == IF req[w].kind = "login" THEN IdNamed(req[w].name) ELSE {req[w].id} \cap DOMAIN users
               i     == CHOOSE i \in found : TRUE
               read  == [req[w] EXCEPT !.id = i, !.user = users[i]]
    <2>1. CASE found = {}
        BY <1>1, <1>2, <1>3, <1>5, <2>1, GoType, MovesType DEF Look
    <2>2. CASE found # {}
        <3>1. i \in DOMAIN users
            BY <2>2 DEF IdNamed
        <3>2. read \in Request
            BY <1>3, <1>4, <3>1 DEF Request
        <3>3. PICK pc \in {"verify", "count", "clear", "write"} :
                req' = [req EXCEPT ![w] = [read EXCEPT !.pc = pc]]
            BY <1>5, <2>2 DEF Look
        <3> HIDE DEF read
        <3>4. [read EXCEPT !.pc = pc] \in Request
            BY <3>2 DEF Request
        <3>5. RequestsOK'
            BY <1>1, <1>2, <3>3, <3>4 DEF RequestsOK
        <3> QED BY <1>2, <3>5, MovesType
    <2> QED BY <2>1, <2>2
<1>6. CASE Count(w)
    <2>1. Admins \in SUBSET Ids
        BY <1>4 DEF Admins
    <2>2. RequestsOK'
        BY <1>1, <1>2, <1>3, <1>6, <2>1 DEF RequestsOK, Count, CountUpTo, Done, Request
    <2> QED BY <1>2, <2>2, MovesType
<1>7. CASE Verify(w)
    BY <1>1, <1>2, <1>3, <1>7, GoType, MovesType DEF Verify
<1> QED BY <1>5, <1>6, <1>7

\* A row that is inserted, under an id that is new and a name that is not taken.
LEMMA InsertType ==
    ASSUME AccountsOK, NEW row \in User, ~Taken(row.name), Insert(row)
    PROVE  /\ DOMAIN users' = DOMAIN users \cup {lastId + 1} /\ lastId + 1 \notin DOMAIN users
           /\ lastId' = lastId + 1 /\ lastId + 1 <= MaxId
           /\ users' \in [DOMAIN users' -> User] /\ users'[lastId + 1] = row
           /\ \A i \in DOMAIN users : users'[i] = users[i]
           /\ \A i, j \in DOMAIN users' : users'[i].name = users'[j].name => i = j
<1>1. lastId \in 0 .. MaxId /\ MaxId \in Nat /\ DOMAIN users \subseteq 1 .. lastId
    BY BoundsAssumption DEF AccountsOK
<1>2. lastId + 1 \notin DOMAIN users /\ lastId + 1 > lastId
    BY <1>1
<1>3. lastId + 1 <= MaxId /\ users' = With(users, lastId + 1, row) /\ lastId' = lastId + 1
    BY <1>2 DEF Insert, Fresh
<1>4. \A i \in DOMAIN users : users[i].name # row.name
    BY DEF Taken, IdNamed
<1>5. users \in [DOMAIN users -> User]
    BY DEF AccountsOK
<1>6. /\ DOMAIN users' = DOMAIN users \cup {lastId + 1}
      /\ users' \in [DOMAIN users' -> User] /\ users'[lastId + 1] = row
      /\ \A i \in DOMAIN users : users'[i] = users[i]
    BY <1>2, <1>3, <1>5 DEF With
<1>7. \A i, j \in DOMAIN users' : users'[i].name = users'[j].name => i = j
    BY <1>2, <1>4, <1>6 DEF AccountsOK
<1> QED BY <1>2, <1>3, <1>6, <1>7

LEMMA WriteType ==
    ASSUME TypeOK, NEW w \in Workers, CreateRow(w) \/ UpdateRow(w) \/ DeleteRow(w) PROVE TypeOK'
<1>1. RequestsOK /\ AccountsOK /\ SessionsOK
    BY TypeParts
<1>2. req[w] \in Request
    BY <1>1, AtIsARequest DEF CreateRow, UpdateRow, DeleteRow
<1>3. SessionsOK' /\ UNCHANGED <<ui, fuel>>
    BY <1>1 DEF SessionsOK, CreateRow, UpdateRow, DeleteRow, history, Session, Opened
<1>4. RequestsOK'
    BY <1>1, <1>2, <1>3, GoType DEF CreateRow, UpdateRow, DeleteRow
<1>5. AccountsOK'
    <2>1. CASE CreateRow(w)
        <3> DEFINE row == [name |-> req[w].name, role |-> req[w].role, pw |-> req[w].pw]
        <3>1. row \in User /\ row.name = req[w].name
            BY <1>2 DEF Request, User
        <3>2. CASE Taken(req[w].name)
            BY <1>1, <1>3, <2>1, <3>2 DEF AccountsOK, CreateRow
        <3>3. CASE ~Taken(req[w].name)
            <4>1. Insert(row)
                BY <2>1, <3>3 DEF CreateRow
            <4> HIDE DEF row
            <4> QED BY <1>1, <1>3, <3>1, <3>3, <4>1, InsertType, BoundsAssumption DEF AccountsOK
        <3> QED BY <3>2, <3>3
    <2>2. CASE UpdateRow(w)
        <3>1. req[w].role \in Roles /\ req[w].pw \in Passwords
            BY <1>2 DEF Request
        <3>2. DOMAIN users' = DOMAIN users /\ users' \in [DOMAIN users -> User]
            BY <1>1, <2>2, <3>1 DEF AccountsOK, UpdateRow, User
        <3>3. \A i \in DOMAIN users : users'[i].name = users[i].name
            BY <1>1, <2>2 DEF AccountsOK, UpdateRow, User
        <3>4. lastId' = lastId
            BY <2>2 DEF UpdateRow
        <3> QED BY <1>1, <1>3, <3>2, <3>3, <3>4 DEF AccountsOK
    <2>3. CASE DeleteRow(w)
        <3>1. /\ DOMAIN users' = DOMAIN users \ {req[w].id} /\ users' \in [DOMAIN users' -> User]
              /\ \A i \in DOMAIN users' : users'[i] = users[i]
            BY <1>1, <2>3 DEF AccountsOK, DeleteRow, Without
        <3>2. lastId' = lastId
            BY <2>3 DEF DeleteRow
        <3> QED BY <1>1, <1>3, <3>1, <3>2 DEF AccountsOK
    <2> QED BY <2>1, <2>2, <2>3
<1> QED BY <1>3, <1>4, <1>5, TypePartsNext

\* The steps of a request that write the table of sessions.
LEMMA SessionType ==
    ASSUME TypeOK, SignIn, NEW w \in Workers, Authorise(w) \/ Clear(w) \/ Open(w) PROVE TypeOK'
<1>1. RequestsOK /\ AccountsOK /\ SessionsOK
    BY TypeParts
<1>2. req[w] \in Request
    BY <1>1, AtIsARequest DEF Authorise, Clear, ClearWith, Open
<1>3. UNCHANGED <<now, users, lastId, ui, fuel>>
    BY DEF Authorise, Clear, ClearWith, Open
<1>4. RequestsOK'
    BY <1>1, <1>2, <1>3, GoType DEF Authorise, Clear, ClearWith, Open
<1>5. AccountsOK'
    BY <1>1, <1>3 DEF AccountsOK
<1>6. now \in Nat /\ Ttl \in Nat /\ Threshold \in Nat /\ MaxToken \in Nat
    BY <1>1, TtlAssumption, BoundsAssumption DEF SessionsOK
<1>7. SessionsOK'
    <2>1. CASE Authorise(w)
        <3>1. Pruned \in [DOMAIN Pruned -> Session] /\ DOMAIN Pruned \subseteq DOMAIN sessions
              /\ UNCHANGED <<opened, ended>>
            BY <1>1, <2>1 DEF SessionsOK, Pruned, Without, Live, Authorise
        <3>2. CASE Valid(req[w].token)
            <4>1. req[w].token \in DOMAIN Pruned
                BY <3>2 DEF Valid, Live, Pruned, Without
            <4>2. Slid(req[w].token) \in Nat
                BY <1>1, <1>6, <3>2 DEF Slid, Valid, Live, SessionsOK, Session
            <4>3. sessions' = [Pruned EXCEPT ![req[w].token].expires = Slid(req[w].token)]
                  /\ seen' = [seen EXCEPT ![req[w].token] = now]
                BY <2>1, <3>2 DEF Authorise
            <4>4. sessions' \in [DOMAIN Pruned -> Session]
                BY <3>1, <4>1, <4>2, <4>3 DEF Session
            <4>5. seen' \in [DOMAIN opened -> 0 .. now]
                BY <1>1, <1>6, <3>1, <4>1, <4>3 DEF SessionsOK
            <4> QED BY <1>1, <1>3, <3>1, <4>4, <4>5 DEF SessionsOK
        <3>3. CASE ~Valid(req[w].token)
            BY <1>1, <1>3, <2>1, <3>1, <3>3 DEF SessionsOK, Authorise
        <3> QED BY <3>2, <3>3
    <2>2. CASE Clear(w)
        <3>1. PICK gone : sessions' = Without(sessions, gone) /\ ended' = ended \cup (gone \cap DOMAIN opened)
            BY <2>2 DEF Clear, ClearWith
        <3>2. UNCHANGED <<now, opened, seen>>
            BY <2>2 DEF Clear, ClearWith
        <3> QED BY <1>1, <3>1, <3>2 DEF SessionsOK, Without
    <2>3. CASE Open(w)
        <3> DEFINE t == Cardinality(DOMAIN opened) + 1
        <3>1. t \in Tokens
            <4>1. IsFiniteSet(DOMAIN opened)
                <5>1. IsFiniteSet(Tokens)
                    BY <1>6, FS_Interval DEF Tokens
                <5> QED BY <1>1, <5>1, FS_Subset DEF SessionsOK
            <4>2. Cardinality(DOMAIN opened) \in Nat
                BY <4>1, FS_CardinalityType
            <4> QED BY <1>6, <2>3, <4>2 DEF Open, Tokens
        <3>2. [user |-> req[w].id, expires |-> now + Ttl] \in Session
            BY <1>1, <1>6, <2>3, BoundsAssumption DEF SignIn, Open, AccountsOK, Session, Ids
        <3>3. PICK b \in BOOLEAN :
                opened' = With(opened, t, [name |-> req[w].user.name, pw |-> req[w].pw, spared |-> b])
            BY <2>3 DEF Open
        <3>4. [name |-> req[w].user.name, pw |-> req[w].pw, spared |-> b] \in Opened
            BY <1>2, <2>3 DEF SignIn, Open, User, Request, Opened
        <3>5. /\ sessions' = With(sessions, t, [user |-> req[w].id, expires |-> now + Ttl])
              /\ seen' = With(seen, t, now) /\ UNCHANGED <<now, ended>>
            BY <2>3 DEF Open
        <3> HIDE DEF t
        <3>6. sessions' \in [DOMAIN sessions' -> Session] /\ DOMAIN sessions' = DOMAIN sessions \cup {t}
            BY <1>1, <3>2, <3>5 DEF SessionsOK, With
        <3>7. opened' \in [DOMAIN opened' -> Opened] /\ DOMAIN opened' = DOMAIN opened \cup {t}
            BY <1>1, <3>3, <3>4 DEF SessionsOK, With
        <3>8. seen' \in [DOMAIN opened' -> 0 .. now]
            BY <1>1, <1>6, <3>5, <3>7 DEF SessionsOK, With
        <3> QED BY <1>1, <3>1, <3>5, <3>6, <3>7, <3>8 DEF SessionsOK
    <2> QED BY <2>1, <2>2, <2>3
<1> QED BY <1>4, <1>5, <1>7, TypePartsNext

\* A ui that is started marks the sessions of a reset it cut short, and no more.
LEMMA RestartMarks ==
    ASSUME SessionsOK, Restart
    PROVE  /\ UNCHANGED <<now, sessions, seen, ended>> /\ DOMAIN opened' = DOMAIN opened
           /\ opened' \in [DOMAIN opened -> Opened]
           /\ \A t \in DOMAIN opened :
                 /\ opened'[t].name = opened[t].name /\ opened'[t].pw = opened[t].pw
                 /\ opened[t].spared \/ t \in Cut => opened'[t].spared
<1>1. /\ UNCHANGED <<now, sessions, seen, ended>>
      /\ opened' = [t \in DOMAIN opened |-> [opened[t] EXCEPT !.spared = @ \/ t \in Cut]]
    BY DEF Restart
<1>2. opened \in [DOMAIN opened -> Opened]
    BY DEF SessionsOK
<1>3. ASSUME NEW t \in DOMAIN opened
      PROVE  /\ opened'[t] \in Opened
             /\ opened'[t].name = opened[t].name /\ opened'[t].pw = opened[t].pw
             /\ opened[t].spared \/ t \in Cut => opened'[t].spared
    <2> DEFINE b == opened[t].spared \/ t \in Cut
    <2>1. opened'[t] = [opened[t] EXCEPT !.spared = b]
        BY <1>1
    <2>2. b \in BOOLEAN
        OBVIOUS
    <2> HIDE DEF b
    <2>3. opened'[t] \in Opened /\ opened'[t].name = opened[t].name /\ opened'[t].pw = opened[t].pw
          /\ opened'[t].spared = b
        BY <1>2, <2>1, <2>2 DEF Opened
    <2> QED BY <2>3 DEF b
<1> QED BY <1>1, <1>3

\* Time, and the start of the ui.
LEMMA WorldType ==
    ASSUME TypeOK, Tick \/ Restart PROVE TypeOK'
<1>1. RequestsOK /\ AccountsOK /\ SessionsOK
    BY TypeParts
<1>2. CASE Tick
    <2>1. RequestsOK'
        BY <1>1, <1>2 DEF RequestsOK, Tick, Spend, Steps
    <2>2. AccountsOK'
        BY <1>1, <1>2 DEF AccountsOK, Tick
    <2>3. SessionsOK'
        BY <1>1, <1>2 DEF SessionsOK, Tick, history
    <2> QED BY <2>1, <2>2, <2>3, TypePartsNext
<1>3. CASE Restart
    <2>1. RequestsOK'
        BY <1>1, <1>3 DEF RequestsOK, Restart, Spend, Steps
    <2>2. SessionsOK'
        BY <1>1, <1>3, RestartMarks DEF SessionsOK
    <2>3. AccountsOK'
        <3> DEFINE row == [name |-> Admin, role |-> "admin", pw |-> AnyPassword]
        <3>1. row \in User /\ row.name = Admin
            BY PlainType, AdminAssumption DEF User, Roles
        <3>2. CASE Admins # {} \/ Taken(Admin)
            BY <1>1, <1>3, <3>2 DEF AccountsOK, Restart
        <3>3. CASE ~(Admins # {} \/ Taken(Admin))
            <4>1. Insert(row) /\ ui' = "up"
                BY <1>3, <3>3 DEF Restart
            <4> HIDE DEF row
            <4> QED BY <1>1, <3>1, <3>3, <4>1, InsertType, BoundsAssumption DEF AccountsOK
        <3> QED BY <3>2, <3>3
    <2> QED BY <2>1, <2>2, <2>3, TypePartsNext
<1> QED BY <1>2, <1>3

LEMMA TypeStep == TypeOK /\ SignIn /\ [Next]_vars => TypeOK'
<1> SUFFICES ASSUME TypeOK, SignIn, [Next]_vars PROVE TypeOK'
    OBVIOUS
<1>1. CASE UNCHANGED vars
    BY <1>1 DEF TypeOK, vars, history
<1>2. CASE Tick \/ Restart
    BY <1>2, WorldType
<1>3. ASSUME NEW w \in Workers, Arrive(w) \/ Work(w) PROVE TypeOK'
    BY <1>3, ArriveType, ReadType, WriteType, SessionType DEF Work
<1> QED BY <1>1, <1>2, <1>3 DEF Next

-----------------------------------------------------------------------------
(* Whose session it is. *)

\* No id is given twice, no account is renamed.
LEMMA NamesStay ==
    ASSUME TypeOK, [Next]_vars
    PROVE  /\ lastId \in Nat /\ lastId' \in Nat /\ lastId <= lastId'
           /\ \A i \in 1 .. lastId : i \in DOMAIN users' =>
                i \in DOMAIN users /\ users'[i].name = users[i].name
<1>1. AccountsOK /\ RequestsOK /\ lastId \in Nat
    BY TypeParts, BoundsAssumption DEF AccountsOK
<1>2. CASE UNCHANGED <<users, lastId>>
    BY <1>1, <1>2
<1>3. ASSUME NEW row \in User, ~Taken(row.name), Insert(row)
      PROVE  /\ lastId' = lastId + 1
             /\ \A i \in 1 .. lastId : i \in DOMAIN users' =>
                  i \in DOMAIN users /\ users'[i].name = users[i].name
    BY <1>1, <1>3, InsertType
<1>4. CASE Restart
    <2> DEFINE row == [name |-> Admin, role |-> "admin", pw |-> AnyPassword]
    <2>1. row \in User /\ row.name = Admin
        BY PlainType, AdminAssumption DEF User, Roles
    <2>2. UNCHANGED <<users, lastId>> \/ (~Taken(Admin) /\ Insert(row))
        BY <1>4 DEF Restart
    <2> HIDE DEF row
    <2> QED BY <1>1, <1>2, <1>3, <2>1, <2>2
<1>5. ASSUME NEW w \in Workers, CreateRow(w) PROVE UNCHANGED <<users, lastId>> \/
        (/\ lastId' = lastId + 1
         /\ \A i \in 1 .. lastId : i \in DOMAIN users' => i \in DOMAIN users /\ users'[i].name = users[i].name)
    <2> DEFINE row == [name |-> req[w].name, role |-> req[w].role, pw |-> req[w].pw]
    <2>1. req[w] \in Request
        BY <1>1, <1>5, AtIsARequest DEF CreateRow
    <2>2. row \in User /\ row.name = req[w].name
        BY <2>1 DEF Request, User
    <2>3. UNCHANGED <<users, lastId>> \/ (~Taken(req[w].name) /\ Insert(row))
        BY <1>5 DEF CreateRow
    <2> HIDE DEF row
    <2> QED BY <1>3, <2>2, <2>3
<1>6. ASSUME NEW w \in Workers, UpdateRow(w) \/ DeleteRow(w)
      PROVE  /\ UNCHANGED lastId
             /\ \A i \in 1 .. lastId : i \in DOMAIN users' =>
                  i \in DOMAIN users /\ users'[i].name = users[i].name
    BY <1>1, <1>6 DEF UpdateRow, DeleteRow, AccountsOK, User, Without
<1>7. ASSUME NEW w \in Workers, Arrive(w) PROVE UNCHANGED <<users, lastId>>
    BY <1>7 DEF Arrive, Post, Login, Command, Begin
<1>8. ASSUME NEW w \in Workers, Work(w) PROVE
        \/ UNCHANGED <<users, lastId>> \/ CreateRow(w) \/ UpdateRow(w) \/ DeleteRow(w)
    BY <1>8 DEF Work, Authorise, Look, Count, CountUpTo, Clear, ClearWith, Verify, Open
<1>9. CASE Tick \/ UNCHANGED vars
    BY <1>2, <1>9 DEF Tick, vars
<1> QED BY <1>1, <1>2, <1>4, <1>5, <1>6, <1>7, <1>8, <1>9 DEF Next

LEMMA OthersWait ==
    ASSUME RequestsOK, NEW w \in Workers, Arrive(w) \/ Work(w), NEW v \in Workers, v # w
    PROVE  req'[v] = req[v]
BY DEF RequestsOK, Arrive, Post, Login, Command, Begin, Work, Authorise, Look, Count, CountUpTo, CreateRow,
       UpdateRow, DeleteRow, Clear, ClearWith, Verify, Open, Go, Done

\* A request that has just arrived has read nothing, and only `create` is about to write.
LEMMA ArrivesUnread ==
    ASSUME TypeOK, NEW w \in Workers, Arrive(w)
    PROVE  req'[w] \in Request /\ (req'[w].pc \in {"auth", "look"} \/ (req'[w].pc = "write" /\ req'[w].kind = "create"))
<1>1. RequestsOK /\ 0 \in 0 .. MaxToken
    BY TypeParts, BoundsAssumption
<1>2. ASSUME NEW r, Begin(w, r) PROVE req'[w] = r
    BY <1>1, <1>2 DEF Begin, RequestsOK
<1>3. ASSUME NEW kind \in Kinds, NEW t \in Tokens, Post(w, kind, t) PROVE req'[w] \in Request /\ req'[w].pc = "auth"
    <2>1. PICK f \in Forms(kind) : Begin(w, [f EXCEPT !.kind = kind, !.token = t])
        BY <1>3 DEF Post
    <2>2. t \in 0 .. MaxToken
        BY BoundsAssumption DEF Tokens
    <2>3. f \in Request /\ f.pc = "auth" /\ [f EXCEPT !.kind = kind, !.token = t] \in Request
        BY <2>2, FormsType
    <2> QED BY <1>2, <2>1, <2>3 DEF Request
<1>4. ASSUME NEW name \in Names, NEW pw \in Passwords, Login(w, name, pw)
      PROVE req'[w] \in Request /\ req'[w].pc = "look"
    <2>1. Plain \in Request
        BY PlainType
    <2> DEFINE r == [Plain EXCEPT !.kind = "login", !.name = name, !.pw = pw, !.pc = "look"]
    <2>2. r \in Request /\ r.pc = "look"
        BY <2>1 DEF Request, Kinds
    <2>3. Begin(w, r)
        BY <1>4 DEF Login
    <2> HIDE DEF r
    <2> QED BY <1>2, <2>2, <2>3
<1>5. ASSUME NEW kind \in Kinds, Command(w, kind)
      PROVE  req'[w] \in Request /\ (req'[w].pc = "look" \/ (req'[w].pc = "write" /\ req'[w].kind = "create"))
    <2>1. PICK f \in Forms(kind) :
            Begin(w, [f EXCEPT !.kind = kind, !.pc = IF kind = "create" THEN "write" ELSE "look"])
        BY <1>5 DEF Command
    <2>2. f \in Request
        BY <1>1, FormsType
    <2> DEFINE pc == IF kind = "create" THEN "write" ELSE "look"
               r  == [f EXCEPT !.kind = kind, !.pc = pc]
    <2>3. pc = "look" \/ (pc = "write" /\ kind = "create")
        OBVIOUS
    <2>4. r \in Request
        BY <1>1, <2>3, FormsType
    <2>5. r.pc = pc /\ r.kind = kind
        BY <2>2 DEF Request
    <2>6. req'[w] = r
        BY <1>2, <2>1
    <2> HIDE DEF pc, r
    <2> QED BY <2>3, <2>4, <2>5, <2>6
<1> QED BY <1>3, <1>4, <1>5 DEF Arrive

\* Only Look and Verify bring a request to where a password has been looked up.
LEMMA SignInStep == TypeOK /\ SignIn /\ [Next]_vars => SignIn'
<1> SUFFICES ASSUME TypeOK, SignIn, [Next]_vars, NEW v \in Workers, At(v, "verify")' \/ At(v, "open")'
             PROVE  /\ req'[v].id \in 1 .. lastId' /\ req'[v].user \in User
                    /\ req'[v].id \in DOMAIN users' => users'[req'[v].id].name = req'[v].user.name
    BY DEF SignIn, At
<1>1. RequestsOK /\ AccountsOK
    BY TypeParts
<1>2. CASE req'[v] = req[v]
    BY <1>2, NamesStay DEF SignIn, At
<1>3. ASSUME Arrive(v) PROVE FALSE
    BY <1>3, ArrivesUnread DEF At
<1>4. CASE Look(v)
    <2> DEFINE found == IF req[v].kind = "login" THEN IdNamed(req[v].name) ELSE {req[v].id} \cap DOMAIN users
               i     == CHOOSE i \in found : TRUE
               read  == [req[v] EXCEPT !.id = i, !.user = users[i]]
    <2>1. req[v] \in Request /\ UNCHANGED <<users, lastId>>
        BY <1>1, <1>4, AtIsARequest DEF Look
    <2>2. found # {}
        BY <1>1, <1>4 DEF Look, Done, At, RequestsOK
    <2>3. i \in DOMAIN users
        BY <2>2 DEF IdNamed
    <2>4. read.id = i /\ read.user = users[i] /\ DOMAIN read = DOMAIN req[v]
        BY <2>1 DEF Request
    <2>5. PICK pc \in {"verify", "count", "clear", "write"} : req'[v] = [read EXCEPT !.pc = pc]
        <3> DEFINE next == CASE req[v].kind = "login" -> "verify"
                             [] Guarded(read) -> "count"
                             [] req[v].kind = "delete" /\ ~Guarded(read) -> "clear"
                             [] OTHER -> "write"
        <3>1. next \in {"verify", "count", "clear", "write"}
            OBVIOUS
        <3>2. req' = [req EXCEPT ![v] = [read EXCEPT !.pc = next]]
            BY <1>4, <2>2 DEF Look
        <3> HIDE DEF next, read
        <3> QED BY <1>1, <3>1, <3>2 DEF RequestsOK
    <2> HIDE DEF i, read
    <2>6. req'[v].id = i /\ req'[v].user = users[i]
        <3>1. \A p : [read EXCEPT !.pc = p].id = read.id /\ [read EXCEPT !.pc = p].user = read.user
            BY <2>1, <2>4 DEF Request
        <3> QED BY <2>4, <2>5, <3>1
    <2> QED BY <1>1, <2>1, <2>3, <2>6 DEF AccountsOK
<1>5. CASE Verify(v)
    <2>1. req[v] \in Request /\ UNCHANGED <<users, lastId>> /\ At(v, "verify")
        BY <1>1, <1>5, AtIsARequest DEF Verify
    <2>2. req'[v] = Nobody \/ (req'[v].id = req[v].id /\ req'[v].user = req[v].user)
        BY <1>1, <1>5, <2>1 DEF Verify, Go, Done, RequestsOK, Request
    <2> QED BY <2>1, <2>2 DEF SignIn, At
<1>6. ASSUME Authorise(v) \/ Count(v) \/ CreateRow(v) \/ UpdateRow(v) \/ DeleteRow(v) \/ Clear(v) \/ Open(v)
      PROVE  FALSE
    <2>1. req[v] \in Request
        BY <1>1, <1>6, AtIsARequest DEF Authorise, Count, CountUpTo, CreateRow, UpdateRow, DeleteRow, Clear, ClearWith, Open
    <2>2. req'[v] = Nobody \/ req'[v].pc \in {"clear", "write", "look"}
        BY <1>1, <1>6, <2>1 DEF Authorise, Count, CountUpTo, CreateRow, UpdateRow, DeleteRow, Clear, ClearWith, Open,
            Go, Done, RequestsOK, Request
    <2> QED BY <2>2 DEF At
<1>7. CASE Tick \/ UNCHANGED vars
    BY <1>2, <1>7 DEF Tick, vars
<1>8. CASE Restart
    BY <1>2, <1>8 DEF Restart, At
<1>9. ASSUME NEW w \in Workers, Arrive(w) \/ Work(w), w # v PROVE req'[v] = req[v]
    BY <1>1, <1>9, OthersWait
<1> QED BY <1>2, <1>3, <1>4, <1>5, <1>6, <1>7, <1>8, <1>9 DEF Next, Work

LEMMA SignInStart == Init => SignIn
BY DEF Init, SignIn, At

LEMMA Inductive == Spec => [](TypeOK /\ SignIn)
<1>1. Init => TypeOK /\ SignIn
    BY InitType, SignInStart
<1>2. TypeOK /\ SignIn /\ [Next]_vars => TypeOK' /\ SignIn'
    BY TypeStep, SignInStep
<1> QED BY <1>1, <1>2, PTL DEF Spec

\* Accounts, sessions and requests keep their types.
THEOREM TypeCorrect == Spec => []TypeOK
BY Inductive, PTL

\* Every session belongs to an id that was given, and to the name that logged in under it.
Owned ==
    \A t \in DOMAIN sessions :
        /\ sessions[t].user \in 1 .. lastId
        /\ sessions[t].user \in DOMAIN users => users[sessions[t].user].name = opened[t].name

LEMMA OwnedStart == Init => Owned
<1> SUFFICES ASSUME Init PROVE Owned
    OBVIOUS
<1>1. TypeOK /\ \E s \in Scenarios :
        /\ users = s.users
        /\ sessions = [t \in DOMAIN s.users |-> [user |-> t, expires |-> Ttl]]
        /\ opened = [t \in DOMAIN s.users |->
                        [name |-> s.users[t].name, pw |-> s.users[t].pw, spared |-> FALSE]]
    BY InitType DEF Init
<1> QED BY <1>1 DEF Owned, TypeOK

LEMMA OwnedStep == TypeOK /\ SignIn /\ Owned /\ [Next]_vars => Owned'
<1> SUFFICES ASSUME TypeOK, SignIn, Owned, [Next]_vars PROVE Owned'
    OBVIOUS
<1>1. RequestsOK /\ AccountsOK /\ SessionsOK
    BY TypeParts
\* Whom a session was opened for does not change.
<1>2. ASSUME DOMAIN sessions' \subseteq DOMAIN sessions,
             \A t \in DOMAIN sessions' : sessions'[t].user = sessions[t].user /\ opened'[t].name = opened[t].name
      PROVE  Owned'
    BY <1>1, <1>2, NamesStay DEF Owned
<1>3. CASE UNCHANGED <<sessions, opened>>
    BY <1>2, <1>3
<1>4. ASSUME NEW w \in Workers, Authorise(w) PROVE Owned'
    <2>1. DOMAIN Pruned \subseteq DOMAIN sessions /\ \A t \in DOMAIN Pruned : Pruned[t] = sessions[t]
        BY DEF Pruned, Without
    <2>2. DOMAIN sessions' = DOMAIN Pruned /\ UNCHANGED opened
        BY <1>4 DEF Authorise
    <2>3. \A t \in DOMAIN Pruned : sessions'[t].user = Pruned[t].user
        BY <1>1, <1>4, <2>1 DEF Authorise, SessionsOK, Session
    <2> QED BY <1>2, <2>1, <2>2, <2>3
<1>5. ASSUME NEW w \in Workers, Clear(w) PROVE Owned'
    BY <1>2, <1>5 DEF Clear, ClearWith, Without
<1>6. ASSUME NEW w \in Workers, Open(w) PROVE Owned'
    <2> DEFINE t == Cardinality(DOMAIN opened) + 1
    <2>1. /\ sessions' = With(sessions, t, [user |-> req[w].id, expires |-> now + Ttl])
          /\ UNCHANGED <<users, lastId>>
        BY <1>6 DEF Open
    <2>2. PICK b : opened' = With(opened, t, [name |-> req[w].user.name, pw |-> req[w].pw, spared |-> b])
        BY <1>6 DEF Open
    <2>3. req[w].id \in 1 .. lastId /\ (req[w].id \in DOMAIN users => users[req[w].id].name = req[w].user.name)
        BY <1>6 DEF SignIn, Open
    <2> HIDE DEF t
    <2> SUFFICES ASSUME NEW x \in DOMAIN sessions'
                 PROVE  /\ sessions'[x].user \in 1 .. lastId
                        /\ sessions'[x].user \in DOMAIN users => users[sessions'[x].user].name = opened'[x].name
        BY <2>1 DEF Owned
    <2>4. CASE x = t
        BY <2>1, <2>2, <2>3, <2>4 DEF With
    <2>5. CASE x # t
        <3>1. x \in DOMAIN sessions /\ sessions'[x] = sessions[x] /\ opened'[x] = opened[x]
            BY <1>1, <2>1, <2>2, <2>5 DEF With, SessionsOK
        <3> QED BY <3>1 DEF Owned
    <2> QED BY <2>4, <2>5
<1>7. CASE Tick \/ UNCHANGED vars
    BY <1>3, <1>7 DEF Tick, vars, history
<1>10. CASE Restart
    BY <1>1, <1>2, <1>10, RestartMarks DEF SessionsOK
<1>8. ASSUME NEW w \in Workers, Arrive(w) PROVE Owned'
    BY <1>3, <1>8 DEF Arrive, Post, Login, Command, Begin, history
<1>9. ASSUME NEW w \in Workers, Look(w) \/ Count(w) \/ CreateRow(w) \/ UpdateRow(w) \/ DeleteRow(w) \/ Verify(w)
      PROVE  Owned'
    BY <1>3, <1>9 DEF Look, Count, CountUpTo, CreateRow, UpdateRow, DeleteRow, Verify, history
<1> QED BY <1>4, <1>5, <1>6, <1>7, <1>8, <1>9, <1>10 DEF Next, Work

-----------------------------------------------------------------------------
(* How long it lasts. *)

\* A request that arrives, reads or writes an account leaves the sessions alone.
LEMMA Bystanders ==
    ASSUME NEW w \in Workers,
           Arrive(w) \/ Look(w) \/ Count(w) \/ CreateRow(w) \/ UpdateRow(w) \/ DeleteRow(w) \/ Verify(w)
    PROVE  UNCHANGED <<now, sessions, history>>
BY DEF Arrive, Post, Login, Command, Begin, Look, Count, CountUpTo, CreateRow, UpdateRow, DeleteRow, Verify, history

\* A request that is about to delete sessions waits while another takes a step.
LEMMA StillClearing ==
    ASSUME RequestsOK, NEW w \in Workers, NEW v \in Workers, At(v, "clear"),
           \/ Arrive(w) \/ Authorise(w) \/ Look(w) \/ Count(w) \/ CreateRow(w) \/ UpdateRow(w)
           \/ DeleteRow(w) \/ Verify(w) \/ Open(w) \/ (Clear(w) /\ w # v)
    PROVE  req'[v] = req[v]
BY OthersWait DEF RequestsOK, At, Arrive, Post, Login, Command, Begin, Authorise, Look, Count, CountUpTo,
    CreateRow, UpdateRow, DeleteRow, Verify, Open, Work

\* What has been pruned had not been used for the threshold, and what is left expires
\* between the threshold and the time to live after its last use.
Sliding ==
    /\ \A t \in DOMAIN opened \ ended : t \in DOMAIN sessions \/ now > seen[t] + Threshold
    /\ \A t \in DOMAIN sessions :
          seen[t] + Threshold <= sessions[t].expires /\ sessions[t].expires <= seen[t] + Ttl

LEMMA SlidingStart == Init => Sliding
<1> SUFFICES ASSUME Init PROVE Sliding
    OBVIOUS
<1>1. PICK s \in Scenarios :
        /\ sessions = [t \in DOMAIN s.users |-> [user |-> t, expires |-> Ttl]]
        /\ seen = [t \in DOMAIN s.users |-> 0]
        /\ opened = [t \in DOMAIN s.users |->
                        [name |-> s.users[t].name, pw |-> s.users[t].pw, spared |-> FALSE]]
    BY DEF Init
<1> QED BY <1>1, TtlAssumption DEF Sliding

LEMMA SlidingStep == TypeOK /\ Sliding /\ [Next]_vars => Sliding'
<1> SUFFICES ASSUME TypeOK, Sliding, [Next]_vars PROVE Sliding'
    OBVIOUS
<1>1. RequestsOK /\ SessionsOK /\ Ttl \in Nat /\ Threshold \in 0 .. Ttl /\ now \in Nat
    BY TypeParts, TtlAssumption DEF SessionsOK
<1>2. \A t \in DOMAIN opened : seen[t] \in 0 .. now
    BY <1>1 DEF SessionsOK
<1>3. \A t \in DOMAIN sessions : t \in DOMAIN opened /\ sessions[t].expires \in Nat
    BY <1>1 DEF SessionsOK, Session
<1>4. CASE UNCHANGED <<sessions, seen, ended>> /\ DOMAIN opened' = DOMAIN opened /\ now' \in {now, now + 1}
    BY <1>1, <1>2, <1>3, <1>4 DEF Sliding
<1>5. ASSUME NEW w \in Workers, Authorise(w) PROVE Sliding'
    <2> DEFINE k == req[w].token
    <2>1. UNCHANGED <<now, opened, ended>>
        BY <1>5 DEF Authorise
    <2>2. /\ DOMAIN Pruned = {t \in DOMAIN sessions : sessions[t].expires >= now}
          /\ \A t \in DOMAIN Pruned : Pruned[t] = sessions[t]
        BY DEF Pruned, Without, Live
    \* What is pruned.
    <2>3. \A t \in DOMAIN opened \ ended : t \in DOMAIN Pruned \/ now > seen[t] + Threshold
        BY <1>1, <1>2, <1>3, <2>2 DEF Sliding
    <2>4. CASE ~Valid(k)
        <3>1. sessions' = Pruned /\ UNCHANGED seen
            BY <1>5, <2>4 DEF Authorise
        <3> QED BY <2>1, <2>2, <2>3, <3>1 DEF Sliding
    \* What slides.
    <2>5. CASE Valid(k)
        <3>1. k \in DOMAIN sessions /\ sessions[k].expires >= now
            BY <2>5 DEF Valid, Live
        <3>2. /\ sessions' = [Pruned EXCEPT ![k].expires = Slid(k)]
              /\ seen' = [seen EXCEPT ![k] = now]
            BY <1>5, <2>5 DEF Authorise
        <3>3. k \in DOMAIN Pruned /\ k \in DOMAIN seen
            BY <1>1, <1>3, <2>2, <3>1 DEF SessionsOK
        <3>4. "expires" \in DOMAIN Pruned[k]
            BY <1>1, <2>2, <3>1, <3>3 DEF SessionsOK, Session
        <3>5. /\ DOMAIN sessions' = DOMAIN Pruned
              /\ sessions'[k].expires = Slid(k) /\ seen'[k] = now
              /\ \A t \in DOMAIN Pruned : t # k => sessions'[t] = sessions[t]
              /\ \A t \in DOMAIN opened : t # k => seen'[t] = seen[t]
            BY <2>2, <3>2, <3>3, <3>4
        <3>6. now + Threshold <= Slid(k) /\ Slid(k) <= now + Ttl
            BY <1>1, <1>2, <1>3, <3>1 DEF Sliding, Slid
        <3>7. \A t \in DOMAIN sessions' :
                 seen'[t] + Threshold <= sessions'[t].expires /\ sessions'[t].expires <= seen'[t] + Ttl
            BY <1>3, <2>2, <3>5, <3>6 DEF Sliding
        <3>8. \A t \in DOMAIN opened' \ ended' : t \in DOMAIN sessions' \/ now' > seen'[t] + Threshold
            BY <2>1, <2>3, <3>3, <3>5
        <3> QED BY <3>7, <3>8 DEF Sliding
    <2> QED BY <2>4, <2>5
<1>6. ASSUME NEW w \in Workers, Clear(w) PROVE Sliding'
    <2>1. PICK gone : sessions' = Without(sessions, gone) /\ ended' = ended \cup (gone \cap DOMAIN opened)
        BY <1>6 DEF Clear, ClearWith
    <2>2. UNCHANGED <<now, opened, seen>>
        BY <1>6 DEF Clear, ClearWith
    <2> QED BY <1>3, <2>1, <2>2 DEF Sliding, Without
<1>7. ASSUME NEW w \in Workers, Open(w) PROVE Sliding'
    <2> DEFINE t == Cardinality(DOMAIN opened) + 1
    <2>1. /\ sessions' = With(sessions, t, [user |-> req[w].id, expires |-> now + Ttl])
          /\ seen' = With(seen, t, now) /\ UNCHANGED <<now, ended>>
        BY <1>7 DEF Open
    <2>2. DOMAIN opened' = DOMAIN opened \cup {t}
        BY <1>7 DEF Open, With
    <2> HIDE DEF t
    <2>3. /\ DOMAIN sessions' = DOMAIN sessions \cup {t}
          /\ sessions'[t].expires = now + Ttl /\ seen'[t] = now
          /\ \A x \in DOMAIN sessions : x # t => sessions'[x] = sessions[x]
          /\ \A x \in DOMAIN opened : x # t => seen'[x] = seen[x]
        BY <1>1, <2>1 DEF With, SessionsOK
    <2> QED BY <1>1, <1>3, <2>1, <2>2, <2>3 DEF Sliding
<1>8. CASE Restart
    BY <1>1, <1>4, <1>8, RestartMarks
<1>9. CASE Tick \/ UNCHANGED vars
    BY <1>4, <1>9 DEF Tick, vars, history
<1>10. ASSUME NEW w \in Workers,
              Arrive(w) \/ Look(w) \/ Count(w) \/ CreateRow(w) \/ UpdateRow(w) \/ DeleteRow(w) \/ Verify(w)
       PROVE  Sliding'
    BY <1>4, <1>10, Bystanders DEF history
<1> QED BY <1>5, <1>6, <1>7, <1>8, <1>9, <1>10 DEF Next, Work

\* A reset changes the password and then deletes the sessions: until it has, it is
\* under way, unless the ui is killed between the two.
LEMMA ResetStart == Init => ResetEndsSessions
<1> SUFFICES ASSUME Init PROVE ResetEndsSessions
    OBVIOUS
<1>1. PICK s \in Scenarios :
        /\ users = s.users
        /\ sessions = [t \in DOMAIN s.users |-> [user |-> t, expires |-> Ttl]]
        /\ opened = [t \in DOMAIN s.users |->
                        [name |-> s.users[t].name, pw |-> s.users[t].pw, spared |-> FALSE]]
    BY DEF Init
<1> QED BY <1>1 DEF ResetEndsSessions

LEMMA ResetStep == TypeOK /\ Owned /\ ResetEndsSessions /\ [Next]_vars => ResetEndsSessions'
<1> SUFFICES ASSUME TypeOK, Owned, ResetEndsSessions, [Next]_vars PROVE ResetEndsSessions'
    OBVIOUS
<1> DEFINE Excused(t) == \/ users[sessions[t].user].pw = opened[t].pw
                         \/ opened[t].spared
                         \/ \E w \in Workers : Resetting(w, sessions[t].user)
<1>1. RequestsOK /\ AccountsOK /\ SessionsOK
    BY TypeParts
<1>2. \A t \in DOMAIN sessions : t \in DOMAIN opened /\ (sessions[t].user \in DOMAIN users => Excused(t))
    BY <1>1 DEF ResetEndsSessions, SessionsOK
\* A step leaves a session that it leaves its reset, or the password of its account.
<1>3. ASSUME DOMAIN sessions' \subseteq DOMAIN sessions,
             \A t \in DOMAIN sessions' :
                /\ sessions'[t].user = sessions[t].user
                /\ opened'[t].pw = opened[t].pw /\ (opened[t].spared => opened'[t].spared)
                /\ \A w \in Workers : Resetting(w, sessions[t].user) =>
                     Resetting(w, sessions[t].user)' \/ opened'[t].spared
                /\ sessions[t].user \in DOMAIN users' =>
                     /\ sessions[t].user \in DOMAIN users
                     /\ \/ users'[sessions[t].user].pw = users[sessions[t].user].pw
                        \/ \E w \in Workers : Resetting(w, sessions[t].user)'
      PROVE  ResetEndsSessions'
    BY <1>2, <1>3 DEF ResetEndsSessions, Resetting, At
<1>4. \A id : \A w \in Workers : Resetting(w, id) => At(w, "clear")
    BY DEF Resetting
<1>5. ASSUME UNCHANGED <<users, sessions, opened>>,
             \A w \in Workers : At(w, "clear") => req'[w] = req[w]
      PROVE  ResetEndsSessions'
    BY <1>2, <1>5 DEF ResetEndsSessions, Resetting, At
\* An account that is new has no sessions.
<1>6. ASSUME NEW row \in User, ~Taken(row.name), Insert(row)
      PROVE  \A t \in DOMAIN sessions : sessions[t].user \in DOMAIN users' =>
                /\ sessions[t].user \in DOMAIN users
                /\ users'[sessions[t].user] = users[sessions[t].user]
    BY <1>1, <1>6, InsertType, BoundsAssumption DEF Owned, AccountsOK
<1>7. ASSUME NEW w \in Workers, Authorise(w) PROVE ResetEndsSessions'
    <2>1. DOMAIN Pruned \subseteq DOMAIN sessions /\ \A t \in DOMAIN Pruned : Pruned[t] = sessions[t]
        BY DEF Pruned, Without
    <2>2. DOMAIN sessions' = DOMAIN Pruned /\ UNCHANGED <<users, opened>>
        BY <1>7 DEF Authorise
    <2>3. \A t \in DOMAIN Pruned : sessions'[t].user = Pruned[t].user
        BY <1>1, <1>7, <2>1 DEF Authorise, SessionsOK, Session
    <2>4. \A v \in Workers : At(v, "clear") => req'[v] = req[v]
        BY <1>1, <1>7, StillClearing
    <2>5. \A id : \A v \in Workers : Resetting(v, id) => Resetting(v, id)'
        BY <2>4 DEF Resetting, At
    <2> QED BY <1>3, <2>1, <2>2, <2>3, <2>5
<1>8. ASSUME NEW w \in Workers, Arrive(w) \/ Look(w) \/ Count(w) \/ Verify(w) PROVE ResetEndsSessions'
    <2>1. UNCHANGED <<sessions, opened>>
        BY <1>8, Bystanders DEF history
    <2>2. UNCHANGED users
        BY <1>8 DEF Arrive, Post, Login, Command, Begin, Look, Count, CountUpTo, Verify
    <2>3. \A v \in Workers : At(v, "clear") => req'[v] = req[v]
        BY <1>1, <1>8, StillClearing
    <2> QED BY <1>5, <2>1, <2>2, <2>3
<1>9. ASSUME NEW w \in Workers, CreateRow(w) \/ UpdateRow(w) \/ DeleteRow(w) PROVE ResetEndsSessions'
    <2>1. UNCHANGED <<sessions, opened>>
        BY <1>9, Bystanders DEF history
    <2>2. \A v \in Workers : At(v, "clear") => req'[v] = req[v]
        BY <1>1, <1>9, StillClearing
    <2>3. \A id : \A v \in Workers : Resetting(v, id) => Resetting(v, id)'
        BY <2>2 DEF Resetting, At
    <2>4. req[w] \in Request
        BY <1>1, <1>9, AtIsARequest DEF CreateRow, UpdateRow, DeleteRow
    <2>5. \A t \in DOMAIN sessions : sessions[t].user \in DOMAIN users' =>
             /\ sessions[t].user \in DOMAIN users
             /\ \/ users'[sessions[t].user].pw = users[sessions[t].user].pw
                \/ Resetting(w, sessions[t].user)'
        <3>1. CASE CreateRow(w)
            <4> DEFINE row == [name |-> req[w].name, role |-> req[w].role, pw |-> req[w].pw]
            <4>1. row \in User /\ row.name = req[w].name
                BY <2>4 DEF Request, User
            <4>2. UNCHANGED users \/ (~Taken(req[w].name) /\ Insert(row))
                BY <3>1 DEF CreateRow
            <4> HIDE DEF row
            <4> QED BY <1>6, <4>1, <4>2
        <3>2. CASE UpdateRow(w)
            <4>1. CASE req[w].id \in DOMAIN users
                <5>1. \/ users' = [users EXCEPT ![req[w].id].role = req[w].role]
                      \/ req[w].kind = "reset" /\ users' = [users EXCEPT ![req[w].id].pw = req[w].pw]
                    BY <3>2, <4>1 DEF UpdateRow
                <5>2. req'[w] # Nobody /\ req'[w].pc = "clear" /\ req'[w].kind = req[w].kind /\ req'[w].id = req[w].id
                    <6>1. req' = [req EXCEPT ![w].pc = "clear"]
                        BY <3>2, <4>1 DEF UpdateRow, Go
                    <6>2. req'[w] = [req[w] EXCEPT !.pc = "clear"]
                        BY <1>1, <6>1 DEF RequestsOK
                    <6>3. req'[w] \in Request
                        BY <2>4, <6>2 DEF Request
                    <6> QED BY <2>4, <6>2, <6>3, NobodyAssumption DEF Request
                <5>3. DOMAIN users' = DOMAIN users
                    BY <5>1
                <5>4. CASE users' = [users EXCEPT ![req[w].id].role = req[w].role]
                    BY <1>1, <5>4 DEF AccountsOK, User
                <5>5. CASE req[w].kind = "reset" /\ users' = [users EXCEPT ![req[w].id].pw = req[w].pw]
                    BY <1>1, <2>1, <5>2, <5>5 DEF AccountsOK, User, Resetting, At
                <5> QED BY <5>1, <5>4, <5>5
            <4>2. CASE req[w].id \notin DOMAIN users
                BY <3>2, <4>2 DEF UpdateRow
            <4> QED BY <4>1, <4>2
        <3>3. CASE DeleteRow(w)
            BY <3>3 DEF DeleteRow, Without
        <3> QED BY <1>9, <3>1, <3>2, <3>3
    <2> QED BY <1>3, <2>1, <2>3, <2>5
\* The sessions of a reset that ends are gone.
<1>10. ASSUME NEW w \in Workers, Clear(w) PROVE ResetEndsSessions'
    <2> DEFINE gone == IF req[w].kind = "logout" THEN {req[w].token} ELSE SessionsOf(req[w].id)
    <2>1. /\ DOMAIN sessions' = DOMAIN sessions \ gone
          /\ \A t \in DOMAIN sessions' : sessions'[t] = sessions[t]
          /\ UNCHANGED <<users, opened>>
        BY <1>10 DEF Clear, ClearWith, Without
    <2>2. \A v \in Workers : At(v, "clear") /\ v # w => req'[v] = req[v]
        BY <1>1, <1>10, StillClearing
    <2>3. \A id : \A v \in Workers : Resetting(v, id) /\ v # w => Resetting(v, id)'
        BY <2>2 DEF Resetting, At
    <2>4. \A t \in DOMAIN sessions' : ~Resetting(w, sessions[t].user)
        BY <2>1 DEF Resetting, SessionsOf
    <2> HIDE DEF gone
    <2> QED BY <1>3, <2>1, <2>3, <2>4
<1>11. ASSUME NEW w \in Workers, Open(w) PROVE ResetEndsSessions'
    <2> DEFINE k == Cardinality(DOMAIN opened) + 1
               b == req[w].id \notin DOMAIN users \/ users[req[w].id].pw # req[w].pw
    <2>1. /\ sessions' = With(sessions, k, [user |-> req[w].id, expires |-> now + Ttl])
          /\ opened' = With(opened, k, [name |-> req[w].user.name, pw |-> req[w].pw, spared |-> b])
          /\ UNCHANGED users
        BY <1>11 DEF Open
    <2>2. \A v \in Workers : At(v, "clear") => req'[v] = req[v]
        BY <1>1, <1>11, StillClearing
    <2>3. \A id : \A v \in Workers : Resetting(v, id) => Resetting(v, id)'
        BY <2>2 DEF Resetting, At
    <2> SUFFICES ASSUME NEW t \in DOMAIN sessions', NEW id, id = sessions'[t].user, id \in DOMAIN users
                 PROVE  \/ users[id].pw = opened'[t].pw
                        \/ opened'[t].spared
                        \/ \E v \in Workers : Resetting(v, id)'
        BY <2>1 DEF ResetEndsSessions, Resetting, At
    <2> HIDE DEF k
    <2>4. CASE t = k
        BY <2>1, <2>4 DEF With
    <2>5. CASE t # k
        <3>1. t \in DOMAIN sessions /\ sessions'[t] = sessions[t] /\ opened'[t] = opened[t]
            BY <1>2, <2>1, <2>5 DEF With
        <3> QED BY <1>2, <2>3, <3>1
    <2> QED BY <2>4, <2>5
<1>12. CASE Restart
    <2>1. /\ UNCHANGED sessions /\ DOMAIN opened' = DOMAIN opened
          /\ \A t \in DOMAIN opened : /\ opened'[t].pw = opened[t].pw
                                      /\ opened[t].spared \/ t \in Cut => opened'[t].spared
        BY <1>1, <1>12, RestartMarks
    <2>2. \A v \in Workers : req[v] # Nobody /\ req[v].token = 0 /\ req[v].kind # "login" => req'[v] = req[v]
        BY <1>12 DEF Restart
    <2>3. \A t \in DOMAIN sessions, v \in Workers :
             Resetting(v, sessions[t].user) => Resetting(v, sessions[t].user)' \/ t \in Cut
        BY <2>1, <2>2 DEF Resetting, At, Cut
    <2>4. \A t \in DOMAIN sessions : sessions[t].user \in DOMAIN users' =>
             /\ sessions[t].user \in DOMAIN users
             /\ users'[sessions[t].user] = users[sessions[t].user]
        <3> DEFINE row == [name |-> Admin, role |-> "admin", pw |-> AnyPassword]
        <3>1. row \in User /\ row.name = Admin
            BY PlainType, AdminAssumption DEF User, Roles
        <3>2. UNCHANGED users \/ (~Taken(Admin) /\ Insert(row))
            BY <1>12 DEF Restart
        <3> HIDE DEF row
        <3> QED BY <1>6, <3>1, <3>2
    <2> QED BY <1>2, <1>3, <2>1, <2>3, <2>4
<1>13. CASE Tick \/ UNCHANGED vars
    BY <1>5, <1>13 DEF Tick, vars, history
<1> QED BY <1>7, <1>8, <1>9, <1>10, <1>11, <1>12, <1>13 DEF Next, Work

\* A session is its owner's, for at least the threshold after each use, and no longer than
\* the time to live; and a reset ends it, but for a login that had passed the check and a
\* ui that is killed before it deletes the sessions.
THEOREM SessionsHoldAlways == Spec => []SessionsHold
<1>1. TypeOK /\ Sliding => SessionsSlide
    <2> SUFFICES ASSUME TypeOK, Sliding PROVE SessionsSlide
        OBVIOUS
    <2>1. SessionsOK /\ Ttl \in Nat /\ Threshold \in 0 .. Ttl /\ now \in Nat
        BY TypeParts, TtlAssumption DEF SessionsOK
    <2>2. /\ \A t \in DOMAIN opened : seen[t] \in 0 .. now
          /\ \A t \in DOMAIN sessions : t \in DOMAIN opened /\ sessions[t].expires \in Nat
        BY <2>1 DEF SessionsOK, Session
    <2> QED BY <2>1, <2>2 DEF Sliding, SessionsSlide
<1>2. Owned => SessionsKeepTheirOwner
    BY DEF Owned, SessionsKeepTheirOwner
<1>3. Init => Owned /\ Sliding /\ ResetEndsSessions
    BY OwnedStart, SlidingStart, ResetStart
<1>4. TypeOK /\ SignIn /\ Owned /\ Sliding /\ ResetEndsSessions /\ [Next]_vars
        => (Owned /\ Sliding /\ ResetEndsSessions)'
    BY OwnedStep, SlidingStep, ResetStep
<1>5. TypeOK /\ Owned /\ Sliding /\ ResetEndsSessions => SessionsHold
    BY <1>1, <1>2 DEF SessionsHold
<1> QED BY <1>3, <1>4, <1>5, Inductive, PTL DEF Spec

-----------------------------------------------------------------------------
(* The last administrator. *)

\* A request of the ui that is about to take an administrator away has counted two.
Unmakes(r) == Guarded(r) /\ (r.pc = "write" \/ (r.pc = "clear" /\ r.kind = "delete"))
Counted ==
    \A w \in Workers : req[w] # Nobody /\ Unmakes(req[w]) => \E i, j \in req[w].admins : i # j

LEMMA CountedStart == Init => Counted
BY DEF Init, Counted

LEMMA CountedStep == TypeOK /\ Counted /\ [Next]_vars => Counted'
<1> SUFFICES ASSUME TypeOK, Counted, [Next]_vars, NEW v \in Workers, req'[v] # Nobody, Unmakes(req'[v])
             PROVE  \E i, j \in req'[v].admins : i # j
    BY DEF Counted, Unmakes, Guarded
<1>1. RequestsOK
    BY TypeParts
<1>2. CASE req'[v] = req[v]
    BY <1>2 DEF Counted
<1>3. ASSUME Arrive(v) PROVE FALSE
    BY <1>3, ArrivesUnread DEF Unmakes, Guarded
<1>4. ASSUME Look(v) PROVE FALSE
    <2> DEFINE found == IF req[v].kind = "login" THEN IdNamed(req[v].name) ELSE {req[v].id} \cap DOMAIN users
               i     == CHOOSE i \in found : TRUE
               read  == [req[v] EXCEPT !.id = i, !.user = users[i]]
               pc    == CASE req[v].kind = "login" -> "verify"
                          [] Guarded(read)         -> "count"
                          [] req[v].kind = "delete" /\ ~Guarded(read) -> "clear"
                          [] OTHER                 -> "write"
    <2>1. req[v] \in Request /\ found # {}
        BY <1>1, <1>4, AtIsARequest DEF Look, Done, RequestsOK
    <2>2. req'[v] = [read EXCEPT !.pc = pc]
        BY <1>1, <1>4, <2>1 DEF Look, RequestsOK
    <2>3. read.kind = req[v].kind /\ DOMAIN read = DOMAIN req[v]
        BY <2>1 DEF Request
    <2>4. "pc" \in DOMAIN read
        BY <2>1, <2>3 DEF Request
    <2> HIDE DEF read
    <2>5. pc \in {"write", "clear"} => ~Guarded(read)
        BY <2>3 DEF Guarded
    <2>6. req'[v].pc = pc /\ (Guarded(req'[v]) => Guarded(read))
        BY <2>2, <2>4 DEF Guarded
    <2> QED BY <2>5, <2>6 DEF Unmakes
<1>5. CASE Count(v)
    <2>1. ~(Cardinality(Admins) <= 1)
        BY <1>1, <1>5 DEF Count, CountUpTo, Done, RequestsOK
    <2>2. req'[v].admins = Admins
        <3>1. req[v] \in Request
            BY <1>1, <1>5, AtIsARequest DEF Count, CountUpTo
        <3> QED BY <1>1, <1>5, <2>1, <3>1 DEF Count, CountUpTo, RequestsOK, Request
    <2> QED BY <2>1, <2>2, MoreThanOne
<1>6. CASE Authorise(v) \/ CreateRow(v) \/ UpdateRow(v) \/ DeleteRow(v) \/ Verify(v) \/ Open(v)
    <2>1. req[v] \in Request
        BY <1>1, <1>6, AtIsARequest DEF Authorise, CreateRow, UpdateRow, DeleteRow, Verify, Open
    <2>2. req'[v] = Nobody \/ (req'[v].kind = req[v].kind /\
            (req'[v].pc \in {"look", "open"} \/ (req'[v].pc \in {"write", "clear"} /\ req[v].kind # "delete"
                /\ (req'[v].pc = "write" => req[v].kind = "create"))))
        BY <1>1, <1>6, <2>1 DEF Authorise, CreateRow, UpdateRow, DeleteRow, Verify, Open, Go, Done, RequestsOK, Request
    <2> QED BY <2>2 DEF Unmakes, Guarded
<1>7. CASE Clear(v)
    <2>1. req[v] \in Request /\ At(v, "clear")
        BY <1>1, <1>7, AtIsARequest DEF Clear, ClearWith
    <2>2. req'[v] = [req[v] EXCEPT !.pc = "write"] /\ req[v].kind = "delete"
        BY <1>1, <1>7 DEF Clear, ClearWith, Go, Done, RequestsOK
    <2>3. Unmakes(req[v]) /\ req'[v].admins = req[v].admins
        BY <2>1, <2>2 DEF Unmakes, Guarded, At, Request
    <2> QED BY <2>1, <2>3 DEF Counted, At
<1>8. CASE Tick \/ Restart \/ UNCHANGED vars
    BY <1>2, <1>8 DEF Tick, Restart, vars
<1>9. ASSUME NEW w \in Workers, Arrive(w) \/ Work(w), w # v PROVE req'[v] = req[v]
    BY <1>1, <1>9, OthersWait
<1> QED BY <1>2, <1>3, <1>4, <1>5, <1>6, <1>7, <1>8, <1>9 DEF Next, Work

\* Who makes the last administrator none.
Remover(w) == /\ At(w, "write") /\ req'[w] # req[w]
              /\ req[w].token = 0 \/ Stale(req[w])

LEMMA LastAdminStep ==
    ASSUME TypeOK, Counted, [Next]_vars, Admins # {}, Admins' = {}
    PROVE  \E w \in Workers : Remover(w)
<1>1. RequestsOK /\ AccountsOK
    BY TypeParts
\* It takes a request that removes the one administrator there is.
<1>2. ASSUME NEW w \in Workers, At(w, "write"), req'[w] # req[w], req[w] \in Request,
             req[w].kind = "delete" \/ (req[w].kind = "role" /\ req[w].role = "user"),
             Admins \subseteq {req[w].id}
      PROVE  Remover(w)
    <2> SUFFICES ASSUME req[w].token # 0, users[req[w].id].role = req[w].user.role, req[w].admins \subseteq Admins
                 PROVE  FALSE
        BY <1>2 DEF Remover, Stale
    <2>1. users[req[w].id].role = "admin"
        BY <1>2 DEF Admins
    <2>2. \E i, j \in req[w].admins : i # j
        BY <1>2, <2>1 DEF Counted, Unmakes, Guarded, At
    <2> QED BY <1>2, <2>2
<1>3. ASSUME UNCHANGED users PROVE FALSE
    BY <1>3 DEF Admins
<1>4. ASSUME NEW row \in User, ~Taken(row.name), Insert(row) PROVE FALSE
    BY <1>1, <1>4, InsertType DEF Admins
<1>5. ASSUME NEW w \in Workers, CreateRow(w) PROVE FALSE
    <2> DEFINE row == [name |-> req[w].name, role |-> req[w].role, pw |-> req[w].pw]
    <2>1. req[w] \in Request
        BY <1>1, <1>5, AtIsARequest DEF CreateRow
    <2>2. row \in User /\ row.name = req[w].name
        BY <2>1 DEF Request, User
    <2>3. UNCHANGED users \/ (~Taken(req[w].name) /\ Insert(row))
        BY <1>5 DEF CreateRow
    <2> HIDE DEF row
    <2> QED BY <1>3, <1>4, <2>2, <2>3
<1>6. ASSUME Restart PROVE FALSE
    BY <1>3, <1>6 DEF Restart
<1>7. ASSUME NEW w \in Workers, UpdateRow(w) PROVE Remover(w)
    <2>1. req[w] \in Request /\ At(w, "write")
        BY <1>1, <1>7, AtIsARequest DEF UpdateRow
    <2>2. req[w].id \in DOMAIN users /\ req[w].kind = "role"
        BY <1>1, <1>3, <1>7 DEF UpdateRow, Admins, AccountsOK, User
    <2>3. users' = [users EXCEPT ![req[w].id].role = req[w].role] /\ req'[w].pc = "clear"
        BY <1>1, <1>7, <2>1, <2>2 DEF UpdateRow, Go, RequestsOK, Request
    <2>4. Admins \subseteq {req[w].id} /\ req[w].role = "user"
        <3>1. \A i \in DOMAIN users \ {req[w].id} : i \in DOMAIN users' /\ users'[i] = users[i]
            BY <1>1, <2>3 DEF AccountsOK
        <3>2. req[w].id \in DOMAIN users' /\ users'[req[w].id].role = req[w].role
            BY <1>1, <2>2, <2>3 DEF AccountsOK, User
        <3>3. req[w].role \in {"admin", "user"}
            BY <2>1 DEF Request, Roles
        <3> QED BY <3>1, <3>2, <3>3 DEF Admins
    <2>5. req'[w] # req[w]
        BY <2>1, <2>3 DEF At
    <2> QED BY <1>2, <2>1, <2>2, <2>4, <2>5
<1>8. ASSUME NEW w \in Workers, DeleteRow(w) PROVE Remover(w)
    <2>1. req[w] \in Request /\ At(w, "write") /\ req[w].kind = "delete"
        BY <1>1, <1>8, AtIsARequest DEF DeleteRow
    <2>2. req'[w] # req[w]
        BY <1>1, <1>8 DEF DeleteRow, Done, At, RequestsOK
    <2>3. Admins \subseteq {req[w].id}
        BY <1>8 DEF DeleteRow, Without, Admins
    <2> QED BY <1>2, <2>1, <2>2, <2>3
<1>9. CASE Tick \/ UNCHANGED vars
    BY <1>3, <1>9 DEF Tick, vars
<1>10. ASSUME NEW w \in Workers, Arrive(w) PROVE UNCHANGED users
    BY <1>10 DEF Arrive, Post, Login, Command, Begin
<1>11. ASSUME NEW w \in Workers, Work(w)
       PROVE  UNCHANGED users \/ CreateRow(w) \/ UpdateRow(w) \/ DeleteRow(w)
    BY <1>11 DEF Work, Authorise, Look, Count, CountUpTo, Clear, ClearWith, Verify, Open
<1> QED BY <1>3, <1>5, <1>6, <1>7, <1>8, <1>9, <1>10, <1>11 DEF Next

\* One request of the ui does not take the last administrator away: the one that does had
\* read of him that he was none, or had counted another who has been removed since, or it
\* is a command, which does not count.
THEOREM LastAdminIsGuarded == Spec => LastAdminNeedsTwo
<1>1. TypeOK /\ Counted /\ [Next]_vars =>
        [Admins # {} /\ Admins' = {} =>
            \E w \in Workers : /\ At(w, "write") /\ req'[w] # req[w]
                               /\ req[w].token = 0 \/ Stale(req[w])]_vars
    BY LastAdminStep DEF Remover
<1> QED BY <1>1, CountedStart, CountedStep, Inductive, PTL DEF Spec, LastAdminNeedsTwo
=============================================================================
