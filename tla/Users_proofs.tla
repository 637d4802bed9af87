---------------------------- MODULE Users_proofs ----------------------------
(***************************************************************************)
(* Proofs about Users, for any addresses and passwords, any number of      *)
(* registrations and logins, any default accounts (of different addresses) *)
(* and any number of crashes.  The table only ever grows by one row of a   *)
(* new address (TableStep); everything else is read off from that.         *)
(***************************************************************************)
EXTENDS Users, TLAPS

---------------------------------------------------------------------------
(* Types *)

(* Normalising an e-mail keeps its address.                                *)
LEMMA NormaliseType ==
    ASSUME NEW email \in Emails
    PROVE  /\ normaliseEmail(email) \in Emails
           /\ normaliseEmail(email).address = email.address
BY DEF normaliseEmail, Emails

(* What a registration inserts is a row, with the address and the password *)
(* of its form.                                                            *)
LEMMA NewRowType ==
    ASSUME TypeOK, NEW r \in Registrations
    PROVE  /\ NewRow(r) \in AccountType
           /\ NewRow(r).email.address = registration[r].form.email.address
           /\ NewRow(r).password = registration[r].form.password
<1>1. registration[r].form \in FormType
  BY FormsAssumption DEF TypeOK, RegistrationType
<1>2. registration[r].form.email \in Emails /\ registration[r].form.password \in Passwords
  BY <1>1 DEF FormType
<1>. QED
  BY <1>2, NormaliseType DEF NewRow, AccountType

(* Appending a row keeps the others where they are.                        *)
LEMMA AppendRow ==
    ASSUME accounts \in Seq(AccountType), NEW account \in AccountType,
           accounts' = Append(accounts, account)
    PROVE  /\ accounts' \in Seq(AccountType)
           /\ DOMAIN accounts' = DOMAIN accounts \cup {Len(accounts) + 1}
           /\ Len(accounts) + 1 \notin DOMAIN accounts
           /\ \A i \in DOMAIN accounts : accounts'[i] = accounts[i]
           /\ accounts'[Len(accounts) + 1] = account
OBVIOUS

(* A login or a profile leaves everything else alone.                      *)
LEMMA LoginFrame ==
    ASSUME NEW l \in Logins, LoginStep(l)
    PROVE  UNCHANGED <<process, seed, accounts, registration, crashes>>
<1>1. CASE BeginLogin(l)
  BY <1>1 DEF BeginLogin
<1>2. ASSUME NEW status, NEW token, EndLogin(l, status, token)
      PROVE  UNCHANGED <<process, seed, accounts, registration, crashes>>
  BY <1>2 DEF EndLogin
<1>3. CASE SignToken(l)
  BY <1>2, <1>3 DEF SignToken
<1>4. CASE RefuseLogin(l)
  BY <1>2, <1>4 DEF RefuseLogin
<1>5. ASSUME NEW id, AskForProfile(l, id)
      PROVE  UNCHANGED <<process, seed, accounts, registration, crashes>>
  BY <1>5 DEF AskForProfile
<1>. QED  BY <1>1, <1>3, <1>4, <1>5 DEF LoginStep

(* The table stays as it is, or grows by a row of a new address, which is  *)
(* a default account during the start and a registration's afterwards.     *)
LEMMA TableStep ==
    ASSUME TypeOK, [Next]_vars
    PROVE  \/ UNCHANGED accounts
           \/ \E account \in AccountType :
                /\ Insert(account)
                /\ \/ /\ process = "seeding"
                      /\ \E k \in DOMAIN Defaults : account = Defaults[k]
                   \/ process = "serving"
<1>1. CASE UNCHANGED vars
  BY <1>1 DEF vars
<1>2. CASE StartUp \/ StartServing \/ Crash
  BY <1>2 DEF StartUp, StartServing, Crash
<1>3. CASE EnsureUser
  BY <1>3, DefaultsAssumption DEF EnsureUser
<1>4. ASSUME NEW r \in Registrations, RegistrationStep(r)
      PROVE  \/ UNCHANGED accounts
             \/ process = "serving" /\ \E account \in AccountType : Insert(account)
  <2>1. CASE CreateUser(r)
    BY <2>1, NewRowType DEF CreateUser, Registering
  <2>2. CASE ~CreateUser(r)
    BY <1>4, <2>2 DEF RegistrationStep, BeginRegistration, RefuseRegistration,
                      CreateUserFails, ConfirmRegistration
  <2>. QED  BY <2>1, <2>2
<1>5. ASSUME NEW l \in Logins, LoginStep(l)
      PROVE  UNCHANGED accounts
  BY <1>5, LoginFrame
<1>. QED  BY <1>1, <1>2, <1>3, <1>4, <1>5 DEF Next

(* The table's part of the type invariant.                                 *)
LEMMA TableType == TypeOK /\ [Next]_vars => accounts' \in Seq(AccountType)
<1>. SUFFICES ASSUME TypeOK, [Next]_vars PROVE accounts' \in Seq(AccountType)
  OBVIOUS
<1>1. CASE UNCHANGED accounts
  BY <1>1 DEF TypeOK
<1>2. ASSUME NEW account \in AccountType, Insert(account) PROVE accounts' \in Seq(AccountType)
  BY <1>2, AppendRow DEF TypeOK, Insert
<1>. QED  BY TableStep, <1>1, <1>2

(* A registration's step changes its own entry only, and keeps its form.   *)
LEMMA Moved ==
    ASSUME TypeOK, NEW r \in Registrations, NEW ph, NEW status,
           MoveRegistration(r, ph, status)
    PROVE  /\ registration'[r].phase = ph /\ registration'[r].status = status
           /\ registration'[r].form = registration[r].form
           /\ \A q \in Registrations : q # r => registration'[q] = registration[q]
<1>1. registration[r] \in RegistrationType /\ DOMAIN registration = Registrations
  BY DEF TypeOK
<1>2. registration' = [registration EXCEPT ![r] =
                          [registration[r] EXCEPT !.phase = ph, !.status = status]]
  BY <1>1 DEF MoveRegistration
<1>3. registration'[r] = [registration[r] EXCEPT !.phase = ph, !.status = status]
  BY <1>1, <1>2
<1>. QED  BY <1>1, <1>2, <1>3 DEF RegistrationType

LEMMA MoveType ==
    ASSUME TypeOK, NEW r \in Registrations,
           NEW ph \in {"new", "hashing", "inserted", "answered", "lost"},
           NEW status \in Statuses,
           MoveRegistration(r, ph, status), accounts' \in Seq(AccountType)
    PROVE  TypeOK'
<1>1. [registration[r] EXCEPT !.phase = ph, !.status = status] \in RegistrationType
  BY DEF TypeOK, RegistrationType
<1>2. registration' = [registration EXCEPT ![r] =
                          [registration[r] EXCEPT !.phase = ph, !.status = status]]
  BY DEF MoveRegistration, TypeOK
<1>3. registration' \in [Registrations -> RegistrationType]
  BY <1>1, <1>2 DEF TypeOK
<1>. QED  BY <1>3 DEF TypeOK, MoveRegistration

(* The registrations' steps keep the types.                                *)
LEMMA TypeRegistrationStep ==
    ASSUME TypeOK, NEW r \in Registrations, RegistrationStep(r),
           accounts' \in Seq(AccountType)
    PROVE  TypeOK'
<1>1. CASE BeginRegistration(r)
  BY <1>1, MoveType DEF BeginRegistration, Statuses
<1>2. CASE RefuseRegistration(r)
  BY <1>2, MoveType DEF RefuseRegistration, Statuses
<1>3. CASE CreateUser(r)
  BY <1>3, MoveType DEF CreateUser, Statuses
<1>4. CASE CreateUserFails(r)
  BY <1>4, MoveType DEF CreateUserFails, Statuses
<1>5. CASE ConfirmRegistration(r)
  BY <1>5, MoveType DEF ConfirmRegistration, Statuses
<1>. QED  BY <1>1, <1>2, <1>3, <1>4, <1>5 DEF RegistrationStep

(* A row's id is its position.                                             *)
LEMMA RowType ==
    ASSUME TypeOK, NEW i \in DOMAIN accounts
    PROVE  /\ i \in Nat \ {0}
           /\ accounts[i] \in AccountType
           /\ accounts[i].role \in {RoleUser, RoleAdministrator}
           /\ accounts[i].email \in Emails
<1>1. accounts \in Seq(AccountType)
  BY DEF TypeOK
<1>2. i \in Nat \ {0} /\ accounts[i] \in AccountType
  BY <1>1
<1>. QED  BY <1>2 DEF AccountType

(* A login's step changes its own entry only, and keeps its form and what  *)
(* was confirmed before it began.                                          *)
LEMMA LoginEnded ==
    ASSUME TypeOK, NEW l \in Logins, NEW status, NEW token, EndLogin(l, status, token)
    PROVE  /\ login' = [login EXCEPT ![l] =
                 [login[l] EXCEPT !.phase = "answered", !.status = status, !.token = token]]
           /\ login'[l].phase = "answered"
           /\ login'[l].status = status /\ login'[l].token = token
           /\ login'[l].form = login[l].form /\ login'[l].confirmed = login[l].confirmed
           /\ \A m \in Logins : m # l => login'[m] = login[m]
<1>1. login[l] \in LoginType /\ DOMAIN login = Logins
  BY DEF TypeOK
<1>2. login' = [login EXCEPT ![l] =
                   [login[l] EXCEPT !.phase = "answered", !.status = status, !.token = token]]
  BY <1>1 DEF EndLogin
<1>3. login'[l] = [login[l] EXCEPT !.phase = "answered", !.status = status, !.token = token]
  BY <1>1, <1>2
<1>. QED  BY <1>1, <1>2, <1>3 DEF LoginType

LEMMA LoginBegun ==
    ASSUME TypeOK, NEW l \in Logins, BeginLogin(l)
    PROVE  /\ login' = [login EXCEPT ![l] =
                           [login[l] EXCEPT !.phase = "verifying", !.confirmed = Confirmed]]
           /\ login'[l].phase = "verifying" /\ login'[l].confirmed = Confirmed
           /\ login'[l].status = login[l].status /\ login'[l].token = login[l].token
           /\ login'[l].form = login[l].form
           /\ \A m \in Logins : m # l => login'[m] = login[m]
<1>1. login[l] \in LoginType /\ DOMAIN login = Logins
  BY DEF TypeOK
<1>2. login' = [login EXCEPT ![l] =
                   [login[l] EXCEPT !.phase = "verifying", !.confirmed = Confirmed]]
  BY <1>1 DEF BeginLogin
<1>3. login'[l] = [login[l] EXCEPT !.phase = "verifying", !.confirmed = Confirmed]
  BY <1>1, <1>2
<1>. QED  BY <1>1, <1>2, <1>3 DEF LoginType

(* The logins' steps keep the types.                                       *)
LEMMA TypeLoginStep ==
    ASSUME TypeOK, NEW l \in Logins, LoginStep(l)
    PROVE  TypeOK'
<1>1. CASE BeginLogin(l)
  <2>1. Confirmed \in SUBSET Registrations  BY DEF Confirmed
  <2>2. [login[l] EXCEPT !.phase = "verifying", !.confirmed = Confirmed] \in LoginType
    BY <2>1 DEF TypeOK, LoginType
  <2>3. login' \in [Logins -> LoginType]
    BY <1>1, <2>2, LoginBegun DEF TypeOK
  <2>. QED  BY <1>1, <2>3 DEF BeginLogin, TypeOK
<1>2. ASSUME NEW status \in Statuses, NEW token \in TokenType, EndLogin(l, status, token)
      PROVE  TypeOK'
  <2>1. [login[l] EXCEPT !.phase = "answered", !.status = status, !.token = token] \in LoginType
    BY DEF TypeOK, LoginType
  <2>2. login' = [login EXCEPT ![l] =
            [login[l] EXCEPT !.phase = "answered", !.status = status, !.token = token]]
    <3>1. login[l] \in LoginType /\ DOMAIN login = Logins
      BY DEF TypeOK
    <3>. QED  BY <1>2, <3>1 DEF EndLogin
  <2>3. login' \in [Logins -> LoginType]
    BY <2>1, <2>2 DEF TypeOK
  <2>4. UNCHANGED <<process, seed, accounts, registration, profile, crashes>>
    BY <1>2 DEF EndLogin
  <2>. QED  BY <2>3, <2>4 DEF TypeOK
<1>3. CASE SignToken(l)
  <2>1. PICK i \in Found(l) : EndLogin(l, 200, [id |-> i, role |-> accounts[i].role])
    BY <1>3 DEF SignToken
  <2>2. i \in DOMAIN accounts  BY DEF Found, GetByEmail
  <2>3. [id |-> i, role |-> accounts[i].role] \in TokenType
    BY <2>2, RowType DEF TokenType
  <2>. QED  BY <1>2, <2>1, <2>3 DEF Statuses
<1>4. CASE RefuseLogin(l)
  <2>1. NoToken \in TokenType
    BY DEF NoToken, TokenType
  <2>2. PICK status \in {500, 503, 400, 401} : EndLogin(l, status, NoToken)
    BY <1>4 DEF RefuseLogin
  <2>. QED  BY <1>2, <2>1, <2>2 DEF Statuses
<1>5. ASSUME NEW id \in 1 .. Len(Defaults) + Cardinality(Registrations), AskForProfile(l, id)
      PROVE  TypeOK'
  <2>1. id \in Nat  OBVIOUS
  <2>2. GetByID(l, id) \in ProfileType
    BY <2>1, RowType DEF GetByID, Statuses, ProfileType
  <2>. QED  BY <1>5, <2>2 DEF AskForProfile, TypeOK
<1>. QED  BY <1>1, <1>3, <1>4, <1>5 DEF LoginStep

(* The types hold at first.                                                *)
LEMMA TypeInit == Init => TypeOK
<1>. SUFFICES ASSUME Init PROVE TypeOK
  OBVIOUS
<1>1. Len(Defaults) \in Nat
  BY DefaultsAssumption
<1>2. NoToken \in TokenType /\ NoProfile \in ProfileType
  BY DEF NoToken, NoProfile, Statuses, TokenType, ProfileType
<1>3. accounts \in Seq(AccountType) /\ process = "down" /\ seed = 1 /\ crashes = 0
      /\ profile = [l \in Logins |-> NoProfile]
  BY DEF Init
<1>4. registration \in [Registrations -> RegistrationType]
  BY DEF Init, Statuses, RegistrationType
<1>5. login \in [Logins -> LoginType]
  BY <1>2 DEF Init, Statuses, LoginType
<1>. QED  BY <1>1, <1>2, <1>3, <1>4, <1>5, MaxCrashesAssumption DEF TypeOK

(* Every step keeps them.                                                  *)
LEMMA TypeStep == TypeOK /\ [Next]_vars => TypeOK'
<1>. SUFFICES ASSUME TypeOK, [Next]_vars PROVE TypeOK'
  OBVIOUS
<1>0. accounts' \in Seq(AccountType) /\ Len(Defaults) \in Nat /\ DOMAIN Defaults = 1 .. Len(Defaults)
  BY TableType, DefaultsAssumption
<1>1. CASE UNCHANGED vars
  BY <1>1 DEF vars, TypeOK
<1>2. CASE StartUp \/ EnsureUser \/ StartServing
  <2>1. /\ UNCHANGED <<registration, login, profile, crashes>>
        /\ process' \in {"down", "seeding", "serving"}
        /\ seed' \in 1 .. Len(Defaults) + 1
    BY <1>0, <1>2 DEF StartUp, EnsureUser, StartServing, TypeOK
  <2>. QED  BY <1>0, <2>1 DEF TypeOK
<1>3. CASE Crash
  <2>1. registration' \in [Registrations -> RegistrationType]
    BY <1>3 DEF Crash, TypeOK, RegistrationType
  <2>2. login' \in [Logins -> LoginType]
    <3>1. ASSUME NEW l \in Logins
          PROVE  login[l] \in LoginType /\ [login[l] EXCEPT !.phase = "lost"] \in LoginType
      BY DEF TypeOK, LoginType
    <3>2. login' = [l \in Logins |->
              IF login[l].phase = "verifying" THEN [login[l] EXCEPT !.phase = "lost"] ELSE login[l]]
      BY <1>3 DEF Crash
    <3>. QED  BY <3>1, <3>2
  <2>3. crashes' \in 0 .. MaxCrashes
    BY <1>3, MaxCrashesAssumption DEF Crash, TypeOK
  <2>. QED  BY <1>0, <1>3, <2>1, <2>2, <2>3 DEF Crash, TypeOK
<1>. QED  BY <1>0, <1>1, <1>2, <1>3, TypeRegistrationStep, TypeLoginStep DEF Next

(* Every reachable state is well typed.                                    *)
THEOREM UsersTypeCorrect == Spec => []TypeOK
BY TypeInit, TypeStep, PTL DEF Spec

---------------------------------------------------------------------------
(* Rows are kept, and their addresses differ *)

(* Every step keeps every row.                                             *)
LEMMA RowsStay ==
    ASSUME TypeOK, [Next]_vars
    PROVE  /\ DOMAIN accounts \subseteq DOMAIN accounts'
           /\ \A i \in DOMAIN accounts : accounts'[i] = accounts[i]
<1>1. ASSUME NEW account \in AccountType, Insert(account)
      PROVE  /\ DOMAIN accounts \subseteq DOMAIN accounts'
             /\ \A i \in DOMAIN accounts : accounts'[i] = accounts[i]
  BY <1>1, AppendRow DEF TypeOK, Insert
<1>. QED  BY TableStep, <1>1

(* A new row has a new address.                                            *)
LEMMA AddressesStep ==
    ASSUME TypeOK, OneAccountPerAddress, [Next]_vars
    PROVE  OneAccountPerAddress'
<1>1. CASE UNCHANGED accounts
  BY <1>1 DEF OneAccountPerAddress
<1>2. ASSUME NEW account \in AccountType, Insert(account)
      PROVE  OneAccountPerAddress'
  <2>1. /\ DOMAIN accounts' = DOMAIN accounts \cup {Len(accounts) + 1}
        /\ \A i \in DOMAIN accounts : accounts'[i] = accounts[i]
        /\ accounts'[Len(accounts) + 1] = account
    BY <1>2, AppendRow DEF TypeOK, Insert
  <2>2. \A i \in DOMAIN accounts : accounts[i].email.address # account.email.address
    BY <1>2 DEF Insert, GetByEmail
  <2>. QED  BY <2>1, <2>2 DEF OneAccountPerAddress
<1>. QED  BY TableStep, <1>1, <1>2

---------------------------------------------------------------------------
(* The default accounts *)

DefaultIsThere(k) == \E i \in DOMAIN accounts : accounts[i] = Defaults[k]

(* Until the default accounts are complete there is nothing else in the    *)
(* table: without this an e-mail that EnsureUser finds might be someone    *)
(* else's.                                                                 *)
SeedInv ==
    /\ \/ \A k \in DOMAIN Defaults : DefaultIsThere(k)
       \/ /\ process # "serving"
          /\ \A i \in DOMAIN accounts : \E k \in DOMAIN Defaults : accounts[i] = Defaults[k]
    /\ process = "seeding" =>
         \A k \in DOMAIN Defaults : k < seed => DefaultIsThere(k)

(* A default account that is there stays there.                            *)
LEMMA DefaultsStay ==
    ASSUME TypeOK, [Next]_vars, NEW k \in DOMAIN Defaults, DefaultIsThere(k)
    PROVE  DefaultIsThere(k)'
<1>1. PICK i \in DOMAIN accounts : accounts[i] = Defaults[k]
  BY DEF DefaultIsThere
<1>2. i \in DOMAIN accounts' /\ accounts'[i] = Defaults[k]
  BY <1>1, RowsStay
<1>. QED  BY <1>2 DEF DefaultIsThere

(* The account that EnsureUser has come to is there after its step: the    *)
(* row it finds under the e-mail can only be the default account itself.   *)
LEMMA EnsureUserEnsures ==
    ASSUME TypeOK, OneAccountPerAddress, SeedInv, EnsureUser,
           NEW k \in DOMAIN Defaults, k = seed
    PROVE  DefaultIsThere(k)'
<1>2. CASE GetByEmail(Defaults[k].email) # {} /\ UNCHANGED accounts
  <2>1. PICK i \in DOMAIN accounts : accounts[i].email.address = Defaults[k].email.address
    BY <1>2 DEF GetByEmail
  <2>2. CASE DefaultIsThere(k)
    BY <1>2, <2>2 DEF DefaultIsThere
  <2>3. CASE \A j \in DOMAIN accounts : \E n \in DOMAIN Defaults : accounts[j] = Defaults[n]
    <3>1. PICK n \in DOMAIN Defaults : accounts[i] = Defaults[n]
      BY <2>1, <2>3
    <3>2. n = k
      BY <2>1, <3>1, DefaultsAssumption
    <3>. QED  BY <1>2, <2>1, <3>1, <3>2 DEF DefaultIsThere
  <2>. QED  BY <2>2, <2>3 DEF SeedInv
<1>3. CASE Insert(Defaults[k])
  <2>1. Defaults[k] \in AccountType
    BY DefaultsAssumption
  <2>2. /\ Len(accounts) + 1 \in DOMAIN accounts'
        /\ accounts'[Len(accounts) + 1] = Defaults[k]
    BY <1>3, <2>1, AppendRow DEF TypeOK, Insert
  <2>. QED  BY <2>2 DEF DefaultIsThere
<1>. QED  BY <1>2, <1>3 DEF EnsureUser

(* Only the start-up moves the process and the seed on; a crash ends it.   *)
LEMMA ProcessStep ==
    ASSUME [Next]_vars
    PROVE  UNCHANGED <<process, seed>> \/ StartUp \/ EnsureUser \/ StartServing \/ Crash
<1>1. ASSUME NEW r \in Registrations, RegistrationStep(r)
      PROVE  UNCHANGED <<process, seed>>
  BY <1>1 DEF RegistrationStep, BeginRegistration, RefuseRegistration, CreateUser,
              CreateUserFails, ConfirmRegistration, MoveRegistration
<1>2. ASSUME NEW l \in Logins, LoginStep(l)
      PROVE  UNCHANGED <<process, seed>>
  BY <1>2, LoginFrame
<1>. QED  BY <1>1, <1>2 DEF Next, vars

LEMMA SeedStep ==
    ASSUME TypeOK, OneAccountPerAddress, SeedInv, [Next]_vars
    PROVE  SeedInv'
<1>0. DOMAIN Defaults = 1 .. Len(Defaults) /\ Len(Defaults) \in Nat /\ seed \in Nat
  BY DefaultsAssumption DEF TypeOK
<1>1. \A k \in DOMAIN Defaults : DefaultIsThere(k) => DefaultIsThere(k)'
  BY DefaultsStay
<1>2. CASE \A k \in DOMAIN Defaults : DefaultIsThere(k)
  BY <1>1, <1>2 DEF SeedInv
<1>3. CASE /\ process # "serving"
           /\ \A i \in DOMAIN accounts : \E k \in DOMAIN Defaults : accounts[i] = Defaults[k]
  <2>1. \A i \in DOMAIN accounts' : \E k \in DOMAIN Defaults : accounts'[i] = Defaults[k]
    <3>1. CASE UNCHANGED accounts
      BY <1>3, <3>1
    <3>2. ASSUME NEW account \in AccountType, Insert(account),
                 \E k \in DOMAIN Defaults : account = Defaults[k]
          PROVE  \A i \in DOMAIN accounts' : \E k \in DOMAIN Defaults : accounts'[i] = Defaults[k]
      <4>1. /\ DOMAIN accounts' = DOMAIN accounts \cup {Len(accounts) + 1}
            /\ \A i \in DOMAIN accounts : accounts'[i] = accounts[i]
            /\ accounts'[Len(accounts) + 1] = account
        BY <3>2, AppendRow DEF TypeOK, Insert
      <4>. QED  BY <1>3, <3>2, <4>1
    <3>. QED  BY <1>3, <3>1, <3>2, TableStep
  <2>2. CASE UNCHANGED <<process, seed>>
    BY <1>1, <1>3, <2>1, <2>2 DEF SeedInv
  <2>3. CASE StartUp
    BY <1>0, <2>1, <2>3 DEF SeedInv, StartUp
  <2>4. CASE EnsureUser
    <3>1. process' = "seeding" /\ seed' = seed + 1 /\ process = "seeding"
      BY <2>4 DEF EnsureUser
    <3>2. \A k \in DOMAIN Defaults : k < seed + 1 => k < seed \/ k = seed
      BY <1>0
    <3>3. \A k \in DOMAIN Defaults : k = seed => DefaultIsThere(k)'
      BY <2>4, EnsureUserEnsures
    <3>. QED  BY <1>1, <2>1, <3>1, <3>2, <3>3 DEF SeedInv
  <2>5. CASE StartServing
    <3>1. \A k \in DOMAIN Defaults : k < seed
      BY <1>0, <2>5 DEF StartServing
    <3>. QED  BY <1>1, <2>5, <3>1 DEF SeedInv, StartServing
  <2>6. CASE Crash
    BY <2>1, <2>6 DEF SeedInv, Crash
  <2>. QED  BY <2>2, <2>3, <2>4, <2>5, <2>6, ProcessStep
<1>. QED  BY <1>2, <1>3 DEF SeedInv

TableInv == TypeOK /\ OneAccountPerAddress /\ SeedInv

LEMMA TableInvariance == Spec => []TableInv
<1>1. Init => TableInv
  <2>. SUFFICES ASSUME Init PROVE TableInv
    OBVIOUS
  <2>1. process = "down" /\ DOMAIN accounts = {}
    BY DEF Init
  <2>. QED  BY <2>1, TypeInit DEF TableInv, OneAccountPerAddress, SeedInv
<1>2. TableInv /\ [Next]_vars => TableInv'
  BY TypeStep, AddressesStep, SeedStep DEF TableInv
<1>. QED  BY <1>1, <1>2, PTL DEF Spec

(* Whatever registrations race with each other and with the seeding, no    *)
(* address ever has two accounts, in whatever spellings it was given.      *)
THEOREM AddressesDiffer == Spec => []OneAccountPerAddress
BY TableInvariance, PTL DEF TableInv

(* A service that serves has every default account as configured, however  *)
(* often starting up was interrupted and whoever registered.               *)
THEOREM DefaultsAreServed == Spec => []ServesWithDefaultAccounts
<1>1. TableInv => ServesWithDefaultAccounts
  BY DEF TableInv, SeedInv, DefaultIsThere, ServesWithDefaultAccounts
<1>. QED  BY <1>1, TableInvariance, PTL

(* No step changes or removes a row.                                       *)
THEOREM RowsAreKept == Spec => AccountsAreKept
<1>1. TypeOK /\ [Next]_vars =>
        [/\ DOMAIN accounts \subseteq DOMAIN accounts'
         /\ \A i \in DOMAIN accounts : accounts'[i] = accounts[i]]_vars
  BY RowsStay
<1>. QED  BY <1>1, UsersTypeCorrect, PTL DEF Spec, AccountsAreKept

---------------------------------------------------------------------------
(* Who was told 201 can log in *)

(* A registration that has inserted its row has one.                       *)
HasRow(r) ==
    \E i \in DOMAIN accounts :
        /\ accounts[i].email.address = registration[r].form.email.address
        /\ accounts[i].password = registration[r].form.password

RegistrationInv ==
    \A r \in Registrations :
        /\ registration[r].status = 201 => registration[r].phase = "answered"
        /\ registration[r].phase = "inserted" \/ registration[r].status = 201 => HasRow(r)

LoginInv ==
    \A l \in Logins :
        /\ login[l].confirmed \subseteq Confirmed
        /\ login[l].phase \in {"new", "verifying"} => login[l].status = 0

(* Rows are kept, and forms do not change.                                 *)
LEMMA HasRowStays ==
    ASSUME TypeOK, [Next]_vars, NEW r \in Registrations, HasRow(r),
           registration'[r].form = registration[r].form
    PROVE  HasRow(r)'
<1>1. PICK i \in DOMAIN accounts :
            /\ accounts[i].email.address = registration[r].form.email.address
            /\ accounts[i].password = registration[r].form.password
  BY DEF HasRow
<1>2. i \in DOMAIN accounts' /\ accounts'[i] = accounts[i]
  BY RowsStay
<1>. QED  BY <1>1, <1>2 DEF HasRow

(* The step of one registration, by what it makes of that registration.    *)
LEMMA RegistrationMoves ==
    ASSUME TypeOK, RegistrationInv, [Next]_vars, NEW r \in Registrations,
           RegistrationStep(r)
    PROVE  /\ RegistrationInv'
           /\ Confirmed \subseteq Confirmed'
<1>1. \E ph, status : MoveRegistration(r, ph, status)
  BY DEF RegistrationStep, BeginRegistration, RefuseRegistration, CreateUser,
         CreateUserFails, ConfirmRegistration
<1>2. \A q \in Registrations : q # r => registration'[q] = registration[q]
  BY <1>1, Moved
<1>3. registration'[r].form = registration[r].form
  BY <1>1, Moved
<1>4. registration[r].phase \in {"new", "hashing", "inserted"}
  BY DEF RegistrationStep, BeginRegistration, RefuseRegistration, CreateUser,
         CreateUserFails, ConfirmRegistration, Registering
<1>5. Confirmed \subseteq Confirmed'
  BY <1>2, <1>4 DEF RegistrationInv, Confirmed
<1>6. \A q \in Registrations : HasRow(q) => HasRow(q)'
  BY <1>2, <1>3, HasRowStays
<1>7. CASE CreateUser(r)
  <2>1. registration'[r].phase = "inserted" /\ registration'[r].status = 0
    BY <1>7, Moved DEF CreateUser
  <2>2. NewRow(r) \in AccountType /\ Insert(NewRow(r))
    BY <1>7, NewRowType DEF CreateUser
  <2>3. Len(accounts) + 1 \in DOMAIN accounts' /\ accounts'[Len(accounts) + 1] = NewRow(r)
    BY <2>2, AppendRow DEF TypeOK, Insert
  <2>4. HasRow(r)'
    BY <1>3, <2>3, NewRowType DEF HasRow
  <2>. QED  BY <1>2, <1>5, <1>6, <2>1, <2>4 DEF RegistrationInv
<1>8. CASE ConfirmRegistration(r)
  <2>1. registration[r].phase = "inserted"
    BY <1>8 DEF ConfirmRegistration, Registering
  <2>2. \/ registration'[r].phase = "answered" /\ registration'[r].status \in {201, 500}
        \/ registration'[r].phase = "lost" /\ registration'[r].status = 0
    <3>1. PICK ph, status : /\ MoveRegistration(r, ph, status)
                            /\ \/ ph = "answered" /\ status \in {201, 500}
                               \/ ph = "lost" /\ status = 0
      BY <1>8 DEF ConfirmRegistration
    <3>2. registration'[r].phase = ph /\ registration'[r].status = status
      BY <3>1, Moved
    <3>. QED  BY <3>1, <3>2
  <2>. QED  BY <1>2, <1>5, <1>6, <2>1, <2>2 DEF RegistrationInv
<1>9. CASE BeginRegistration(r) \/ RefuseRegistration(r) \/ CreateUserFails(r)
  <2>1. registration'[r].phase # "inserted" /\ registration'[r].status # 201
    <3>1. PICK ph, status : /\ MoveRegistration(r, ph, status)
                            /\ ph # "inserted" /\ status # 201
      BY <1>9 DEF BeginRegistration, RefuseRegistration, CreateUserFails
    <3>2. registration'[r].phase = ph /\ registration'[r].status = status
      BY <3>1, Moved
    <3>. QED  BY <3>1, <3>2
  <2>. QED  BY <1>2, <1>5, <1>6, <2>1 DEF RegistrationInv
<1>. QED  BY <1>7, <1>8, <1>9 DEF RegistrationStep

(* A registration's entry changes with its own steps, and is lost in a     *)
(* crash.                                                                  *)
LEMMA RegistrationChanges ==
    ASSUME [Next]_vars
    PROVE  UNCHANGED registration \/ Crash \/ \E r \in Registrations : RegistrationStep(r)
<1>1. ASSUME NEW l \in Logins, LoginStep(l)
      PROVE  UNCHANGED registration
  <2>1. ASSUME NEW status, NEW token, EndLogin(l, status, token)
        PROVE  UNCHANGED registration
    <3>1. UNCHANGED <<process, seed, accounts, registration, profile, crashes>>
      BY <2>1, Zenon DEF EndLogin
    <3>. QED  BY <3>1
  <2>2. CASE SignToken(l) \/ RefuseLogin(l)
    <3>1. \E status, token : EndLogin(l, status, token)
      <4>1. CASE SignToken(l)
        BY <4>1 DEF SignToken
      <4>2. CASE RefuseLogin(l)
        BY <4>2 DEF RefuseLogin
      <4>. QED  BY <2>2, <4>1, <4>2
    <3>. QED  BY <2>1, <3>1
  <2>3. CASE BeginLogin(l)
    BY <2>3 DEF BeginLogin
  <2>4. ASSUME NEW id, AskForProfile(l, id)
        PROVE  UNCHANGED registration
    BY <2>4 DEF AskForProfile
  <2>. QED  BY <1>1, <2>2, <2>3, <2>4 DEF LoginStep
<1>. QED  BY <1>1 DEF Next, vars, StartUp, EnsureUser, StartServing

(* What a crash leaves of a registration.                                  *)
LEMMA RegistrationCrash ==
    ASSUME TypeOK, Crash, NEW r \in Registrations
    PROVE  /\ registration'[r].form = registration[r].form
           /\ registration'[r].status = registration[r].status
           /\ registration'[r].phase \in {registration[r].phase, "lost"}
           /\ registration[r].phase = "answered" => registration'[r].phase = "answered"
BY DEF Crash, TypeOK, RegistrationType

(* The same for every step.                                                *)
LEMMA RegistrationsStep ==
    ASSUME TypeOK, RegistrationInv, [Next]_vars
    PROVE  /\ RegistrationInv'
           /\ Confirmed \subseteq Confirmed'
<1>1. CASE UNCHANGED registration
  BY <1>1, HasRowStays DEF RegistrationInv, Confirmed
<1>2. CASE Crash
  BY <1>2, RegistrationCrash, HasRowStays DEF RegistrationInv, Confirmed
<1>. QED  BY <1>1, <1>2, RegistrationChanges, RegistrationMoves

(* A login's entry changes with its own steps, and is lost in a crash.     *)
LEMMA LoginChanges ==
    ASSUME [Next]_vars
    PROVE  \/ UNCHANGED login
           \/ Crash
           \/ \E l \in Logins : BeginLogin(l) \/ SignToken(l) \/ RefuseLogin(l)
<1>1. ASSUME NEW r \in Registrations, RegistrationStep(r)
      PROVE  UNCHANGED login
  BY <1>1 DEF RegistrationStep, BeginRegistration, RefuseRegistration, CreateUser,
              CreateUserFails, ConfirmRegistration, MoveRegistration
<1>2. ASSUME NEW l \in Logins, LoginStep(l)
      PROVE  UNCHANGED login \/ BeginLogin(l) \/ SignToken(l) \/ RefuseLogin(l)
  BY <1>2 DEF LoginStep, AskForProfile
<1>. QED  BY <1>1, <1>2 DEF Next, vars, StartUp, EnsureUser, StartServing

(* What a crash leaves of a login.                                         *)
LEMMA LoginCrash ==
    ASSUME TypeOK, Crash, NEW l \in Logins
    PROVE  /\ login'[l].form = login[l].form /\ login'[l].confirmed = login[l].confirmed
           /\ login'[l].status = login[l].status /\ login'[l].token = login[l].token
           /\ login'[l].phase \in {login[l].phase, "lost"}
BY DEF Crash, TypeOK, LoginType

(* A login that is refused with 401 has found no row that matches.         *)
LEMMA LoginsStep ==
    ASSUME TypeOK, RegistrationInv, LoginInv, RegisteredCanLogIn, [Next]_vars
    PROVE  LoginInv' /\ RegisteredCanLogIn'
<1>0. Confirmed \subseteq Confirmed' /\ Confirmed \subseteq Registrations
  BY RegistrationsStep DEF Confirmed
<1>1. \A r \in Confirmed : registration'[r].form = registration[r].form
  <2>1. ASSUME NEW r \in Registrations, NEW q \in Registrations, RegistrationStep(q)
        PROVE  registration'[r].form = registration[r].form
    <3>1. \E ph, status : MoveRegistration(q, ph, status)
      BY <2>1 DEF RegistrationStep, BeginRegistration, RefuseRegistration, CreateUser,
                  CreateUserFails, ConfirmRegistration
    <3>. QED  BY <3>1, Moved
  <2>. QED  BY <1>0, <2>1, RegistrationCrash, RegistrationChanges
<1>2. CASE UNCHANGED login
  BY <1>0, <1>1, <1>2 DEF LoginInv, RegisteredCanLogIn
<1>3. CASE Crash
  BY <1>0, <1>1, <1>3, LoginCrash DEF LoginInv, RegisteredCanLogIn
<1>4. ASSUME NEW l \in Logins, BeginLogin(l)
      PROVE  LoginInv' /\ RegisteredCanLogIn'
  <2>1. login[l].status = 0 /\ UNCHANGED registration
    BY <1>4 DEF BeginLogin, LoginInv
  <2>2. login'[l].status = 0 /\ login'[l].confirmed = Confirmed
    BY <1>4, <2>1, LoginBegun
  <2>3. \A m \in Logins : m # l => login'[m] = login[m]
    BY <1>4, LoginBegun
  <2>. QED  BY <1>0, <2>1, <2>2, <2>3 DEF LoginInv, RegisteredCanLogIn
<1>5. ASSUME NEW l \in Logins, NEW status, NEW token, EndLogin(l, status, token),
             status = 401 => \A r \in login[l].confirmed :
                 ~ /\ registration[r].form.email.address = login[l].form.email.address
                   /\ registration[r].form.password = login[l].form.password
      PROVE  LoginInv' /\ RegisteredCanLogIn'
  <2>1. /\ login'[l].phase = "answered" /\ login'[l].status = status
        /\ login'[l].form = login[l].form /\ login'[l].confirmed = login[l].confirmed
        /\ UNCHANGED registration
    BY <1>5, LoginEnded DEF EndLogin
  <2>2. \A m \in Logins : m # l => login'[m] = login[m]
    BY <1>5, LoginEnded
  <2>3. LoginInv'
    BY <1>0, <2>1, <2>2 DEF LoginInv
  <2>4. RegisteredCanLogIn'
    BY <1>5, <2>1, <2>2 DEF RegisteredCanLogIn
  <2>. QED  BY <2>3, <2>4
<1>6. ASSUME NEW l \in Logins, SignToken(l)
      PROVE  LoginInv' /\ RegisteredCanLogIn'
  BY <1>5, <1>6 DEF SignToken
<1>7. ASSUME NEW l \in Logins, RefuseLogin(l)
      PROVE  LoginInv' /\ RegisteredCanLogIn'
  <2>1. PICK status : /\ EndLogin(l, status, NoToken)
                      /\ status = 401 => ~ \E i \in Found(l) : Matches(l, i)
    BY <1>7 DEF RefuseLogin
  <2>2. login[l].form.email \in Emails
    BY FormsAssumption DEF TypeOK, LoginType, FormType
  <2>3. ASSUME NEW r \in login[l].confirmed,
               registration[r].form.email.address = login[l].form.email.address,
               registration[r].form.password = login[l].form.password
        PROVE  \E i \in Found(l) : Matches(l, i)
    <3>1. r \in Registrations /\ registration[r].status = 201
      BY <2>3 DEF LoginInv, Confirmed
    <3>2. HasRow(r)
      BY <3>1 DEF RegistrationInv
    <3>3. PICK i \in DOMAIN accounts :
              /\ accounts[i].email.address = login[l].form.email.address
              /\ accounts[i].password = login[l].form.password
      BY <2>3, <3>2 DEF HasRow
    <3>4. i \in Found(l)
      BY <2>2, <3>3, NormaliseType DEF Found, GetByEmail
    <3>. QED  BY <3>3, <3>4 DEF Matches
  <2>. QED  BY <1>5, <2>1, <2>3
<1>. QED  BY <1>2, <1>3, <1>4, <1>6, <1>7, LoginChanges

AccountInv == TypeOK /\ RegistrationInv /\ LoginInv /\ RegisteredCanLogIn

(* It holds in every reachable state.                                      *)
LEMMA AccountInvariance == Spec => []AccountInv
<1>1. Init => AccountInv
  <2>. SUFFICES ASSUME Init PROVE AccountInv
    OBVIOUS
  <2>1. TypeOK
    BY TypeInit
  <2>2. \A r \in Registrations : registration[r].phase = "new" /\ registration[r].status = 0
    BY DEF Init
  <2>3. \A l \in Logins : login[l].status = 0 /\ login[l].confirmed = {}
    BY DEF Init
  <2>. QED
    BY <2>1, <2>2, <2>3 DEF AccountInv, RegistrationInv, LoginInv, RegisteredCanLogIn
<1>2. AccountInv /\ [Next]_vars => AccountInv'
  BY TypeStep, RegistrationsStep, LoginsStep DEF AccountInv
<1>. QED  BY <1>1, <1>2, PTL DEF Spec

(* Whoever was told 201 before a login began is not refused with 401 when  *)
(* they give that e-mail, in any spelling, and that password.              *)
THEOREM RegisteredLogIn == Spec => []RegisteredCanLogIn
<1>1. AccountInv => RegisteredCanLogIn
  BY DEF AccountInv
<1>. QED  BY <1>1, AccountInvariance, PTL

---------------------------------------------------------------------------
(* A token opens its owner's profile *)

(* The token's id is that of a row with the e-mail of the login.           *)
NamesOwner(l, token) ==
    /\ token.id \in DOMAIN accounts
    /\ accounts[token.id].email.address = login[l].form.email.address

(* What a login may end with.                                              *)
Issues(l, status, token) == status = 200 => NamesOwner(l, token)

(* The row a token names is of the address that was logged in with, and    *)
(* only who has a token has asked for a profile.  The first half is what   *)
(* lasts only because rows are kept: the token outlives the look-up.       *)
TokenInv ==
    \A l \in Logins :
        IF login[l].status = 200
        THEN NamesOwner(l, login[l].token)
        ELSE profile[l] = NoProfile

OwnerInv == TokenInv /\ ProfileIsTheOwners

(* An entry that keeps its form, status, token and profile keeps its part  *)
(* of the invariant, whatever happens to the table.                        *)
LEMMA OwnerKept ==
    ASSUME TypeOK, OwnerInv, [Next]_vars,
           UNCHANGED profile,
           \A l \in Logins :
               /\ login'[l].form = login[l].form
               /\ login'[l].status = login[l].status
               /\ login'[l].token = login[l].token
    PROVE  OwnerInv'
<1>1. TokenInv'
  BY RowsStay DEF OwnerInv, TokenInv, NamesOwner
<1>2. ProfileIsTheOwners'
  BY DEF OwnerInv, ProfileIsTheOwners
<1>. QED  BY <1>1, <1>2 DEF OwnerInv

(* A login that ends takes its token from the row that was looked up, and  *)
(* has not asked for a profile yet.                                        *)
LEMMA OwnerLogin ==
    ASSUME TypeOK, LoginInv, OwnerInv, NEW l \in Logins, NEW status, NEW token,
           EndLogin(l, status, token), Issues(l, status, token)
    PROVE  OwnerInv'
<1>1. login[l].status = 0 /\ UNCHANGED <<accounts, profile>>
  BY DEF EndLogin, LoginInv
<1>2. profile[l] = NoProfile
  BY <1>1 DEF OwnerInv, TokenInv
<1>3. /\ login'[l].form = login[l].form
      /\ login'[l].status = status
      /\ login'[l].token = token
      /\ \A m \in Logins : m # l => login'[m] = login[m]
  <2>1. login[l] \in LoginType /\ DOMAIN login = Logins
    BY DEF TypeOK
  <2>2. login' = [login EXCEPT ![l] =
            [login[l] EXCEPT !.phase = "answered", !.status = status, !.token = token]]
    BY <2>1 DEF EndLogin
  <2>3. login'[l] = [login[l] EXCEPT !.phase = "answered", !.status = status, !.token = token]
    BY <2>1, <2>2
  <2>. QED  BY <2>1, <2>2, <2>3 DEF LoginType
<1>4. TokenInv'
  BY <1>1, <1>2, <1>3 DEF OwnerInv, TokenInv, Issues, NamesOwner
<1>5. ProfileIsTheOwners'
  <2>1. profile'[l].id = 0 /\ profile'[l].status = 0
    BY <1>1, <1>2 DEF NoProfile
  <2>2. status = 200 => token.id # 0
    BY RowType DEF Issues, NamesOwner
  <2>. QED  BY <1>1, <1>3, <2>1, <2>2 DEF OwnerInv, ProfileIsTheOwners
<1>. QED  BY <1>4, <1>5 DEF OwnerInv

(* What GET /users/{userId} answers: the token's own row, another row only *)
(* to an administrator.                                                    *)
LEMMA OwnerAsks ==
    ASSUME TypeOK, OwnerInv, NEW l \in Logins, NEW id, AskForProfile(l, id)
    PROVE  OwnerInv'
<1>1. /\ login[l].status = 200
      /\ profile'[l] = GetByID(l, id)
      /\ \A m \in Logins : m # l => profile'[m] = profile[m]
      /\ UNCHANGED <<accounts, login>>
  BY DEF AskForProfile, TypeOK
<1>2. /\ login[l].token.id \in DOMAIN accounts
      /\ accounts[login[l].token.id].email.address = login[l].form.email.address
  BY <1>1 DEF OwnerInv, TokenInv, NamesOwner
<1>3. TokenInv'
  BY <1>1 DEF OwnerInv, TokenInv, NamesOwner
<1>4. GetByID(l, id).id = id
  BY DEF GetByID
<1>5. id = login[l].token.id =>
        GetByID(l, id) = [id |-> id, status |-> 200, email |-> {accounts[id].email}]
  BY <1>2 DEF GetByID
<1>6. GetByID(l, id).status = 200 /\ login[l].token.role = RoleUser => id = login[l].token.id
  BY DEF GetByID, RoleUser, RoleAdministrator
<1>7. ProfileIsTheOwners'
  BY <1>1, <1>2, <1>4, <1>5, <1>6 DEF OwnerInv, ProfileIsTheOwners
<1>. QED  BY <1>3, <1>7 DEF OwnerInv

(* Only AskForProfile changes a profile.                                   *)
LEMMA ProfileChanges ==
    ASSUME [Next]_vars
    PROVE  UNCHANGED profile \/ \E l \in Logins : \E id : AskForProfile(l, id)
<1>1. ASSUME NEW r \in Registrations, RegistrationStep(r)
      PROVE  UNCHANGED profile
  BY <1>1 DEF RegistrationStep, BeginRegistration, RefuseRegistration, CreateUser,
              CreateUserFails, ConfirmRegistration, MoveRegistration
<1>2. ASSUME NEW l \in Logins, NEW status, NEW token, EndLogin(l, status, token)
      PROVE  UNCHANGED profile
  <2>1. UNCHANGED <<process, seed, accounts, registration, profile, crashes>>
    BY <1>2, Zenon DEF EndLogin
  <2>. QED  BY <2>1
<1>3. ASSUME NEW l \in Logins, LoginStep(l)
      PROVE  UNCHANGED profile \/ \E id : AskForProfile(l, id)
  <2>1. CASE SignToken(l)
    BY <1>2, <2>1 DEF SignToken
  <2>2. CASE RefuseLogin(l)
    BY <1>2, <2>2 DEF RefuseLogin
  <2>3. CASE BeginLogin(l)
    BY <2>3 DEF BeginLogin
  <2>. QED  BY <1>3, <2>1, <2>2, <2>3 DEF LoginStep
<1>. QED  BY <1>1, <1>3 DEF Next, vars, StartUp, EnsureUser, StartServing, Crash

(* Every step keeps it.                                                    *)
LEMMA OwnerStep ==
    ASSUME TypeOK, LoginInv, OwnerInv, [Next]_vars
    PROVE  OwnerInv'
<1>1. ASSUME NEW l \in Logins, NEW id, AskForProfile(l, id)
      PROVE  OwnerInv'
  BY <1>1, OwnerAsks
<1>2. CASE UNCHANGED <<login, profile>>
  BY <1>2, OwnerKept
<1>3. CASE Crash /\ UNCHANGED profile
  BY <1>3, LoginCrash, OwnerKept
<1>4. ASSUME NEW l \in Logins, BeginLogin(l), UNCHANGED profile
      PROVE  OwnerInv'
  BY <1>4, LoginBegun, OwnerKept
<1>5. ASSUME NEW l \in Logins, SignToken(l)
      PROVE  OwnerInv'
  <2>1. PICK i \in Found(l) : EndLogin(l, 200, [id |-> i, role |-> accounts[i].role])
    BY <1>5 DEF SignToken
  <2>2. login[l].form.email \in Emails
    BY FormsAssumption DEF TypeOK, LoginType, FormType
  <2>3. i \in DOMAIN accounts /\ accounts[i].email.address = login[l].form.email.address
    BY <2>2, NormaliseType DEF Found, GetByEmail
  <2>. QED  BY <2>1, <2>3, OwnerLogin DEF Issues, NamesOwner
<1>6. ASSUME NEW l \in Logins, RefuseLogin(l)
      PROVE  OwnerInv'
  <2>1. PICK status : EndLogin(l, status, NoToken) /\ status # 200
    BY <1>6 DEF RefuseLogin
  <2>. QED  BY <2>1, OwnerLogin DEF Issues
<1>. QED  BY <1>1, <1>2, <1>3, <1>4, <1>5, <1>6, LoginChanges, ProfileChanges

(* A token opens the profile of the one who logged in with it and of       *)
(* nobody else, unless it is an administrator's, whatever was registered   *)
(* and however often the service was restarted since.                      *)
THEOREM ProfilesAreTheOwners == Spec => []ProfileIsTheOwners
<1>1. Init => OwnerInv
  <2>. SUFFICES ASSUME Init PROVE OwnerInv
    OBVIOUS
  <2>1. \A l \in Logins : login[l].status = 0 /\ profile[l] = NoProfile
    BY DEF Init
  <2>. QED  BY <2>1 DEF OwnerInv, TokenInv, NamesOwner, ProfileIsTheOwners
<1>2. AccountInv /\ OwnerInv /\ [Next]_vars => OwnerInv'
  BY OwnerStep DEF AccountInv
<1>3. OwnerInv => ProfileIsTheOwners
  BY DEF OwnerInv
<1>. QED  BY <1>1, <1>2, <1>3, AccountInvariance, PTL DEF Spec
=============================================================================
