------------------------------- MODULE Users -------------------------------
(***************************************************************************)
(* The users service: registration and login over one SQLite table         *)
(* (internal/users), and its start-up, which creates the default accounts  *)
(* before it serves (cmd/users).                                           *)
(*                                                                         *)
(* Requests run concurrently; an INSERT or a SELECT is atomic and what is  *)
(* inserted is durable, and nothing but the index on the e-mail column     *)
(* keeps registrations apart.  The process may end at any time and is      *)
(* started again.  An e-mail is an address and a spelling of it, in lower  *)
(* or in mixed case; a hash is the password it is the hash of.             *)
(***************************************************************************)
EXTENDS Integers, Sequences, FiniteSets

CONSTANTS
    Addresses,
    Passwords,
    Registrations,  \* the POST /users/register that ever arrive
    Logins,         \* the POST /users/login that ever arrive
    Forms,          \* what those may carry
    Defaults,       \* the accounts of EnsureDefaultAccountsExist, in its order
    MaxCrashes      \* how often the process ends unasked

Emails == [address: Addresses, spelling: {"lower", "mixed"}]
FormType == [email: Emails, password: Passwords, valid: BOOLEAN]
RoleUser == "user"
RoleAdministrator == "admin"
AccountType ==
    [email: Emails, password: Passwords, role: {RoleUser, RoleAdministrator}]
Statuses == {0, 200, 201, 400, 401, 403, 404, 409, 500, 503}

ASSUME FormsAssumption == Forms \subseteq FormType
ASSUME DefaultsAssumption ==
    /\ Defaults \in Seq(AccountType)
    /\ \A i, j \in DOMAIN Defaults :
         Defaults[i].email.address = Defaults[j].email.address => i = j
ASSUME MaxCrashesAssumption == MaxCrashes \in Nat

VARIABLES
    process,        \* "down", "seeding", "serving"
    seed,           \* the default account EnsureDefaultAccountsExist has come to
    accounts,       \* the table; a row's position is its id, rows are never deleted
    registration,   \* per registration: form, progress and the status the client got
    login,          \* per login: form, progress, status and the token's claims, with the
                    \* registrations confirmed when it began as history
    profile,        \* per login: what GET /users/{userId} has answered with its token
    crashes

vars == <<process, seed, accounts, registration, login, profile, crashes>>

NoToken == [id |-> 0, role |-> RoleUser]
NoProfile == [id |-> 0, status |-> 0, email |-> {}]

Init ==
    /\ process = "down"
    /\ seed = 1
    /\ accounts = <<>>
    /\ \E form \in [Registrations -> Forms] :
         registration = [r \in Registrations |->
             [form |-> form[r], phase |-> "new", status |-> 0]]
    /\ \E form \in [Logins -> Forms] :
         login = [l \in Logins |->
             [form |-> form[l], phase |-> "new", status |-> 0, token |-> NoToken,
              confirmed |-> {}]]
    /\ profile = [l \in Logins |-> NoProfile]
    /\ crashes = 0

---------------------------------------------------------------------------
(* Store *)

normaliseEmail(email) == [email EXCEPT !.spelling = "lower"]

(* Mutant: the column and the look-ups compare e-mails letter by letter. *)
GetByEmailExactly(email) == {i \in DOMAIN accounts : accounts[i].email = email}

(* WHERE email = ? COLLATE NOCASE: the ids of the rows found. *)
GetByEmail(email) == {i \in DOMAIN accounts : accounts[i].email.address = email.address}

(* Mutant: INSERT OR REPLACE. *)
InsertOrReplace(account) ==
    accounts' = IF GetByEmail(account.email) = {}
                THEN Append(accounts, account)
                ELSE [i \in DOMAIN accounts |->
                         IF i \in GetByEmail(account.email) THEN account ELSE accounts[i]]

(* The INSERT of CreateUser; the UNIQUE index on email enables it. *)
Insert(account) ==
    /\ GetByEmail(account.email) = {}
    /\ accounts' = Append(accounts, account)

---------------------------------------------------------------------------
(* Start-up: main opens the store and EnsureDefaultAccountsExist goes      *)
(* through the accounts; any error ends the process.                       *)

StartUp ==
    /\ process = "down"
    /\ process' = "seeding"
    /\ seed' = 1
    /\ UNCHANGED <<accounts, registration, login, profile, crashes>>

(* Mutants: accounts are created without looking, and the error ends the   *)
(* process; or only into an empty table, which is what CountUsers is for.  *)
EnsureUserBlindly ==
    /\ process = "seeding"
    /\ seed \in DOMAIN Defaults
    /\ \/ Insert(Defaults[seed]) /\ seed' = seed + 1 /\ UNCHANGED process
       \/ GetByEmail(Defaults[seed].email) # {} /\ process' = "down" /\ UNCHANGED <<accounts, seed>>
    /\ UNCHANGED <<registration, login, profile, crashes>>
EnsureUserIfEmpty ==
    /\ process = "seeding"
    /\ seed \in DOMAIN Defaults
    /\ IF seed > 1 \/ accounts = <<>>
       THEN Insert(Defaults[seed]) /\ seed' = seed + 1
       ELSE seed' = Len(Defaults) + 1 /\ UNCHANGED accounts
    /\ UNCHANGED <<process, registration, login, profile, crashes>>

EnsureUser ==
    /\ process = "seeding"
    /\ seed \in DOMAIN Defaults
    /\ \/ GetByEmail(Defaults[seed].email) # {} /\ UNCHANGED accounts
       \/ Insert(Defaults[seed])
    /\ seed' = seed + 1
    /\ UNCHANGED <<process, registration, login, profile, crashes>>

StartServing ==
    /\ process = "seeding"
    /\ seed = Len(Defaults) + 1
    /\ process' = "serving"
    /\ UNCHANGED <<seed, accounts, registration, login, profile, crashes>>

(* The process ends, or seeding fails, which ends it as well; requests in  *)
(* progress are never answered.                                            *)
Crash ==
    /\ process # "down"
    /\ crashes < MaxCrashes
    /\ crashes' = crashes + 1
    /\ process' = "down"
    /\ registration' = [r \in Registrations |->
           IF registration[r].phase \in {"hashing", "inserted"}
           THEN [registration[r] EXCEPT !.phase = "lost"] ELSE registration[r]]
    /\ login' = [l \in Logins |->
           IF login[l].phase = "verifying" THEN [login[l] EXCEPT !.phase = "lost"] ELSE login[l]]
    /\ UNCHANGED <<seed, accounts, profile>>

---------------------------------------------------------------------------
(* POST /users/register *)

(* Mutant: CreateUser is not told the role. *)
NewRowWithoutRole(r) ==
    [email |-> normaliseEmail(registration[r].form.email),
     password |-> registration[r].form.password,
     role |-> ""]

NewRow(r) ==
    [email |-> normaliseEmail(registration[r].form.email),
     password |-> registration[r].form.password,
     role |-> RoleUser]

MoveRegistration(r, phase, status) ==
    /\ registration' = [registration EXCEPT ![r].phase = phase, ![r].status = status]
    /\ UNCHANGED <<process, seed, login, profile, crashes>>

Registering(r, phase) == process = "serving" /\ registration[r].phase = phase

(* The payload is read and its password hashed, which takes a while. *)
BeginRegistration(r) ==
    /\ Registering(r, "new")
    /\ registration[r].form.valid
    /\ MoveRegistration(r, "hashing", 0)
    /\ UNCHANGED accounts

(* The payload is refused, or the kill switch is on. *)
RefuseRegistration(r) ==
    /\ Registering(r, "new")
    /\ \E status \in {503} \cup (IF registration[r].form.valid THEN {} ELSE {400}) :
          MoveRegistration(r, "answered", status)
    /\ UNCHANGED accounts

CreateUser(r) ==
    /\ Registering(r, "hashing")
    /\ Insert(NewRow(r))
    /\ MoveRegistration(r, "inserted", 0)

(* The index refuses the row (409), or the INSERT fails otherwise (500). *)
CreateUserFails(r) ==
    /\ Registering(r, "hashing")
    /\ \E status \in {500} \cup (IF GetByEmail(NewRow(r).email) = {} THEN {} ELSE {409}) :
          MoveRegistration(r, "answered", status)
    /\ UNCHANGED accounts

(* The row is there; the client learns of it, is told 500 because its id   *)
(* cannot be read, or has gone.                                            *)
ConfirmRegistration(r) ==
    /\ Registering(r, "inserted")
    /\ \/ \E status \in {201, 500} : MoveRegistration(r, "answered", status)
       \/ MoveRegistration(r, "lost", 0)
    /\ UNCHANGED accounts

---------------------------------------------------------------------------
(* POST /users/login and GET /users/{userId} *)

Confirmed == {r \in Registrations : registration[r].status = 201}

(* The request is complete, and waits for the store and for bcrypt. *)
BeginLogin(l) ==
    /\ process = "serving"
    /\ login[l].phase = "new"
    /\ login' = [login EXCEPT ![l].phase = "verifying", ![l].confirmed = Confirmed]
    /\ UNCHANGED <<process, seed, accounts, registration, profile, crashes>>

EndLogin(l, status, token) ==
    /\ process = "serving"
    /\ login[l].phase = "verifying"
    /\ login' = [login EXCEPT ![l].phase = "answered", ![l].status = status, ![l].token = token]
    /\ UNCHANGED <<process, seed, accounts, registration, profile, crashes>>

Matches(l, i) == accounts[i].password = login[l].form.password
Found(l) == GetByEmail(normaliseEmail(login[l].form.email))

(* VerifyPassword succeeds and SignToken puts the row's id and role into   *)
(* the token.  Rows never change, so that looking one up and comparing its *)
(* hash are one step.                                                      *)
SignToken(l) ==
    \E i \in Found(l) :
        /\ login[l].form.valid
        /\ Matches(l, i)
        /\ EndLogin(l, 200, [id |-> i, role |-> accounts[i].role])

(* 400 for an empty field, 401 for an unknown e-mail or a wrong password,  *)
(* 503 and 500 for the kill switch and for errors of the store.            *)
RefuseLogin(l) ==
    \E status \in {500, 503}
            \cup (IF ~login[l].form.valid THEN {400}
                  ELSE IF \E i \in Found(l) : Matches(l, i) THEN {} ELSE {401}) :
        EndLogin(l, status, NoToken)

(* Mutant: ids are rows' numbers counted from 0. *)
GetByIDOffByOne(l, id) ==
    LET allowed == login[l].token.role = RoleAdministrator \/ login[l].token.id = id IN
    CASE ~allowed -> [id |-> id, status |-> 403, email |-> {}]
      [] allowed /\ id + 1 \in DOMAIN accounts ->
           [id |-> id, status |-> 200, email |-> {accounts[id + 1].email}]
      [] OTHER -> [id |-> id, status |-> 404, email |-> {}]

GetByID(l, id) ==
    LET allowed == login[l].token.role = RoleAdministrator \/ login[l].token.id = id IN
    CASE ~allowed -> [id |-> id, status |-> 403, email |-> {}]
      [] allowed /\ id \in DOMAIN accounts ->
           [id |-> id, status |-> 200, email |-> {accounts[id].email}]
      [] OTHER -> [id |-> id, status |-> 404, email |-> {}]

(* The holder of a token asks for the profile of user id.  An answer that  *)
(* does not depend on the id (a token that has expired, the kill switch, a *)
(* store that fails) changes nothing, and the question may be repeated.    *)
AskForProfile(l, id) ==
    /\ process = "serving"
    /\ login[l].status = 200
    /\ profile[l].status = 0
    /\ profile' = [profile EXCEPT ![l] = GetByID(l, id)]
    /\ UNCHANGED <<process, seed, accounts, registration, login, crashes>>

---------------------------------------------------------------------------
RegistrationStep(r) ==
    \/ BeginRegistration(r) \/ RefuseRegistration(r)
    \/ CreateUser(r) \/ CreateUserFails(r) \/ ConfirmRegistration(r)

LoginStep(l) ==
    \/ BeginLogin(l) \/ SignToken(l) \/ RefuseLogin(l)
    \/ \E id \in 1 .. Len(Defaults) + Cardinality(Registrations) : AskForProfile(l, id)

Next ==
    \/ StartUp \/ EnsureUser \/ StartServing \/ Crash
    \/ \E r \in Registrations : RegistrationStep(r)
    \/ \E l \in Logins : LoginStep(l)

Spec == Init /\ [][Next]_vars

(* Compose starts a process that has ended again, and main runs on. *)
Fairness == WF_vars(StartUp \/ EnsureUser \/ StartServing)

FairSpec == Spec /\ Fairness

---------------------------------------------------------------------------
(* Properties *)

RegistrationType ==
    [form: Forms, phase: {"new", "hashing", "inserted", "answered", "lost"}, status: Statuses]
TokenType == [id: Nat, role: {RoleUser, RoleAdministrator}]
LoginType ==
    [form: Forms, phase: {"new", "verifying", "answered", "lost"}, status: Statuses,
     token: TokenType, confirmed: SUBSET Registrations]
ProfileType == [id: Nat, status: Statuses, email: SUBSET Emails]

(* Every variable has its type. *)
TypeOK ==
    /\ process \in {"down", "seeding", "serving"}
    /\ seed \in 1 .. Len(Defaults) + 1
    /\ accounts \in Seq(AccountType)
    /\ registration \in [Registrations -> RegistrationType]
    /\ login \in [Logins -> LoginType]
    /\ profile \in [Logins -> ProfileType]
    /\ crashes \in 0 .. MaxCrashes

(* Whatever registrations race with each other and with the default        *)
(* accounts, no two rows carry one address, in whatever spelling.          *)
OneAccountPerAddress ==
    \A i, j \in DOMAIN accounts :
        accounts[i].email.address = accounts[j].email.address => i = j

(* A service that serves has every default account with the password and   *)
(* the role configured, however often starting up was interrupted          *)
(* (EnsureDefaultAccountsExist), and whoever registers.                    *)
ServesWithDefaultAccounts ==
    process = "serving" => \A k \in DOMAIN Defaults : \E i \in DOMAIN accounts : accounts[i] = Defaults[k]

(* Who was told 201 can log in with that e-mail, in any spelling, and that *)
(* password from then on: no crash, restart or other registration takes    *)
(* the account away, and no 401 is answered.                               *)
RegisteredCanLogIn ==
    \A l \in Logins : login[l].status = 401 =>
        \A r \in login[l].confirmed :
            ~ /\ registration[r].form.email.address = login[l].form.email.address
              /\ registration[r].form.password = login[l].form.password

(* A token opens the profile of the one who logged in with it, and of      *)
(* nobody else unless it is an administrator's: the id it carries stays    *)
(* the account's own.                                                      *)
ProfileIsTheOwners ==
    \A l \in Logins : login[l].status = 200 =>
        /\ profile[l].id = login[l].token.id =>
             /\ profile[l].status = 200
             /\ \A e \in profile[l].email : e.address = login[l].form.email.address
        /\ profile[l].status = 200 /\ login[l].token.role = RoleUser =>
             profile[l].id = login[l].token.id

(* A row is never changed or removed again: not by another registration,   *)
(* and not by the accounts being ensured at the next start.                *)
AccountsAreKept ==
    [][/\ DOMAIN accounts \subseteq DOMAIN accounts'
       /\ \A i \in DOMAIN accounts : accounts'[i] = accounts[i]]_vars

(* However starting up is interrupted, the service is served again: what   *)
(* an interrupted start has created does not stand in the way of the next. *)
ServesAgain == []<>(process = "serving")
=============================================================================
