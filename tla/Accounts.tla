------------------------------ MODULE Accounts ------------------------------
(***************************************************************************)
(* The modules of the login page and the registration they ask for: forms  *)
(* with their rules, a code asked for by phone, and the server, which      *)
(* writes the user, the private tag and its assignment one by one.  A form *)
(* can be submitted with Enter while an earlier submission is under way,   *)
(* and its answer may come when the user is somewhere else.                *)
(***************************************************************************)
EXTENDS Naturals, FiniteSets

CONSTANTS
    Name,       \* user names the rules accept
    Password,   \* passwords the rules accept
    MaxSubmits, \* bound: registrations asked for
    MaxFills    \* bound: forms filled in, codes asked for and modules opened

ASSUME AccountsAssumption ==
    /\ "none" \notin Password    \* it says that there is no password
    /\ MaxSubmits \in Nat /\ MaxFills \in Nat

Modules == {"pwd-login", "code-login", "register", "reset-pwd"}

(* Field values the rules tell apart: left empty, blanks, of a wrong form. *)
FieldText == {"", "blank", "bad", "ok"}
Empty == [name |-> "", password |-> "", confirm |-> "", phone |-> "", code |-> ""]

VARIABLES
    at,        \* the module of the login page that is shown, or "home", or "other" pages
    form,      \* its fields
    submits,   \* registrations under way
    submitted, \* number of registrations asked for
    captcha,   \* useCaptcha of the code form: a code is on its way, or is counted down
    accounts,     \* server: the rows of the users table
    tags,      \* server: names with a private tag
    told,      \* history: the password with which a name was told to be registered
    fills

serverAccounts == <<accounts, tags>>
accountVars == <<at, form, submits, submitted, captcha, serverAccounts, told, fills>>

NoRow == [password |-> "none", tag |-> FALSE]

(* The rules: required, then the pattern.                                  *)
Accepts(field, f) ==
    CASE field = "name" -> f.name \in Name
      [] field = "password" -> f.password \in Password
      [] field \in {"phone", "code"} -> f[field] = "ok"
      [] field = "confirm" -> f.confirm # "" /\ (f.confirm = "blank" \/ f.confirm = f.password)

(* A module and its model.  code-login and reset-pwd submit nothing: they  *)
(* show a message once the rules pass.                                     *)
PwdLogin == {"name", "password"}
CodeLogin == {"phone", "code"}
Register == {"name", "password", "confirm"}
ResetPwd == {"phone", "password", "confirm"}

Rules ==
    [m \in Modules |->
        CASE m = "pwd-login" -> PwdLogin
          [] m = "code-login" -> CodeLogin
          [] m = "register" -> Register
          [] m = "reset-pwd" -> ResetPwd]

Validate == \A field \in Rules[at] : Accepts(field, form)

(* A module is mounted with empty fields and no code asked for.            *)
Mount(m) == at' = m /\ form' = Empty /\ captcha' = "none"

Fill(field, v) ==
    /\ fills < MaxFills /\ fills' = fills + 1
    /\ at \in Modules /\ field \in DOMAIN form
    /\ form' = [form EXCEPT ![field] = v]
    /\ UNCHANGED <<at, submits, submitted, captcha, serverAccounts, told>>

(* The buttons of the modules; the code and reset modules by their path.   *)
ToggleLoginModule(m) ==
    /\ fills < MaxFills /\ fills' = fills + 1
    /\ at \in Modules /\ m # at
    /\ Mount(m)
    /\ UNCHANGED <<submits, submitted, serverAccounts, told>>

(* handleSubmit of the register module up to its await.  The button loads, *)
(* but Enter submits again.                                                *)
SubmitRegister ==
    /\ at = "register" /\ Validate /\ submitted < MaxSubmits
    /\ submitted' = submitted + 1
    /\ submits' = submits \cup {[id |-> submitted', name |-> form.name, password |-> form.password,
                                 step |-> "find"]}
    /\ UNCHANGED <<at, form, captcha, serverAccounts, told, fills>>

(* The password login: the session begins on the home page.                *)
LogIn ==
    /\ at = "pwd-login" /\ Validate /\ accounts[form.name].password = form.password
    /\ at' \in {"home", "other"}
    /\ form' = Empty
    /\ UNCHANGED <<submits, submitted, captcha, serverAccounts, told, fills>>

(* getCaptcha: no request is made, a timer answers.                        *)
GetCaptcha ==
    /\ fills < MaxFills /\ fills' = fills + 1
    /\ at = "code-login" /\ captcha = "none" /\ Accepts("phone", form)
    /\ captcha' = "sent"
    /\ UNCHANGED <<at, form, submits, submitted, serverAccounts, told>>

CaptchaTimer ==
    /\ captcha # "none"
    /\ captcha' = IF captcha = "sent" THEN "counting" ELSE "none"
    /\ UNCHANGED <<at, form, submits, submitted, serverAccounts, told, fills>>

-----------------------------------------------------------------------------
(* Register on the server, a statement at a time; any of them may fail.    *)
To(r, step) == submits' = (submits \ {r}) \cup {[r EXCEPT !.step = step]}

Serving(r, step) ==
    /\ r.step = step
    /\ UNCHANGED <<at, form, submitted, captcha, told, fills>>

FindUser(r) ==
    /\ Serving(r, "find")
    /\ To(r, IF accounts[r.name] = NoRow THEN "create" ELSE "error")
    /\ UNCHANGED serverAccounts

CreateUser(r) ==
    /\ Serving(r, "create")
    /\ IF accounts[r.name] = NoRow
       THEN accounts' = [accounts EXCEPT ![r.name].password = r.password] /\ To(r, "tag")
       ELSE To(r, "error") /\ UNCHANGED accounts
    /\ UNCHANGED tags

CreateTag(r) ==
    /\ Serving(r, "tag")
    /\ tags' = tags \cup {r.name}
    /\ To(r, "assign")
    /\ UNCHANGED accounts

AssignAnyway(r) ==    \* mutant: the assignment that fails is logged, and answered as done
    /\ Serving(r, "assign")
    /\ \/ accounts' = [accounts EXCEPT ![r.name] = [password |-> r.password, tag |-> TRUE]]
       \/ UNCHANGED accounts
    /\ To(r, "ok")
    /\ UNCHANGED tags

AssignTag(r) ==
    /\ Serving(r, "assign")
    /\ accounts' = [accounts EXCEPT ![r.name] = [password |-> r.password, tag |-> TRUE]]
    /\ To(r, "ok")
    /\ UNCHANGED tags

StatementFails(r) ==
    /\ r.step \in {"find", "create", "tag", "assign"}
    /\ Serving(r, r.step)
    /\ To(r, "error")
    /\ UNCHANGED serverAccounts

(* The rest of handleSubmit.  The login module is asked for wherever the   *)
(* user is; who is logged in is sent home instead.                         *)
RegisterReply(r) ==
    /\ r.step \in {"ok", "error"}
    /\ submits' = submits \ {r}
    /\ IF r.step = "ok"
       THEN /\ told' = [told EXCEPT ![r.name] = r.password]
            /\ IF at \in Modules \ {"pwd-login"} THEN Mount("pwd-login")
               ELSE /\ at' = IF at = "other" THEN "home" ELSE at
                    /\ UNCHANGED <<form, captcha>>
       ELSE UNCHANGED <<told, at, form, captcha>>
    /\ UNCHANGED <<submitted, serverAccounts, fills>>

AccountInit ==
    /\ at = "pwd-login" /\ form = Empty /\ submits = {} /\ submitted = 0
    /\ captcha = "none"
    /\ accounts = [n \in Name |-> NoRow] /\ tags = {}
    /\ told = [n \in Name |-> "none"] /\ fills = 0

AccountNext ==
    \/ \E n \in Name \cup FieldText : Fill("name", n)
    \/ \E p \in Password \cup FieldText : Fill("password", p) \/ Fill("confirm", p)
    \/ \E t \in FieldText : Fill("phone", t) \/ Fill("code", t)
    \/ \E m \in Modules : ToggleLoginModule(m)
    \/ SubmitRegister \/ LogIn \/ GetCaptcha \/ CaptchaTimer
    \/ \E r \in submits :
          \/ FindUser(r) \/ CreateUser(r) \/ CreateTag(r) \/ AssignTag(r)
          \/ StatementFails(r) \/ RegisterReply(r)

AccountSpec == AccountInit /\ [][AccountNext]_accountVars
-----------------------------------------------------------------------------
AccountTypeOK ==
    /\ at \in Modules \cup {"home", "other"}
    /\ captcha \in {"none", "sent", "counting"}
    /\ tags \subseteq Name /\ fills \in 0 .. MaxFills
    /\ Cardinality(submits) <= submitted

(* user_service.go: the user, the private tag and its assignment are       *)
(* written one by one, register.vue may have sent the form twice, and      *)
(* another answer may have been an error: a name that was said to be       *)
(* registered has its row, with the password said, and its private tag.    *)
RegistrationComplete ==
    \A n \in Name : told[n] # "none" =>
        n \in tags /\ accounts[n] = [password |-> told[n], tag |-> TRUE]
=============================================================================
