------------------------------- MODULE Bootstrap -------------------------------
(***************************************************************************)
(* ensure_bootstrapped, which every process runs when it starts and again  *)
(* at every login and look at the settings (bootstrap.py), and what rests  *)
(* on it: encrypted credentials, accounts imported once from config.json,  *)
(* settings migrated once, administrators' sessions that end with their    *)
(* token, and the throttle of logins (auth.py).                            *)
(*                                                                         *)
(* Every step is a transaction of its own, and a process may die between   *)
(* two of them.  As README.md asks, an upgrade and an import are done by   *)
(* a single process; later ones start together.  All processes of a        *)
(* deployment have the same token.  Logins come from one source.           *)
(***************************************************************************)
EXTENDS Naturals, Sequences, FiniteSets

CONSTANTS
    Proc,           \* worker processes
    Account,        \* OpenCode and Ollama accounts
    Listed,         \* those in config.json, in its order
    Token, NoToken, \* administrator's tokens
    Session,        \* sessions that may be open at once
    Ttl, Window,    \* SESSION_TTL, LOGIN_WINDOW
    MaxFailures,    \* LOGIN_MAX_FAILURES
    MaxTime         \* bound on the clock

Time == 1..MaxTime

ASSUME BootstrapAssumption ==
    /\ Listed \in Seq(Account) /\ Len(Listed) > 0
    /\ \A i, j \in 1..Len(Listed) : Listed[i] = Listed[j] => i = j
    /\ NoToken \notin Token
    /\ Ttl \in Nat \ {0} /\ Window \in Nat \ {0} /\ MaxFailures \in Nat \ {0}
    /\ MaxTime \in Nat \ {0}

VARIABLES
    now, token, \* the clock; the token in the environment
    file,       \* config.json is mounted
    rows,       \* of each account: its row and how its credential is kept
    residue,    \* old pages of the database still hold credentials in plain text
    flag,       \* the file .imported
    settings,   \* service_settings: none, as migrated, or as saved since
    known,      \* the token whose fingerprint is in security_state
    sess,       \* admin_sessions
    fails,      \* admin_login_attempts: rowid and failed_at of each row
    pc, why,    \* where each process is, and what it does after the bootstrap
    item,       \* the next account that it imports
    adopted,    \* history: a process has served since the upgrade or the mount
    halted,     \* history: a process died between migration and rewrite
    imported,   \* history: accounts that were imported
    torn,       \* history: a process died while it was importing
    tried       \* history: the rows let in since the last success

environment == <<now, token, file>>
accounts == <<rows, residue, flag>>
access == <<known, sess, fails>>
procs == <<pc, why, item>>
history == <<adopted, halted, imported, torn, tried>>
vars == <<environment, accounts, settings, access, procs, history>>

Closed == [by |-> NoToken, until |-> 0]
Steps == {"migrate", "rewrite", "compare", "revoke", "purge", "settings", "save",
          "check", "import"}
Serving(p) == pc[p] \in {"serving", "attempt", "session"}
Within(t) == t + Window > now

StateOK ==
    /\ now \in Time /\ token \in Token /\ file \in BOOLEAN
    /\ rows \in [Account -> {"none", "plain", "cipher"}]
    /\ residue \in BOOLEAN /\ flag \in BOOLEAN
    /\ settings \in {"none", "migrated", "saved"} /\ known \in Token \cup {NoToken}
    /\ sess \in [Session -> [by : Token \cup {NoToken}, until : 0..(MaxTime + Ttl)]]
    /\ pc \in [Proc -> Steps \cup {"down", "serving", "attempt", "session"}]
    /\ why \in [Proc -> {"serve", "login"}]
    /\ item \in [Proc -> 1..(Len(Listed) + 1)]
    /\ adopted \in BOOLEAN /\ halted \in BOOLEAN /\ torn \in BOOLEAN
    /\ imported \subseteq Account

FailuresOK ==
    /\ fails \subseteq Nat \X Time /\ tried \subseteq Nat \X Time
    /\ Cardinality(fails) <= MaxFailures

TypeOK == StateOK /\ FailuresOK

(* A new database, or one of an earlier release.                           *)
Init ==
    /\ now = 1 /\ token \in Token /\ file \in BOOLEAN
    /\ rows \in [Account -> {"none", "plain"}]
    /\ residue = (\E a \in Account : rows[a] = "plain") /\ flag = FALSE
    /\ settings = "none" /\ known = NoToken
    /\ sess = [s \in Session |-> Closed] /\ fails = {}
    /\ pc = [p \in Proc |-> "down"] /\ why = [p \in Proc |-> "serve"]
    /\ item = [p \in Proc |-> 1]
    /\ adopted = FALSE /\ halted = FALSE /\ imported = {} /\ torn = FALSE /\ tried = {}

-------------------------------------------------------------------------------
(* The deployment.                                                         *)

AllDown == \A p \in Proc : pc[p] = "down"

Tick ==
    /\ now < MaxTime /\ now' = now + 1
    /\ UNCHANGED <<token, file, accounts, settings, access, procs, history>>

(* The token is replaced, or config.json is mounted or taken away, while   *)
(* all processes are stopped.                                              *)
Redeploy ==
    /\ AllDown
    /\ token' \in Token /\ file' \in BOOLEAN
    /\ adopted' = (adopted /\ (file' => file))
    /\ UNCHANGED <<now, accounts, settings, access, procs, halted, imported, torn, tried>>

Goto(p, label) == pc' = [pc EXCEPT ![p] = label]

Bootstraps(p, reason) ==
    /\ Goto(p, "migrate")
    /\ why' = [why EXCEPT ![p] = reason] /\ item' = [item EXCEPT ![p] = 1]
    /\ UNCHANGED <<environment, accounts, settings, access, history>>

Start(p) ==
    /\ pc[p] = "down" /\ (adopted \/ AllDown)
    /\ Bootstraps(p, "serve")

(* A process ends: it dies or is stopped, or a step of its bootstrap fails.*)
Crash(p) ==
    /\ pc[p] # "down"
    /\ Goto(p, "down")
    /\ halted' = (halted \/ pc[p] = "rewrite")
    /\ torn' = (torn \/ pc[p] = "import")
    /\ UNCHANGED <<environment, accounts, settings, access, why, item, adopted,
                   imported, tried>>

-------------------------------------------------------------------------------
(* ensure_bootstrapped                                                     *)

Legacy == {a \in Account : rows[a] = "plain"}

(* Mutation: the file is rewritten only where no credential was migrated.  *)
MigrateInverted(p) ==
    /\ pc[p] = "migrate"
    /\ rows' = [a \in Account |-> IF a \in Legacy THEN "cipher" ELSE rows[a]]
    /\ Goto(p, IF Legacy = {} THEN "rewrite" ELSE "compare")
    /\ UNCHANGED <<environment, residue, flag, settings, access, why, item, history>>

(* migrate_account_secrets: every credential in one transaction, and if    *)
(* there was any the database file is rewritten after it.                  *)
Migrate(p) ==
    /\ pc[p] = "migrate"
    /\ rows' = [a \in Account |-> IF a \in Legacy THEN "cipher" ELSE rows[a]]
    /\ Goto(p, IF Legacy = {} THEN "compare" ELSE "rewrite")
    /\ UNCHANGED <<environment, residue, flag, settings, access, why, item, history>>

(* _compact_database_after_secret_migration                                *)
Rewrite(p) ==
    /\ pc[p] = "rewrite"
    /\ residue' = FALSE
    /\ Goto(p, "compare")
    /\ UNCHANGED <<environment, rows, flag, settings, access, why, item, history>>

(* Mutation: a fingerprint that is there is never replaced.                *)
CompareFirst(p) ==
    /\ pc[p] = "compare"
    /\ Goto(p, IF known # NoToken THEN "purge" ELSE "revoke")
    /\ UNCHANGED <<environment, accounts, settings, access, why, item, history>>

(* sync_admin_token_fingerprint: the fingerprint is read before the        *)
(* transaction that revokes the sessions.                                  *)
Compare(p) ==
    /\ pc[p] = "compare"
    /\ Goto(p, IF known = token THEN "purge" ELSE "revoke")
    /\ UNCHANGED <<environment, accounts, settings, access, why, item, history>>

(* Mutation: the sessions are revoked and the fingerprint is not stored.   *)
RevokeUnstored(p) ==
    /\ pc[p] = "revoke"
    /\ sess' = [s \in Session |-> Closed] /\ UNCHANGED known
    /\ Goto(p, "purge")
    /\ UNCHANGED <<environment, accounts, settings, fails, why, item, history>>

Revoke(p) ==
    /\ pc[p] = "revoke"
    /\ known' = token /\ sess' = [s \in Session |-> Closed]
    /\ Goto(p, "purge")
    /\ UNCHANGED <<environment, accounts, settings, fails, why, item, history>>

Expired(s) == sess[s].until <= now

(* purge_expired_admin_sessions                                            *)
Purge(p) ==
    /\ pc[p] = "purge"
    /\ sess' = [s \in Session |-> IF Expired(s) THEN Closed ELSE sess[s]]
    /\ Goto(p, "settings")
    /\ UNCHANGED <<environment, accounts, settings, known, fails, why, item, history>>

(* ensure_settings_migrated                                                *)
MigrateSettings(p) ==
    /\ \/ /\ pc[p] = "settings"
          /\ Goto(p, IF settings = "none" THEN "save" ELSE "check")
          /\ UNCHANGED settings
       \/ /\ pc[p] = "save" /\ Goto(p, "check")
          /\ settings' = "migrated"
    /\ UNCHANGED <<environment, accounts, access, why, item, history>>

(* The bootstrap is done: the process serves, or goes on with the login.   *)
Ready(p) ==
    /\ Goto(p, IF why[p] = "login" THEN "attempt" ELSE "serving")
    /\ adopted' = TRUE

(* Mutation: the accounts are imported while there is no flag.             *)
CheckFlag(p) ==
    /\ pc[p] = "check"
    /\ \/ ~flag /\ file /\ Goto(p, "import") /\ UNCHANGED adopted
       \/ (flag \/ ~file) /\ Ready(p)
    /\ UNCHANGED <<environment, accounts, settings, access, why, item,
                   halted, imported, torn, tried>>

(* ensure_accounts_imported: a database that has accounts is left alone.   *)
CheckImport(p) ==
    LET some == \E a \in Account : rows[a] # "none"
    IN  /\ pc[p] = "check"
        /\ \/ ~flag /\ ~some /\ file /\ Goto(p, "import") /\ UNCHANGED <<flag, adopted>>
           \/ (flag \/ some \/ ~file) /\ Ready(p) /\ flag' = (flag \/ some)
        /\ UNCHANGED <<environment, rows, residue, settings, access, why, item,
                       halted, imported, torn, tried>>

ImportNext(p) ==
    /\ pc[p] = "import" /\ item[p] <= Len(Listed)
    /\ rows' = [rows EXCEPT ![Listed[item[p]]] = "cipher"]
    /\ imported' = imported \cup {Listed[item[p]]}
    /\ item' = [item EXCEPT ![p] = @ + 1]
    /\ UNCHANGED <<environment, residue, flag, settings, access, pc, why,
                   adopted, halted, torn, tried>>

(* Mutation: one account of the list is enough.                            *)
ImportDoneEarly(p) ==
    /\ pc[p] = "import" /\ item[p] > 1
    /\ flag' = TRUE /\ Ready(p)
    /\ UNCHANGED <<environment, rows, residue, settings, access, why, item,
                   halted, imported, torn, tried>>

(* The accounts in transactions of their own, and at the end the flag.     *)
ImportDone(p) ==
    /\ pc[p] = "import" /\ item[p] > Len(Listed)
    /\ flag' = TRUE /\ Ready(p)
    /\ UNCHANGED <<environment, rows, residue, settings, access, why, item,
                   halted, imported, torn, tried>>

Boot(p) ==
    \/ Migrate(p) \/ Rewrite(p) \/ Compare(p) \/ Revoke(p) \/ Purge(p)
    \/ MigrateSettings(p) \/ CheckImport(p) \/ ImportNext(p) \/ ImportDone(p)

-------------------------------------------------------------------------------
(* Requests.                                                               *)

Valid(s) == sess[s].by # NoToken /\ ~Expired(s)

(* admin_login begins with the bootstrap, and so do the handlers of the    *)
(* settings.                                                               *)
Login(p) == pc[p] = "serving" /\ Bootstraps(p, "login")

Look(p) ==
    /\ pc[p] = "serving" /\ \E s \in Session : Valid(s)
    /\ Bootstraps(p, "serve")

(* Mutation: a failure is forgotten one moment early.                      *)
RecentStrictly(t) == t + Window > now + 1

Recent(t) == Within(t)

(* Mutation: one failure more.                                             *)
ThrottledLate(n) == n > MaxFailures

Throttled(n) == n >= MaxFailures

(* The rowids, as many as may be asked for, that no row has.               *)
Unused(table) == (1..(Cardinality(table) + 1)) \ {r[1] : r \in table}

InWindow(table) == {r \in table : Within(r[2])}

(* apply_admin_login_attempt, in one transaction: old failures go, then    *)
(* the attempt is refused, or it clears the failures, or it is one.        *)
Attempt(p) ==
    LET kept == {r \in fails : Recent(r[2])}
    IN  /\ pc[p] = "attempt"
        /\ \/ /\ Throttled(Cardinality(kept))
              /\ fails' = kept /\ UNCHANGED tried
              /\ Goto(p, "serving")
           \/ /\ ~Throttled(Cardinality(kept))
              /\ fails' = {} /\ tried' = {}
              /\ Goto(p, "session")
           \/ /\ ~Throttled(Cardinality(kept))
              /\ \E id \in Unused(kept) :
                    /\ fails' = kept \cup {<<id, now>>}
                    /\ tried' = InWindow(tried) \cup {<<id, now>>}
              /\ Goto(p, "serving")
        /\ UNCHANGED <<environment, accounts, settings, known, sess, why, item,
                       adopted, halted, imported, torn>>

CreateSession(p) ==
    /\ pc[p] = "session"
    /\ \E s \in Session :
        /\ sess[s] = Closed
        /\ sess' = [sess EXCEPT ![s] = [by |-> token, until |-> now + Ttl]]
    /\ Goto(p, "serving")
    /\ UNCHANGED <<environment, accounts, settings, known, fails, why, item, history>>

(* delete_admin_session: a logout, or the use of a session that expired.   *)
EndSession(p) ==
    /\ pc[p] = "serving"
    /\ \E s \in Session :
        /\ sess[s].by # NoToken
        /\ sess' = [sess EXCEPT ![s] = Closed]
    /\ UNCHANGED <<environment, accounts, settings, known, fails, procs, history>>

(* What an administrator does with the settings and with accounts.         *)
SaveSettings(p) ==
    /\ pc[p] = "serving" /\ \E s \in Session : Valid(s)
    /\ settings' = "saved"
    /\ UNCHANGED <<environment, accounts, access, procs, history>>

ChangeAccounts(p) ==
    /\ pc[p] = "serving" /\ \E s \in Session : Valid(s)
    /\ \E a \in Account :
        rows' = [rows EXCEPT ![a] = IF @ = "none" THEN "cipher" ELSE "none"]
    /\ UNCHANGED <<environment, residue, flag, settings, access, procs, history>>

Serve(p) ==
    \/ Login(p) \/ Look(p) \/ Attempt(p) \/ CreateSession(p) \/ EndSession(p)
    \/ SaveSettings(p) \/ ChangeAccounts(p)

Next ==
    \/ Tick \/ Redeploy
    \/ \E p \in Proc : Start(p) \/ Crash(p) \/ Boot(p) \/ Serve(p)

Spec == Init /\ [][Next]_vars

-------------------------------------------------------------------------------
(* While a process serves, no row keeps a credential in plain text, and    *)
(* neither does an old page of the file, unless a process died or failed   *)
(* between the migration and the rewrite, which nothing repeats.           *)
ServesRewritten ==
    (\E p \in Proc : Serving(p)) => Legacy = {} /\ (residue => halted)

(* No session that an earlier token has opened is left while a process     *)
(* serves, in whatever order processes have started and died since.        *)
ServesAfterRotation ==
    (\E p \in Proc : Serving(p)) =>
        \A s \in Session : sess[s].by \in {token, NoToken}

(* A valid session of the present token ends in no other way than by a     *)
(* logout, whatever process starts meanwhile, unless one that had compared *)
(* fingerprints before the new one was stored revokes the sessions again.  *)
SessionsLast ==
    [][\A s \in Session :
        Valid(s) /\ sess[s].by = token /\ sess'[s] # sess[s]
            => pc' = pc \/ (known = token /\ \E p \in Proc : pc[p] = "revoke")]_vars

(* No account of config.json is imported twice, over crashes, deletions    *)
(* and mounts of the file.                                                 *)
ImportedOnce ==
    [][\A p \in Proc :
        pc[p] = "import" /\ item'[p] = item[p] + 1 => Listed[item[p]] \notin imported]_vars

(* An import that has begun ends with all accounts of config.json, unless  *)
(* a process died in it: the accounts that are there then stop the import. *)
ImportedWhole ==
    imported # {} /\ ~torn /\ (\A p \in Proc : pc[p] # "import")
        => imported = {Listed[i] : i \in 1..Len(Listed)}

(* In every window at most MaxFailures failures are let in, and an attempt *)
(* is refused only when there were as many.                                *)
WindowCounted ==
    /\ InWindow(fails) = InWindow(tried)
    /\ Cardinality(InWindow(tried)) <= MaxFailures
===============================================================================
